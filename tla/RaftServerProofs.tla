--------------------------- MODULE RaftServerProofs ---------------------------
(***************************************************************************)
(* Raft's safety, for every number of servers, terms, entries and requests *)
(* and every set of commands:                                              *)
(*   OneWinner    a term is won by one candidate, though vote_for_ is      *)
(*                never consulted;                                         *)
(*   TypeCorrect  terms, indices and counters stay in range;               *)
(*   OneOrder     servers apply the same entries in the same order,        *)
(*   MatchHolds   match_index_ counts only entries the follower has, and   *)
(*   Implements   RaftServer implements ReplicatedLog, all three as long   *)
(*                as leaders were elected.                                 *)
(***************************************************************************)
EXTENDS RaftLog, LeastNumber, FiniteSetTheorems, SequenceTheorems, TLAPS

(* RequestVote's locals and the replies it has.                             *)
Candidacy == [term: Nat, after: BOOLEAN, yes: SUBSET Server,
              no: SUBSET [from: Server, term: Nat]]

(* A connection's requests: each has a term, and a vote is never asked for  *)
(* in term 0, where a reply would meet an idle candidate.                   *)
Requests(q) ==
  /\ q \in Seq({q[i] : i \in DOMAIN q})
  /\ \A i \in DOMAIN q : /\ {"type", "term"} \subseteq DOMAIN q[i]
                         /\ q[i].term \in Nat
                         /\ q[i].type = "Vote" => q[i].term > 0

(* All connections hold such requests.                                      *)
ChanOK(ch) ==
  /\ DOMAIN ch = Server
  /\ \A s \in Server : DOMAIN ch[s] = Server
  /\ \A s, d \in Server : Requests(ch[s][d])

(* Replies go to servers and carry terms.                                   *)
AcksOK(A) ==
  \A a \in DOMAIN A : a.to \in Server /\ a.term \in Nat /\ a.sterm \in Nat

(* The types elections need.                                                *)
ElectionType ==
  /\ currentTerm \in [Server -> Nat]
  /\ cand \in [Server -> Candidacy]
  /\ led \subseteq [term: Nat, by: Server, votes: SUBSET Server]
  /\ ChanOK(chan)
  /\ AcksOK(acks)

(* RequestVote of s is at its Wait.                                         *)
Running(s) == cand[s] # NoCand

(* Who voted for s, itself included.                                        *)
Votes(s) == cand[s].yes \cup {s}

(* Who has voted in a term, the candidate included, is in that term or a    *)
(* later one, so it will not vote in that term again.                       *)
VotersMovedOn ==
  \A s \in Server : Running(s) =>
    /\ cand[s].term > 0
    /\ s \notin cand[s].yes
    /\ \A d \in Votes(s) : currentTerm[d] >= cand[s].term

(* Nobody votes for two candidates of a term.                               *)
RivalsShareNoVote ==
  \A s, q \in Server :
    s # q /\ Running(s) /\ Running(q) /\ cand[s].term = cand[q].term =>
      Votes(s) \cap Votes(q) = {}

(* A winner had more than half of the votes.                                *)
WinnersHaveMajority ==
  \A x \in led : Won(x) =>
    /\ Cardinality(x.votes) > N \div 2
    /\ \A d \in x.votes : currentTerm[d] >= x.term

(* Nobody who voted for the winner votes for another.                       *)
WinnersShareNoVote ==
  \A x \in led, s \in Server :
    Won(x) /\ s # x.by /\ Running(s) /\ cand[s].term = x.term =>
      x.votes \cap Votes(s) = {}

(* What elections keep.                                                     *)
VoteInv ==
  /\ VotersMovedOn
  /\ RivalsShareNoVote
  /\ WinnersHaveMajority
  /\ WinnersShareNoVote
  /\ OneWinnerPerTerm

(* The inductive invariant of elections.                                    *)
IInv == ElectionType /\ VoteInv

--------------------------------------------------------------------------------
(* A sequence is a sequence of its own values.                              *)
LEMMA OwnValues ==
  ASSUME NEW M, NEW z \in Seq(M)
  PROVE  z \in Seq({z[i] : i \in DOMAIN z})
<1>1. z \in [1 .. Len(z) -> M] /\ Len(z) \in Nat /\ DOMAIN z = 1 .. Len(z)
  OBVIOUS
<1>2. z \in [1 .. Len(z) -> {z[i] : i \in DOMAIN z}]
  BY <1>1
<1> QED
  BY <1>1, <1>2, SeqDef

(* A request with a term put at the end of a connection.                    *)
LEMMA RequestsAppend ==
  ASSUME NEW q, Requests(q), NEW m, {"type", "term"} \subseteq DOMAIN m,
         m.term \in Nat, m.type = "Vote" => m.term > 0
  PROVE  Requests(Append(q, m))
<1> DEFINE M == {q[i] : i \in DOMAIN q} \cup {m}
           z == Append(q, m)
<1>1. q \in Seq(M)
  BY DEF Requests
<1>2. /\ z \in Seq(M) /\ DOMAIN z = 1 .. Len(q) + 1 /\ Len(q) \in Nat
      /\ DOMAIN q = 1 .. Len(q)
      /\ \A i \in 1 .. Len(q) : z[i] = q[i]
      /\ z[Len(q) + 1] = m
  BY <1>1
<1>3. \A i \in DOMAIN z : z[i] = m \/ \E j \in DOMAIN q : z[i] = q[j]
  BY <1>2
<1>4. z \in Seq({z[i] : i \in DOMAIN z})
  BY <1>2
<1>5. Requests(z)
  <2> HIDE DEF z
  <2> QED
    BY <1>3, <1>4 DEF Requests
<1> QED
  BY <1>5

(* A request taken from the head of a connection.                           *)
LEMMA RequestsTail ==
  ASSUME NEW q, Requests(q), q # << >>
  PROVE  /\ Requests(Tail(q))
         /\ Head(q).term \in Nat
         /\ Head(q).type = "Vote" => Head(q).term > 0
<1> DEFINE M == {q[i] : i \in DOMAIN q}
           z == Tail(q)
<1>1. q \in Seq(M)
  BY DEF Requests
<1>2. /\ z \in Seq(M) /\ Len(q) \in Nat /\ Len(q) > 0
      /\ DOMAIN q = 1 .. Len(q) /\ DOMAIN z = 1 .. Len(q) - 1
      /\ \A i \in DOMAIN z : z[i] = q[i + 1] /\ i + 1 \in DOMAIN q
      /\ Head(q) = q[1] /\ 1 \in DOMAIN q
  BY <1>1
<1>3. \A i \in DOMAIN z : \E j \in DOMAIN q : z[i] = q[j]
  BY <1>2
<1>4. z \in Seq({z[i] : i \in DOMAIN z})
  <2> HIDE DEF z, M
  <2> QED
    BY <1>2, OwnValues
<1>5. Head(q).term \in Nat /\ (Head(q).type = "Vote" => Head(q).term > 0)
  BY <1>2 DEF Requests
<1>6. Requests(z)
  <2> HIDE DEF z
  <2> QED
    BY <1>3, <1>4 DEF Requests
<1> QED
  BY <1>5, <1>6

(* A request whose coroutine has given up keeps its type and term.          *)
LEMMA RequestsLate ==
  ASSUME NEW q, Requests(q), NEW k \in DOMAIN q
  PROVE  Requests([q EXCEPT ![k].late = TRUE])
<1> DEFINE M == {q[i] : i \in DOMAIN q}
           m == [q[k] EXCEPT !.late = TRUE]
           z == [q EXCEPT ![k].late = TRUE]
<1>1. q \in Seq(M) /\ Len(q) \in Nat /\ DOMAIN q = 1 .. Len(q)
  BY DEF Requests
<1>2. DOMAIN z = DOMAIN q /\ \A i \in DOMAIN q : z[i] = IF i = k THEN m ELSE q[i]
  BY <1>1
<1>3. DOMAIN m = DOMAIN q[k] /\ m.term = q[k].term /\ m.type = q[k].type
  BY DEF Requests
<1>4. z \in Seq(M \cup {m})
  BY <1>1
<1>5. z \in Seq({z[i] : i \in DOMAIN z})
  <2> HIDE DEF z, M, m
  <2> QED
    BY <1>4, OwnValues
<1>6. Requests(z)
  <2> HIDE DEF z, m
  <2> QED
    BY <1>2, <1>3, <1>5 DEF Requests
<1> QED
  BY <1>6

(* Connections, one of them changed.                                        *)
LEMMA ChanUpdate ==
  ASSUME ChanOK(chan), NEW s \in Server, NEW d \in Server, NEW q, Requests(q)
  PROVE  ChanOK([chan EXCEPT ![s][d] = q])
<1> DEFINE ch == [chan EXCEPT ![s][d] = q]
<1>1. DOMAIN ch = Server /\ \A x \in Server : DOMAIN ch[x] = Server
  BY DEF ChanOK
<1>2. \A x, y \in Server : ch[x][y] = IF x = s /\ y = d THEN q ELSE chan[x][y]
  BY DEF ChanOK
<1> HIDE DEF ch
<1>3. ChanOK(ch)
  BY <1>1, <1>2 DEF ChanOK
<1> QED
  BY <1>3 DEF ch

(* The replies in flight, one of them gone or one more.                     *)
LEMMA AcksRemove ==
  ASSUME AcksOK(acks), NEW a
  PROVE  AcksOK(BagRemove(acks, a))
BY DEF AcksOK, BagRemove

(* AcksOK does not count copies.                                            *)
LEMMA AcksAdd ==
  ASSUME AcksOK(acks), NEW a, a.to \in Server, a.term \in Nat, a.sterm \in Nat
  PROVE  AcksOK(BagAdd(acks, a))
BY DEF AcksOK, BagAdd

--------------------------------------------------------------------------------
(* A step that starts, wins and votes nothing keeps the votes apart, as     *)
(* terms only grow.                                                         *)
LEMMA QuietStep ==
  ASSUME IInv, currentTerm' \in [Server -> Nat],
         \A r \in Server : currentTerm'[r] >= currentTerm[r],
         UNCHANGED <<cand, led>>
  PROVE  VoteInv'
<1> USE DEF IInv, ElectionType, VoteInv, Running, Votes
<1>1. VotersMovedOn'
  BY DEF VotersMovedOn, Candidacy
<1>2. RivalsShareNoVote'
  BY DEF RivalsShareNoVote
<1>3. WinnersHaveMajority'
  BY DEF WinnersHaveMajority
<1>4. WinnersShareNoVote'
  BY DEF WinnersShareNoVote
<1>5. OneWinnerPerTerm'
  BY DEF OneWinnerPerTerm
<1> QED
  BY <1>1, <1>2, <1>3, <1>4, <1>5

(* A new candidate was not in its term before, so nobody counted its vote.  *)
LEMMA RequestVoteStep ==
  ASSUME IInv, NEW r \in Server, RequestVote(r)
  PROVE  IInv'
<1> USE DEF IInv
<1> DEFINE t == currentTerm[r] + 1
<1>1. /\ currentTerm' = [currentTerm EXCEPT ![r] = t]
      /\ t \in Nat /\ t > currentTerm[r] /\ t > 0
      /\ currentTerm' \in [Server -> Nat]
      /\ \A x \in Server : currentTerm'[x] >= currentTerm[x]
      /\ UNCHANGED <<led, acks>>
  BY DEF RequestVote, ElectionType
<1>2. /\ cand' \in [Server -> Candidacy]
      /\ cand'[r].term = t /\ cand'[r].yes = {}
      /\ \A x \in Server \ {r} : cand'[x] = cand[x]
  <2> DEFINE after == "failure" \in signals[HostOf[r]]
             new == [term |-> t, yes |-> {}, no |-> {}, after |-> after]
  <2>1. cand' = [cand EXCEPT ![r] = new]
    BY DEF RequestVote
  <2>2. after \in BOOLEAN
    OBVIOUS
  <2> HIDE DEF after
  <2>3. new \in Candidacy
    BY <1>1, <2>2 DEF Candidacy
  <2> QED
    BY <2>1, <2>3 DEF ElectionType
<1> HIDE DEF t
<1>3. ChanOK(chan')
  <2> DEFINE vote == [type |-> "Vote", term |-> currentTerm[r] + 1,
                      last |-> Len(log[r]), lterm |-> LastTerm(log[r])]
  <2>1. /\ DOMAIN vote = {"type", "term", "last", "lterm"}
        /\ vote.term \in Nat /\ vote.term > 0
    BY DEF ElectionType
  <2>2. chan' = [chan EXCEPT ![r] =
                  [d \in Server |-> IF d = r THEN chan[r][d] ELSE Append(chan[r][d], vote)]]
    BY DEF RequestVote
  <2> HIDE DEF vote
  <2>3. \A d \in Server : Requests(Append(chan[r][d], vote))
    BY <2>1, RequestsAppend DEF ElectionType, ChanOK
  <2>4. \A x, y \in Server : chan'[x][y] = chan[x][y] \/
                             (x = r /\ chan'[x][y] = Append(chan[r][y], vote))
    BY <2>2 DEF ElectionType, ChanOK
  <2>5. DOMAIN chan' = Server /\ \A x \in Server : DOMAIN chan'[x] = Server
    BY <2>2 DEF ElectionType, ChanOK
  <2> QED
    BY <2>3, <2>4, <2>5 DEF ElectionType, ChanOK
<1>4. ElectionType'
  BY <1>1, <1>2, <1>3 DEF ElectionType
<1>5. VotersMovedOn'
  BY <1>1, <1>2 DEF ElectionType, Candidacy, VoteInv, VotersMovedOn, Running, Votes
<1>6. \A q \in Server \ {r} : Running(q) /\ cand[q].term = t => r \notin Votes(q)
  BY <1>1, <1>2 DEF ElectionType, Candidacy, VoteInv, VotersMovedOn
<1>7. RivalsShareNoVote'
  BY <1>1, <1>2, <1>6 DEF VoteInv, RivalsShareNoVote, Running, Votes
<1>8. WinnersHaveMajority'
  BY <1>1 DEF ElectionType, VoteInv, WinnersHaveMajority
<1>9. WinnersShareNoVote'
  <2>1. \A x \in led : Won(x) /\ x.term = t => r \notin x.votes
    BY <1>1 DEF ElectionType, VoteInv, WinnersHaveMajority
  <2> QED
    BY <1>1, <1>2, <2>1 DEF VoteInv, WinnersShareNoVote, Running, Votes
<1>10. OneWinnerPerTerm'
  BY <1>1 DEF VoteInv, OneWinnerPerTerm
<1> QED
  BY <1>4, <1>5, <1>7, <1>8, <1>9, <1>10 DEF VoteInv

(* A candidate that stops leaves fewer votes to keep apart.                 *)
LEMMA GiveUpStep ==
  ASSUME IInv, NEW r \in Server, GiveUp(r)
  PROVE  IInv'
<1> USE DEF IInv
<1>1. /\ currentTerm' \in [Server -> Nat]
      /\ \A x \in Server : currentTerm'[x] >= currentTerm[x]
  <2>1. PICK seen \in SUBSET cand[r].no :
          IF No(seen)
          THEN \E t \in {currentTerm[r]} \cup {m.term : m \in seen} :
               /\ t >= currentTerm[r] /\ \A m \in seen : t >= m.term
               /\ currentTerm' = [currentTerm EXCEPT ![r] = t]
          ELSE UNCHANGED currentTerm
    BY DEF GiveUp
  <2>2. \A t \in {currentTerm[r]} \cup {m.term : m \in seen} : t \in Nat
    BY DEF ElectionType, Candidacy
  <2> QED
    BY <2>1, <2>2 DEF ElectionType
<1>2. /\ cand' = [cand EXCEPT ![r] = NoCand]
      /\ UNCHANGED <<led, chan, acks>>
  BY DEF GiveUp, netVars
<1>3. /\ cand' \in [Server -> Candidacy] /\ cand'[r] = NoCand
      /\ \A x \in Server \ {r} : cand'[x] = cand[x]
  BY <1>2 DEF ElectionType, Candidacy, NoCand
<1>4. ElectionType'
  BY <1>1, <1>2, <1>3 DEF ElectionType
<1>5. VotersMovedOn'
  BY <1>1, <1>3 DEF ElectionType, Candidacy, VoteInv, VotersMovedOn, Running, Votes
<1>6. RivalsShareNoVote'
  BY <1>3 DEF VoteInv, RivalsShareNoVote, Running, Votes
<1>7. WinnersHaveMajority'
  BY <1>1, <1>2 DEF ElectionType, VoteInv, WinnersHaveMajority
<1>8. WinnersShareNoVote'
  BY <1>2, <1>3 DEF VoteInv, WinnersShareNoVote, Running, Votes
<1>9. OneWinnerPerTerm'
  BY <1>2 DEF VoteInv, OneWinnerPerTerm
<1> QED
  BY <1>4, <1>5, <1>6, <1>7, <1>8, <1>9 DEF VoteInv

(* A winner has its own vote and those of n/2 others, and a rival that won  *)
(* the term before would have one of them.                                  *)
LEMMA WinStep ==
  ASSUME IInv, NEW r \in Server, Win(r)
  PROVE  IInv'
<1> USE DEF IInv
<1> DEFINE new == [term |-> currentTerm[r], by |-> r, votes |-> Votes(r)]
<1>1. /\ cand' = [cand EXCEPT ![r] = NoCand]
      /\ led' = led \cup {new}
      /\ UNCHANGED <<currentTerm, chan, acks>>
  BY DEF Win, netVars, Votes
<1>2. /\ cand' \in [Server -> Candidacy] /\ cand'[r] = NoCand
      /\ \A x \in Server \ {r} : cand'[x] = cand[x]
  BY <1>1 DEF ElectionType, Candidacy, NoCand
<1>3. Running(r) /\ cand[r].term = currentTerm[r]
  BY DEF Win, Running
<1>4. /\ new \in [term: Nat, by: Server, votes: SUBSET Server]
      /\ new.term = cand[r].term /\ new.by = r /\ new.votes = Votes(r)
  BY <1>3 DEF ElectionType, Candidacy, Votes
<1> HIDE DEF new
<1>5. ElectionType'
  BY <1>1, <1>2, <1>4 DEF ElectionType
<1>6. Cardinality(Votes(r)) > N \div 2 /\ Votes(r) \subseteq Server /\ N \in Nat
  <2>1. cand[r].yes \subseteq Server /\ IsFiniteSet(Server)
    BY RaftAssumption DEF RaftAssumption, ElectionType, Candidacy
  <2>2. IsFiniteSet(cand[r].yes)
    BY <2>1, FS_Subset
  <2>3. Cardinality(Votes(r)) = Cardinality(cand[r].yes) + 1
    BY <1>3, <2>2, FS_AddElement DEF Votes, VoteInv, VotersMovedOn
  <2>4. Cardinality(cand[r].yes) \in Nat /\ N \in Nat
    BY <2>1, <2>2, FS_CardinalityType DEF N
  <2>5. Cardinality(cand[r].yes) >= N \div 2
    BY DEF Win, Yes
  <2> QED
    BY <2>1, <2>3, <2>4, <2>5 DEF Votes
<1>7. \A x \in led : Won(x) /\ x.term = new.term => x.by = r
  <2> SUFFICES ASSUME NEW x \in led, Won(x), x.term = new.term, x.by # r
               PROVE  FALSE
    OBVIOUS
  <2>1. x.votes \cap Votes(r) = {}
    BY <1>3, <1>4 DEF VoteInv, WinnersShareNoVote
  <2>2. x.votes \subseteq Server /\ Cardinality(x.votes) > N \div 2
    BY DEF ElectionType, VoteInv, WinnersHaveMajority
  <2>3. IsFiniteSet(Server)
    BY RaftAssumption DEF RaftAssumption
  <2>4. Cardinality(x.votes) \in Nat /\ Cardinality(Votes(r)) \in Nat
    BY <1>6, <2>2, <2>3, FS_Subset, FS_CardinalityType
  <2>5. Cardinality(x.votes) + Cardinality(Votes(r)) > N
    BY <1>6, <2>2, <2>4
  <2>6. x.votes \cap Votes(r) # {}
    BY <1>6, <2>2, <2>3, <2>5, FS_MajoritiesIntersect DEF N
  <2> QED
    BY <2>1, <2>6
<1>8. VotersMovedOn'
  BY <1>1, <1>2 DEF VoteInv, VotersMovedOn, Running, Votes
<1>9. RivalsShareNoVote'
  BY <1>2 DEF VoteInv, RivalsShareNoVote, Running, Votes
<1>10. WinnersHaveMajority'
  <2>1. \A d \in new.votes : currentTerm[d] >= new.term
    BY <1>3, <1>4 DEF VoteInv, VotersMovedOn
  <2> QED
    BY <1>1, <1>4, <1>6, <2>1 DEF VoteInv, WinnersHaveMajority
<1>11. WinnersShareNoVote'
  <2>1. \A s \in Server \ {r} : Running(s) /\ cand[s].term = new.term =>
          new.votes \cap Votes(s) = {}
    BY <1>3, <1>4 DEF VoteInv, RivalsShareNoVote
  <2> QED
    BY <1>1, <1>2, <1>4, <2>1 DEF VoteInv, WinnersShareNoVote, Running, Votes
<1>12. OneWinnerPerTerm'
  BY <1>1, <1>4, <1>7 DEF VoteInv, OneWinnerPerTerm
<1> QED
  BY <1>5, <1>8, <1>9, <1>10, <1>11, <1>12 DEF VoteInv

(* A vote request: who grants it was in an older term and in nobody's count *)
(* for this one.                                                            *)
LEMMA VoteStep ==
  ASSUME IInv, NEW s \in Server, NEW d \in Server, NEW m, m.term \in Nat, m.term > 0,
         OnRequestVote(s, d, m), ChanOK(chan')
  PROVE  IInv'
<1> USE DEF IInv
<1>1. /\ currentTerm' = [currentTerm EXCEPT ![d] = MaxOf(@, m.term)]
      /\ UNCHANGED acks
  BY DEF OnRequestVote
<1>2. /\ currentTerm' \in [Server -> Nat]
      /\ \A x \in Server : currentTerm'[x] >= currentTerm[x]
      /\ currentTerm'[d] >= m.term
  BY <1>1 DEF MaxOf, ElectionType
<1>3. \/ led' = led
      \/ led' = led \cup {[term |-> m.term, by |-> d, votes |-> {}]}
  BY DEF OnRequestVote
<1>4. /\ led' \subseteq [term: Nat, by: Server, votes: SUBSET Server]
      /\ \A x \in led' : Won(x) => x \in led
  BY <1>3 DEF ElectionType, Won
<1>5. CASE cand[s].term = m.term /\ Grants(d, m)
  <2>1. cand' = [cand EXCEPT ![s].yes = @ \cup {d}]
    BY <1>5 DEF OnRequestVote
  <2>2. /\ cand' \in [Server -> Candidacy]
        /\ cand'[s].term = m.term /\ cand'[s].yes = cand[s].yes \cup {d}
        /\ \A x \in Server \ {s} : cand'[x] = cand[x]
    BY <1>5, <2>1 DEF ElectionType, Candidacy
  <2>3. Running(s)
    BY <1>5 DEF Running, NoCand
  <2>4. currentTerm[d] < m.term
    BY <1>5 DEF Grants, ElectionType
  <2>5. \A q \in Server : Running(q) /\ cand[q].term = m.term => d \notin Votes(q)
    BY <2>4 DEF ElectionType, Candidacy, VoteInv, VotersMovedOn
  <2>6. \A x \in led : Won(x) /\ x.term = m.term => d \notin x.votes
    BY <2>4 DEF ElectionType, VoteInv, WinnersHaveMajority
  <2>7. VotersMovedOn'
    BY <1>2, <1>5, <2>2, <2>3, <2>5
    DEF ElectionType, Candidacy, VoteInv, VotersMovedOn, Running, Votes
  <2>8. RivalsShareNoVote'
    BY <1>5, <2>2, <2>3, <2>5 DEF VoteInv, RivalsShareNoVote, Running, Votes
  <2>9. WinnersHaveMajority'
    BY <1>2, <1>4 DEF ElectionType, VoteInv, WinnersHaveMajority
  <2>10. WinnersShareNoVote'
    BY <1>4, <1>5, <2>2, <2>3, <2>6 DEF VoteInv, WinnersShareNoVote, Running, Votes
  <2>11. OneWinnerPerTerm'
    BY <1>4 DEF VoteInv, OneWinnerPerTerm
  <2> QED
    BY <1>1, <1>2, <1>4, <2>2, <2>7, <2>8, <2>9, <2>10, <2>11
    DEF ElectionType, VoteInv
<1>6. CASE ~(cand[s].term = m.term /\ Grants(d, m))
  <2>1. /\ cand' \in [Server -> Candidacy]
        /\ \A x \in Server : /\ cand'[x].term = cand[x].term
                             /\ cand'[x].yes = cand[x].yes
                             /\ cand'[x] # NoCand => Running(x)
    <3>1. CASE cand[s].term # m.term
      BY <3>1 DEF OnRequestVote, ElectionType, Running
    <3>2. CASE cand[s].term = m.term
      <4>1. cand' = [cand EXCEPT ![s].no =
                       @ \cup {[from |-> d, term |-> currentTerm[d]]}]
        BY <1>6, <3>2 DEF OnRequestVote
      <4>2. Running(s)
        BY <3>2 DEF Running, NoCand
      <4> QED
        BY <4>1, <4>2 DEF ElectionType, Candidacy, Running
    <3> QED
      BY <3>1, <3>2
  <2>2. VotersMovedOn'
    BY <1>2, <2>1 DEF ElectionType, Candidacy, VoteInv, VotersMovedOn, Running, Votes
  <2>3. RivalsShareNoVote'
    BY <2>1 DEF VoteInv, RivalsShareNoVote, Running, Votes
  <2>4. WinnersHaveMajority'
    BY <1>2, <1>4 DEF ElectionType, VoteInv, WinnersHaveMajority
  <2>5. WinnersShareNoVote'
    BY <1>4, <2>1 DEF VoteInv, WinnersShareNoVote, Running, Votes
  <2>6. OneWinnerPerTerm'
    BY <1>4 DEF VoteInv, OneWinnerPerTerm
  <2> QED
    BY <1>1, <1>2, <1>4, <2>1, <2>2, <2>3, <2>4, <2>5, <2>6
    DEF ElectionType, VoteInv
<1> QED
  BY <1>5, <1>6

(* An AppendEntries request: its term is taken over only if it is no older. *)
LEMMA AppendStep ==
  ASSUME IInv, NEW s \in Server, NEW d \in Server, NEW m, m.term \in Nat,
         OnAppendEntries(s, d, m), ChanOK(chan')
  PROVE  IInv'
<1> USE DEF IInv
<1>1. UNCHANGED <<cand, led>>
  BY DEF OnAppendEntries
<1>2. /\ currentTerm' \in [Server -> Nat]
      /\ \A x \in Server : currentTerm'[x] >= currentTerm[x]
  <2>1. CASE Accepts(d, m)
    <3>1. currentTerm' = [currentTerm EXCEPT ![d] = m.term] /\ m.term >= currentTerm[d]
      BY <2>1 DEF OnAppendEntries, Accepts
    <3> QED
      BY <3>1 DEF ElectionType
  <2>2. CASE ~Accepts(d, m)
    BY <2>2 DEF OnAppendEntries, ElectionType
  <2> QED
    BY <2>1, <2>2
<1>3. AcksOK(acks')
  <2> DEFINE a == [to |-> s, from |-> d, sterm |-> m.term, at |-> m.at, hb |-> m.ents = << >>,
                   ok |-> Accepts(d, m), term |-> currentTerm'[d], last |-> Len(log'[d])]
  <2>1. acks' = acks \/ acks' = BagAdd(acks, a)
    BY DEF OnAppendEntries
  <2>2. a.to \in Server /\ a.term \in Nat /\ a.sterm \in Nat
    BY <1>2
  <2> HIDE DEF a
  <2> QED
    BY <2>1, <2>2, AcksAdd DEF ElectionType
<1>4. VoteInv'
  BY <1>1, <1>2, QuietStep
<1> QED
  BY <1>1, <1>2, <1>3, <1>4 DEF ElectionType

(* A leader's request carries its own term.                                 *)
LEMMA SendStep ==
  ASSUME IInv, NEW r \in Server, NEW f \in Server, SendAppend(r, f)
  PROVE  IInv'
<1> USE DEF IInv
<1>1. UNCHANGED <<currentTerm, cand, led, acks>>
  BY DEF SendAppend
<1>2. ChanOK(chan')
  <2>1. PICK m : /\ chan' = [chan EXCEPT ![r][f] = Append(@, m)]
                 /\ {"type", "term"} \subseteq DOMAIN m
                 /\ m.term = currentTerm[r] /\ m.type = "Append"
    <3> DEFINE last == Len(log[r])
               next == MinOf(peer[r][f].next, last + 1)
               sent == MaxOf(peer[r][f].sent, next - 1)
               prev == MinOf(sent, last)
               m == [type |-> "Append", term |-> currentTerm[r], prev |-> prev,
                     pterm |-> LastTerm(SubSeq(log[r], 1, prev)),
                     commit |-> commit[r],
                     ents |-> SubSeq(log[r], prev + 1, last), at |-> now, late |-> FALSE]
    <3>1. chan' = [chan EXCEPT ![r][f] = Append(@, m)]
      BY DEF SendAppend
    <3>2. /\ {"type", "term"} \subseteq DOMAIN m
          /\ m.term = currentTerm[r] /\ m.type = "Append"
      OBVIOUS
    <3> HIDE DEF m
    <3> QED
      BY <3>1, <3>2
  <2>2. Requests(Append(chan[r][f], m))
    BY <2>1, RequestsAppend DEF ElectionType, ChanOK
  <2>3. chan' = [chan EXCEPT ![r][f] = Append(chan[r][f], m)]
    BY <2>1 DEF ElectionType, ChanOK
  <2> QED
    BY <2>2, <2>3, ChanUpdate DEF ElectionType
<1>3. VoteInv'
  BY <1>1, QuietStep DEF ElectionType
<1> QED
  BY <1>1, <1>2, <1>3 DEF ElectionType

(* A request whose coroutine gives up stays in flight, or its reply goes.   *)
LEMMA TimeoutStep ==
  ASSUME IInv, NEW r \in Server, NEW f \in Server, RpcTimeout(r, f)
  PROVE  IInv'
<1> USE DEF IInv
<1>1. UNCHANGED <<currentTerm, cand, led>>
  BY DEF RpcTimeout
<1>2. ChanOK(chan') /\ AcksOK(acks')
  <2>1. CASE \E i \in DOMAIN chan[r][f] :
               chan' = [chan EXCEPT ![r][f][i].late = TRUE] /\ UNCHANGED acks
    <3>1. PICK i \in DOMAIN chan[r][f] :
                 chan' = [chan EXCEPT ![r][f][i].late = TRUE] /\ UNCHANGED acks
      BY <2>1
    <3>2. Requests([chan[r][f] EXCEPT ![i].late = TRUE])
      BY RequestsLate DEF ElectionType, ChanOK
    <3>3. chan' = [chan EXCEPT ![r][f] = [chan[r][f] EXCEPT ![i].late = TRUE]]
      BY <3>1 DEF ElectionType, ChanOK
    <3> DEFINE q == [chan[r][f] EXCEPT ![i].late = TRUE]
    <3> HIDE DEF q
    <3>4. ChanOK(chan')
      BY <3>2, <3>3, ChanUpdate DEF ElectionType, q
    <3> QED
      BY <3>1, <3>4 DEF ElectionType
  <2>2. CASE \E a \in DOMAIN acks : TakeAck(a) /\ UNCHANGED chan
    BY <2>2, AcksRemove DEF ElectionType, TakeAck
  <2> QED
    BY <2>1, <2>2 DEF RpcTimeout
<1>3. VoteInv'
  BY <1>1, QuietStep DEF ElectionType
<1> QED
  BY <1>1, <1>2, <1>3 DEF ElectionType

(* A reply raises the leader's term only to a newer one.                    *)
LEMMA AckStep ==
  ASSUME IInv, NEW a \in DOMAIN acks, HandleAck(a)
  PROVE  IInv'
<1> USE DEF IInv
<1>1. AcksOK(acks') /\ UNCHANGED <<cand, led, chan>>
  <2>1. TakeAck(a) /\ UNCHANGED <<cand, led, chan>>
    BY DEF HandleAck, AckIgnored, AckNewerTerm, AckRejected, AckAccepted, RpcError
  <2> QED
    BY <2>1, AcksRemove DEF TakeAck, ElectionType
<1>2. /\ currentTerm' \in [Server -> Nat]
      /\ \A x \in Server : currentTerm'[x] >= currentTerm[x]
  <2>1. a.to \in Server /\ a.term \in Nat /\ a.sterm \in Nat
    BY DEF ElectionType, AcksOK
  <2>2. CASE AckNewerTerm(a)
    <3>1. /\ currentTerm' = [currentTerm EXCEPT ![a.to] = a.term]
          /\ a.term > a.sterm /\ ~(currentTerm[a.to] > a.sterm)
      BY <2>2 DEF AckNewerTerm, Ignored
    <3> QED
      BY <2>1, <3>1 DEF ElectionType
  <2>3. CASE UNCHANGED currentTerm
    BY <2>3 DEF ElectionType
  <2> QED
    BY <2>2, <2>3 DEF HandleAck, AckIgnored, AckRejected, AckAccepted, RpcError
<1>3. VoteInv'
  BY <1>1, <1>2, QuietStep
<1> QED
  BY <1>1, <1>2, <1>3 DEF ElectionType

--------------------------------------------------------------------------------
(* Every step of the servers and of the network keeps the votes apart.      *)
LEMMA IInvStep == IInv /\ [Next]_vars => IInv'
<1> SUFFICES ASSUME IInv, [Next]_vars
             PROVE  IInv'
  OBVIOUS
<1>1. CASE \E r \in Server : RequestVote(r)
  BY <1>1, RequestVoteStep
<1>2. CASE \E r \in Server : Win(r)
  BY <1>2, WinStep
<1>3. CASE \E r \in Server : GiveUp(r)
  BY <1>3, GiveUpStep
<1>4. CASE UNCHANGED <<currentTerm, cand, led, chan, acks>>
  <2>1. VoteInv'
    BY <1>4, QuietStep DEF IInv, ElectionType
  <2> QED
    BY <1>4, <2>1 DEF IInv, ElectionType
<1>5. CASE \E s, d \in Server : SendAppend(s, d)
  BY <1>5, SendStep
<1>6. CASE \E s, d \in Server : Deliver(s, d)
  <2>1. PICK s \in Server, d \in Server : Deliver(s, d)
    BY <1>6
  <2> DEFINE m == Head(chan[s][d])
  <2>2. /\ chan' = [chan EXCEPT ![s][d] = Tail(@)]
        /\ \/ m.type = "Vote" /\ OnRequestVote(s, d, m)
           \/ OnAppendEntries(s, d, m)
    BY <2>1 DEF Deliver
  <2>3. Requests(Tail(chan[s][d])) /\ m.term \in Nat /\ (m.type = "Vote" => m.term > 0)
    BY <2>1, RequestsTail DEF IInv, ElectionType, ChanOK, Deliver
  <2>4. chan' = [chan EXCEPT ![s][d] = Tail(chan[s][d])]
    BY <2>2 DEF IInv, ElectionType, ChanOK
  <2>5. ChanOK(chan')
    BY <2>3, <2>4, ChanUpdate DEF IInv, ElectionType
  <2> HIDE DEF m
  <2> QED
    BY <2>2, <2>3, <2>5, VoteStep, AppendStep
<1>7. CASE \E s, d \in Server : RpcTimeout(s, d)
  BY <1>7, TimeoutStep
<1>8. CASE \E a \in DOMAIN acks : HandleAck(a)
  BY <1>8, AckStep
<1>9. ASSUME NEW r \in Server, Demote(r) \/ AdvanceCommit(r) \/ \E c \in Cmd : Start(r, c)
      PROVE  UNCHANGED <<currentTerm, cand, led, chan, acks>>
  BY <1>9 DEF Demote, AdvanceCommit, Start, netVars
<1>10. ASSUME NEW h \in Host, Failover(h)
       PROVE  UNCHANGED <<currentTerm, cand, led, chan, acks>>
  BY <1>10 DEF Failover, netVars
<1>11. CASE UNCHANGED vars
  BY <1>4, <1>11 DEF vars, netVars
<1> QED
  BY <1>1, <1>2, <1>3, <1>4, <1>5, <1>6, <1>7, <1>8, <1>9, <1>10, <1>11 DEF Next

(* Nobody has voted at the start.                                           *)
LEMMA IInvInit == Init => IInv
<1> SUFFICES ASSUME Init PROVE IInv
  OBVIOUS
<1>1. /\ currentTerm \in [Server -> Nat] /\ led = {} /\ DOMAIN acks = {}
      /\ \A s \in Server : cand[s] = NoCand
  BY DEF Init
<1>2. cand \in [Server -> Candidacy]
  BY DEF Init, Candidacy, NoCand
<1>3. ChanOK(chan)
  <2>1. Requests(<< >>)
    BY DEF Requests
  <2> QED
    BY <2>1 DEF Init, ChanOK
<1>4. ElectionType
  BY <1>1, <1>2, <1>3 DEF ElectionType, AcksOK
<1>5. VoteInv
  BY <1>1 DEF VoteInv, VotersMovedOn, RivalsShareNoVote, WinnersHaveMajority,
              WinnersShareNoVote, OneWinnerPerTerm, Running
<1> QED
  BY <1>4, <1>5 DEF IInv

(* At most one candidate wins a term, for any number of servers and terms,  *)
(* whatever votes, refusals, late replies and step-downs interleave: the    *)
(* comparison of terms in OnRequestVote does the work of vote_for_.         *)
THEOREM OneWinner == Spec => []OneWinnerPerTerm
<1>1. IInv => OneWinnerPerTerm
  BY DEF IInv, VoteInv
<1> QED
  BY <1>1, IInvInit, IInvStep, PTL DEF Spec

--------------------------------------------------------------------------------
(* What servers hold, send and count, for every number of servers, terms,   *)
(* commands and entries.                                                    *)

(* The terms a server can lead.                                             *)
Term == 1 .. MaxTerm

(* Logs.                                                                    *)
Logs == {l \in Seq(Entry) : Len(l) <= MaxLog}

(* What a leader keeps of a follower.                                       *)
Peer == [next: 1 .. MaxLog + 1, match: 0 .. MaxLog, sent: 0 .. MaxLog,
         inflight: 0 .. kMaxInFlightPerFollower]

(* A RequestVote.                                                           *)
VoteMsg == [type: {"Vote"}, term: Term, last: 0 .. MaxLog, lterm: 0 .. MaxTerm]

(* An AppendEntries; a heartbeat has no entries.                            *)
AppendMsg == [type: {"Append"}, term: Term, prev: 0 .. MaxLog, pterm: 0 .. MaxTerm,
              commit: 0 .. MaxLog, ents: Logs, at: Nat, late: BOOLEAN]

(* The last index a batch fills; a heartbeat's is that of its previous      *)
(* entry.                                                                   *)
Ends(m) == m.prev + Len(m.ents)

(* Requests.                                                                *)
Msg == VoteMsg \cup {m \in AppendMsg : Ends(m) <= MaxLog}

(* The reply to an AppendEntries.                                           *)
Ack == [to: Server, from: Server, sterm: Term, at: Nat, hb: BOOLEAN, ok: BOOLEAN,
        term: 0 .. MaxTerm, last: 0 .. MaxLog]

(* The type invariant, for every variable.                                  *)
TInv ==
  /\ currentTerm \in [Server -> 0 .. MaxTerm]
  /\ leaders \subseteq Server
  /\ \A r \in leaders : currentTerm[r] > 0
  /\ paused \subseteq Server
  /\ submitted \subseteq Cmd
  /\ sends \in 0 .. MaxSends
  /\ now \in Nat
  /\ log \in [Server -> Logs]
  /\ applied \in [Server -> Seq(Entry)]
  /\ commit \in [Server -> 0 .. MaxLog]
  /\ peer \in [Server -> [Server -> Peer]]
  /\ \A r \in Server : /\ cand[r].term <= currentTerm[r]
                       /\ \A v \in cand[r].no : v.term \in 0 .. MaxTerm
  /\ chan \in [Server -> [Server -> Seq(Msg)]]
  /\ DOMAIN acks \subseteq Ack
  /\ leaderLog \in [Term -> Logs]

--------------------------------------------------------------------------------
(* The safety invariant, which holds as long as leaders were elected.       *)

(* Logs l and k have the same first n entries.                              *)
Agree(l, k, n) == n <= Len(l) /\ n <= Len(k) /\ \A j \in 1 .. n : l[j] = k[j]

(* Every entry of l was put there by the leader of its term, and what       *)
(* precedes it is what preceded it at that leader.                          *)
Traced(l, b) == \A n \in 1 .. Len(l) : l[n].term <= b /\ Agree(l, leaderLog[l[n].term], n)

(* Logs are traced, and a leader's log is the one history records.          *)
Histories ==
  /\ \A t \in Term : /\ Traced(leaderLog[t], t)
                     /\ leaderLog[t] # << >> => \E x \in led : x.term = t
  /\ \A r \in Server : Traced(log[r], currentTerm[r])
  /\ \A x \in led : currentTerm[x.by] = x.term => log[x.by] = leaderLog[x.term]

(* Leaders and candidates are who history says they are.                    *)
Roles ==
  /\ \A r \in leaders : \E x \in led : x.by = r /\ x.term = currentTerm[r]
  /\ \A x \in led : x.term \in Term /\ x.by \in x.votes
  /\ \A r \in Server : Running(r) => /\ r \notin leaders
                                     /\ \A x \in led : x.by = r => x.term < cand[r].term

(* A candidate that can still win: it is in its term, which nobody has won. *)
Standing(c) ==
  Running(c) /\ currentTerm[c] = cand[c].term /\ \A x \in led : x.term # cand[c].term

(* Some leader of a term after t and up to u does not have the first n      *)
(* entries of the leader of t.                                              *)
Dropped(t, u, n) ==
  \E x \in led : t < x.term /\ x.term <= u /\ ~Agree(leaderLog[x.term], leaderLog[t], n)

(* No batch of term t under way to f ends before n.                         *)
NoneShorter(f, t, n) ==
  \A s \in Server : \A j \in 1 .. Len(chan[s][f]) :
    chan[s][f][j].type = "Append" /\ chan[s][f][j].term = t => Ends(chan[s][f][j]) >= n

(* Server f holds the first n entries of the leader of t, and so does       *)
(* every candidate f voted for since.                                       *)
Holds(f, t, n) ==
  /\ currentTerm[f] >= t
  /\ Agree(log[f], leaderLog[t], n)
  /\ NoneShorter(f, t, n)
  /\ \A c \in Server : Standing(c) /\ cand[c].term > t /\ f \in Votes(c)
                         => Agree(log[c], leaderLog[t], n)

(* Entry n, of term t, can never be lost: a majority holds it, and every    *)
(* leader since has had it.                                                 *)
Durable(t, n) ==
  /\ t \in Term /\ n \in 1 .. Len(leaderLog[t]) /\ leaderLog[t][n].term = t
  /\ \A x \in led : x.term > t => Agree(leaderLog[x.term], leaderLog[t], n)
  /\ \E Q \in SUBSET Server : Cardinality(Q) > N \div 2 /\ \A f \in Q : Holds(f, t, n)

(* The first k entries of l are durable, through an entry of term b at most. *)
Safe(l, k, b) ==
  k = 0 \/ \E t \in Term, n \in 1 .. MaxLog :
             t <= b /\ k <= n /\ Durable(t, n) /\ Agree(l, leaderLog[t], k)

(* What a server has committed is durable, and is what it has applied.      *)
Committed ==
  \A r \in Server : /\ commit[r] <= Len(log[r])
                    /\ Safe(log[r], commit[r], currentTerm[r])
                    /\ applied[r] = SubSeq(log[r], 1, commit[r])

(* A batch carries entries of its leader, up to its last when it was sent.  *)
Batch(s, d, m) ==
  LET l == leaderLog[m.term] IN
  /\ s # d
  /\ \E x \in led : x.by = s /\ x.term = m.term
  /\ Ends(m) <= Len(l)
  /\ \A j \in 1 .. Len(m.ents) : m.ents[j] = l[m.prev + j]
  /\ m.prev > 0 => m.pterm = l[m.prev].term
  /\ \A j \in Ends(m) + 1 .. Len(l) : l[j].term = m.term
  /\ m.commit <= Ends(m) /\ Safe(l, m.commit, m.term)
  /\ m.term = currentTerm[d] => commit[d] <= Ends(m)

(* A vote is asked for with the candidate's own log.                        *)
Ask(s, m) ==
  /\ m.term <= currentTerm[s]
  /\ Standing(s) /\ m.term = cand[s].term =>
       m.last = Len(log[s]) /\ m.lterm = LastTerm(log[s])

(* Batches of one term never get shorter.                                   *)
Ordered(q) ==
  \A i, j \in 1 .. Len(q) :
    i < j /\ q[i].type = "Append" /\ q[j].type = "Append" /\ q[i].term = q[j].term
      => Ends(q[i]) <= Ends(q[j])

(* Requests under way are what their senders hold.                          *)
Requested ==
  \A s, d \in Server :
    /\ \A i \in 1 .. Len(chan[s][d]) :
         LET m == chan[s][d][i] IN
         /\ m.type = "Append" => Batch(s, d, m)
         /\ m.type = "Vote" => Ask(s, m)
    /\ Ordered(chan[s][d])

(* Server f told the leader of t, or is telling it, that it holds the       *)
(* leader's first i entries.                                                *)
Acked(f, t, i) ==
  \/ \E a \in DOMAIN acks : a.from = f /\ a.ok /\ ~a.hb /\ a.sterm = t /\ a.last = i
  \/ \E x \in led : /\ x.term = t /\ currentTerm[x.by] = t /\ f # x.by
                    /\ i > 0 /\ peer[x.by][f].match = i

(* It does, unless a later leader did not have them.                        *)
Evidence(f, t, i) ==
  /\ i <= Len(leaderLog[t]) /\ currentTerm[f] >= t
  /\ NoneShorter(f, t, i)
  /\ \A n \in 1 .. i : Agree(log[f], leaderLog[t], n) \/ Dropped(t, currentTerm[f], n)

(* Who got f's vote in term u with log l has them too, unless a leader in   *)
(* between did not.                                                         *)
Passed(f, l, u) ==
  \A t \in Term, i \in 1 .. MaxLog : Acked(f, t, i) /\ t < u =>
    \A n \in 1 .. i : leaderLog[t][n].term = t =>
      Agree(l, leaderLog[t], n) \/ Dropped(t, u - 1, n)

(* What followers acknowledged, they and whom they voted for have.          *)
Counted ==
  /\ \A a \in DOMAIN acks : a.to # a.from /\ \E x \in led : x.by = a.to /\ x.term = a.sterm
  /\ \A f \in Server, t \in Term, i \in 1 .. MaxLog : Acked(f, t, i) => Evidence(f, t, i)
  /\ \A c \in Server : Standing(c) => \A f \in Votes(c) : Passed(f, log[c], cand[c].term)
  /\ \A x \in led : \A f \in x.votes : Passed(f, leaderLog[x.term], x.term)

(* The safety invariant.                                                    *)
SInv == Histories /\ Roles /\ Requested /\ Counted /\ Committed

(* It holds as long as leaders were elected.                                *)
SafetyInv == LeadersElected => SInv

--------------------------------------------------------------------------------
(* The last term of a log is a term.                                        *)
LEMMA LastTermType ==
  ASSUME NEW l \in Logs
  PROVE  LastTerm(l) \in 0 .. MaxTerm
<1> USE RaftAssumption
<1>1. CASE l = << >>
  BY <1>1 DEF LastTerm
<1>2. CASE l # << >>
  <2>1. l \in Seq(Entry) /\ Len(l) \in 1 .. Len(l)
    BY <1>2 DEF Logs
  <2>2. l[Len(l)] \in Entry
    BY <2>1
  <2> QED
    BY <1>2, <2>2 DEF LastTerm, Entry
<1> QED
  BY <1>1, <1>2

(* A part of a log is one.                                                  *)
LEMMA SubLog ==
  ASSUME NEW l \in Logs, NEW i \in Nat, NEW j \in Nat, i >= 1, j <= Len(l)
  PROVE  /\ SubSeq(l, i, j) \in Logs
         /\ Len(SubSeq(l, i, j)) = IF i <= j THEN j - i + 1 ELSE 0
         /\ \A k \in 1 .. Len(SubSeq(l, i, j)) : SubSeq(l, i, j)[k] = l[i + k - 1]
<1>1. l \in Seq(Entry) /\ Len(l) \in Nat /\ Len(l) <= MaxLog /\ MaxLog \in Nat
  BY RaftAssumption DEF Logs
<1>2. Len(SubSeq(l, i, j)) = IF i <= j THEN j - i + 1 ELSE 0
  BY <1>1
<1>3. SubSeq(l, i, j) \in Seq(Entry)
  <2>1. \A k \in i .. j : l[k] \in Entry
    BY <1>1
  <2> QED
    BY <1>1, <2>1
<1>4. \A k \in 1 .. Len(SubSeq(l, i, j)) : SubSeq(l, i, j)[k] = l[i + k - 1]
  BY <1>1, <1>2
<1> QED
  BY <1>1, <1>2, <1>3, <1>4 DEF Logs

(* A batch put after the first part of a log.                               *)
LEMMA JoinLog ==
  ASSUME NEW l \in Logs, NEW e \in Logs, NEW p \in Nat, p <= Len(l), p + Len(e) <= MaxLog
  PROVE  /\ SubSeq(l, 1, p) \o e \in Logs
         /\ Len(SubSeq(l, 1, p) \o e) = p + Len(e)
         /\ \A k \in 1 .. p : (SubSeq(l, 1, p) \o e)[k] = l[k]
         /\ \A k \in 1 .. Len(e) : (SubSeq(l, 1, p) \o e)[p + k] = e[k]
<1> DEFINE s == SubSeq(l, 1, p)
<1>1. /\ s \in Logs /\ Len(s) = p /\ \A k \in 1 .. p : s[k] = l[k]
  <2>1. /\ s \in Logs /\ Len(s) = IF 1 <= p THEN p - 1 + 1 ELSE 0
        /\ \A k \in 1 .. Len(s) : s[k] = l[1 + k - 1]
    BY SubLog
  <2> HIDE DEF s
  <2> QED
    BY <2>1
<1> HIDE DEF s
<1>2. s \in Seq(Entry) /\ e \in Seq(Entry) /\ Len(e) \in Nat
  BY <1>1 DEF Logs
<1>3. s \o e \in Seq(Entry) /\ Len(s \o e) = p + Len(e)
  BY <1>1, <1>2
<1>4. /\ \A k \in 1 .. p : (s \o e)[k] = s[k]
      /\ \A k \in 1 .. Len(e) : (s \o e)[p + k] = e[k]
  BY <1>1, <1>2
<1> QED
  BY <1>1, <1>3, <1>4 DEF Logs, s

(* An entry put at the end of a log.                                        *)
LEMMA AppendLog ==
  ASSUME NEW l \in Logs, NEW e \in Entry, Len(l) < MaxLog
  PROVE  /\ Append(l, e) \in Logs /\ Len(Append(l, e)) = Len(l) + 1
         /\ Append(l, e)[Len(l) + 1] = e
         /\ \A j \in 1 .. Len(l) : Append(l, e)[j] = l[j]
<1>1. l \in Seq(Entry) /\ Len(l) \in Nat /\ MaxLog \in Nat
  BY RaftAssumption DEF Logs
<1> QED
  BY <1>1 DEF Logs

(* What applyLogs adds is of the log.                                       *)
LEMMA ApplyType ==
  ASSUME NEW done \in Seq(Entry), NEW l \in Logs, NEW u \in Nat, u <= Len(l)
  PROVE  ApplyLogs(done, l, u) \in Seq(Entry)
<1>1. CASE u > Len(done)
  <2>1. Len(done) + 1 \in Nat /\ Len(done) + 1 >= 1
    OBVIOUS
  <2>2. SubSeq(l, Len(done) + 1, u) \in Logs
    BY <2>1, SubLog
  <2> QED
    BY <1>1, <2>2 DEF ApplyLogs, Logs
<1>2. CASE ~(u > Len(done))
  BY <1>2 DEF ApplyLogs
<1> QED
  BY <1>1, <1>2

(* The types of the variables most steps read.                              *)
LEMMA StateTypes ==
  ASSUME TInv
  PROVE  /\ currentTerm \in [Server -> 0 .. MaxTerm] /\ log \in [Server -> Logs]
         /\ commit \in [Server -> 0 .. MaxLog] /\ applied \in [Server -> Seq(Entry)]
         /\ peer \in [Server -> [Server -> Peer]]
         /\ chan \in [Server -> [Server -> Seq(Msg)]]
         /\ \A r \in leaders : r \in Server /\ currentTerm[r] > 0
         /\ \A a \in DOMAIN acks : a \in Ack
BY DEF TInv

(* Terms are numbers.                                                       *)
LEMMA TermTypes ==
  ASSUME TInv
  PROVE  \A r \in Server : currentTerm[r] \in Nat /\ currentTerm[r] <= MaxTerm
<1>1. currentTerm \in [Server -> 0 .. MaxTerm]
  BY StateTypes
<1> QED
  BY <1>1, RaftAssumption

(* The entries of a request are typed.                                      *)
LEMMA AppendType ==
  ASSUME NEW m \in AppendMsg
  PROVE  /\ m.term \in 0 .. MaxTerm /\ m.commit \in 0 .. MaxLog /\ m.prev \in 0 .. MaxLog
         /\ m.ents \in Logs
BY RaftAssumption DEF AppendMsg, Term

(* So are those of a reply.                                                 *)
LEMMA AckType ==
  ASSUME NEW a \in Ack
  PROVE  /\ a.to \in Server /\ a.from \in Server /\ a.term \in 0 .. MaxTerm
         /\ a.sterm \in 0 .. MaxTerm /\ a.last \in 0 .. MaxLog
BY RaftAssumption DEF Ack, Term

(* Connection s to d is given the requests q.                               *)
SetQueue(s, d, q) == chan' = [chan EXCEPT ![s][d] = q]

(* One connection changes.                                                  *)
Replaced(s, d, q) ==
  /\ chan' \in [Server -> [Server -> Seq(Msg)]]
  /\ \A x, y \in Server : chan'[x][y] = IF x = s /\ y = d THEN q ELSE chan[x][y]

(* It does so when it is given requests.                                    *)
LEMMA NewQueue ==
  ASSUME TInv, NEW s \in Server, NEW d \in Server, NEW q \in Seq(Msg), SetQueue(s, d, q)
  PROVE  Replaced(s, d, q)
<1>1. chan \in [Server -> [Server -> Seq(Msg)]]
  BY StateTypes
<1>2. PICK row : row = [chan[s] EXCEPT ![d] = q]
  OBVIOUS
<1>3. row \in [Server -> Seq(Msg)] /\ \A y \in Server : row[y] = IF y = d THEN q ELSE chan[s][y]
  BY <1>1, <1>2
<1>4. chan' = [chan EXCEPT ![s] = row]
  BY <1>2 DEF SetQueue
<1>5. \A x \in Server : chan'[x] = IF x = s THEN row ELSE chan[x]
  BY <1>1, <1>4
<1>6. chan' \in [Server -> [Server -> Seq(Msg)]]
  BY <1>1, <1>3, <1>4
<1> QED
  BY <1>3, <1>5, <1>6 DEF Replaced

(* Replies taken are taken from the bag, and one put in is in it.           *)
LEMMA TakeAckDomain ==
  ASSUME NEW a, TakeAck(a)
  PROVE  DOMAIN acks' \subseteq DOMAIN acks
BY DEF TakeAck, BagRemove

(* Every reply of the bag was in it or is the new one.                      *)
LEMMA AddAckDomain ==
  ASSUME NEW a
  PROVE  DOMAIN BagAdd(acks, a) \subseteq DOMAIN acks \cup {a}
BY DEF BagAdd

(* Per-follower state of one follower changed.                              *)
LEMMA PeerTyped ==
  ASSUME peer \in [Server -> [Server -> Peer]], NEW r \in Server, NEW f \in Server,
         NEW p \in Peer
  PROVE  /\ [peer EXCEPT ![r][f] = p] \in [Server -> [Server -> Peer]]
         /\ \A x, y \in Server :
              [peer EXCEPT ![r][f] = p][x][y] = IF x = r /\ y = f THEN p ELSE peer[x][y]
OBVIOUS

(* in_flight_count_ has a floor.                                            *)
LEMMA LandedType ==
  ASSUME NEW p \in Peer
  PROVE  Landed(p) \in Peer /\ Landed(p).match = p.match
<1>1. p.inflight \in 0 .. kMaxInFlightPerFollower /\ kMaxInFlightPerFollower \in Nat
  BY RaftAssumption DEF Peer
<1>2. MaxOf(p.inflight - 1, 0) \in 0 .. kMaxInFlightPerFollower
  BY <1>1 DEF MaxOf
<1> QED
  BY <1>2 DEF Landed, Peer

(* next_index_ has a floor.                                                 *)
LEMMA RewindType ==
  ASSUME NEW p \in Peer
  PROVE  Rewind(p) \in Peer /\ Rewind(p).match = p.match
<1>1. p.next \in 1 .. MaxLog + 1 /\ MaxLog \in Nat
  BY RaftAssumption DEF Peer
<1> DEFINE n == MaxOf(p.next - 1, 1)
<1>2. n \in 1 .. MaxLog + 1 /\ n - 1 \in 0 .. MaxLog
  BY <1>1 DEF MaxOf
<1> HIDE DEF n
<1>3. Rewind(p) = [p EXCEPT !.next = n, !.sent = n - 1]
  BY DEF Rewind, n
<1> QED
  BY <1>2, <1>3 DEF Peer

(* The advanced match_index_ is one the follower reported.                  *)
LEMMA AdvanceType ==
  ASSUME NEW p \in Peer, NEW a \in Ack, NEW n \in 0 .. MaxLog
  PROVE  /\ Advance(p, a, n) \in Peer
         /\ a.hb => Advance(p, a, n).match = p.match
         /\ Advance(p, a, n).match \in {p.match, a.last, n}
         /\ Advance(p, a, n).match >= p.match
         /\ a.last <= n => Advance(p, a, n).match \in {p.match, a.last}
<1>1. /\ p.next \in 1 .. MaxLog + 1 /\ p.match \in 0 .. MaxLog /\ a.last \in 0 .. MaxLog
      /\ MaxLog \in Nat
  BY RaftAssumption DEF Peer, Ack
<1> DEFINE u == MaxOf(p.next, a.last + 1)
           w == MaxOf(p.match, MinOf(a.last, n))
<1>2. /\ u \in 1 .. MaxLog + 1 /\ w \in 0 .. MaxLog /\ w \in {p.match, a.last, n}
      /\ w >= p.match /\ (a.last <= n => w \in {p.match, a.last})
  BY <1>1 DEF MaxOf, MinOf
<1> HIDE DEF u, w
<1>3. CASE a.hb
  BY <1>1, <1>3 DEF Advance
<1>4. CASE ~a.hb
  <2>1. Advance(p, a, n) = [p EXCEPT !.next = u, !.match = w]
    BY <1>4 DEF Advance, u, w
  <2> QED
    BY <1>2, <1>4, <2>1 DEF Peer
<1> QED
  BY <1>3, <1>4

(* Empty logs, no requests and no replies at the start.                     *)
LEMMA TInvInit == Init => TInv
<1> SUFFICES ASSUME Init PROVE TInv
  OBVIOUS
<1> USE RaftAssumption
<1>1. << >> \in Logs /\ << >> \in Seq(Entry)
  BY DEF Logs
<1>2. Fresh(0) \in Peer
  BY DEF Fresh, Peer
<1>3. peer \in [Server -> [Server -> Peer]]
  BY <1>2 DEF Init
<1>4. chan \in [Server -> [Server -> Seq(Msg)]]
  BY DEF Init
<1>5. \A r \in Server : cand[r].term = 0 /\ cand[r].no = {}
  BY DEF Init, NoCand
<1>6. leaderLog \in [Term -> Logs] /\ log \in [Server -> Logs]
      /\ applied \in [Server -> Seq(Entry)]
  BY <1>1 DEF Init, Term
<1>7. DOMAIN acks = {}
  BY DEF Init
<1> QED
  BY <1>3, <1>4, <1>5, <1>6, <1>7 DEF Init, TInv

(* A step of the election timer.                                            *)
LEMMA RequestVoteTypes ==
  ASSUME IInv, TInv, NEW r \in Server, RequestVote(r)
  PROVE  TInv'
<1> USE RaftAssumption
<1> DEFINE t == currentTerm[r] + 1
           vote == [type |-> "Vote", term |-> t, last |-> Len(log[r]),
                    lterm |-> LastTerm(log[r])]
<1>1. t \in Term
  BY DEF RequestVote, Term
<1>2. vote \in Msg
  <2>1. log[r] \in Logs
    BY DEF TInv
  <2>2. Len(log[r]) \in 0 .. MaxLog /\ LastTerm(log[r]) \in 0 .. MaxTerm
    BY <2>1, LastTermType DEF Logs
  <2> QED
    BY <1>1, <2>2 DEF Msg, VoteMsg
<1>3. /\ currentTerm' = [currentTerm EXCEPT ![r] = t]
      /\ cand' = [cand EXCEPT ![r] = [term |-> t, yes |-> {}, no |-> {},
                    after |-> "failure" \in signals[HostOf[r]]]]
      /\ chan' = [chan EXCEPT ![r] =
                    [d \in Server |-> IF d = r THEN chan[r][d] ELSE Append(chan[r][d], vote)]]
  BY DEF RequestVote
<1> HIDE DEF vote
<1>4. chan' \in [Server -> [Server -> Seq(Msg)]]
  <2>1. chan \in [Server -> [Server -> Seq(Msg)]]
    BY DEF TInv
  <2>2. [d \in Server |-> IF d = r THEN chan[r][d] ELSE Append(chan[r][d], vote)]
          \in [Server -> Seq(Msg)]
    BY <1>2, <2>1
  <2> QED
    BY <1>3, <2>1, <2>2
<1>5. currentTerm' \in [Server -> 0 .. MaxTerm]
      /\ \A x \in Server : currentTerm'[x] >= currentTerm[x] /\ currentTerm'[r] = t
  <2>1. PICK u \in 0 .. MaxTerm : u = t /\ u >= currentTerm[r]
    BY <1>1, TermTypes DEF Term
  <2>2. currentTerm' = [currentTerm EXCEPT ![r] = u]
    BY <1>3, <2>1
  <2>3. currentTerm \in [Server -> 0 .. MaxTerm]
    BY StateTypes
  <2> QED
    BY <2>1, <2>2, <2>3
<1>6. \A x \in Server : /\ cand'[x].term <= currentTerm'[x]
                        /\ \A v \in cand'[x].no : v.term \in 0 .. MaxTerm
  <2> SUFFICES ASSUME NEW x \in Server
               PROVE  /\ cand'[x].term <= currentTerm'[x]
                      /\ \A v \in cand'[x].no : v.term \in 0 .. MaxTerm
    OBVIOUS
  <2>0. cand \in [Server -> Candidacy] /\ currentTerm \in [Server -> 0 .. MaxTerm]
    BY DEF IInv, ElectionType, TInv
  <2>1. CASE x = r
    BY <1>1, <1>3, <1>5, <2>0, <2>1 DEF Term
  <2>2. CASE x # r
    <3>1. cand'[x] = cand[x] /\ currentTerm'[x] = currentTerm[x]
      BY <1>3, <2>0, <2>2
    <3> QED
      BY <3>1 DEF TInv
  <2> QED
    BY <2>1, <2>2
<1>7. UNCHANGED <<now, leaders, log, commit, applied, submitted, leaderLog, peer, paused,
                  acks, sends>>
  BY DEF RequestVote, logVars, gateVars
<1>8. \A x \in leaders' : currentTerm'[x] > 0
  BY <1>5, <1>7 DEF TInv
<1> QED
  BY <1>4, <1>5, <1>6, <1>7, <1>8 DEF TInv

(* The end of a candidacy without success.                                  *)
LEMMA GiveUpTypes ==
  ASSUME IInv, TInv, NEW r \in Server, GiveUp(r)
  PROVE  TInv' /\ \A x \in Server : currentTerm'[x] >= currentTerm[x]
<1>1. currentTerm' \in [Server -> 0 .. MaxTerm]
      /\ \A x \in Server : currentTerm'[x] >= currentTerm[x]
  <2>1. PICK seen \in SUBSET cand[r].no :
          IF No(seen)
          THEN \E t \in {currentTerm[r]} \cup {m.term : m \in seen} :
               /\ t >= currentTerm[r] /\ \A m \in seen : t >= m.term
               /\ currentTerm' = [currentTerm EXCEPT ![r] = t]
          ELSE UNCHANGED currentTerm
    BY DEF GiveUp
  <2>2. \A t \in {currentTerm[r]} \cup {m.term : m \in seen} : t \in 0 .. MaxTerm
    BY DEF TInv
  <2>3. currentTerm \in [Server -> 0 .. MaxTerm]
    BY DEF TInv
  <2>4. CASE No(seen)
    <3>1. PICK t \in 0 .. MaxTerm :
            t >= currentTerm[r] /\ currentTerm' = [currentTerm EXCEPT ![r] = t]
      BY <2>1, <2>2, <2>4
    <3> QED
      BY <2>3, <3>1
  <2>5. CASE ~No(seen)
    BY <2>1, <2>3, <2>5
  <2> QED
    BY <2>4, <2>5
<1>2. /\ cand' = [cand EXCEPT ![r] = NoCand]
      /\ UNCHANGED <<now, leaders, log, commit, applied, submitted, leaderLog, peer, paused,
                     chan, acks, sends>>
  BY DEF GiveUp, logVars, gateVars, netVars
<1>3. \A x \in Server : /\ cand'[x].term <= currentTerm'[x]
                        /\ \A v \in cand'[x].no : v.term \in 0 .. MaxTerm
  <2> SUFFICES ASSUME NEW x \in Server
               PROVE  /\ cand'[x].term <= currentTerm'[x]
                      /\ \A v \in cand'[x].no : v.term \in 0 .. MaxTerm
    OBVIOUS
  <2>0. cand \in [Server -> Candidacy] /\ cand[x].term <= currentTerm[x]
        /\ cand[x].term \in Nat /\ currentTerm[x] \in Nat /\ currentTerm'[x] \in Nat
    <3>1. cand \in [Server -> Candidacy] /\ currentTerm \in [Server -> Nat]
      BY DEF IInv, ElectionType
    <3>2. cand[x].term <= currentTerm[x]
      BY DEF TInv
    <3> QED
      BY <1>1, <3>1, <3>2 DEF Candidacy
  <2>1. CASE x = r
    BY <1>2, <2>0, <2>1 DEF NoCand
  <2>2. CASE x # r
    <3>1. cand'[x] = cand[x]
      BY <1>2, <2>0, <2>2
    <3> QED
      BY <1>1, <2>0, <3>1 DEF TInv
  <2> QED
    BY <2>1, <2>2
<1>4. \A x \in leaders' : currentTerm'[x] > 0
  BY <1>1, <1>2 DEF TInv
<1> QED
  BY <1>1, <1>2, <1>3, <1>4 DEF TInv

(* An election is won.                                                      *)
LEMMA WinTypes ==
  ASSUME IInv, TInv, NEW r \in Server, Win(r)
  PROVE  TInv'
<1> USE RaftAssumption
<1>0. log[r] \in Logs /\ Len(log[r]) \in 0 .. MaxLog
  BY DEF TInv, Logs
<1>1. Running(r) /\ cand[r].term = currentTerm[r] /\ currentTerm[r] > 0
  BY DEF Win, Running, IInv, VoteInv, VotersMovedOn
<1>2. /\ leaders' = leaders \cup {r}
      /\ peer' = [peer EXCEPT ![r] = [f \in Server |-> Fresh(Len(log[r]))]]
      /\ leaderLog' = [leaderLog EXCEPT ![currentTerm[r]] = log[r]]
      /\ cand' = [cand EXCEPT ![r] = NoCand]
      /\ UNCHANGED <<now, currentTerm, log, commit, applied, submitted, paused, chan, acks,
                     sends>>
  BY DEF Win, netVars
<1>3. Fresh(Len(log[r])) \in Peer
  BY <1>0 DEF Fresh, Peer
<1>4. peer' \in [Server -> [Server -> Peer]]
  BY <1>2, <1>3 DEF TInv
<1>5. leaderLog' \in [Term -> Logs]
  BY <1>0, <1>2 DEF TInv
<1>6. \A x \in Server : /\ cand'[x].term <= currentTerm'[x]
                        /\ \A v \in cand'[x].no : v.term \in 0 .. MaxTerm
  <2>1. \A x \in Server : cand'[x] = NoCand \/ cand'[x] = cand[x]
    BY <1>2 DEF IInv, ElectionType
  <2> QED
    BY <1>2, <2>1 DEF TInv, NoCand
<1>7. \A x \in leaders' : currentTerm'[x] > 0
  BY <1>1, <1>2 DEF TInv
<1> QED
  BY <1>2, <1>4, <1>5, <1>6, <1>7 DEF TInv

(* The index HeartbeatLoop takes from the sorted match_index_ is one that   *)
(* so many followers reached.                                               *)
LEMMA MatchedIndexReached ==
  ASSUME TInv, NEW r \in Server, Follower(r) # {}
  PROVE  /\ MatchedIndex(r) \in 0 .. MaxLog
         /\ Cardinality({f \in Follower(r) : peer[r][f].match >= MatchedIndex(r)})
              >= (N - 1) - (N - 1) \div 2
<1> USE RaftAssumption
<1> DEFINE ms == {peer[r][f].match : f \in Follower(r)}
           above(i) == Cardinality({f \in Follower(r) : peer[r][f].match >= i})
           need == (N - 1) - (N - 1) \div 2
           enough == {i \in ms : above(i) >= need}
<1>1. \A f \in Follower(r) : peer[r][f].match \in 0 .. MaxLog
  BY DEF TInv, Follower, Peer
<1>2. ms \in SUBSET Nat /\ ms # {} /\ \A i \in ms : i <= MaxLog
  BY <1>1
<1>3. PICK lo \in ms : \A j \in ms : lo <= j
  <2> HIDE DEF ms
  <2> QED
    BY <1>2, LeastNat
<1>4. above(lo) = N - 1 /\ N \in Nat /\ N > 0
  <2>1. {f \in Follower(r) : peer[r][f].match >= lo} = Server \ {r}
    BY <1>1, <1>3 DEF Follower
  <2>2. IsFiniteSet(Server) /\ Cardinality(Server \ {r}) = Cardinality(Server) - 1
    BY FS_RemoveElement
  <2>3. Cardinality(Server) \in Nat /\ Cardinality(Server) > 0
    BY <2>2, FS_CardinalityType, FS_EmptySet
  <2> QED
    BY <2>1, <2>2, <2>3 DEF N
<1>5. lo \in enough
  <2>1. N - 1 >= need
    BY <1>4
  <2> QED
    BY <1>4, <2>1
<1>6. enough \in SUBSET Nat /\ \A i \in enough : i <= MaxLog
  BY <1>2
<1>7. PICK i \in enough : \A j \in enough : i >= j
  <2> HIDE DEF enough
  <2> QED
    BY <1>5, <1>6, GreatestNat
<1>8. MatchedIndex(r) \in enough
  <2>1. MatchedIndex(r) = CHOOSE k \in enough : \A j \in enough : k >= j
    BY DEF MatchedIndex
  <2> HIDE DEF enough
  <2> QED
    BY <1>7, <2>1
<1> QED
  BY <1>2, <1>8

(* Steps that only change who leads, or pause.                              *)
LEMMA GateTypes ==
  ASSUME TInv, leaders' \subseteq leaders, paused' \subseteq Server,
         UNCHANGED <<now, currentTerm, log, commit, applied, submitted, leaderLog, peer, cand,
                     chan, acks, sends>>
  PROVE  TInv'
BY DEF TInv

(* A command is appended.                                                   *)
LEMMA StartTypes ==
  ASSUME TInv, NEW r \in Server, NEW c \in Cmd, Start(r, c)
  PROVE  TInv'
<1> USE RaftAssumption
<1>0. r \in leaders /\ currentTerm[r] \in Term /\ log[r] \in Logs /\ Len(log[r]) < MaxLog
  BY DEF Start, TInv, Term
<1> DEFINE e == [term |-> currentTerm[r], cmd |-> c]
<1>1. e \in Entry
  BY <1>0 DEF Entry, Term
<1>2. /\ log' = [log EXCEPT ![r] = Append(log[r], e)]
      /\ leaderLog' = [leaderLog EXCEPT ![currentTerm[r]] = log'[r]]
      /\ submitted' = submitted \cup {c}
      /\ UNCHANGED <<now, currentTerm, leaders, commit, applied, peer, cand, paused, chan,
                     acks, sends>>
  BY DEF Start, gateVars, netVars
<1> HIDE DEF e
<1>3. Append(log[r], e) \in Logs
  BY <1>0, <1>1, AppendLog
<1>4. log' \in [Server -> Logs] /\ leaderLog' \in [Term -> Logs]
  BY <1>2, <1>3 DEF TInv
<1> QED
  BY <1>2, <1>4 DEF TInv

(* A leader's commitIndex moves.                                            *)
LEMMA AdvanceCommitTypes ==
  ASSUME TInv, NEW r \in Server, AdvanceCommit(r)
  PROVE  TInv'
<1> USE RaftAssumption
<1> DEFINE new == MinOf(MatchedIndex(r), Len(log[r]))
<1>1. log[r] \in Logs /\ Len(log[r]) \in 0 .. MaxLog /\ applied[r] \in Seq(Entry)
  BY DEF TInv, Logs
<1>2. new \in 0 .. MaxLog /\ new <= Len(log[r])
  <2>1. MatchedIndex(r) \in 0 .. MaxLog
    BY MatchedIndexReached DEF AdvanceCommit
  <2> QED
    BY <1>1, <2>1 DEF MinOf
<1>3. /\ commit' = [commit EXCEPT ![r] = new]
      /\ applied' = [applied EXCEPT ![r] = ApplyLogs(applied[r], log[r], new)]
      /\ UNCHANGED <<now, currentTerm, leaders, log, submitted, leaderLog, peer, cand, paused,
                     chan, acks, sends>>
  BY DEF AdvanceCommit, gateVars, netVars
<1> HIDE DEF new
<1>4. ApplyLogs(applied[r], log[r], new) \in Seq(Entry)
  BY <1>1, <1>2, ApplyType
<1>5. commit' \in [Server -> 0 .. MaxLog] /\ applied' \in [Server -> Seq(Entry)]
  BY <1>2, <1>3, <1>4 DEF TInv
<1> QED
  BY <1>3, <1>5 DEF TInv

(* Where a batch ends.                                                      *)
LEMMA EndsType ==
  ASSUME NEW m \in AppendMsg
  PROVE  m.prev \in Nat /\ Len(m.ents) \in Nat /\ Ends(m) \in Nat
<1>1. m.prev \in Nat /\ m.ents \in Logs
  BY DEF AppendMsg
<1>2. Len(m.ents) \in Nat
  BY <1>1 DEF Logs
<1> QED
  BY <1>1, <1>2 DEF Ends

(* The request of one round of HeartbeatLoop.                               *)
Sent(r, f, m) ==
  LET last == Len(log[r]) IN
  /\ m \in AppendMsg /\ m.term = currentTerm[r] /\ m.commit = commit[r]
  /\ m.prev <= last /\ Ends(m) = last
  /\ m.pterm = LastTerm(SubSeq(log[r], 1, m.prev))
  /\ m.ents = SubSeq(log[r], m.prev + 1, last)
  /\ chan' = [chan EXCEPT ![r][f] = Append(chan[r][f], m)]

(* It carries the log from sent_index_ on; the indices stay in range.       *)
LEMMA SendFacts ==
  ASSUME TInv, NEW r \in Server, NEW f \in Server, SendAppend(r, f)
  PROVE  /\ \E m \in Msg : Sent(r, f, m)
         /\ peer' \in [Server -> [Server -> Peer]]
         /\ \A x, y \in Server : peer'[x][y].match = peer[x][y].match
<1> USE RaftAssumption
<1> DEFINE last == Len(log[r])
           next == MinOf(peer[r][f].next, last + 1)
           sent == MaxOf(peer[r][f].sent, next - 1)
           prev == MinOf(sent, last)
           p == [peer[r][f] EXCEPT !.next = next, !.sent = MaxOf(sent, last), !.inflight = @ + 1]
           m == [type |-> "Append", term |-> currentTerm[r], prev |-> prev,
                 pterm |-> LastTerm(SubSeq(log[r], 1, prev)), commit |-> commit[r],
                 ents |-> SubSeq(log[r], prev + 1, last), at |-> now, late |-> FALSE]
<1>1. log[r] \in Logs /\ last \in 0 .. MaxLog /\ peer[r][f] \in Peer
  BY DEF TInv, Logs
<1>2. peer' = [peer EXCEPT ![r][f] = p]
  BY Zenon DEF SendAppend
<1>2a. chan' = [chan EXCEPT ![r][f] = Append(@, m)]
  BY Zenon DEF SendAppend
<1>3. /\ next \in 1 .. MaxLog + 1 /\ sent \in 0 .. MaxLog /\ MaxOf(sent, last) \in 0 .. MaxLog
      /\ prev \in 0 .. MaxLog /\ prev <= last
  <2>1. peer[r][f].next \in 1 .. MaxLog + 1 /\ peer[r][f].sent \in 0 .. MaxLog
    BY <1>1 DEF Peer
  <2>2. next \in 1 .. MaxLog + 1 /\ next <= last + 1
    BY <1>1, <2>1 DEF MinOf
  <2> HIDE DEF next
  <2>3. sent \in 0 .. MaxLog
    BY <1>1, <2>1, <2>2 DEF MaxOf
  <2> HIDE DEF sent
  <2> QED
    BY <1>1, <2>2, <2>3 DEF MinOf, MaxOf
<1>4. peer[r][f].inflight + 1 \in 0 .. kMaxInFlightPerFollower
  <2>1. peer[r][f].inflight < kMaxInFlightPerFollower
    BY DEF SendAppend
  <2>2. peer[r][f].inflight \in 0 .. kMaxInFlightPerFollower
    BY <1>1 DEF Peer
  <2> QED
    BY <2>1, <2>2
<1>5. currentTerm[r] \in Term /\ commit[r] \in 0 .. MaxLog /\ now \in Nat
  BY DEF SendAppend, TInv, Term
<1> HIDE DEF next, sent, prev, last
<1>6. p \in Peer /\ p.match = peer[r][f].match
  BY <1>1, <1>3, <1>4 DEF Peer
<1>7. /\ SubSeq(log[r], 1, prev) \in Logs /\ SubSeq(log[r], prev + 1, last) \in Logs
      /\ Len(SubSeq(log[r], prev + 1, last)) = last - prev
  <2>1. SubSeq(log[r], 1, prev) \in Logs
    BY <1>1, <1>3, SubLog DEF last
  <2>2. /\ SubSeq(log[r], prev + 1, last) \in Logs
        /\ Len(SubSeq(log[r], prev + 1, last)) =
             IF prev + 1 <= last THEN last - (prev + 1) + 1 ELSE 0
    BY <1>1, <1>3, SubLog DEF last
  <2> QED
    BY <1>1, <1>3, <2>1, <2>2
<1>8. LastTerm(SubSeq(log[r], 1, prev)) \in 0 .. MaxTerm
  BY <1>7, LastTermType
<1>9. m \in AppendMsg
  BY <1>3, <1>5, <1>7, <1>8 DEF AppendMsg
<1>10. /\ m.term = currentTerm[r] /\ m.commit = commit[r] /\ m.prev = prev
       /\ m.pterm = LastTerm(SubSeq(log[r], 1, prev))
       /\ m.ents = SubSeq(log[r], prev + 1, last)
  OBVIOUS
<1>11. chan' = [chan EXCEPT ![r][f] = Append(chan[r][f], m)]
  BY <1>2a DEF TInv
<1> HIDE DEF m, p
<1>12. Ends(m) = last
  BY <1>1, <1>3, <1>7, <1>10 DEF Ends
<1>13. m \in Msg
  BY <1>1, <1>9, <1>12 DEF Msg
<1>14. Sent(r, f, m)
  BY <1>3, <1>9, <1>10, <1>11, <1>12 DEF Sent, last
<1>15. /\ peer' \in [Server -> [Server -> Peer]]
       /\ \A x, y \in Server : peer'[x][y] = IF x = r /\ y = f THEN p ELSE peer[x][y]
  <2>1. peer \in [Server -> [Server -> Peer]] /\ p \in Peer
    BY <1>6 DEF TInv
  <2> QED
    BY <1>2, <2>1, PeerTyped
<1> QED
  BY <1>6, <1>13, <1>14, <1>15

(* A request is sent.                                                       *)
LEMMA SendTypes ==
  ASSUME TInv, NEW r \in Server, NEW f \in Server, SendAppend(r, f)
  PROVE  TInv'
<1>1. PICK m \in Msg : Sent(r, f, m)
  BY SendFacts
<1>2. chan' \in [Server -> [Server -> Seq(Msg)]]
  <2>1. chan[r][f] \in Seq(Msg) /\ chan \in [Server -> [Server -> Seq(Msg)]]
    BY DEF TInv
  <2>2. Append(chan[r][f], m) \in Seq(Msg)
    BY <2>1
  <2> QED
    <3>1. PICK q \in Seq(Msg) : q = Append(chan[r][f], m)
      BY <2>2
    <3>2. Replaced(r, f, q)
      BY <1>1, <3>1, NewQueue DEF Sent, SetQueue
    <3> QED
      BY <3>2 DEF Replaced
<1>3. peer' \in [Server -> [Server -> Peer]]
  BY SendFacts
<1>4. sends' \in 0 .. MaxSends
  <2>1. sends < MaxSends /\ sends' = sends + 1 /\ sends \in 0 .. MaxSends
    BY DEF SendAppend, TInv
  <2> QED
    BY <2>1, RaftAssumption
<1>5. UNCHANGED <<now, currentTerm, leaders, log, commit, applied, submitted, leaderLog, cand,
                  paused, acks>>
  BY DEF SendAppend, logVars, gateVars
<1> QED
  BY <1>2, <1>3, <1>4, <1>5 DEF TInv

(* The request that is delivered, and the connection without it.            *)
LEMMA DeliverFacts ==
  ASSUME TInv, NEW s \in Server, NEW d \in Server, Deliver(s, d)
  PROVE  /\ Len(chan[s][d]) > 0 /\ Head(chan[s][d]) = chan[s][d][1] /\ chan[s][d][1] \in Msg
         /\ chan' \in [Server -> [Server -> Seq(Msg)]]
         /\ \A x, y \in Server :
              chan'[x][y] = IF x = s /\ y = d THEN Tail(chan[s][d]) ELSE chan[x][y]
         /\ Len(Tail(chan[s][d])) = Len(chan[s][d]) - 1
         /\ \A j \in 1 .. Len(chan[s][d]) - 1 : Tail(chan[s][d])[j] = chan[s][d][j + 1]
<1>1. /\ chan \in [Server -> [Server -> Seq(Msg)]] /\ chan[s][d] \in Seq(Msg)
      /\ chan[s][d] # << >> /\ chan' = [chan EXCEPT ![s][d] = Tail(chan[s][d])]
  BY StateTypes DEF Deliver
<1>2. /\ Tail(chan[s][d]) \in Seq(Msg) /\ Len(chan[s][d]) > 0
      /\ Len(Tail(chan[s][d])) = Len(chan[s][d]) - 1
      /\ \A j \in 1 .. Len(chan[s][d]) - 1 : Tail(chan[s][d])[j] = chan[s][d][j + 1]
      /\ Head(chan[s][d]) = chan[s][d][1] /\ chan[s][d][1] \in Msg
  BY <1>1
<1>3. /\ chan' \in [Server -> [Server -> Seq(Msg)]]
      /\ \A x, y \in Server :
           chan'[x][y] = IF x = s /\ y = d THEN Tail(chan[s][d]) ELSE chan[x][y]
  <2>1. PICK q \in Seq(Msg) : q = Tail(chan[s][d])
    BY <1>2
  <2>2. chan' = [chan EXCEPT ![s][d] = q]
    BY <1>1, <2>1
  <2>3. /\ chan' \in [Server -> [Server -> Seq(Msg)]]
        /\ \A x, y \in Server : chan'[x][y] = IF x = s /\ y = d THEN q ELSE chan[x][y]
    <3>1. Replaced(s, d, q)
      BY <2>2, NewQueue DEF SetQueue
    <3> QED
      BY <3>1 DEF Replaced
  <2> QED
    BY <2>1, <2>3, Zenon
<1> QED
  BY <1>2, <1>3

(* What is on a connection afterwards was there, and not at its head.       *)
LEMMA StillQueued ==
  ASSUME TInv, NEW s \in Server, NEW d \in Server, Deliver(s, d),
         NEW x \in Server, NEW y \in Server, NEW j \in 1 .. Len(chan'[x][y])
  PROVE  \E i \in 1 .. Len(chan[x][y]) : /\ chan'[x][y][j] = chan[x][y][i]
                                         /\ x = s /\ y = d => i > 1
<1>1. PICK q \in Seq(Msg), p \in Seq(Msg) : q = chan[s][d] /\ p = Tail(chan[s][d])
  <2>1. chan[s][d] \in Seq(Msg) /\ chan[s][d] # << >>
    BY StateTypes DEF Deliver
  <2>2. ASSUME NEW z \in Seq(Msg), z # << >> PROVE Tail(z) \in Seq(Msg)
    BY <2>2
  <2> QED
    BY <2>1, <2>2
<1>2. /\ Len(q) > 0 /\ Len(p) = Len(q) - 1
      /\ \A k \in 1 .. Len(q) - 1 : p[k] = q[k + 1]
  <2>1. q # << >> /\ p = Tail(q)
    BY <1>1 DEF Deliver
  <2> QED
    BY <2>1
<1>3. chan'[x][y] = IF x = s /\ y = d THEN p ELSE chan[x][y]
  BY <1>1, DeliverFacts
<1>4. CASE x = s /\ y = d
  <2>1. chan'[x][y] = p /\ chan[x][y] = q
    BY <1>1, <1>3, <1>4
  <2>2. PICK n \in Nat : n = Len(q)
    OBVIOUS
  <2>3. j \in 1 .. n - 1
    BY <1>2, <2>1, <2>2
  <2>4. PICK i \in 1 .. n : i = j + 1 /\ i > 1
    BY <2>3
  <2>5. p[j] = q[i]
    BY <1>2, <2>2, <2>3, <2>4
  <2> QED
    BY <2>1, <2>2, <2>4, <2>5
<1>5. CASE ~(x = s /\ y = d)
  BY <1>3, <1>5
<1> QED
  BY <1>4, <1>5

(* A vote is handled: who counts it, and who moves on.                      *)
Voted(s, d, m) ==
  /\ currentTerm' \in [Server -> 0 .. MaxTerm]
  /\ \A x \in Server : currentTerm'[x] >= currentTerm[x]
  /\ \A x \in Server \ {d} : currentTerm'[x] = currentTerm[x]
  /\ currentTerm'[d] = MaxOf(currentTerm[d], m.term)
  /\ leaders' \subseteq leaders /\ (Grants(d, m) => d \notin leaders')
  /\ \A x \in Server :
       /\ cand'[x].term = cand[x].term
       /\ (cand'[x] = NoCand) = (cand[x] = NoCand)
       /\ \A v \in cand'[x].no : v.term \in 0 .. MaxTerm
       /\ cand'[x].yes = IF x = s /\ cand[s].term = m.term /\ Grants(d, m)
                         THEN cand[x].yes \cup {d} ELSE cand[x].yes

(* They are these.                                                         *)
LEMMA VoteFacts ==
  ASSUME IInv, TInv, NEW s \in Server, NEW d \in Server, NEW m \in VoteMsg,
         OnRequestVote(s, d, m)
  PROVE  Voted(s, d, m)
<1> USE RaftAssumption
<1>1. /\ currentTerm \in [Server -> 0 .. MaxTerm] /\ m.term \in 1 .. MaxTerm
      /\ cand \in [Server -> Candidacy]
  BY DEF TInv, IInv, ElectionType, VoteMsg, Term
<1>2. /\ currentTerm' = [currentTerm EXCEPT ![d] = MaxOf(@, m.term)]
      /\ leaders' = IF Grants(d, m) THEN leaders \ {d} ELSE leaders
      /\ cand' = IF cand[s].term # m.term THEN cand
                 ELSE IF Grants(d, m) THEN [cand EXCEPT ![s].yes = @ \cup {d}]
                 ELSE [cand EXCEPT ![s].no = @ \cup {[from |-> d, term |-> currentTerm[d]]}]
  BY DEF OnRequestVote
<1>3. MaxOf(currentTerm[d], m.term) \in 0 .. MaxTerm
  BY <1>1 DEF MaxOf
<1>4. /\ currentTerm' \in [Server -> 0 .. MaxTerm]
      /\ \A x \in Server \ {d} : currentTerm'[x] = currentTerm[x]
      /\ currentTerm'[d] = MaxOf(currentTerm[d], m.term)
  BY <1>1, <1>2, <1>3
<1>4a. \A x \in Server : currentTerm'[x] >= currentTerm[x]
  BY <1>1, <1>4 DEF MaxOf
<1>5. ASSUME NEW x \in Server
      PROVE  /\ cand'[x].term = cand[x].term
             /\ (cand'[x] = NoCand) = (cand[x] = NoCand)
             /\ \A v \in cand'[x].no : v.term \in 0 .. MaxTerm
             /\ cand'[x].yes = IF x = s /\ cand[s].term = m.term /\ Grants(d, m)
                               THEN cand[x].yes \cup {d} ELSE cand[x].yes
  <2>0. \A v \in cand[x].no : v.term \in 0 .. MaxTerm
    BY DEF TInv
  <2>1. CASE cand[s].term # m.term \/ x # s
    <3>1. cand'[x] = cand[x]
      BY <1>1, <1>2, <2>1
    <3> QED
      BY <2>0, <2>1, <3>1
  <2>2. CASE cand[s].term = m.term /\ x = s
    <3>0. cand[s].term # 0 /\ cand[s] # NoCand /\ cand[s] \in Candidacy
      BY <1>1, <2>2 DEF NoCand
    <3>1. CASE Grants(d, m)
      <4>1. cand'[s] = [cand[s] EXCEPT !.yes = cand[s].yes \cup {d}]
        BY <1>1, <1>2, <2>2, <3>1
      <4>2. /\ cand'[s].term = cand[s].term /\ cand'[s].no = cand[s].no
            /\ cand'[s].yes = cand[s].yes \cup {d}
        BY <3>0, <4>1 DEF Candidacy
      <4>3. cand'[s] # NoCand
        BY <3>0, <4>2 DEF NoCand
      <4> QED
        BY <2>0, <2>2, <3>0, <3>1, <4>2, <4>3
    <3>2. CASE ~Grants(d, m)
      <4> DEFINE no == [from |-> d, term |-> currentTerm[d]]
      <4>1. cand'[s] = [cand[s] EXCEPT !.no = cand[s].no \cup {no}]
        BY <1>1, <1>2, <2>2, <3>2
      <4>2. no.term \in 0 .. MaxTerm
        BY <1>1
      <4> HIDE DEF no
      <4>3. /\ cand'[s].term = cand[s].term /\ cand'[s].yes = cand[s].yes
            /\ cand'[s].no = cand[s].no \cup {no}
        BY <3>0, <4>1 DEF Candidacy
      <4>4. cand'[s] # NoCand
        BY <3>0, <4>3 DEF NoCand
      <4> QED
        BY <2>0, <2>2, <3>0, <3>2, <4>2, <4>3, <4>4
    <3> QED
      BY <3>1, <3>2
  <2> QED
    BY <2>1, <2>2
<1> QED
  BY <1>2, <1>4, <1>4a, <1>5 DEF Voted

(* A vote is delivered.                                                     *)
LEMMA VoteTypes ==
  ASSUME IInv, TInv, NEW s \in Server, NEW d \in Server, NEW m \in VoteMsg,
         OnRequestVote(s, d, m), chan' \in [Server -> [Server -> Seq(Msg)]]
  PROVE  TInv'
<1> USE RaftAssumption
<1>1. currentTerm \in [Server -> 0 .. MaxTerm] /\ m.term \in 1 .. MaxTerm
  BY DEF TInv, VoteMsg, Term
<1>0. Voted(s, d, m)
  BY VoteFacts
<1>2. /\ currentTerm' \in [Server -> 0 .. MaxTerm]
      /\ leaders' \subseteq leaders
      /\ \A x \in Server : /\ cand'[x].term = cand[x].term
                           /\ \A v \in cand'[x].no : v.term \in 0 .. MaxTerm
  BY <1>0 DEF Voted
<1>3. \A x \in Server : currentTerm'[x] >= currentTerm[x]
  BY <1>0 DEF Voted
<1>4. UNCHANGED <<now, log, commit, applied, submitted, leaderLog, peer, paused, acks, sends>>
  BY DEF OnRequestVote, logVars, gateVars
<1>5. \A x \in Server : cand'[x].term <= currentTerm'[x]
  <2> SUFFICES ASSUME NEW x \in Server PROVE cand'[x].term <= currentTerm'[x]
    OBVIOUS
  <2>1. cand[x].term <= currentTerm[x] /\ cand[x].term \in Nat
    BY DEF TInv, IInv, ElectionType, Candidacy
  <2>2. currentTerm[x] \in Nat /\ currentTerm'[x] \in Nat
    BY <1>1, <1>2
  <2>3. cand'[x].term = cand[x].term /\ currentTerm'[x] >= currentTerm[x]
    BY <1>2, <1>3
  <2> QED
    BY <2>1, <2>2, <2>3
<1>6. \A x \in leaders' : currentTerm'[x] > 0
  BY <1>1, <1>2, <1>3 DEF TInv
<1> QED
  BY <1>2, <1>4, <1>5, <1>6 DEF TInv

(* The reply to request m, and no other, may have been added.               *)
Replied(s, d, m, ok) ==
  \A a \in DOMAIN acks' :
    \/ a \in DOMAIN acks
    \/ /\ a \in Ack /\ a.to = s /\ a.from = d /\ a.sterm = m.term /\ a.last = Len(log'[d])
       /\ a.ok = ok /\ a.hb = (m.ents = << >>)

(* An accepted request: the batch ends the log, or the log is left alone.   *)
Accepted(s, d, m) ==
  /\ log' \in [Server -> Logs] /\ \A x \in Server \ {d} : log'[x] = log[x]
  /\ m.ents = << >> => log'[d] = log[d]
  /\ m.ents # << >> => /\ Len(log'[d]) = Ends(m)
                       /\ \A k \in 1 .. m.prev : log'[d][k] = log[d][k]
                       /\ \A k \in 1 .. Len(m.ents) : log'[d][m.prev + k] = m.ents[k]
  /\ currentTerm' \in [Server -> 0 .. MaxTerm]
  /\ \A x \in Server \ {d} : currentTerm'[x] = currentTerm[x]
  /\ currentTerm'[d] = m.term
  /\ leaders' \subseteq leaders /\ (m.term > currentTerm[d] => d \notin leaders')
  /\ commit' \in [Server -> 0 .. MaxLog] /\ \A x \in Server \ {d} : commit'[x] = commit[x]
  /\ commit'[d] = IF m.commit > commit[d] THEN MinOf(m.commit, Len(log'[d])) ELSE commit[d]
  /\ applied' \in [Server -> Seq(Entry)] /\ \A x \in Server \ {d} : applied'[x] = applied[x]
  /\ applied'[d] = IF m.commit > commit[d] THEN ApplyLogs(applied[d], log'[d], commit'[d])
                   ELSE applied[d]
  /\ Replied(s, d, m, TRUE)

(* The reply names the term and the log's end after the request.            *)
LEMMA ReplyFacts ==
  ASSUME TInv, NEW s \in Server, NEW d \in Server, NEW m \in AppendMsg, NEW ok \in BOOLEAN,
         currentTerm' \in [Server -> 0 .. MaxTerm], log' \in [Server -> Logs],
         acks' = IF m.late THEN acks ELSE BagAdd(acks,
           [to |-> s, from |-> d, sterm |-> m.term, at |-> m.at, hb |-> m.ents = << >>,
            ok |-> ok, term |-> currentTerm'[d], last |-> Len(log'[d])])
  PROVE  Replied(s, d, m, ok)
<1> USE RaftAssumption
<1>1. PICK hb \in BOOLEAN : hb = (m.ents = << >>)
  OBVIOUS
<1>2. PICK n \in 0 .. MaxLog : n = Len(log'[d])
  BY DEF Logs
<1>3. PICK t \in 0 .. MaxTerm : t = currentTerm'[d]
  OBVIOUS
<1> DEFINE a == [to |-> s, from |-> d, sterm |-> m.term, at |-> m.at, hb |-> hb,
                 ok |-> ok, term |-> t, last |-> n]
<1>4. /\ a \in Ack /\ a.to = s /\ a.from = d /\ a.sterm = m.term /\ a.last = n
      /\ a.ok = ok /\ a.hb = hb
  BY DEF Ack, AppendMsg
<1>5. acks' = IF m.late THEN acks ELSE BagAdd(acks, a)
  BY <1>1, <1>2, <1>3, Zenon
<1> HIDE DEF a
<1>6. DOMAIN acks' \subseteq DOMAIN acks \cup {a}
  <2>1. CASE m.late
    BY <1>5, <2>1
  <2>2. CASE ~m.late
    BY <1>5, <2>2, AddAckDomain
  <2> QED
    BY <2>1, <2>2
<1> QED
  BY <1>1, <1>2, <1>4, <1>6 DEF Replied

(* What an accepted request does.                                           *)
LEMMA AcceptFacts ==
  ASSUME TInv, NEW s \in Server, NEW d \in Server, NEW m \in AppendMsg, Ends(m) <= MaxLog,
         OnAppendEntries(s, d, m), Accepts(d, m)
  PROVE  Accepted(s, d, m)
<1> USE RaftAssumption
<1> DEFINE newlog == IF m.ents = << >> THEN log[d] ELSE SubSeq(log[d], 1, m.prev) \o m.ents
           commits == m.commit > commit[d]
           upto == MinOf(m.commit, Len(newlog))
<1>0. /\ log \in [Server -> Logs] /\ currentTerm \in [Server -> 0 .. MaxTerm]
      /\ commit \in [Server -> 0 .. MaxLog] /\ applied \in [Server -> Seq(Entry)]
      /\ m.term \in 0 .. MaxTerm /\ m.commit \in 0 .. MaxLog /\ m.prev \in 0 .. MaxLog
      /\ m.ents \in Logs
  BY StateTypes, AppendType
<1>1. /\ currentTerm' = [currentTerm EXCEPT ![d] = m.term]
      /\ leaders' = IF m.term > currentTerm[d] THEN leaders \ {d} ELSE leaders
      /\ log' = [log EXCEPT ![d] = newlog]
      /\ commit' = [commit EXCEPT ![d] = IF commits THEN upto ELSE commit[d]]
      /\ applied' = [applied EXCEPT ![d] =
                       IF commits THEN ApplyLogs(applied[d], newlog, upto) ELSE applied[d]]
  BY DEF OnAppendEntries
<1>2. /\ newlog \in Logs
      /\ m.ents = << >> => newlog = log[d]
      /\ m.ents # << >> => /\ Len(newlog) = Ends(m)
                           /\ \A k \in 1 .. m.prev : newlog[k] = log[d][k]
                           /\ \A k \in 1 .. Len(m.ents) : newlog[m.prev + k] = m.ents[k]
  <2>1. CASE m.ents = << >>
    BY <1>0, <2>1
  <2>2. CASE m.ents # << >>
    <3>1. m.prev <= Len(log[d]) /\ m.prev + Len(m.ents) <= MaxLog
      BY DEF Accepts, Ends
    <3>2. PICK nl : nl = SubSeq(log[d], 1, m.prev) \o m.ents
      OBVIOUS
    <3>3. log[d] \in Logs /\ m.prev \in Nat
      BY <1>0
    <3>4. /\ nl \in Logs /\ Len(nl) = m.prev + Len(m.ents)
          /\ \A k \in 1 .. m.prev : nl[k] = log[d][k]
          /\ \A k \in 1 .. Len(m.ents) : nl[m.prev + k] = m.ents[k]
      <4>1. PICK l \in Logs : l = log[d]
        BY <3>3
      <4>2. PICK e \in Logs : e = m.ents
        BY <1>0
      <4>3. PICK p \in Nat : p = m.prev
        BY <3>3
      <4>4. p <= Len(l) /\ p + Len(e) <= MaxLog
        BY <3>1, <4>1, <4>2, <4>3
      <4>5. /\ SubSeq(l, 1, p) \o e \in Logs /\ Len(SubSeq(l, 1, p) \o e) = p + Len(e)
            /\ \A k \in 1 .. p : (SubSeq(l, 1, p) \o e)[k] = l[k]
            /\ \A k \in 1 .. Len(e) : (SubSeq(l, 1, p) \o e)[p + k] = e[k]
        BY <4>4, JoinLog
      <4>6. nl = SubSeq(l, 1, p) \o e
        BY <3>2, <4>1, <4>2, <4>3
      <4> QED
        BY <4>1, <4>2, <4>3, <4>5, <4>6
    <3>5. newlog = nl
      BY <2>2, <3>2
    <3> QED
      BY <2>2, <3>4, <3>5 DEF Ends
  <2> QED
    BY <2>1, <2>2
<1> HIDE DEF newlog
<1>3. upto \in 0 .. MaxLog /\ upto <= Len(newlog)
  BY <1>0, <1>2 DEF MinOf, Logs
<1>4. log' \in [Server -> Logs] /\ log'[d] = newlog
  BY <1>0, <1>1, <1>2
<1>5. currentTerm' \in [Server -> 0 .. MaxTerm] /\ currentTerm'[d] = m.term
  BY <1>0, <1>1
<1>6. commit' \in [Server -> 0 .. MaxLog] /\ commit'[d] = IF commits THEN upto ELSE commit[d]
  BY <1>0, <1>1, <1>3
<1>7. ApplyLogs(applied[d], newlog, upto) \in Seq(Entry)
  BY <1>0, <1>2, <1>3, ApplyType
<1>8. /\ applied' \in [Server -> Seq(Entry)]
      /\ applied'[d] = IF commits THEN ApplyLogs(applied[d], newlog, upto) ELSE applied[d]
  BY <1>0, <1>1, <1>7
<1>9. Replied(s, d, m, TRUE)
  <2>1. PICK ok \in BOOLEAN : ok = Accepts(d, m)
    BY DEF Accepts
  <2>2. acks' = IF m.late THEN acks ELSE BagAdd(acks,
           [to |-> s, from |-> d, sterm |-> m.term, at |-> m.at, hb |-> m.ents = << >>,
            ok |-> ok, term |-> currentTerm'[d], last |-> Len(log'[d])])
    BY <2>1, Zenon DEF OnAppendEntries
  <2>3. Replied(s, d, m, ok)
    BY <1>4, <1>5, <2>2, ReplyFacts
  <2> QED
    BY <2>1, <2>3
<1>10. \A x \in Server \ {d} : /\ log'[x] = log[x] /\ currentTerm'[x] = currentTerm[x]
                               /\ commit'[x] = commit[x] /\ applied'[x] = applied[x]
  BY <1>0, <1>1
<1>11. leaders' \subseteq leaders /\ (m.term > currentTerm[d] => d \notin leaders')
  BY <1>1
<1>12. commit'[d] = IF m.commit > commit[d] THEN MinOf(m.commit, Len(log'[d])) ELSE commit[d]
  BY <1>4, <1>6
<1>13. applied'[d] = IF m.commit > commit[d] THEN ApplyLogs(applied[d], log'[d], commit'[d])
                     ELSE applied[d]
  BY <1>4, <1>6, <1>8
<1> QED
  BY <1>2, <1>4, <1>5, <1>6, <1>8, <1>9, <1>10, <1>11, <1>12, <1>13 DEF Accepted

(* A refused one.                                                           *)
LEMMA RefuseFacts ==
  ASSUME TInv, NEW s \in Server, NEW d \in Server, NEW m \in AppendMsg,
         OnAppendEntries(s, d, m), ~Accepts(d, m)
  PROVE  UNCHANGED <<currentTerm, leaders, log, commit, applied>> /\ Replied(s, d, m, FALSE)
<1>1. UNCHANGED <<currentTerm, leaders, log, commit, applied>>
  BY DEF OnAppendEntries
<1>2. PICK ok \in BOOLEAN : ok = Accepts(d, m)
  BY DEF Accepts
<1>3. acks' = IF m.late THEN acks ELSE BagAdd(acks,
         [to |-> s, from |-> d, sterm |-> m.term, at |-> m.at, hb |-> m.ents = << >>,
          ok |-> ok, term |-> currentTerm'[d], last |-> Len(log'[d])])
  BY <1>2, Zenon DEF OnAppendEntries
<1>4. currentTerm' \in [Server -> 0 .. MaxTerm] /\ log' \in [Server -> Logs]
  BY <1>1 DEF TInv
<1>5. Replied(s, d, m, ok)
  BY <1>3, <1>4, ReplyFacts
<1> QED
  BY <1>1, <1>2, <1>5

(* A request is handled.                                                    *)
LEMMA AppendTypes ==
  ASSUME IInv, TInv, NEW s \in Server, NEW d \in Server, NEW m \in AppendMsg,
         Ends(m) <= MaxLog, OnAppendEntries(s, d, m), chan' \in [Server -> [Server -> Seq(Msg)]]
  PROVE  TInv'
<1> USE RaftAssumption
<1>1. UNCHANGED <<now, submitted, peer, cand, paused, sends, leaderLog>>
  BY DEF OnAppendEntries, gateVars
<1>2. CASE Accepts(d, m)
  <2>1. Accepted(s, d, m) /\ m.term \in 1 .. MaxTerm /\ m.term >= currentTerm[d]
    BY <1>2, AcceptFacts DEF AppendMsg, Term, Accepts
  <2>2. /\ log' \in [Server -> Logs] /\ currentTerm' \in [Server -> 0 .. MaxTerm]
        /\ commit' \in [Server -> 0 .. MaxLog] /\ applied' \in [Server -> Seq(Entry)]
        /\ leaders' \subseteq leaders
    BY <2>1 DEF Accepted
  <2>3. DOMAIN acks' \subseteq Ack
    BY <2>1 DEF Accepted, Replied, TInv
  <2>4. \A x \in Server : currentTerm'[x] >= currentTerm[x]
    <3> SUFFICES ASSUME NEW x \in Server PROVE currentTerm'[x] >= currentTerm[x]
      OBVIOUS
    <3>1. currentTerm[x] \in Nat /\ currentTerm'[x] = IF x = d THEN m.term ELSE currentTerm[x]
      BY <2>1, TermTypes DEF Accepted
    <3>2. CASE x = d
      BY <2>1, <3>1, <3>2
    <3>3. CASE x # d
      BY <3>1, <3>3
    <3> QED
      BY <3>2, <3>3
  <2>5. \A x \in Server : cand'[x].term <= currentTerm'[x]
    <3> SUFFICES ASSUME NEW x \in Server PROVE cand'[x].term <= currentTerm'[x]
      OBVIOUS
    <3>1. /\ cand[x].term \in Nat /\ currentTerm[x] \in Nat
          /\ cand[x].term <= currentTerm[x]
      BY DEF TInv, IInv, ElectionType, Candidacy
    <3>2. currentTerm'[x] \in Nat /\ currentTerm'[x] >= currentTerm[x] /\ cand' = cand
      BY <1>1, <2>2, <2>4
    <3> QED
      BY <3>1, <3>2
  <2>6. ASSUME NEW x \in leaders' PROVE currentTerm'[x] > 0
    <3>1. x \in Server /\ currentTerm[x] > 0
      BY <2>2, StateTypes
    <3>2. currentTerm[x] \in Nat
      BY <3>1, TermTypes
    <3>3. currentTerm'[x] \in Nat
      BY <2>2, <3>1
    <3>4. currentTerm'[x] >= currentTerm[x]
      BY <2>4, <3>1
    <3> QED
      BY <3>1, <3>2, <3>3, <3>4
  <2> QED
    BY <1>1, <2>2, <2>3, <2>5, <2>6 DEF TInv
<1>3. CASE ~Accepts(d, m)
  <2>1. UNCHANGED <<currentTerm, leaders, log, commit, applied>> /\ Replied(s, d, m, FALSE)
    BY <1>3, RefuseFacts
  <2>2. DOMAIN acks' \subseteq Ack
    BY <2>1 DEF Replied, TInv
  <2> QED
    BY <1>1, <2>1, <2>2 DEF TInv
<1> QED
  BY <1>2, <1>3

(* The same request, but perhaps for whether somebody waits for its reply.  *)
SameRequest(m, k) ==
  /\ m.type = k.type /\ m.term = k.term
  /\ m.type = "Vote" => m = k
  /\ m.type = "Append" => /\ m.prev = k.prev /\ m.pterm = k.pterm /\ m.commit = k.commit
                          /\ m.ents = k.ents

(* Every connection has the same requests as before.                        *)
SameRequests ==
  \A x, y \in Server :
    /\ Len(chan'[x][y]) = Len(chan[x][y])
    /\ \A j \in 1 .. Len(chan[x][y]) : SameRequest(chan'[x][y][j], chan[x][y][j])

(* Per-follower state changes, but for next_index_ and the like.            *)
PeerMoves ==
  /\ peer' \in [Server -> [Server -> Peer]]
  /\ \A x, y \in Server : peer'[x][y].match = peer[x][y].match

(* One follower's state changes, but for its match_index_.                  *)
LEMMA PeerMoved ==
  ASSUME TInv, NEW r \in Server, NEW f \in Server, NEW p \in Peer,
         p.match = peer[r][f].match, peer' = [peer EXCEPT ![r][f] = p]
  PROVE  PeerMoves
<1>1. peer \in [Server -> [Server -> Peer]]
  BY DEF TInv
<1>2. /\ peer' \in [Server -> [Server -> Peer]]
      /\ \A x, y \in Server : peer'[x][y] = IF x = r /\ y = f THEN p ELSE peer[x][y]
  BY <1>1, PeerTyped
<1> QED
  BY <1>2 DEF PeerMoves

(* Nobody waits for the reply of one request of a connection any more.      *)
LEMMA LateQueue ==
  ASSUME NEW q \in Seq(Msg), NEW i \in 1 .. Len(q), q[i].type = "Append"
  PROVE  \E p \in Seq(Msg) : /\ p = [q EXCEPT ![i].late = TRUE] /\ Len(p) = Len(q)
                              /\ \A j \in 1 .. Len(q) : SameRequest(p[j], q[j])
<1> DEFINE k == [q[i] EXCEPT !.late = TRUE]
           p == [q EXCEPT ![i] = k]
<1>1. p = [q EXCEPT ![i].late = TRUE]
  OBVIOUS
<1>2. q[i] \in AppendMsg /\ Ends(q[i]) <= MaxLog
  BY DEF Msg, VoteMsg
<1>3. k \in AppendMsg /\ k.type = "Append" /\ SameRequest(k, q[i])
  BY <1>2 DEF AppendMsg, SameRequest
<1>4. k \in Msg
  BY <1>2, <1>3 DEF Msg, Ends, SameRequest
<1> HIDE DEF k
<1>5. p \in Seq(Msg) /\ Len(p) = Len(q) /\ p[i] = k /\ \A j \in 1 .. Len(q) : j # i => p[j] = q[j]
  BY <1>4
<1>6. \A m : SameRequest(m, m)
  BY DEF SameRequest
<1>7. \A j \in 1 .. Len(q) : SameRequest(p[j], q[j])
  BY <1>3, <1>5, <1>6
<1> QED
  BY <1>1, <1>5, <1>7

(* One request's reply is no longer waited for.                             *)
LEMMA LateFacts ==
  ASSUME TInv, NEW r \in Server, NEW f \in Server, NEW i \in DOMAIN chan[r][f],
         chan[r][f][i].type = "Append", chan' = [chan EXCEPT ![r][f][i].late = TRUE]
  PROVE  chan' \in [Server -> [Server -> Seq(Msg)]] /\ SameRequests
<1>1. PICK q \in Seq(Msg) : q = chan[r][f]
  BY DEF TInv
<1>2. i \in 1 .. Len(q) /\ q[i].type = "Append"
  BY <1>1
<1>3. PICK p \in Seq(Msg) : /\ p = [q EXCEPT ![i].late = TRUE] /\ Len(p) = Len(q)
                            /\ \A j \in 1 .. Len(q) : SameRequest(p[j], q[j])
  BY <1>2, LateQueue
<1>4. chan' = [chan EXCEPT ![r][f] = p]
  BY <1>1, <1>3
<1>5. /\ chan' \in [Server -> [Server -> Seq(Msg)]]
      /\ \A x, y \in Server : chan'[x][y] = IF x = r /\ y = f THEN p ELSE chan[x][y]
  <2>1. Replaced(r, f, p)
    BY <1>4, NewQueue, Zenon DEF SetQueue
  <2> QED
    BY <2>1, Zenon DEF Replaced
<1>6. ASSUME NEW x \in Server, NEW y \in Server
      PROVE  /\ Len(chan'[x][y]) = Len(chan[x][y])
             /\ \A j \in 1 .. Len(chan[x][y]) : SameRequest(chan'[x][y][j], chan[x][y][j])
  <2>1. CASE x = r /\ y = f
    <3>1. chan'[x][y] = p /\ chan[x][y] = q
      BY <1>1, <1>5, <2>1, Zenon
    <3> QED
      BY <1>3, <3>1
  <2>2. CASE ~(x = r /\ y = f)
    <3>1. chan'[x][y] = chan[x][y]
      BY <1>5, <2>2, Zenon
    <3> QED
      BY <3>1 DEF SameRequest
  <2> QED
    BY <2>1, <2>2
<1> QED
  BY <1>5, <1>6 DEF SameRequests

(* No reply, or one too late.                                               *)
LEMMA TimeoutFacts ==
  ASSUME TInv, NEW r \in Server, NEW f \in Server, RpcTimeout(r, f)
  PROVE  /\ chan' \in [Server -> [Server -> Seq(Msg)]] /\ SameRequests
         /\ DOMAIN acks' \subseteq DOMAIN acks /\ PeerMoves /\ sends' \in 0 .. MaxSends
         /\ UNCHANGED <<now, currentTerm, leaders, log, commit, applied, submitted, leaderLog,
                        cand, paused, led>>
<1> USE RaftAssumption
<1>1. UNCHANGED <<now, currentTerm, leaders, log, commit, applied, submitted, leaderLog, cand,
                  paused, led>>
  BY DEF RpcTimeout, logVars, gateVars
<1>2. sends' \in 0 .. MaxSends
  <2>1. sends < MaxSends /\ sends' = sends + 1 /\ sends \in 0 .. MaxSends
    BY DEF RpcTimeout, TInv
  <2> QED
    BY <2>1
<1>3. /\ chan' \in [Server -> [Server -> Seq(Msg)]] /\ SameRequests
      /\ DOMAIN acks' \subseteq DOMAIN acks
  <2>1. CASE \E i \in DOMAIN chan[r][f] : /\ chan[r][f][i].type = "Append"
                                          /\ chan' = [chan EXCEPT ![r][f][i].late = TRUE]
                                          /\ UNCHANGED acks
    BY <2>1, LateFacts
  <2>2. CASE \E a \in DOMAIN acks : TakeAck(a) /\ UNCHANGED chan
    <3>1. DOMAIN acks' \subseteq DOMAIN acks
      BY <2>2, TakeAckDomain
    <3>2. chan' = chan /\ chan \in [Server -> [Server -> Seq(Msg)]]
      BY <2>2 DEF TInv
    <3> QED
      BY <3>1, <3>2 DEF SameRequests, SameRequest
  <2>3. \/ \E i \in DOMAIN chan[r][f] : /\ chan[r][f][i].type = "Append"
                                        /\ chan' = [chan EXCEPT ![r][f][i].late = TRUE]
                                        /\ UNCHANGED acks
        \/ \E a \in DOMAIN acks : TakeAck(a) /\ UNCHANGED chan
    BY Zenon DEF RpcTimeout
  <2> QED
    BY <2>1, <2>2, <2>3
<1>4. PeerMoves
  <2> DEFINE k == [peer[r][f] EXCEPT !.sent = peer[r][f].next - 1]
             p == Landed(k)
  <2>1. peer \in [Server -> [Server -> Peer]] /\ peer[r][f] \in Peer
    BY DEF TInv
  <2>2. peer[r][f].next - 1 \in 0 .. MaxLog
    BY <2>1 DEF Peer
  <2>3. k \in Peer /\ k.match = peer[r][f].match
    BY <2>1, <2>2 DEF Peer
  <2>4. peer' = [peer EXCEPT ![r][f] = p]
    BY Zenon DEF RpcTimeout
  <2> HIDE DEF k
  <2>5. p \in Peer /\ p.match = peer[r][f].match
    BY <2>3, LandedType
  <2> HIDE DEF p
  <2> QED
    BY <2>4, <2>5, PeerMoved
<1> QED
  BY <1>1, <1>2, <1>3, <1>4

(* A reply that moves no match_index_.                                      *)
LEMMA QuietAckFacts ==
  ASSUME TInv, NEW a \in DOMAIN acks,
         AckIgnored(a) \/ AckNewerTerm(a) \/ AckRejected(a) \/ RpcError(a)
  PROVE  /\ a \in Ack /\ DOMAIN acks' \subseteq DOMAIN acks /\ PeerMoves
         /\ sends' \in 0 .. MaxSends
         /\ currentTerm' \in [Server -> 0 .. MaxTerm]
         /\ \A x \in Server : /\ currentTerm'[x] >= currentTerm[x]
                              /\ x \in leaders' => currentTerm'[x] = currentTerm[x]
         /\ leaders' \subseteq leaders
         /\ UNCHANGED <<now, log, commit, applied, submitted, leaderLog, chan, cand, paused, led>>
<1> USE RaftAssumption
<1>1. /\ a \in Ack /\ a.to \in Server /\ a.from \in Server /\ a.term \in 0 .. MaxTerm
      /\ peer[a.to][a.from] \in Peer /\ currentTerm \in [Server -> 0 .. MaxTerm]
      /\ a.sterm \in 0 .. MaxTerm
  <2>1. a \in Ack
    BY StateTypes
  <2> QED
    BY <2>1, StateTypes, AckType
<1>2. /\ UNCHANGED <<now, log, commit, applied, submitted, leaderLog, chan, cand, paused, led>>
      /\ TakeAck(a)
  BY DEF AckIgnored, AckNewerTerm, AckRejected, RpcError, logVars, gateVars
<1>3. sends' \in 0 .. MaxSends
  <2>1. sends \in 0 .. MaxSends /\ (sends' = sends \/ (sends < MaxSends /\ sends' = sends + 1))
    BY DEF AckIgnored, AckNewerTerm, AckRejected, RpcError, TInv
  <2> QED
    BY <2>1
<1>4. PeerMoves
  <2>1. CASE peer' = [peer EXCEPT ![a.to][a.from] = Landed(peer[a.to][a.from])]
    <3>1. /\ Landed(peer[a.to][a.from]) \in Peer
          /\ Landed(peer[a.to][a.from]).match = peer[a.to][a.from].match
      BY <1>1, LandedType
    <3> QED
      BY <1>1, <2>1, <3>1, PeerMoved
  <2>2. CASE peer' = [peer EXCEPT ![a.to][a.from] = Landed(Rewind(peer[a.to][a.from]))]
    <3>1. PICK p \in Peer : p = Rewind(peer[a.to][a.from])
      BY <1>1, RewindType
    <3>2. p.match = peer[a.to][a.from].match
      BY <1>1, <3>1, RewindType
    <3>3. Landed(p) \in Peer /\ Landed(p).match = peer[a.to][a.from].match
      BY <3>2, LandedType
    <3>4. peer' = [peer EXCEPT ![a.to][a.from] = Landed(p)]
      BY <2>2, <3>1
    <3> QED
      BY <1>1, <3>3, <3>4, PeerMoved
  <2>3. \/ peer' = [peer EXCEPT ![a.to][a.from] = Landed(peer[a.to][a.from])]
        \/ peer' = [peer EXCEPT ![a.to][a.from] = Landed(Rewind(peer[a.to][a.from]))]
    BY Zenon DEF AckIgnored, AckNewerTerm, AckRejected, RpcError
  <2> QED
    BY <2>1, <2>2, <2>3
<1>5. /\ currentTerm' \in [Server -> 0 .. MaxTerm]
      /\ \A x \in Server : /\ currentTerm'[x] >= currentTerm[x]
                           /\ x \in leaders' => currentTerm'[x] = currentTerm[x]
      /\ leaders' \subseteq leaders
  <2>1. CASE AckNewerTerm(a)
    <3>1. /\ currentTerm' = [currentTerm EXCEPT ![a.to] = a.term]
          /\ leaders' = leaders \ {a.to} /\ ~Ignored(a) /\ ~a.ok /\ a.term > a.sterm
      BY <2>1 DEF AckNewerTerm
    <3>2. a.term >= currentTerm[a.to]
      BY <1>1, <3>1 DEF Ignored
    <3> QED
      BY <1>1, <3>1, <3>2
  <2>2. CASE ~AckNewerTerm(a)
    <3>1. UNCHANGED <<currentTerm, leaders>>
      BY <2>2 DEF AckIgnored, AckRejected, RpcError
    <3> QED
      BY <1>1, <3>1
  <2> QED
    BY <2>1, <2>2
<1>6. DOMAIN acks' \subseteq DOMAIN acks
  BY <1>2, TakeAckDomain
<1> QED
  BY <1>1, <1>2, <1>3, <1>4, <1>5, <1>6

(* A reply that may.                                                        *)
LEMMA AcceptedAckFacts ==
  ASSUME TInv, NEW a \in DOMAIN acks, AckAccepted(a)
  PROVE  /\ a \in Ack /\ DOMAIN acks' \subseteq DOMAIN acks
         /\ currentTerm[a.to] <= a.sterm /\ a.ok
         /\ peer' \in [Server -> [Server -> Peer]]
         /\ \A x, y \in Server : x # a.to \/ y # a.from => peer'[x][y].match = peer[x][y].match
         /\ a.hb => peer'[a.to][a.from].match = peer[a.to][a.from].match
         /\ a.last <= Len(log[a.to]) =>
              peer'[a.to][a.from].match \in {peer[a.to][a.from].match, a.last}
         /\ UNCHANGED <<now, currentTerm, leaders, log, commit, applied, submitted, leaderLog,
                        chan, cand, paused, led, sends>>
<1> USE RaftAssumption
<1>1. /\ a \in Ack /\ a.to \in Server /\ a.from \in Server
      /\ peer[a.to][a.from] \in Peer /\ peer \in [Server -> [Server -> Peer]]
      /\ a.sterm \in 0 .. MaxTerm /\ currentTerm[a.to] \in 0 .. MaxTerm
      /\ Len(log[a.to]) \in 0 .. MaxLog
  <2>1. a \in Ack
    BY StateTypes
  <2>2. a.to \in Server /\ a.from \in Server /\ a.sterm \in 0 .. MaxTerm
    BY <2>1, AckType
  <2>3. log[a.to] \in Logs
    BY <2>2, StateTypes
  <2> QED
    <3>1. Len(log[a.to]) \in 0 .. MaxLog
      BY <2>3 DEF Logs
    <3>2. peer[a.to][a.from] \in Peer /\ peer \in [Server -> [Server -> Peer]]
      BY <2>2, StateTypes
    <3>3. currentTerm[a.to] \in 0 .. MaxTerm
      BY <2>2, StateTypes
    <3> QED
      BY <2>1, <2>2, <3>1, <3>2, <3>3
<1>2. /\ UNCHANGED <<now, currentTerm, leaders, log, commit, applied, submitted, leaderLog,
                     chan, cand, paused, led, sends>>
      /\ TakeAck(a) /\ a.ok /\ ~Ignored(a)
      /\ peer' = [peer EXCEPT ![a.to][a.from] =
                    Landed(Advance(peer[a.to][a.from], a, Len(log[a.to])))]
  BY DEF AckAccepted, logVars, gateVars
<1>3. PICK n \in 0 .. MaxLog : n = Len(log[a.to])
  BY <1>1
<1>4. PICK p \in Peer : p = peer[a.to][a.from]
  BY <1>1
<1>5. PICK q : q = Advance(p, a, n)
  OBVIOUS
<1>6. /\ q \in Peer
      /\ a.hb => q.match = p.match
      /\ a.last <= n => q.match \in {p.match, a.last}
  BY <1>1, <1>5, AdvanceType
<1>7. Landed(q) \in Peer /\ Landed(q).match = q.match
  BY <1>6, LandedType
<1>8. peer' = [peer EXCEPT ![a.to][a.from] = Landed(q)]
  BY <1>2, <1>3, <1>4, <1>5
<1>9. /\ peer' \in [Server -> [Server -> Peer]]
      /\ \A x, y \in Server :
           peer'[x][y] = IF x = a.to /\ y = a.from THEN Landed(q) ELSE peer[x][y]
  BY <1>1, <1>7, <1>8, PeerTyped
<1>10. currentTerm[a.to] <= a.sterm
  BY <1>1, <1>2 DEF Ignored
<1>11. DOMAIN acks' \subseteq DOMAIN acks
  BY <1>2, TakeAckDomain
<1>12. peer'[a.to][a.from].match = q.match
  BY <1>1, <1>7, <1>9
<1> QED
  BY <1>1, <1>2, <1>3, <1>4, <1>6, <1>9, <1>10, <1>11, <1>12

(* A request's reply, or its absence.                                       *)
LEMMA AckTypes ==
  ASSUME IInv, TInv, NEW a \in DOMAIN acks, HandleAck(a)
  PROVE  TInv'
<1> USE RaftAssumption
<1>1. CASE AckAccepted(a)
  <2>1. /\ a \in Ack /\ DOMAIN acks' \subseteq DOMAIN acks
        /\ peer' \in [Server -> [Server -> Peer]]
        /\ UNCHANGED <<now, currentTerm, leaders, log, commit, applied, submitted, leaderLog,
                       chan, cand, paused, led, sends>>
    BY <1>1, AcceptedAckFacts
  <2> QED
    BY <2>1 DEF TInv
<1>2. CASE ~AckAccepted(a)
  <2>1. AckIgnored(a) \/ AckNewerTerm(a) \/ AckRejected(a) \/ RpcError(a)
    BY <1>2 DEF HandleAck
  <2>2. /\ DOMAIN acks' \subseteq DOMAIN acks /\ PeerMoves
        /\ sends' \in 0 .. MaxSends
        /\ currentTerm' \in [Server -> 0 .. MaxTerm]
        /\ \A x \in Server : currentTerm'[x] >= currentTerm[x]
        /\ leaders' \subseteq leaders
        /\ UNCHANGED <<now, log, commit, applied, submitted, leaderLog, chan, cand, paused, led>>
    BY <2>1, QuietAckFacts
  <2>3. \A x \in Server : cand'[x].term <= currentTerm'[x]
    <3> SUFFICES ASSUME NEW x \in Server PROVE cand'[x].term <= currentTerm'[x]
      OBVIOUS
    <3>1. /\ cand[x].term \in Nat /\ currentTerm[x] \in Nat
          /\ cand[x].term <= currentTerm[x]
      BY DEF TInv, IInv, ElectionType, Candidacy
    <3>2. currentTerm'[x] \in Nat /\ currentTerm'[x] >= currentTerm[x] /\ cand' = cand
      BY <2>2
    <3> QED
      BY <3>1, <3>2
  <2>4. \A x \in leaders' : currentTerm'[x] > 0
    BY <2>2 DEF TInv
  <2> QED
    BY <2>2, <2>3, <2>4 DEF TInv, PeerMoves
<1> QED
  BY <1>1, <1>2

(* The types are kept by every step.                                        *)
LEMMA TInvStep == IInv /\ TInv /\ [Next]_vars => TInv'
<1> SUFFICES ASSUME IInv, TInv, [Next]_vars PROVE TInv'
  OBVIOUS
<1>1. CASE UNCHANGED vars
  BY <1>1 DEF TInv, vars, logVars, netVars, gateVars
<1>2. ASSUME NEW r \in Server, RequestVote(r) PROVE TInv'
  BY <1>2, RequestVoteTypes
<1>3. ASSUME NEW r \in Server, Win(r) PROVE TInv'
  BY <1>3, WinTypes
<1>4. ASSUME NEW r \in Server, GiveUp(r) PROVE TInv'
  BY <1>4, GiveUpTypes
<1>5. ASSUME NEW r \in Server, Demote(r) PROVE TInv'
  <2>1. /\ leaders' \subseteq leaders /\ paused' \subseteq Server
        /\ UNCHANGED <<now, currentTerm, log, commit, applied, submitted, leaderLog, peer, cand,
                       chan, acks, sends>>
    BY <1>5 DEF Demote, TInv, logVars, gateVars, netVars
  <2> QED
    BY <2>1, GateTypes
<1>6. ASSUME NEW r \in Server, AdvanceCommit(r) PROVE TInv'
  BY <1>6, AdvanceCommitTypes
<1>7. ASSUME NEW h \in Host, Failover(h) PROVE TInv'
  <2>1. paused' = paused \/ \E r \in leaders : paused' = paused \cup {r}
    BY <1>7 DEF Failover
  <2>2. /\ leaders' \subseteq leaders /\ paused' \subseteq Server
        /\ UNCHANGED <<now, currentTerm, log, commit, applied, submitted, leaderLog, peer, cand,
                       chan, acks, sends>>
    BY <1>7, <2>1 DEF Failover, TInv, logVars, netVars
  <2> QED
    BY <2>2, GateTypes
<1>8. ASSUME NEW r \in Server, NEW c \in Cmd, Start(r, c) PROVE TInv'
  BY <1>8, StartTypes
<1>9. ASSUME NEW s \in Server, NEW d \in Server, SendAppend(s, d) PROVE TInv'
  BY <1>9, SendTypes
<1>10. ASSUME NEW s \in Server, NEW d \in Server, Deliver(s, d) PROVE TInv'
  <2>1. /\ Head(chan[s][d]) \in Msg /\ chan' \in [Server -> [Server -> Seq(Msg)]]
    BY <1>10, DeliverFacts
  <2>2. PICK m \in Msg : m = Head(chan[s][d])
    BY <2>1
  <2>3. CASE m.type = "Vote" /\ OnRequestVote(s, d, m)
    <3>1. m \in VoteMsg
      BY <2>3 DEF Msg, AppendMsg
    <3> QED
      BY <2>1, <2>3, <3>1, VoteTypes
  <2>4. CASE m.type = "Append" /\ OnAppendEntries(s, d, m)
    <3>1. m \in AppendMsg /\ Ends(m) <= MaxLog
      BY <2>4 DEF Msg, VoteMsg
    <3> QED
      BY <2>1, <2>4, <3>1, AppendTypes
  <2> QED
    BY <1>10, <2>2, <2>3, <2>4 DEF Deliver
<1>11. ASSUME NEW s \in Server, NEW d \in Server, RpcTimeout(s, d) PROVE TInv'
  <2>1. /\ chan' \in [Server -> [Server -> Seq(Msg)]]
        /\ DOMAIN acks' \subseteq DOMAIN acks /\ PeerMoves /\ sends' \in 0 .. MaxSends
        /\ UNCHANGED <<now, currentTerm, leaders, log, commit, applied, submitted, leaderLog,
                       cand, paused, led>>
    BY <1>11, TimeoutFacts
  <2> QED
    BY <2>1 DEF TInv, PeerMoves
<1>12. ASSUME NEW a \in DOMAIN acks, HandleAck(a) PROVE TInv'
  BY <1>12, AckTypes
<1> QED
  BY <1>1, <1>2, <1>3, <1>4, <1>5, <1>6, <1>7, <1>8, <1>9, <1>10, <1>11, <1>12 DEF Next

(* Terms, logs and indices stay in range in every behaviour; next_index_    *)
(* never reaches 0 and in_flight_count_ never wraps.                        *)
THEOREM TypeCorrect == Spec => []TypeOK
<1>1. IInv /\ TInv => TypeOK
  <2> SUFFICES ASSUME IInv, TInv PROVE TypeOK
    OBVIOUS
  <2>1. \A r \in Server : cand[r].term \in 0 .. currentTerm[r]
    <3>1. \A r \in Server : /\ cand[r].term \in Nat /\ currentTerm[r] \in Nat
                            /\ cand[r].term <= currentTerm[r]
      BY DEF IInv, ElectionType, TInv, Candidacy
    <3> QED
      BY <3>1
  <2>2. \A r \in Server : /\ log[r] \in Seq(Entry) /\ Len(log[r]) <= MaxLog
                          /\ applied[r] \in Seq(Entry) /\ commit[r] \in 0 .. MaxLog
    BY DEF TInv, Logs
  <2>3. \A r, f \in Server : /\ peer[r][f].next \in 1 .. MaxLog + 1
                             /\ peer[r][f].match \in 0 .. MaxLog
                             /\ peer[r][f].sent \in 0 .. MaxLog
                             /\ peer[r][f].inflight \in 0 .. kMaxInFlightPerFollower
    BY StateTypes DEF Peer
  <2> QED
    BY <2>1, <2>2, <2>3 DEF TypeOK, TInv
<1> QED
  BY <1>1, IInvInit, IInvStep, TInvInit, TInvStep, PTL DEF Spec

--------------------------------------------------------------------------------
(* Common prefixes of logs.                                                 *)

(* A shorter one.                                                           *)
LEMMA AgreeLess ==
  ASSUME NEW l \in Logs, NEW k \in Logs, NEW n \in Nat, NEW m \in Nat, m <= n, Agree(l, k, n)
  PROVE  Agree(l, k, m)
<1>1. Len(l) \in Nat /\ Len(k) \in Nat
  BY DEF Logs
<1> QED
  BY <1>1 DEF Agree

(* Either way round.                                                        *)
LEMMA AgreeSym ==
  ASSUME NEW l, NEW k, NEW n, Agree(l, k, n)
  PROVE  Agree(k, l, n)
BY DEF Agree

(* From log to log.                                                         *)
LEMMA AgreeTrans ==
  ASSUME NEW l, NEW k, NEW h, NEW n, Agree(l, k, n), Agree(k, h, n)
  PROVE  Agree(l, h, n)
BY DEF Agree

(* Two majorities have a server in common.                                  *)
LEMMA MajoritiesMeet ==
  ASSUME NEW A \in SUBSET Server, NEW B \in SUBSET Server,
         Cardinality(A) > N \div 2, Cardinality(B) > N \div 2
  PROVE  \E f \in Server : f \in A /\ f \in B
<1>1. IsFiniteSet(Server)
  BY RaftAssumption
<1>2. Cardinality(A) \in Nat /\ Cardinality(B) \in Nat /\ N \in Nat
  BY <1>1, FS_Subset, FS_CardinalityType DEF N
<1>3. Cardinality(A) + Cardinality(B) > N
  BY <1>2
<1>4. A \cap B # {}
  BY <1>1, <1>3, FS_MajoritiesIntersect DEF N
<1> QED
  BY <1>4

--------------------------------------------------------------------------------
(* What the invariant says of a state.                                      *)

(* A state in which all invariants hold.                                    *)
Sound == IInv /\ TInv /\ LeadersElected /\ SInv

(* Who led a term, and who voted for it.                                    *)
LEMMA LedFacts ==
  ASSUME Sound, NEW x \in led
  PROVE  /\ x.term \in Term /\ x.by \in Server /\ x.by \in x.votes /\ x.votes \in SUBSET Server
         /\ Cardinality(x.votes) > N \div 2
         /\ \A d \in x.votes : currentTerm[d] >= x.term
         /\ currentTerm[x.by] >= x.term
<1>1. x.term \in Term /\ x.by \in x.votes
  BY DEF Sound, SInv, Roles
<1>2. x.by \in Server /\ x.votes \in SUBSET Server
  BY DEF Sound, IInv, ElectionType
<1>3. Won(x)
  BY DEF Sound, LeadersElected
<1> QED
  BY <1>1, <1>2, <1>3 DEF Sound, IInv, VoteInv, WinnersHaveMajority

(* A term has one leader.                                                   *)
LEMMA OneLed ==
  ASSUME Sound, NEW x \in led, NEW y \in led, x.term = y.term
  PROVE  x.by = y.by
BY DEF Sound, LeadersElected, IInv, VoteInv, OneWinnerPerTerm

(* A leader was elected in its term and its log is the term's.              *)
LEMMA LeaderFacts ==
  ASSUME Sound, NEW r \in leaders
  PROVE  /\ r \in Server /\ currentTerm[r] \in Term /\ log[r] = leaderLog[currentTerm[r]]
         /\ \E x \in led : x.by = r /\ x.term = currentTerm[r]
<1>1. PICK x \in led : x.by = r /\ x.term = currentTerm[r]
  BY DEF Sound, SInv, Roles
<1>2. x.term \in Term /\ x.by \in Server
  BY LedFacts
<1>3. log[r] = leaderLog[currentTerm[r]]
  BY <1>1 DEF Sound, SInv, Histories
<1> QED
  BY <1>1, <1>2, <1>3

(* The logs are logs.                                                       *)
LEMMA LogTypes ==
  ASSUME TInv
  PROVE  /\ \A r \in Server : /\ log[r] \in Logs /\ Len(log[r]) \in 0 .. MaxLog
                              /\ \A k \in 1 .. Len(log[r]) : log[r][k].term \in Term
                              /\ currentTerm[r] \in Nat /\ currentTerm[r] <= MaxTerm
                              /\ commit[r] \in Nat
         /\ \A t \in Term : /\ leaderLog[t] \in Logs /\ Len(leaderLog[t]) \in 0 .. MaxLog
                            /\ \A k \in 1 .. Len(leaderLog[t]) : leaderLog[t][k].term \in Term
<1>1. ASSUME NEW l \in Logs
      PROVE  Len(l) \in 0 .. MaxLog /\ \A k \in 1 .. Len(l) : l[k].term \in Term
  <2>1. l \in Seq(Entry) /\ Len(l) \in 0 .. MaxLog
    BY DEF Logs
  <2>2. \A k \in 1 .. Len(l) : l[k] \in Entry
    BY <2>1
  <2> QED
    BY <2>1, <2>2 DEF Entry, Term
<1>2. /\ log \in [Server -> Logs] /\ leaderLog \in [Term -> Logs]
      /\ currentTerm \in [Server -> 0 .. MaxTerm] /\ commit \in [Server -> 0 .. MaxLog]
      /\ MaxTerm \in Nat /\ MaxLog \in Nat
  BY RaftAssumption DEF TInv
<1> QED
  BY <1>1, <1>2

(* Along a leader's log terms only grow.                                    *)
LEMMA TermsGrow ==
  ASSUME Sound, NEW l \in Logs, NEW b, Traced(l, b),
         NEW i \in 1 .. Len(l), NEW j \in 1 .. Len(l), i <= j
  PROVE  l[i].term <= l[j].term
<1>1. l[j].term \in Term /\ Len(l) \in Nat
  <2>1. l \in Seq(Entry)
    BY DEF Logs
  <2>2. l[j] \in Entry
    BY <2>1
  <2> QED
    BY <2>1, <2>2 DEF Entry, Term
<1>2. PICK t \in Term : t = l[j].term
  BY <1>1
<1>3. Agree(l, leaderLog[t], j)
  BY <1>2 DEF Traced
<1>4. l[i] = leaderLog[t][i] /\ i \in 1 .. Len(leaderLog[t])
  <2>1. Len(leaderLog[t]) \in Nat
    BY LogTypes DEF Sound
  <2> QED
    BY <1>1, <1>3, <2>1 DEF Agree
<1>5. leaderLog[t][i].term <= t
  BY <1>4 DEF Sound, SInv, Histories, Traced
<1> QED
  BY <1>2, <1>4, <1>5

(* An entry's term is a term somebody led.                                  *)
LEMMA EntryLed ==
  ASSUME Sound, NEW l \in Logs, NEW b, Traced(l, b), NEW i \in 1 .. Len(l)
  PROVE  /\ l[i].term \in Term /\ l[i].term <= b /\ Agree(l, leaderLog[l[i].term], i)
         /\ \E x \in led : x.term = l[i].term
<1>1. l[i].term \in Term
  <2>1. l \in Seq(Entry)
    BY DEF Logs
  <2>2. l[i] \in Entry
    BY <2>1
  <2> QED
    BY <2>2 DEF Entry, Term
<1>2. l[i].term <= b /\ Agree(l, leaderLog[l[i].term], i)
  BY DEF Traced
<1>3. Len(leaderLog[l[i].term]) >= i /\ i >= 1
  BY <1>2 DEF Agree
<1>4. leaderLog[l[i].term] # << >>
  BY <1>3
<1> QED
  BY <1>1, <1>2, <1>4 DEF Sound, SInv, Histories

(* Two logs with entries of one term at an index agree up to it.            *)
LEMMA LogMatching ==
  ASSUME Sound, NEW l \in Logs, NEW k \in Logs, NEW b, NEW c, Traced(l, b), Traced(k, c),
         NEW i \in 1 .. Len(l), i <= Len(k), l[i].term = k[i].term
  PROVE  Agree(l, k, i)
<1>1. i \in 1 .. Len(k)
  BY DEF Logs
<1>2. Agree(l, leaderLog[l[i].term], i)
  BY EntryLed
<1>3. Agree(k, leaderLog[k[i].term], i)
  BY <1>1, EntryLed
<1>4. Agree(leaderLog[l[i].term], k, i)
  BY <1>3, AgreeSym
<1> QED
  BY <1>2, <1>4, AgreeTrans

(* A part of a traced log is traced.                                        *)
LEMMA TracedPrefix ==
  ASSUME NEW l \in Logs, NEW k \in Logs, NEW b, Traced(k, b), Agree(l, k, Len(l))
  PROVE  Traced(l, b)
<1> SUFFICES ASSUME NEW n \in 1 .. Len(l)
             PROVE  l[n].term <= b /\ Agree(l, leaderLog[l[n].term], n)
  BY DEF Traced
<1>1. l[n] = k[n] /\ n \in 1 .. Len(k) /\ n <= Len(l) /\ n \in Nat /\ Len(l) \in Nat
  BY DEF Agree, Logs
<1>2. k[n].term <= b /\ Agree(k, leaderLog[k[n].term], n)
  BY <1>1 DEF Traced
<1>3. Agree(l, k, n)
  BY <1>1, AgreeLess
<1>4. Agree(l, leaderLog[k[n].term], n)
  BY <1>2, <1>3, AgreeTrans
<1> QED
  BY <1>1, <1>2, <1>4

(* Log l is at least as up to date as k, as OnRequestVote compares them.    *)
NewerLog(l, k) ==
  LastTerm(l) > LastTerm(k) \/ (LastTerm(l) = LastTerm(k) /\ Len(l) >= Len(k))

(* A log with only terms before u, at least as up to date as one with the   *)
(* first n entries of the leader of t, has them too, unless a leader before *)
(* u did not.                                                               *)
LEMMA UpToDateHas ==
  ASSUME Sound, NEW l \in Logs, NEW k \in Logs, NEW b, NEW c, Traced(l, b), Traced(k, c),
         NewerLog(l, k), NEW u \in Nat, \A j \in 1 .. Len(l) : l[j].term < u,
         NEW t \in Term, NEW n \in 1 .. MaxLog, Agree(k, leaderLog[t], n),
         leaderLog[t][n].term = t
  PROVE  Agree(l, leaderLog[t], n) \/ Dropped(t, u - 1, n)
<1> USE RaftAssumption
<1>1. /\ Len(l) \in Nat /\ Len(k) \in Nat /\ n \in Nat /\ n <= Len(k) /\ n \in 1 .. Len(k)
      /\ k[n] = leaderLog[t][n] /\ n <= Len(leaderLog[t]) /\ t \in Nat /\ t >= 1
      /\ Len(leaderLog[t]) \in Nat /\ leaderLog[t] \in Logs
  <2>1. Len(l) \in Nat /\ Len(k) \in Nat /\ leaderLog[t] \in Logs /\ Len(leaderLog[t]) \in Nat
    BY LogTypes DEF Logs, Sound
  <2> QED
    BY <2>1 DEF Agree, Term
<1> DEFINE kt == k[Len(k)].term
           lt == l[Len(l)].term
<1>2. /\ LastTerm(k) = kt /\ kt \in Term /\ t <= kt /\ Agree(k, leaderLog[kt], Len(k))
      /\ Len(k) \in 1 .. Len(k)
  <2>1. Len(k) \in 1 .. Len(k) /\ k # << >>
    BY <1>1
  <2>2. kt \in Term /\ Agree(k, leaderLog[kt], Len(k))
    BY <2>1, EntryLed
  <2>3. k[n].term <= kt
    BY <1>1, <2>1, TermsGrow
  <2> QED
    BY <1>1, <2>1, <2>2, <2>3 DEF LastTerm
<1>3. Len(l) \in 1 .. Len(l) /\ LastTerm(l) = lt
  <2>1. l # << >>
    <3> SUFFICES ASSUME l = << >> PROVE FALSE
      OBVIOUS
    <3>1. LastTerm(l) = 0 /\ Len(l) = 0
      BY DEF LastTerm
    <3> QED
      BY <1>1, <1>2, <3>1 DEF NewerLog, Term
  <2>2. Len(l) # 0
    BY <2>1 DEF Logs
  <2> QED
    BY <1>1, <2>1, <2>2 DEF LastTerm
<1>4. /\ lt \in Term /\ Agree(l, leaderLog[lt], Len(l)) /\ lt < u
      /\ \E x \in led : x.term = lt
  BY <1>3, EntryLed
<1>5. PICK a \in Term : a = lt
  BY <1>4
<1>6. PICK e \in Term : e = kt
  BY <1>2
<1>7. /\ leaderLog[a] \in Logs /\ Len(leaderLog[a]) \in Nat /\ Agree(l, leaderLog[a], Len(l))
      /\ l[Len(l)] = leaderLog[a][Len(l)] /\ Len(l) <= Len(leaderLog[a])
  BY <1>3, <1>4, <1>5, LogTypes DEF Sound, Agree
<1>8. CASE a > e
  <2>1. CASE ~Agree(leaderLog[a], leaderLog[t], n)
    <3>1. PICK x \in led : x.term = a
      BY <1>4, <1>5
    <3>2. t < x.term /\ x.term <= u - 1
      BY <1>1, <1>2, <1>4, <1>5, <1>6, <1>8, <3>1 DEF Term
    <3> QED
      BY <2>1, <3>1, <3>2 DEF Dropped
  <2>2. CASE Agree(leaderLog[a], leaderLog[t], n)
    <3>1. n <= Len(l)
      <4> SUFFICES ASSUME n > Len(l) PROVE FALSE
        BY <1>1
      <4>1. n \in 1 .. Len(leaderLog[a]) /\ leaderLog[a][n].term = t
        BY <1>7, <2>2 DEF Agree
      <4>2. Traced(leaderLog[a], a) /\ Len(l) \in 1 .. Len(leaderLog[a]) /\ Len(l) <= n
        BY <1>1, <1>3, <1>7 DEF Sound, SInv, Histories
      <4>3. leaderLog[a][Len(l)].term <= leaderLog[a][n].term
        BY <1>7, <4>1, <4>2, TermsGrow
      <4>4. leaderLog[a][Len(l)].term = a
        BY <1>5, <1>7
      <4>5. a <= t /\ t <= e
        BY <1>2, <1>6, <4>1, <4>3, <4>4
      <4> QED
        BY <1>8, <4>5 DEF Term
    <3>2. Agree(l, leaderLog[a], n)
      BY <1>1, <1>7, <3>1, AgreeLess
    <3> QED
      BY <2>2, <3>2, AgreeTrans
  <2> QED
    BY <2>1, <2>2
<1>9. CASE ~(a > e)
  <2>1. a = e /\ Len(l) >= Len(k)
    BY <1>2, <1>3, <1>5, <1>6, <1>9 DEF NewerLog, Term
  <2>2. Agree(l, leaderLog[a], n)
    BY <1>1, <1>7, <2>1, AgreeLess
  <2>3. Agree(k, leaderLog[a], n)
    <3>1. Agree(k, leaderLog[a], Len(k))
      BY <1>2, <1>6, <2>1
    <3> QED
      BY <1>1, <1>7, <3>1, AgreeLess
  <2>4. Agree(leaderLog[a], k, n)
    BY <2>3, AgreeSym
  <2>5. Agree(l, k, n)
    BY <2>2, <2>4, AgreeTrans
  <2> QED
    BY <2>5, AgreeTrans
<1> QED
  BY <1>8, <1>9

(* A durable entry is of a term before a later leader's own, so it is       *)
(* among what a batch of that leader covers.                                *)
LEMMA DurableCovered ==
  ASSUME Sound, NEW s \in Server, NEW d \in Server, NEW m \in AppendMsg, Batch(s, d, m),
         NEW t \in Term, NEW n \in 1 .. MaxLog, t < m.term, leaderLog[t][n].term <= t,
         Agree(leaderLog[m.term], leaderLog[t], n)
  PROVE  n <= Ends(m)
<1>1. /\ m.term \in Term /\ leaderLog[m.term] \in Logs /\ Len(leaderLog[m.term]) \in Nat
      /\ Ends(m) \in Nat /\ t \in Nat /\ m.term \in Nat
  <2>1. m.term \in Term /\ m.prev \in Nat /\ Len(m.ents) \in Nat
    BY DEF AppendMsg, Logs
  <2> QED
    BY <2>1, LogTypes DEF Sound, Ends, Term
<1> SUFFICES ASSUME n > Ends(m) PROVE FALSE
  BY <1>1
<1>2. n \in Ends(m) + 1 .. Len(leaderLog[m.term])
  BY <1>1 DEF Agree
<1>3. leaderLog[m.term][n].term = m.term
  BY <1>2 DEF Batch
<1>4. leaderLog[m.term][n] = leaderLog[t][n]
  BY <1>2 DEF Agree
<1> QED
  BY <1>1, <1>3, <1>4

(* What a follower has committed is within every batch of its term or a     *)
(* later one.                                                               *)
LEMMA CommitCovered ==
  ASSUME Sound, NEW s \in Server, NEW d \in Server, NEW m \in AppendMsg, Batch(s, d, m),
         m.term >= currentTerm[d]
  PROVE  commit[d] <= Ends(m)
<1>1. /\ m.term \in Nat /\ Ends(m) \in Nat /\ currentTerm[d] \in Nat /\ commit[d] \in Nat
  <2>1. m.term \in Term /\ m.prev \in Nat /\ Len(m.ents) \in Nat
    BY DEF AppendMsg, Logs
  <2> QED
    BY <2>1, LogTypes DEF Sound, Ends, Term
<1>2. CASE m.term = currentTerm[d]
  BY <1>2 DEF Batch
<1>3. CASE m.term > currentTerm[d]
  <2>1. Safe(log[d], commit[d], currentTerm[d])
    BY DEF Sound, SInv, Committed
  <2>2. CASE commit[d] = 0
    BY <1>1, <2>2
  <2>3. CASE commit[d] # 0
    <3>1. PICK t \in Term, n \in 1 .. MaxLog :
            t <= currentTerm[d] /\ commit[d] <= n /\ Durable(t, n)
      BY <2>1, <2>3 DEF Safe
    <3>2. t < m.term /\ leaderLog[t][n].term = t
      BY <1>1, <1>3, <3>1 DEF Term, Durable
    <3>3. PICK x \in led : x.term = m.term
      BY DEF Batch
    <3>4. Agree(leaderLog[m.term], leaderLog[t], n)
      BY <3>1, <3>2, <3>3 DEF Durable
    <3>5. n <= Ends(m)
      BY <3>2, <3>4, DurableCovered DEF Term
    <3> QED
      BY <1>1, <3>1, <3>5
  <2> QED
    BY <2>2, <2>3
<1> QED
  BY <1>1, <1>2, <1>3

(* The log of a candidate that can still win has older terms only.          *)
LEMMA StandingLog ==
  ASSUME Sound, NEW l \in Logs, NEW b \in Nat, NEW u \in Nat, Traced(l, b), b <= u,
         \A x \in led : x.term # u
  PROVE  \A j \in 1 .. Len(l) : l[j].term < u
<1> SUFFICES ASSUME NEW j \in 1 .. Len(l) PROVE l[j].term < u
  OBVIOUS
<1>1. l[j].term \in Term /\ l[j].term <= b /\ \E x \in led : x.term = l[j].term
  BY EntryLed
<1> QED
  BY <1>1 DEF Term

(* Two durable prefixes are one the other's.                                *)
LEMMA DurablesAgree ==
  ASSUME Sound, NEW t \in Term, NEW u \in Term, NEW n \in 1 .. MaxLog, NEW k \in 1 .. MaxLog,
         Durable(t, n), Durable(u, k), t <= u
  PROVE  Agree(leaderLog[u], leaderLog[t], n)
<1>1. CASE t = u
  BY <1>1 DEF Durable, Agree
<1>2. CASE t # u
  <2>1. t < u
    BY <1>2 DEF Term
  <2>2. Len(leaderLog[u]) >= 1
    BY DEF Durable
  <2>3. leaderLog[u] # << >>
    BY <2>2
  <2>4. PICK x \in led : x.term = u
    BY <2>3 DEF Sound, SInv, Histories
  <2> QED
    BY <2>1, <2>4 DEF Durable
<1> QED
  BY <1>1, <1>2

(* What two servers have committed agrees.                                  *)
LEMMA SafeAgree ==
  ASSUME Sound, NEW l \in Logs, NEW k \in Logs, NEW i \in Nat, NEW j \in Nat, NEW b, NEW c,
         Safe(l, i, b), Safe(k, j, c), NEW n \in Nat, n >= 1, n <= i, n <= j
  PROVE  l[n] = k[n]
<1> USE RaftAssumption
<1>1. PICK t \in Term, v \in 1 .. MaxLog :
        i <= v /\ Durable(t, v) /\ Agree(l, leaderLog[t], i)
  BY DEF Safe
<1>2. PICK u \in Term, w \in 1 .. MaxLog :
        j <= w /\ Durable(u, w) /\ Agree(k, leaderLog[u], j)
  BY DEF Safe
<1>3. l[n] = leaderLog[t][n] /\ k[n] = leaderLog[u][n] /\ n \in 1 .. v /\ n \in 1 .. w
  BY <1>1, <1>2 DEF Agree
<1>4. CASE t <= u
  <2>1. Agree(leaderLog[u], leaderLog[t], v)
    BY <1>1, <1>2, <1>4, DurablesAgree
  <2> QED
    BY <1>3, <2>1 DEF Agree
<1>5. CASE u <= t
  <2>1. Agree(leaderLog[t], leaderLog[u], w)
    BY <1>1, <1>2, <1>5, DurablesAgree
  <2> QED
    BY <1>3, <2>1 DEF Agree
<1> QED
  BY <1>4, <1>5 DEF Term

(* Servers apply one order.                                                 *)
LEMMA SoundSafe ==
  ASSUME Sound
  PROVE  \A r, q \in Server : \A i \in 1 .. MinOf(Len(applied[r]), Len(applied[q])) :
           applied[r][i] = applied[q][i]
<1>1. ASSUME NEW r \in Server
      PROVE  /\ Len(applied[r]) = commit[r] /\ commit[r] \in Nat /\ log[r] \in Logs
             /\ Safe(log[r], commit[r], currentTerm[r])
             /\ \A i \in 1 .. commit[r] : applied[r][i] = log[r][i]
  <2>1. /\ commit[r] <= Len(log[r]) /\ Safe(log[r], commit[r], currentTerm[r])
        /\ applied[r] = SubSeq(log[r], 1, commit[r])
    BY DEF Sound, SInv, Committed
  <2>2. commit[r] \in Nat /\ log[r] \in Logs
    BY LogTypes DEF Sound
  <2>3. PICK l \in Logs, c \in Nat : l = log[r] /\ c = commit[r]
    BY <2>2
  <2>4. c <= Len(l) /\ 1 \in Nat /\ 1 >= 1
    BY <2>1, <2>3
  <2>5. /\ Len(SubSeq(l, 1, c)) = IF 1 <= c THEN c - 1 + 1 ELSE 0
        /\ \A k \in 1 .. Len(SubSeq(l, 1, c)) : SubSeq(l, 1, c)[k] = l[1 + k - 1]
    BY <2>4, SubLog
  <2>6. Len(SubSeq(l, 1, c)) = c /\ \A k \in 1 .. c : SubSeq(l, 1, c)[k] = l[k]
    BY <2>5
  <2> QED
    BY <2>1, <2>2, <2>3, <2>6
<1> SUFFICES ASSUME NEW r \in Server, NEW q \in Server,
                    NEW i \in 1 .. MinOf(Len(applied[r]), Len(applied[q]))
             PROVE  applied[r][i] = applied[q][i]
  OBVIOUS
<1>2. i \in Nat /\ i >= 1 /\ i <= commit[r] /\ i <= commit[q]
  BY <1>1 DEF MinOf
<1>3. log[r][i] = log[q][i]
  BY <1>1, <1>2, SafeAgree
<1>4. i \in 1 .. commit[r] /\ i \in 1 .. commit[q]
  BY <1>1, <1>2
<1> QED
  BY <1>1, <1>3, <1>4

(* match_index_ counts entries the follower has.                            *)
LEMMA SoundMatch ==
  ASSUME Sound, NEW r \in leaders, NEW f \in Follower(r), currentTerm[f] <= currentTerm[r],
         NEW i \in 1 .. peer[r][f].match
  PROVE  i <= Len(log[f]) /\ i <= Len(log[r]) /\ log[f][i] = log[r][i]
<1> USE RaftAssumption
<1> DEFINE t == currentTerm[r]
<1>1. r \in Server /\ t \in Term /\ log[r] = leaderLog[t]
  BY LeaderFacts
<1>2. PICK x \in led : x.by = r /\ x.term = t
  BY LeaderFacts
<1>3. f \in Server /\ f # r /\ peer[r][f].match \in 0 .. MaxLog
  BY <1>1 DEF Follower, Sound, TInv, Peer
<1>4. PICK n \in 1 .. MaxLog : n = peer[r][f].match /\ i \in 1 .. n
  BY <1>3
<1>5. Acked(f, t, n)
  BY <1>2, <1>3, <1>4 DEF Acked
<1> HIDE DEF t
<1>6. Evidence(f, t, n)
  BY <1>1, <1>3, <1>5 DEF Sound, SInv, Counted
<1>7. currentTerm[f] \in Nat /\ t \in Nat
  BY <1>1, <1>3, LogTypes DEF Sound, Term
<1>8. ~Dropped(t, currentTerm[f], i)
  <2>1. currentTerm[f] <= t /\ \A y \in led : y.term \in Nat
    BY LedFacts DEF t, Term
  <2> QED
    BY <1>7, <2>1 DEF Dropped
<1>9. Agree(log[f], leaderLog[t], i)
  BY <1>4, <1>6, <1>8 DEF Evidence
<1>10. i \in 1 .. i
  BY <1>4
<1> QED
  BY <1>1, <1>9, <1>10 DEF Agree

(* Nothing was sent, counted or committed at the start.                     *)
LEMMA SInvInit == Init => SInv
<1> SUFFICES ASSUME Init PROVE SInv
  OBVIOUS
<1> USE RaftAssumption
<1>1. /\ led = {} /\ leaders = {} /\ DOMAIN acks = {}
      /\ \A s, d \in Server : chan[s][d] = << >>
      /\ \A r \in Server : log[r] = << >> /\ applied[r] = << >> /\ commit[r] = 0
      /\ \A t \in Term : leaderLog[t] = << >>
      /\ \A r \in Server : ~Running(r)
  BY DEF Init, Term, Running
<1>2. Histories
  BY <1>1 DEF Histories, Traced
<1>3. Roles
  BY <1>1 DEF Roles
<1>4. Requested
  BY <1>1 DEF Requested, Ordered
<1>5. Counted
  BY <1>1 DEF Counted, Acked, Standing
<1>6. Committed
  <2>1. SubSeq(<< >>, 1, 0) = << >> /\ Len(<< >>) = 0
    OBVIOUS
  <2> SUFFICES ASSUME NEW r \in Server
               PROVE  /\ commit[r] <= Len(log[r])
                      /\ Safe(log[r], commit[r], currentTerm[r])
                      /\ applied[r] = SubSeq(log[r], 1, commit[r])
    BY DEF Committed
  <2>2. commit[r] = 0 /\ log[r] = << >> /\ applied[r] = << >>
    BY <1>1
  <2>3. Safe(log[r], commit[r], currentTerm[r])
    BY <2>2 DEF Safe
  <2> QED
    BY <2>1, <2>2, <2>3
<1> QED
  BY <1>2, <1>3, <1>4, <1>5, <1>6 DEF SInv

--------------------------------------------------------------------------------
(* Leaders' logs grow, and what is durable stays so.                        *)

(* A leader's log is only appended to.                                      *)
LogsGrow == \A t \in Term : Agree(leaderLog'[t], leaderLog[t], Len(leaderLog[t]))

(* A durable entry stays durable.                                           *)
DurableKept == \A t \in Term, n \in 1 .. MaxLog : Durable(t, n) => Durable(t, n)'

(* A prefix of a leader's log stays one.                                    *)
LEMMA GrowAgree ==
  ASSUME TInv, TInv', LogsGrow, NEW t \in Term, NEW l, NEW n \in Nat, Agree(l, leaderLog[t], n)
  PROVE  Agree(l, leaderLog'[t], n)
<1>1. /\ Len(leaderLog[t]) \in Nat /\ Len(leaderLog'[t]) \in Nat
      /\ leaderLog[t] \in Logs /\ leaderLog'[t] \in Logs
  BY DEF TInv, Logs
<1>2. n <= Len(leaderLog[t])
  BY DEF Agree
<1>3. Agree(leaderLog'[t], leaderLog[t], n)
  BY <1>1, <1>2, AgreeLess DEF LogsGrow
<1>4. Agree(leaderLog[t], leaderLog'[t], n)
  BY <1>3, AgreeSym
<1> QED
  BY <1>4, AgreeTrans

(* A safe prefix stays safe, in any log that has it and in later terms.     *)
LEMMA SafeKept ==
  ASSUME TInv, TInv', LogsGrow, DurableKept, NEW l \in Logs, NEW p \in Logs, NEW k \in Nat,
         NEW b \in Nat, NEW c \in Nat, b <= c, Agree(p, l, k), Safe(l, k, b)
  PROVE  Safe(p, k, c)'
<1>1. CASE k = 0
  BY <1>1 DEF Safe
<1>2. CASE k # 0
  <2>1. PICK t \in Term, n \in 1 .. MaxLog :
          t <= b /\ k <= n /\ Durable(t, n) /\ Agree(l, leaderLog[t], k)
    BY <1>2 DEF Safe
  <2>2. Durable(t, n)'
    BY <2>1 DEF DurableKept
  <2>3. Agree(p, leaderLog[t], k)
    BY <2>1, AgreeTrans
  <2>4. Agree(p, leaderLog'[t], k)
    BY <2>3, GrowAgree
  <2>5. t <= c
    BY <2>1 DEF Term
  <2> QED
    BY <2>1, <2>2, <2>4, <2>5 DEF Safe
<1> QED
  BY <1>1, <1>2

(* A leader stays the term's first.                                         *)
LEMMA StillLed ==
  ASSUME Sound, \A x \in Server : currentTerm'[x] >= currentTerm[x], TInv',
         NEW x \in led, currentTerm'[x.by] = x.term
  PROVE  currentTerm[x.by] = x.term
<1>1. x.by \in Server /\ currentTerm[x.by] >= x.term /\ x.term \in Term
  BY LedFacts
<1>2. currentTerm[x.by] \in Nat
  BY <1>1, LogTypes DEF Sound
<1> QED
  BY <1>1, <1>2 DEF Term

--------------------------------------------------------------------------------
(* Steps that change no log and no commitIndex.                             *)

(* A vote f gave c before the step.                                         *)
KeptVote(c, f) == Standing(c) /\ cand'[c].term = cand[c].term /\ f \in Votes(c)

(* A vote f gives c in the step.                                            *)
NewVote(c, f) == currentTerm[f] < cand'[c].term /\ NewerLog(log[c], log[f])

(* A vote request with the candidate's own log.                             *)
OwnVote(s, m) ==
  /\ m.type = "Vote" /\ m.term <= currentTerm'[s]
  /\ m.last = Len(log[s]) /\ m.lterm = LastTerm(log[s])

(* The step's requests are old ones and requests for votes.                 *)
QuietChan ==
  \A s, d \in Server :
    /\ Ordered(chan'[s][d])
    /\ \A j \in 1 .. Len(chan'[s][d]) :
         \/ \E i \in 1 .. Len(chan[s][d]) : SameRequest(chan'[s][d][j], chan[s][d][i])
         \/ OwnVote(s, chan'[s][d][j])

(* It acknowledges nothing new.                                             *)
QuietAcks ==
  /\ \A a \in DOMAIN acks' : \/ a \in DOMAIN acks
                             \/ a.to # a.from /\ \E x \in led : x.by = a.to /\ x.term = a.sterm
  /\ \A f \in Server, t \in Term, i \in 1 .. MaxLog : Acked(f, t, i)' => Acked(f, t, i)

(* Candidates go on, or begin in a new term.                                *)
QuietVotes ==
  \A c \in Server :
    /\ Running(c)' => \/ Running(c) /\ cand'[c].term = cand[c].term
                      \/ c \notin leaders /\ currentTerm[c] < cand'[c].term
    /\ Standing(c)' => \A f \in Votes(c)' : f \in Server /\ (KeptVote(c, f) \/ NewVote(c, f))

(* The step changes no log, no commitIndex and no history.                  *)
Quiet ==
  /\ UNCHANGED <<log, leaderLog, led, commit, applied>>
  /\ \A x \in Server : currentTerm'[x] >= currentTerm[x]
  /\ leaders' \subseteq leaders /\ \A r \in leaders' : currentTerm'[r] = currentTerm[r]
  /\ QuietVotes /\ QuietChan /\ QuietAcks

(* Whom a server votes for anew has what the server holds, unless a leader  *)
(* in between did not.                                                      *)
LEMMA NewVoteHas ==
  ASSUME Sound, IInv', TInv', Quiet, NEW c \in Server, NEW f \in Server, Standing(c)',
         NewVote(c, f), NEW t \in Term, NEW n \in 1 .. MaxLog, Agree(log[f], leaderLog[t], n),
         leaderLog[t][n].term = t
  PROVE  Agree(log[c], leaderLog[t], n) \/ Dropped(t, cand'[c].term - 1, n)
<1>1. PICK u \in Nat : u = cand'[c].term
  BY DEF IInv, ElectionType, Candidacy
<1>2. /\ log[c] \in Logs /\ log[f] \in Logs /\ currentTerm[c] \in Nat /\ currentTerm[f] \in Nat
      /\ Traced(log[c], currentTerm[c]) /\ Traced(log[f], currentTerm[f])
  BY LogTypes DEF Sound, SInv, Histories
<1>3. currentTerm[c] <= u /\ \A x \in led : x.term # u
  <2>1. currentTerm'[c] = u /\ \A x \in led' : x.term # u
    BY <1>1 DEF Standing
  <2> QED
    BY <2>1 DEF Quiet
<1>4. \A j \in 1 .. Len(log[c]) : log[c][j].term < u
  BY <1>2, <1>3, StandingLog
<1>5. NewerLog(log[c], log[f])
  BY DEF NewVote
<1> QED
  BY <1>1, <1>2, <1>4, <1>5, UpToDateHas

(* Connections get no shorter batches.                                      *)
LEMMA QuietNoneShorter ==
  ASSUME QuietChan, NEW f \in Server, NEW t, NEW n, NoneShorter(f, t, n)
  PROVE  NoneShorter(f, t, n)'
<1> SUFFICES ASSUME NEW s \in Server, NEW j \in 1 .. Len(chan'[s][f]),
                    chan'[s][f][j].type = "Append", chan'[s][f][j].term = t
             PROVE  Ends(chan'[s][f][j]) >= n
  BY DEF NoneShorter
<1>1. PICK i \in 1 .. Len(chan[s][f]) : SameRequest(chan'[s][f][j], chan[s][f][i])
  BY DEF QuietChan, OwnVote
<1>2. /\ chan[s][f][i].type = "Append" /\ chan[s][f][i].term = t
      /\ Ends(chan'[s][f][j]) = Ends(chan[s][f][i])
  BY <1>1 DEF SameRequest, Ends
<1> QED
  BY <1>2 DEF NoneShorter

(* What is durable stays so.                                                *)
LEMMA QuietDurable ==
  ASSUME Sound, IInv', TInv', Quiet
  PROVE  DurableKept
<1> USE RaftAssumption
<1> SUFFICES ASSUME NEW t \in Term, NEW n \in 1 .. MaxLog, Durable(t, n)
             PROVE  Durable(t, n)'
  BY DEF DurableKept
<1>1. leaderLog' = leaderLog /\ led' = led /\ log' = log
  BY DEF Quiet
<1>2. leaderLog[t][n].term = t
  BY DEF Durable
<1>3. ASSUME NEW u PROVE ~Dropped(t, u, n)
  BY DEF Durable, Dropped
<1>4. ASSUME NEW f \in Server, Holds(f, t, n)
      PROVE  Holds(f, t, n)'
  <2>1. Agree(log[f], leaderLog[t], n) /\ NoneShorter(f, t, n) /\ currentTerm[f] >= t
    BY <1>4 DEF Holds
  <2>2. NoneShorter(f, t, n)'
    BY <2>1, QuietNoneShorter DEF Quiet
  <2>3. currentTerm'[f] >= t
    <3>1. currentTerm'[f] >= currentTerm[f] /\ currentTerm'[f] \in Nat /\ currentTerm[f] \in Nat
      BY DEF Quiet, Sound, TInv
    <3> QED
      BY <2>1, <3>1 DEF Term
  <2>4. ASSUME NEW c \in Server, Standing(c)', cand'[c].term > t, f \in Votes(c)'
        PROVE  Agree(log[c], leaderLog[t], n)
    <3>1. KeptVote(c, f) \/ NewVote(c, f)
      BY <2>4 DEF Quiet, QuietVotes
    <3>2. CASE KeptVote(c, f)
      BY <1>4, <2>4, <3>2 DEF KeptVote, Holds
    <3>3. CASE NewVote(c, f)
      BY <1>2, <1>3, <2>1, <2>4, <3>3, NewVoteHas
    <3> QED
      BY <3>1, <3>2, <3>3
  <2> QED
    BY <1>1, <2>1, <2>2, <2>3, <2>4 DEF Holds
<1>5. PICK Q \in SUBSET Server : Cardinality(Q) > N \div 2 /\ \A f \in Q : Holds(f, t, n)
  BY DEF Durable
<1>6. \A f \in Q : Holds(f, t, n)'
  BY <1>4, <1>5
<1> QED
  BY <1>1, <1>5, <1>6 DEF Durable

(* Histories and roles.                                                     *)
LEMMA QuietRoles ==
  ASSUME Sound, IInv', TInv', Quiet
  PROVE  Histories' /\ Roles'
<1> USE RaftAssumption
<1>1. /\ leaderLog' = leaderLog /\ led' = led /\ log' = log
      /\ leaders' \subseteq leaders /\ \A r \in leaders' : currentTerm'[r] = currentTerm[r]
      /\ \A x \in Server : currentTerm'[x] >= currentTerm[x]
  BY DEF Quiet
<1>2. Histories /\ Roles
  BY DEF Sound, SInv
<1>3. Histories'
  <2>1. \A t \in Term : /\ Traced(leaderLog[t], t)'
                        /\ leaderLog'[t] # << >> => \E x \in led' : x.term = t
    BY <1>1, <1>2 DEF Histories, Traced
  <2>2. ASSUME NEW r \in Server
        PROVE  Traced(log[r], currentTerm[r])'
    <3>1. Traced(log[r], currentTerm[r])
      BY <1>2 DEF Histories
    <3> SUFFICES ASSUME NEW n \in 1 .. Len(log[r])
                 PROVE  /\ log[r][n].term <= currentTerm'[r]
                        /\ Agree(log[r], leaderLog[log[r][n].term], n)
      BY <1>1 DEF Traced
    <3>2. log[r][n].term <= currentTerm[r] /\ Agree(log[r], leaderLog[log[r][n].term], n)
      BY <3>1 DEF Traced
    <3>3. log[r][n].term \in Nat /\ currentTerm[r] \in Nat /\ currentTerm'[r] \in Nat
      <4>1. log[r][n].term \in Term /\ currentTerm[r] \in Nat
        BY LogTypes DEF Sound
      <4>2. currentTerm'[r] \in Nat
        BY DEF TInv
      <4> QED
        BY <4>1, <4>2 DEF Term
    <3> QED
      BY <1>1, <3>2, <3>3
  <2>3. ASSUME NEW x \in led', currentTerm'[x.by] = x.term
        PROVE  log'[x.by] = leaderLog'[x.term]
    <3>1. currentTerm[x.by] = x.term
      BY <1>1, <2>3, StillLed
    <3> QED
      BY <1>1, <1>2, <2>3, <3>1 DEF Histories
  <2> QED
    BY <2>1, <2>2, <2>3 DEF Histories
<1>4. Roles'
  <2>1. \A r \in leaders' : \E x \in led' : x.by = r /\ x.term = currentTerm'[r]
    BY <1>1, <1>2 DEF Roles
  <2>2. \A x \in led' : x.term \in Term /\ x.by \in x.votes
    BY <1>1, <1>2 DEF Roles
  <2>3. ASSUME NEW r \in Server, Running(r)'
        PROVE  r \notin leaders' /\ \A x \in led' : x.by = r => x.term < cand'[r].term
    <3>1. CASE Running(r) /\ cand'[r].term = cand[r].term
      BY <1>1, <1>2, <3>1 DEF Roles
    <3>2. CASE r \notin leaders /\ currentTerm[r] < cand'[r].term
      <4>1. r \notin leaders'
        BY <1>1, <3>2
      <4>2. cand'[r].term \in Nat /\ currentTerm[r] \in Nat
        BY DEF IInv, ElectionType, Candidacy, Sound
      <4>3. ASSUME NEW x \in led', x.by = r
            PROVE  x.term < cand'[r].term
        <5>1. currentTerm[r] >= x.term /\ x.term \in Term
          BY <1>1, <4>3, LedFacts
        <5> QED
          BY <3>2, <4>2, <5>1 DEF Term
      <4> QED
        BY <4>1, <4>3
    <3> QED
      BY <2>3, <3>1, <3>2 DEF Quiet, QuietVotes
  <2> QED
    BY <2>1, <2>2, <2>3 DEF Roles
<1> QED
  BY <1>3, <1>4

(* Every request of a connection is as it was, or asks for a vote.          *)
LEMMA QuietRequested ==
  ASSUME Sound, IInv', TInv', Quiet
  PROVE  Requested'
<1> USE RaftAssumption
<1>1. /\ leaderLog' = leaderLog /\ led' = led /\ log' = log /\ commit' = commit
      /\ \A x \in Server : currentTerm'[x] >= currentTerm[x]
  BY DEF Quiet
<1>2. DurableKept /\ TInv
  BY QuietDurable DEF Sound
<1>3. LogsGrow
  BY <1>1, LogTypes DEF LogsGrow, Agree, Sound
<1>4. Requested
  BY DEF Sound, SInv
<1>5. ASSUME NEW s \in Server, NEW d \in Server, NEW j \in 1 .. Len(chan'[s][d]),
             chan'[s][d][j].type = "Append"
      PROVE  Batch(s, d, chan[s][d][j])'
  <2>1. PICK k \in Msg : k = chan'[s][d][j]
    BY DEF TInv
  <2>2. PICK i \in 1 .. Len(chan[s][d]) : SameRequest(k, chan[s][d][i])
    BY <1>5, <2>1 DEF Quiet, QuietChan, OwnVote
  <2>3. PICK m \in Msg : m = chan[s][d][i]
    <3>1. chan[s][d] \in Seq(Msg)
      BY DEF Sound, TInv
    <3> QED
      BY <3>1
  <2>4. /\ m.type = "Append" /\ m \in AppendMsg /\ k \in AppendMsg
        /\ k.term = m.term /\ k.prev = m.prev /\ k.pterm = m.pterm
        /\ k.commit = m.commit /\ k.ents = m.ents /\ Ends(k) = Ends(m)
    BY <1>5, <2>1, <2>2, <2>3 DEF SameRequest, Ends, Msg, VoteMsg
  <2>5. Batch(s, d, m)
    BY <1>4, <2>3, <2>4 DEF Requested
  <2>6. /\ m.term \in Term /\ m.term \in Nat /\ m.commit \in Nat
        /\ leaderLog[m.term] \in Logs /\ Ends(m) \in Nat
        /\ m.commit <= Len(leaderLog[m.term])
    <3>1. m.term \in Term /\ m.commit \in Nat /\ m.prev \in Nat /\ Len(m.ents) \in Nat
      BY <2>4 DEF AppendMsg, Logs
    <3>2. leaderLog[m.term] \in Logs /\ Len(leaderLog[m.term]) \in Nat
      BY <1>2, <3>1, LogTypes
    <3> QED
      BY <2>5, <3>1, <3>2 DEF Batch, Term, Ends
  <2>7. Safe(leaderLog[m.term], m.commit, m.term)
    BY <2>5 DEF Batch
  <2>8. PICK l \in Logs, n \in Nat, t \in Term :
          l = leaderLog[m.term] /\ n = m.commit /\ t = m.term
    BY <2>6
  <2>9. Agree(l, l, n) /\ t \in Nat /\ t <= t
    BY <2>6, <2>8 DEF Agree
  <2>10. Safe(l, n, t)
    BY <2>7, <2>8
  <2>11. Safe(l, n, t)'
    BY <1>2, <1>3, <2>9, <2>10, SafeKept
  <2>12. m.term = currentTerm'[d] => commit[d] <= Ends(m)
    <3> SUFFICES ASSUME m.term = currentTerm'[d] PROVE commit[d] <= Ends(m)
      OBVIOUS
    <3>1. m.term >= currentTerm[d]
      BY <1>1
    <3> QED
      BY <2>4, <2>5, <3>1, CommitCovered
  <2>13. Batch(s, d, k)'
    <3>1. Safe(leaderLog[k.term], k.commit, k.term)'
      BY <1>1, <2>4, <2>8, <2>11 DEF Safe
    <3>2. /\ s # d /\ (\E x \in led : x.by = s /\ x.term = m.term)
          /\ Ends(m) <= Len(l) /\ (\A h \in 1 .. Len(m.ents) : m.ents[h] = l[m.prev + h])
          /\ (m.prev > 0 => m.pterm = l[m.prev].term)
          /\ (\A h \in Ends(m) + 1 .. Len(l) : l[h].term = m.term)
          /\ m.commit <= Ends(m)
      BY <2>5, <2>8 DEF Batch
    <3>3. leaderLog'[k.term] = l
      BY <1>1, <2>4, <2>8
    <3> QED
      BY <1>1, <2>4, <2>12, <3>1, <3>2, <3>3 DEF Batch
  <2> QED
    BY <2>1, <2>13
<1>6. ASSUME NEW s \in Server, NEW d \in Server, NEW j \in 1 .. Len(chan'[s][d]),
             chan'[s][d][j].type = "Vote"
      PROVE  Ask(s, chan[s][d][j])'
  <2>1. PICK k \in Msg : k = chan'[s][d][j]
    BY DEF TInv
  <2>2. CASE OwnVote(s, k)
    BY <1>1, <2>1, <2>2 DEF OwnVote, Ask
  <2>3. CASE \E i \in 1 .. Len(chan[s][d]) : SameRequest(k, chan[s][d][i])
    <3>1. PICK i \in 1 .. Len(chan[s][d]) : k = chan[s][d][i]
      BY <1>6, <2>1, <2>3 DEF SameRequest
    <3>2. Ask(s, k)
      BY <1>4, <1>6, <2>1, <3>1 DEF Requested
    <3>3. /\ k.term \in Nat /\ currentTerm[s] \in Nat /\ currentTerm'[s] \in Nat
          /\ currentTerm'[s] >= currentTerm[s] /\ k.term <= currentTerm[s]
      <4>1. k.term \in Nat
        BY <2>1 DEF Msg, VoteMsg, AppendMsg, Term
      <4>2. currentTerm[s] \in Nat /\ currentTerm'[s] \in Nat
        BY DEF TInv, Sound
      <4>3. k.term <= currentTerm[s]
        BY <3>2 DEF Ask
      <4> QED
        BY <1>1, <4>1, <4>2, <4>3
    <3>4. ASSUME Standing(s)', k.term = cand'[s].term
          PROVE  k.last = Len(log[s]) /\ k.lterm = LastTerm(log[s])
      <4>1. Running(s) /\ cand'[s].term = cand[s].term
        BY <3>3, <3>4 DEF Quiet, QuietVotes, Standing
      <4>2. currentTerm[s] = cand[s].term
        BY <3>3, <3>4, <4>1 DEF Standing
      <4>3. Standing(s)
        BY <1>1, <3>4, <4>1, <4>2 DEF Standing
      <4> QED
        BY <3>2, <3>4, <4>1, <4>3 DEF Ask
    <3>5. k.term <= currentTerm'[s]
      BY <3>3
    <3> QED
      BY <1>1, <2>1, <3>4, <3>5 DEF Ask
  <2> QED
    BY <2>1, <2>2, <2>3 DEF Quiet, QuietChan
<1>7. \A s, d \in Server : Ordered(chan[s][d])'
  BY DEF Quiet, QuietChan, Ordered, Ends
<1> QED
  BY <1>5, <1>6, <1>7 DEF Requested

(* The counts of followers.                                                 *)
LEMMA QuietCounted ==
  ASSUME Sound, IInv', TInv', Quiet
  PROVE  Counted'
<1> USE RaftAssumption
<1>1. /\ leaderLog' = leaderLog /\ led' = led /\ log' = log
      /\ \A x \in Server : currentTerm'[x] >= currentTerm[x]
      /\ \A f \in Server, t \in Term, i \in 1 .. MaxLog : Acked(f, t, i)' => Acked(f, t, i)
  BY DEF Quiet, QuietAcks
<1>2. Counted
  BY DEF Sound, SInv
<1>3. \A x \in led : x.term \in Nat
  BY LedFacts DEF Term
<1>4. \A a \in DOMAIN acks' : a.to # a.from /\ \E x \in led' : x.by = a.to /\ x.term = a.sterm
  BY <1>1, <1>2 DEF Quiet, QuietAcks, Counted
<1>5. ASSUME NEW f \in Server, NEW t \in Term, NEW i \in 1 .. MaxLog, Acked(f, t, i)'
      PROVE  Evidence(f, t, i)'
  <2>1. Evidence(f, t, i)
    BY <1>1, <1>2, <1>5 DEF Counted
  <2>2. NoneShorter(f, t, i)'
    BY <2>1, QuietNoneShorter DEF Evidence, Quiet
  <2>3. currentTerm[f] \in Nat /\ currentTerm'[f] \in Nat /\ currentTerm'[f] >= currentTerm[f]
        /\ t \in Nat
    BY <1>1 DEF Sound, TInv, Term
  <2>4. ASSUME NEW n \in 1 .. i, Dropped(t, currentTerm[f], n)
        PROVE  Dropped(t, currentTerm[f], n)'
    BY <1>1, <1>3, <2>3, <2>4 DEF Dropped
  <2> QED
    BY <1>1, <2>1, <2>2, <2>3, <2>4 DEF Evidence
<1>6. ASSUME NEW f \in Server, NEW l, NEW u, Passed(f, l, u)
      PROVE  Passed(f, l, u)'
  BY <1>1, <1>6 DEF Passed, Dropped
<1>7. ASSUME NEW c \in Server, Standing(c)', NEW f \in Votes(c)'
      PROVE  Passed(f, log[c], cand[c].term)'
  <2>0. f \in Server /\ (KeptVote(c, f) \/ NewVote(c, f))
    BY <1>7 DEF Quiet, QuietVotes
  <2>1. PICK l, u : l = log[c] /\ u = cand'[c].term
    OBVIOUS
  <2>2. CASE KeptVote(c, f)
    <3>1. Passed(f, l, u)
      BY <1>2, <2>1, <2>2 DEF KeptVote, Counted
    <3>2. Passed(f, l, u)'
      BY <1>6, <2>0, <3>1
    <3> QED
      BY <1>1, <2>1, <3>2 DEF Passed
  <2>3. CASE NewVote(c, f)
    <3>0. u \in Nat /\ currentTerm[f] \in Nat /\ currentTerm[f] <= u - 1
      <4>1. u \in Nat
        BY <2>1 DEF IInv, ElectionType, Candidacy
      <4>2. currentTerm[f] \in Nat
        BY <2>0 DEF Sound, TInv
      <4> QED
        BY <2>1, <2>3, <4>1, <4>2 DEF NewVote
    <3>1. ASSUME NEW t \in Term, NEW i \in 1 .. MaxLog, Acked(f, t, i), NEW n \in 1 .. i,
                 leaderLog[t][n].term = t
          PROVE  Agree(l, leaderLog[t], n) \/ Dropped(t, u - 1, n)
      <4>1. Evidence(f, t, i)
        BY <1>2, <2>0, <3>1 DEF Counted
      <4>2. CASE Agree(log[f], leaderLog[t], n)
        <5>1. n \in 1 .. MaxLog
          OBVIOUS
        <5> QED
          BY <1>7, <2>0, <2>1, <2>3, <3>1, <4>2, <5>1, NewVoteHas
      <4>3. CASE Dropped(t, currentTerm[f], n)
        BY <1>3, <3>0, <4>3 DEF Dropped
      <4> QED
        BY <4>1, <4>2, <4>3 DEF Evidence
    <3>2. Passed(f, l, u)
      BY <3>1 DEF Passed
    <3>3. Passed(f, l, u)'
      BY <1>6, <2>0, <3>2
    <3> QED
      BY <1>1, <2>1, <3>3 DEF Passed
  <2> QED
    BY <2>0, <2>2, <2>3
<1>8. ASSUME NEW x \in led', NEW f \in x.votes
      PROVE  Passed(f, leaderLog[x.term], x.term)'
  <2>1. x \in led /\ f \in Server
    BY <1>1, <1>8, LedFacts
  <2>2. PICK l, u : l = leaderLog[x.term] /\ u = x.term
    OBVIOUS
  <2>3. Passed(f, l, u)
    BY <1>2, <1>8, <2>1, <2>2 DEF Counted
  <2>4. Passed(f, l, u)'
    BY <1>6, <2>1, <2>3
  <2> QED
    BY <1>1, <2>2, <2>4 DEF Passed
<1> QED
  BY <1>4, <1>5, <1>7, <1>8 DEF Counted

(* Nothing durable is lost when terms rise and votes are cast.              *)
LEMMA QuietKeeps ==
  ASSUME Sound, IInv', TInv', Quiet
  PROVE  SInv'
<1>1. /\ leaderLog' = leaderLog /\ log' = log /\ commit' = commit /\ applied' = applied
      /\ \A x \in Server : currentTerm'[x] >= currentTerm[x]
  BY DEF Quiet
<1>2. DurableKept /\ TInv
  BY QuietDurable DEF Sound
<1>3. LogsGrow
  BY <1>1, LogTypes DEF LogsGrow, Agree, Sound
<1>4. ASSUME NEW r \in Server
      PROVE  Safe(log[r], commit[r], currentTerm[r])'
  <2>1. PICK l \in Logs, k \in Nat, b \in Nat, c \in Nat :
          l = log[r] /\ k = commit[r] /\ b = currentTerm[r] /\ c = currentTerm'[r]
    <3>1. log[r] \in Logs /\ commit[r] \in Nat /\ currentTerm[r] \in Nat
      BY LogTypes DEF Sound
    <3>2. currentTerm'[r] \in Nat
      BY DEF TInv
    <3> QED
      BY <3>1, <3>2
  <2>2. Safe(l, k, b) /\ k <= Len(l) /\ b <= c
    BY <1>1, <2>1 DEF Sound, SInv, Committed
  <2>3. Agree(l, l, k)
    BY <2>2 DEF Agree
  <2>4. Safe(l, k, c)'
    BY <1>2, <1>3, <2>2, <2>3, SafeKept
  <2> QED
    BY <1>1, <2>1, <2>4 DEF Safe
<1>5. Committed'
  BY <1>1, <1>4 DEF Committed, Sound, SInv
<1> QED
  BY <1>5, QuietRoles, QuietRequested, QuietCounted DEF SInv

(* Nothing new is counted when match_index_ stays and no batch is accepted. *)
LEMMA AckedKept ==
  ASSUME Sound, TInv', led' = led, \A x \in Server : currentTerm'[x] >= currentTerm[x],
         \A x, y \in Server : peer'[x][y].match = peer[x][y].match,
         \A a \in DOMAIN acks' : a \in DOMAIN acks \/ ~a.ok \/ a.hb,
         NEW f \in Server, NEW t \in Term, NEW i \in 1 .. MaxLog, Acked(f, t, i)'
  PROVE  Acked(f, t, i)
<1>1. CASE \E a \in DOMAIN acks' : a.from = f /\ a.ok /\ ~a.hb /\ a.sterm = t /\ a.last = i
  BY <1>1 DEF Acked
<1>2. CASE \E x \in led' : /\ x.term = t /\ currentTerm'[x.by] = t /\ f # x.by
                           /\ i > 0 /\ peer'[x.by][f].match = i
  <2>1. PICK x \in led : /\ x.term = t /\ currentTerm'[x.by] = t /\ f # x.by
                         /\ i > 0 /\ peer'[x.by][f].match = i
    BY <1>2
  <2>2. currentTerm[x.by] = x.term /\ x.by \in Server
    BY <2>1, StillLed, LedFacts
  <2> QED
    BY <2>1, <2>2 DEF Acked
<1> QED
  BY <1>1, <1>2 DEF Acked

(* The order of batches, when requests stay the same.                       *)
LEMMA OrderedSame ==
  ASSUME Sound, SameRequests, NEW s \in Server, NEW d \in Server
  PROVE  Ordered(chan'[s][d])
<1>1. Ordered(chan[s][d])
  BY DEF Sound, SInv, Requested
<1> SUFFICES ASSUME NEW i \in 1 .. Len(chan'[s][d]), NEW j \in 1 .. Len(chan'[s][d]), i < j,
                    chan'[s][d][i].type = "Append", chan'[s][d][j].type = "Append",
                    chan'[s][d][i].term = chan'[s][d][j].term
             PROVE  Ends(chan'[s][d][i]) <= Ends(chan'[s][d][j])
  BY DEF Ordered
<1>2. /\ i \in 1 .. Len(chan[s][d]) /\ j \in 1 .. Len(chan[s][d])
      /\ SameRequest(chan'[s][d][i], chan[s][d][i])
      /\ SameRequest(chan'[s][d][j], chan[s][d][j])
  BY DEF SameRequests
<1>3. /\ chan[s][d][i].type = "Append" /\ chan[s][d][j].type = "Append"
      /\ chan[s][d][i].term = chan[s][d][j].term
      /\ Ends(chan'[s][d][i]) = Ends(chan[s][d][i])
      /\ Ends(chan'[s][d][j]) = Ends(chan[s][d][j])
  BY <1>2 DEF SameRequest, Ends
<1> QED
  BY <1>1, <1>2, <1>3 DEF Ordered

(* A candidate whose term is still its own was one before.                  *)
LEMMA StandingKept ==
  ASSUME Sound, TInv', led \subseteq led', NEW c \in Server,
         currentTerm'[c] >= currentTerm[c], Standing(c)', Running(c),
         cand'[c].term = cand[c].term
  PROVE  Standing(c)
<1>1. currentTerm[c] >= cand[c].term /\ currentTerm'[c] = cand[c].term
  BY DEF Standing, Sound, IInv, VoteInv, VotersMovedOn, Votes
<1>2. currentTerm[c] \in Nat /\ currentTerm'[c] \in Nat
  BY DEF Sound, TInv
<1>3. currentTerm[c] = cand[c].term
  BY <1>1, <1>2
<1> QED
  BY <1>3 DEF Standing

(* No candidate gets a vote, and no request is sent.                        *)
Calm ==
  /\ UNCHANGED <<log, leaderLog, led, commit, applied>>
  /\ \A x \in Server : currentTerm'[x] >= currentTerm[x]
  /\ leaders' \subseteq leaders /\ \A r \in leaders' : currentTerm'[r] = currentTerm[r]
  /\ \A c \in Server : cand'[c] = cand[c] \/ cand'[c] = NoCand
  /\ SameRequests /\ QuietAcks

(* Candidates that stay, or give up.                                        *)
LEMMA CalmVotes ==
  ASSUME Sound, IInv', TInv', led' = led,
         \A x \in Server : currentTerm'[x] >= currentTerm[x],
         \A c \in Server : cand'[c] = cand[c] \/ cand'[c] = NoCand
  PROVE  QuietVotes
<1>1. ASSUME NEW c \in Server, Running(c)'
      PROVE  /\ Running(c) /\ cand'[c] = cand[c]
             /\ Standing(c)' => \A f \in Votes(c)' : f \in Server /\ KeptVote(c, f)
  <2>1. cand'[c] = cand[c] /\ Running(c)
    BY <1>1 DEF Running
  <2>2. ASSUME Standing(c)' PROVE Standing(c)
    BY <2>1, <2>2, StandingKept
  <2>3. Votes(c)' = Votes(c) /\ Votes(c) \subseteq Server
    BY <2>1 DEF Votes, Sound, IInv, ElectionType, Candidacy
  <2> QED
    BY <2>1, <2>2, <2>3 DEF KeptVote
<1> QED
  BY <1>1 DEF QuietVotes, Standing

(* Then nothing is lost.                                                    *)
LEMMA CalmKeeps ==
  ASSUME Sound, IInv', TInv', Calm
  PROVE  SInv'
<1>2. QuietVotes
  BY CalmVotes DEF Calm
<1>3. QuietChan
  <2>1. \A s, d \in Server : Ordered(chan'[s][d])
    BY OrderedSame DEF Calm
  <2> QED
    BY <2>1 DEF QuietChan, Calm, SameRequests
<1>4. Quiet
  BY <1>2, <1>3 DEF Quiet, Calm
<1> QED
  BY <1>4, QuietKeeps

(* Replies that are taken and nothing else.                                 *)
LEMMA FewerAcks ==
  ASSUME Sound, TInv', led' = led, \A x \in Server : currentTerm'[x] >= currentTerm[x],
         \A x, y \in Server : peer'[x][y].match = peer[x][y].match,
         DOMAIN acks' \subseteq DOMAIN acks
  PROVE  QuietAcks
BY AckedKept DEF QuietAcks

(* An unchanged network.                                                    *)
LEMMA UnchangedRequests ==
  ASSUME chan' = chan
  PROVE  SameRequests
BY DEF SameRequests, SameRequest

(* A candidate gives up.                                                    *)
LEMMA GiveUpKeeps ==
  ASSUME Sound, IInv', TInv', NEW r \in Server, GiveUp(r)
  PROVE  SInv'
<1>1. /\ cand' = [cand EXCEPT ![r] = NoCand] /\ Running(r)
      /\ UNCHANGED <<log, leaderLog, led, commit, applied, leaders, chan, acks, peer>>
      /\ currentTerm' = currentTerm \/ \E t : currentTerm' = [currentTerm EXCEPT ![r] = t]
  BY DEF GiveUp, logVars, netVars, Running
<1>2. \A x \in Server : currentTerm'[x] >= currentTerm[x]
  BY GiveUpTypes DEF Sound
<1>3. r \notin leaders /\ leaders \subseteq Server
  BY <1>1 DEF Sound, SInv, Roles, TInv
<1>4. \A q \in leaders' : currentTerm'[q] = currentTerm[q]
  BY <1>1, <1>3 DEF Sound, TInv
<1>5. \A c \in Server : cand'[c] = cand[c] \/ cand'[c] = NoCand
  BY <1>1 DEF Sound, IInv, ElectionType
<1>6. QuietAcks
  BY <1>1, <1>2, FewerAcks
<1>7. Calm
  BY <1>1, <1>2, <1>4, <1>5, <1>6, UnchangedRequests DEF Calm
<1> QED
  BY <1>7, CalmKeeps

(* Steps that touch who leads and who is paused only.                       *)
LEMMA GateKeeps ==
  ASSUME Sound, IInv', TInv', leaders' \subseteq leaders,
         UNCHANGED <<log, leaderLog, led, commit, applied, currentTerm, cand, chan, acks, peer>>
  PROVE  SInv'
<1>1. /\ \A x \in Server : currentTerm'[x] >= currentTerm[x]
      /\ \A r \in leaders' : currentTerm'[r] = currentTerm[r]
  BY DEF Sound, TInv
<1>2. QuietAcks
  BY <1>1, FewerAcks
<1>3. Calm
  BY <1>1, <1>2, UnchangedRequests DEF Calm
<1> QED
  BY <1>3, CalmKeeps

(* No reply in time.                                                        *)
LEMMA TimeoutKeeps ==
  ASSUME Sound, IInv', TInv', NEW r \in Server, NEW f \in Server, RpcTimeout(r, f)
  PROVE  SInv'
<1>1. /\ SameRequests /\ DOMAIN acks' \subseteq DOMAIN acks /\ PeerMoves
      /\ UNCHANGED <<currentTerm, leaders, log, commit, applied, leaderLog, cand, led>>
  BY TimeoutFacts DEF Sound
<1>2. /\ \A x \in Server : currentTerm'[x] >= currentTerm[x]
      /\ \A q \in leaders' : currentTerm'[q] = currentTerm[q]
  BY <1>1 DEF Sound, TInv
<1>3. QuietAcks
  BY <1>1, <1>2, FewerAcks DEF PeerMoves
<1>4. Calm
  BY <1>1, <1>2, <1>3 DEF Calm
<1> QED
  BY <1>4, CalmKeeps

(* A reply that moves no match_index_.                                      *)
LEMMA QuietAckKeeps ==
  ASSUME Sound, IInv', TInv', NEW a \in DOMAIN acks,
         AckIgnored(a) \/ AckNewerTerm(a) \/ AckRejected(a) \/ RpcError(a)
  PROVE  SInv'
<1>1. /\ DOMAIN acks' \subseteq DOMAIN acks /\ PeerMoves
      /\ \A x \in Server : /\ currentTerm'[x] >= currentTerm[x]
                           /\ x \in leaders' => currentTerm'[x] = currentTerm[x]
      /\ leaders' \subseteq leaders
      /\ UNCHANGED <<log, commit, applied, leaderLog, chan, cand, led>>
  BY QuietAckFacts DEF Sound
<1>2. \A q \in leaders' : currentTerm'[q] = currentTerm[q]
  BY <1>1 DEF Sound, TInv
<1>3. QuietAcks
  BY <1>1, FewerAcks DEF PeerMoves
<1>4. Calm
  BY <1>1, <1>2, <1>3, UnchangedRequests DEF Calm
<1> QED
  BY <1>4, CalmKeeps

(* An accepted reply moves match_index_ to what its follower reported.      *)
LEMMA AcceptedAckKeeps ==
  ASSUME Sound, IInv', TInv', NEW a \in DOMAIN acks, AckAccepted(a)
  PROVE  SInv'
<1> USE RaftAssumption
<1>1. /\ a \in Ack /\ DOMAIN acks' \subseteq DOMAIN acks
      /\ currentTerm[a.to] <= a.sterm /\ a.ok
      /\ \A x, y \in Server : x # a.to \/ y # a.from => peer'[x][y].match = peer[x][y].match
      /\ a.hb => peer'[a.to][a.from].match = peer[a.to][a.from].match
      /\ a.last <= Len(log[a.to]) =>
           peer'[a.to][a.from].match \in {peer[a.to][a.from].match, a.last}
      /\ UNCHANGED <<currentTerm, leaders, log, commit, applied, leaderLog, chan, cand, led>>
  BY AcceptedAckFacts DEF Sound
<1>2. a.to \in Server /\ a.from \in Server /\ a.sterm \in Term /\ a.last \in 0 .. MaxLog
  BY <1>1 DEF Ack
<1>3. PICK y \in led : y.by = a.to /\ y.term = a.sterm
  BY DEF Sound, SInv, Counted
<1>4. currentTerm[a.to] = a.sterm /\ log[a.to] = leaderLog[a.sterm]
  <2>1. currentTerm[a.to] >= a.sterm
    BY <1>3, LedFacts
  <2>2. currentTerm[a.to] \in Nat
    BY <1>2, LogTypes DEF Sound
  <2>3. currentTerm[a.to] = a.sterm
    BY <1>1, <1>2, <2>1, <2>2 DEF Term
  <2> QED
    BY <1>3, <2>3 DEF Sound, SInv, Histories
<1>5. ~a.hb => a.last <= Len(log[a.to])
  <2> SUFFICES ASSUME ~a.hb, a.last # 0 PROVE a.last <= Len(log[a.to])
    BY <1>2, LogTypes DEF Sound
  <2>1. a.last \in 1 .. MaxLog
    BY <1>2
  <2>2. Acked(a.from, a.sterm, a.last)
    BY <1>1 DEF Acked
  <2>3. Evidence(a.from, a.sterm, a.last)
    BY <1>2, <2>1, <2>2 DEF Sound, SInv, Counted
  <2> QED
    BY <1>4, <2>3 DEF Evidence
<1>6. ASSUME NEW f \in Server, NEW t \in Term, NEW i \in 1 .. MaxLog, Acked(f, t, i)'
      PROVE  Acked(f, t, i)
  <2>1. CASE \E b \in DOMAIN acks' : b.from = f /\ b.ok /\ ~b.hb /\ b.sterm = t /\ b.last = i
    BY <1>1, <2>1 DEF Acked
  <2>2. CASE \E x \in led' : /\ x.term = t /\ currentTerm'[x.by] = t /\ f # x.by
                             /\ i > 0 /\ peer'[x.by][f].match = i
    <3>1. PICK x \in led : /\ x.term = t /\ currentTerm[x.by] = t /\ f # x.by
                           /\ i > 0 /\ peer'[x.by][f].match = i
      BY <1>1, <2>2
    <3>2. x.by \in Server
      BY LedFacts
    <3>3. CASE peer[x.by][f].match = i
      BY <3>1, <3>3 DEF Acked
    <3>4. CASE peer[x.by][f].match # i
      <4>1. x.by = a.to /\ f = a.from /\ ~a.hb /\ a.last = i
        BY <1>1, <1>5, <3>1, <3>2, <3>4
      <4> QED
        BY <1>1, <1>4, <3>1, <4>1 DEF Acked
    <3> QED
      BY <3>3, <3>4
  <2> QED
    BY <1>6, <2>1, <2>2 DEF Acked
<1>7. /\ \A x \in Server : currentTerm'[x] >= currentTerm[x]
      /\ \A q \in leaders' : currentTerm'[q] = currentTerm[q]
  BY <1>1 DEF Sound, TInv
<1>8. QuietAcks
  BY <1>1, <1>6 DEF QuietAcks
<1>9. Calm
  BY <1>1, <1>7, <1>8, UnchangedRequests DEF Calm
<1> QED
  BY <1>9, CalmKeeps

(* A request is taken off its connection.                                   *)
LEMMA DeliverChan ==
  ASSUME Sound, NEW s \in Server, NEW d \in Server, Deliver(s, d)
  PROVE  QuietChan
<1>1. /\ Len(chan[s][d]) > 0 /\ Len(chan[s][d]) \in Nat
      /\ \A x, y \in Server :
           chan'[x][y] = IF x = s /\ y = d THEN Tail(chan[s][d]) ELSE chan[x][y]
      /\ Len(Tail(chan[s][d])) = Len(chan[s][d]) - 1
      /\ \A j \in 1 .. Len(chan[s][d]) - 1 : Tail(chan[s][d])[j] = chan[s][d][j + 1]
  <2>1. chan[s][d] \in Seq(Msg)
    BY DEF Sound, TInv
  <2> QED
    BY <2>1, DeliverFacts DEF Sound
<1>2. \A x, y \in Server : Ordered(chan[x][y])
  BY DEF Sound, SInv, Requested
<1>3. PICK q, p : q = chan[s][d] /\ p = Tail(chan[s][d])
  OBVIOUS
<1>4. Len(p) = Len(q) - 1 /\ Len(q) \in Nat /\ \A j \in 1 .. Len(p) : p[j] = q[j + 1]
  BY <1>1, <1>3
<1>5. Ordered(p)
  <2>1. Ordered(q)
    BY <1>2, <1>3
  <2> SUFFICES ASSUME NEW i \in 1 .. Len(p), NEW j \in 1 .. Len(p), i < j,
                      p[i].type = "Append", p[j].type = "Append", p[i].term = p[j].term
               PROVE  Ends(p[i]) <= Ends(p[j])
    BY DEF Ordered
  <2>2. /\ i + 1 \in 1 .. Len(q) /\ j + 1 \in 1 .. Len(q) /\ i + 1 < j + 1
        /\ p[i] = q[i + 1] /\ p[j] = q[j + 1]
    BY <1>4
  <2> QED
    BY <2>1, <2>2 DEF Ordered
<1> SUFFICES ASSUME NEW x \in Server, NEW y \in Server
             PROVE  /\ Ordered(chan'[x][y])
                    /\ \A j \in 1 .. Len(chan'[x][y]) : \E i \in 1 .. Len(chan[x][y]) :
                         SameRequest(chan'[x][y][j], chan[x][y][i])
  BY DEF QuietChan
<1>6. \A m : SameRequest(m, m)
  BY DEF SameRequest
<1>7. CASE x = s /\ y = d
  <2>1. chan'[x][y] = p /\ chan[x][y] = q
    BY <1>1, <1>3, <1>7
  <2>2. \A j \in 1 .. Len(p) : j + 1 \in 1 .. Len(q) /\ SameRequest(p[j], q[j + 1])
    BY <1>4, <1>6
  <2> QED
    BY <1>5, <2>1, <2>2
<1>8. CASE ~(x = s /\ y = d)
  <2>1. chan'[x][y] = chan[x][y]
    BY <1>1, <1>8
  <2> QED
    BY <1>2, <1>6, <2>1
<1> QED
  BY <1>7, <1>8

(* A vote, granted or refused.                                              *)
LEMMA VoteKeeps ==
  ASSUME Sound, IInv', TInv', LeadersElected', NEW s \in Server, NEW d \in Server,
         Deliver(s, d), NEW m \in VoteMsg, m = Head(chan[s][d]), OnRequestVote(s, d, m)
  PROVE  SInv'
<1> USE RaftAssumption
<1>1. Voted(s, d, m)
  BY VoteFacts DEF Sound
<1>2. UNCHANGED <<log, leaderLog, commit, applied, peer, acks>>
  BY DEF OnRequestVote, logVars
<1>3. m.term \in Nat /\ currentTerm[d] \in Nat
  <2>1. m.term \in Nat
    BY DEF VoteMsg, Term
  <2> QED
    BY <2>1, LogTypes DEF Sound
<1>4. ~(m.term > currentTerm[d] /\ d \in leaders') /\ led' = led
  <2> SUFFICES ASSUME m.term > currentTerm[d] /\ d \in leaders' PROVE FALSE
    BY DEF OnRequestVote
  <2>1. [term |-> m.term, by |-> d, votes |-> {}] \in led'
    BY DEF OnRequestVote
  <2> QED
    BY <2>1 DEF LeadersElected, Won
<1>5. \A x \in Server : currentTerm'[x] >= currentTerm[x]
  BY <1>1 DEF Voted
<1>6. leaders' \subseteq leaders /\ \A r \in leaders' : currentTerm'[r] = currentTerm[r]
  <2>1. leaders' \subseteq leaders /\ leaders' \subseteq Server
    BY <1>1 DEF Voted, TInv
  <2>2. d \in leaders' => currentTerm'[d] = currentTerm[d]
    BY <1>1, <1>3, <1>4 DEF Voted, MaxOf
  <2> QED
    BY <1>1, <2>1, <2>2 DEF Voted
<1>7. QuietAcks
  BY <1>2, <1>4, <1>5, FewerAcks
<1>8. QuietChan
  BY DeliverChan
<1>9. ASSUME NEW c \in Server, Running(c)'
      PROVE  /\ Running(c) /\ cand'[c].term = cand[c].term
             /\ Standing(c)' =>
                  \A f \in Votes(c)' : f \in Server /\ (KeptVote(c, f) \/ NewVote(c, f))
  <2>1. Running(c) /\ cand'[c].term = cand[c].term
    BY <1>1, <1>9 DEF Voted, Running
  <2> SUFFICES ASSUME Standing(c)', NEW f \in Votes(c)'
               PROVE  f \in Server /\ (KeptVote(c, f) \/ NewVote(c, f))
    BY <2>1
  <2>2. Standing(c)
    BY <1>4, <1>5, <2>1, StandingKept
  <2>3. f \in Server
    BY DEF Votes, IInv, ElectionType, Candidacy
  <2>4. CASE f \in Votes(c)
    BY <2>1, <2>2, <2>3, <2>4 DEF KeptVote
  <2>5. CASE f \notin Votes(c)
    <3>1. c = s /\ cand[s].term = m.term /\ Grants(d, m) /\ f = d
      BY <1>1, <2>5 DEF Voted, Votes
    <3>2. m = chan[s][d][1] /\ 1 \in 1 .. Len(chan[s][d]) /\ m.type = "Vote"
      <4>1. Len(chan[s][d]) > 0 /\ Head(chan[s][d]) = chan[s][d][1]
        BY DeliverFacts DEF Sound
      <4>2. chan[s][d] \in Seq(Msg)
        BY DEF Sound, TInv
      <4>3. Len(chan[s][d]) \in Nat
        BY <4>2
      <4> QED
        BY <4>1, <4>3 DEF VoteMsg
    <3>3. Ask(s, m)
      BY <3>2 DEF Sound, SInv, Requested
    <3>4. m.last = Len(log[s]) /\ m.lterm = LastTerm(log[s])
      BY <2>2, <3>1, <3>3 DEF Ask
    <3>5. NewerLog(log[s], log[d]) /\ currentTerm[d] < cand'[s].term
      BY <1>3, <2>1, <3>1, <3>4 DEF Grants, UpToDate, NewerLog
    <3> QED
      BY <2>3, <3>1, <3>5 DEF NewVote
  <2> QED
    BY <2>4, <2>5
<1>10. QuietVotes
  BY <1>9 DEF QuietVotes, Standing
<1>11. Quiet
  BY <1>2, <1>4, <1>5, <1>6, <1>7, <1>8, <1>10 DEF Quiet
<1> QED
  BY <1>11, QuietKeeps

(* The request at the head of a connection.                                 *)
LEMMA HeadFacts ==
  ASSUME Sound, NEW s \in Server, NEW d \in Server, Deliver(s, d),
         NEW m \in AppendMsg, m = Head(chan[s][d])
  PROVE  m = chan[s][d][1] /\ 1 \in 1 .. Len(chan[s][d]) /\ Batch(s, d, m)
<1>1. Len(chan[s][d]) > 0 /\ Head(chan[s][d]) = chan[s][d][1]
  BY DeliverFacts DEF Sound
<1>2. chan[s][d] \in Seq(Msg)
  BY DEF Sound, TInv
<1>3. Len(chan[s][d]) \in Nat
  BY <1>2
<1>4. m = chan[s][d][1] /\ 1 \in 1 .. Len(chan[s][d]) /\ m.type = "Append"
  BY <1>1, <1>3 DEF AppendMsg
<1> QED
  BY <1>4 DEF Sound, SInv, Requested

(* A refused batch.                                                         *)
LEMMA RefuseKeeps ==
  ASSUME Sound, IInv', TInv', NEW s \in Server, NEW d \in Server, Deliver(s, d),
         NEW m \in AppendMsg, m = Head(chan[s][d]), OnAppendEntries(s, d, m), ~Accepts(d, m)
  PROVE  SInv'
<1>1. UNCHANGED <<currentTerm, leaders, log, commit, applied>> /\ Replied(s, d, m, FALSE)
  BY RefuseFacts DEF Sound
<1>2. UNCHANGED <<peer, cand, led, leaderLog>>
  BY DEF OnAppendEntries
<1>3. Batch(s, d, m)
  BY HeadFacts
<1>4. /\ \A x \in Server : currentTerm'[x] >= currentTerm[x]
      /\ \A q \in leaders' : currentTerm'[q] = currentTerm[q]
  <2>1. \A x \in Server : currentTerm[x] \in Nat
    BY LogTypes DEF Sound
  <2> QED
    BY <1>1, <2>1
<1>5. ASSUME NEW a \in DOMAIN acks', a \notin DOMAIN acks
      PROVE  ~a.ok /\ a.to # a.from /\ \E x \in led : x.by = a.to /\ x.term = a.sterm
  <2>1. a.to = s /\ a.from = d /\ a.sterm = m.term /\ a.ok = FALSE
    BY <1>1, <1>5 DEF Replied
  <2> QED
    BY <1>3, <2>1 DEF Batch
<1>6. QuietAcks
  <2>1. \A a \in DOMAIN acks' : a \in DOMAIN acks \/ ~a.ok \/ a.hb
    BY <1>5
  <2>2. \A f \in Server, t \in Term, i \in 1 .. MaxLog : Acked(f, t, i)' => Acked(f, t, i)
    BY <1>2, <1>4, <2>1, AckedKept
  <2> QED
    BY <1>5, <2>2 DEF QuietAcks
<1>7. QuietChan
  BY DeliverChan
<1>8. QuietVotes
  BY <1>2, <1>4, CalmVotes
<1>9. Quiet
  BY <1>1, <1>2, <1>4, <1>6, <1>7, <1>8 DEF Quiet
<1> QED
  BY <1>9, QuietKeeps

(* Who asks for votes sends them its own log.                               *)
LEMMA RequestVoteKeeps ==
  ASSUME Sound, IInv', TInv', NEW r \in Server, RequestVote(r)
  PROVE  SInv'
<1> USE RaftAssumption
<1> DEFINE t == currentTerm[r] + 1
           vote == [type |-> "Vote", term |-> t, last |-> Len(log[r]),
                    lterm |-> LastTerm(log[r])]
<1>1. /\ currentTerm' = [currentTerm EXCEPT ![r] = t]
      /\ cand' = [cand EXCEPT ![r] = [term |-> t, yes |-> {}, no |-> {},
                    after |-> "failure" \in signals[HostOf[r]]]]
      /\ chan' = [chan EXCEPT ![r] =
                    [d \in Server |-> IF d = r THEN chan[r][d] ELSE Append(chan[r][d], vote)]]
      /\ r \notin leaders
      /\ UNCHANGED <<leaders, log, commit, applied, leaderLog, peer, acks, led>>
  BY DEF RequestVote, logVars
<1>2. /\ currentTerm \in [Server -> 0 .. MaxTerm] /\ leaders \subseteq Server
      /\ chan \in [Server -> [Server -> Seq(Msg)]] /\ cand \in [Server -> Candidacy]
  BY DEF Sound, TInv, IInv, ElectionType
<1>3. /\ \A x \in Server : currentTerm'[x] >= currentTerm[x]
      /\ \A x \in Server \ {r} : currentTerm'[x] = currentTerm[x]
      /\ currentTerm'[r] = t /\ t \in Nat /\ currentTerm[r] < t
  BY <1>1, <1>2
<1>4. \A q \in leaders' : currentTerm'[q] = currentTerm[q]
  BY <1>1, <1>2, <1>3
<1>5. cand'[r].term = t /\ cand'[r].yes = {} /\ \A c \in Server \ {r} : cand'[c] = cand[c]
  BY <1>1, <1>2
<1>6. vote.type = "Vote" /\ vote.term = t /\ vote.last = Len(log[r])
      /\ vote.lterm = LastTerm(log[r])
  OBVIOUS
<1>7. \A s, d \in Server :
        chan'[s][d] = IF s = r /\ d # r THEN Append(chan[s][d], vote) ELSE chan[s][d]
  BY <1>1, <1>2
<1> HIDE DEF vote, t
<1>8. OwnVote(r, vote)
  BY <1>3, <1>6 DEF OwnVote
<1>9. QuietChan
  <2> SUFFICES ASSUME NEW s \in Server, NEW d \in Server
               PROVE  /\ Ordered(chan'[s][d])
                      /\ \A j \in 1 .. Len(chan'[s][d]) :
                           \/ \E i \in 1 .. Len(chan[s][d]) :
                                SameRequest(chan'[s][d][j], chan[s][d][i])
                           \/ OwnVote(s, chan'[s][d][j])
    BY DEF QuietChan
  <2>1. Ordered(chan[s][d])
    BY DEF Sound, SInv, Requested
  <2>2. \A m : SameRequest(m, m)
    BY DEF SameRequest
  <2>3. CASE s = r /\ d # r
    <3>1. PICK q \in Seq(Msg) : q = chan[s][d]
      BY <1>2
    <3>2. chan'[s][d] = Append(q, vote)
      BY <1>7, <2>3, <3>1
    <3>3. PICK p : p = Append(q, vote)
      OBVIOUS
    <3>4. /\ Len(p) = Len(q) + 1 /\ Len(q) \in Nat /\ p[Len(q) + 1] = vote
          /\ \A j \in 1 .. Len(q) : p[j] = q[j]
      BY <3>1, <3>3
    <3>5. Ordered(p)
      <4> SUFFICES ASSUME NEW i \in 1 .. Len(p), NEW j \in 1 .. Len(p), i < j,
                          p[i].type = "Append", p[j].type = "Append", p[i].term = p[j].term
                   PROVE  Ends(p[i]) <= Ends(p[j])
        BY DEF Ordered
      <4>1. i \in 1 .. Len(q) /\ j \in 1 .. Len(q)
        BY <1>6, <3>4
      <4>2. p[i] = q[i] /\ p[j] = q[j]
        BY <3>4, <4>1
      <4> QED
        BY <2>1, <3>1, <4>1, <4>2 DEF Ordered
    <3>6. \A j \in 1 .. Len(p) : (\E i \in 1 .. Len(q) : SameRequest(p[j], q[i])) \/ OwnVote(s, p[j])
      <4> SUFFICES ASSUME NEW j \in 1 .. Len(p)
                   PROVE  (\E i \in 1 .. Len(q) : SameRequest(p[j], q[i])) \/ OwnVote(s, p[j])
        OBVIOUS
      <4>1. CASE j = Len(q) + 1
        BY <1>8, <2>3, <3>4, <4>1
      <4>2. CASE j # Len(q) + 1
        <5>1. j \in 1 .. Len(q)
          BY <3>4, <4>2
        <5> QED
          BY <2>2, <3>4, <5>1
      <4> QED
        BY <4>1, <4>2
    <3> QED
      BY <3>1, <3>2, <3>3, <3>5, <3>6
  <2>4. CASE ~(s = r /\ d # r)
    <3>1. chan'[s][d] = chan[s][d]
      BY <1>7, <2>4
    <3> QED
      BY <2>1, <2>2, <3>1
  <2> QED
    BY <2>3, <2>4
<1>10. QuietVotes
  <2>1. ASSUME NEW c \in Server, c # r, Running(c)'
        PROVE  /\ Running(c) /\ cand'[c].term = cand[c].term
               /\ Standing(c)' => \A f \in Votes(c)' : f \in Server /\ KeptVote(c, f)
    <3>1. cand'[c] = cand[c] /\ Running(c)
      BY <1>5, <2>1 DEF Running
    <3>2. ASSUME Standing(c)' PROVE Standing(c)
      BY <1>1, <1>3, <3>1, <3>2, StandingKept
    <3>3. Votes(c)' = Votes(c) /\ Votes(c) \subseteq Server
      BY <1>2, <3>1 DEF Votes, Candidacy
    <3> QED
      BY <3>1, <3>2, <3>3 DEF KeptVote
  <2>2. r \notin leaders /\ currentTerm[r] < cand'[r].term
    BY <1>1, <1>3, <1>5
  <2>3. \A f \in Votes(r)' : f = r
    BY <1>5 DEF Votes
  <2>4. NewVote(r, r)
    <3>1. Len(log[r]) \in Nat
      BY LogTypes DEF Sound
    <3> QED
      BY <2>2, <3>1 DEF NewVote, NewerLog
  <2>5. ASSUME NEW c \in Server
        PROVE  /\ Running(c)' => \/ Running(c) /\ cand'[c].term = cand[c].term
                                 \/ c \notin leaders /\ currentTerm[c] < cand'[c].term
               /\ Standing(c)' => \A f \in Votes(c)' : f \in Server /\ (KeptVote(c, f) \/ NewVote(c, f))
    <3>1. CASE c = r
      BY <2>2, <2>3, <2>4, <3>1
    <3>2. CASE c # r
      BY <2>1, <3>2 DEF Standing
    <3> QED
      BY <3>1, <3>2
  <2> QED
    BY <2>5 DEF QuietVotes
<1>11. QuietAcks
  BY <1>1, <1>3, FewerAcks
<1>12. Quiet
  BY <1>1, <1>3, <1>4, <1>9, <1>10, <1>11 DEF Quiet
<1> QED
  BY <1>12, QuietKeeps

--------------------------------------------------------------------------------
(* A leader commits.                                                        *)

(* applyLogs goes on where it was.                                          *)
LEMMA ApplyPrefix ==
  ASSUME NEW l \in Logs, NEW c \in Nat, NEW n \in Nat, c <= n, n <= Len(l)
  PROVE  ApplyLogs(SubSeq(l, 1, c), l, n) = SubSeq(l, 1, n)
<1>1. l \in Seq(Entry) /\ Len(l) \in Nat /\ c <= Len(l)
  BY DEF Logs
<1>2. /\ Len(SubSeq(l, 1, c)) = c /\ Len(SubSeq(l, 1, n)) = n
      /\ SubSeq(l, 1, c) \in Seq(Entry) /\ SubSeq(l, 1, n) \in Seq(Entry)
      /\ \A k \in 1 .. c : SubSeq(l, 1, c)[k] = l[k]
      /\ \A k \in 1 .. n : SubSeq(l, 1, n)[k] = l[k]
  <2>1. ASSUME NEW i \in Nat, i <= Len(l)
        PROVE  /\ Len(SubSeq(l, 1, i)) = i /\ SubSeq(l, 1, i) \in Seq(Entry)
               /\ \A k \in 1 .. i : SubSeq(l, 1, i)[k] = l[k]
    <3>1. 1 \in Nat /\ 1 >= 1
      OBVIOUS
    <3>2. /\ SubSeq(l, 1, i) \in Logs
          /\ Len(SubSeq(l, 1, i)) = IF 1 <= i THEN i - 1 + 1 ELSE 0
          /\ \A k \in 1 .. Len(SubSeq(l, 1, i)) : SubSeq(l, 1, i)[k] = l[1 + k - 1]
      BY <2>1, <3>1, SubLog
    <3> QED
      BY <3>2 DEF Logs
  <2> QED
    BY <1>1, <2>1
<1>3. CASE n = c
  <2>1. ~(n > Len(SubSeq(l, 1, c)))
    BY <1>2, <1>3
  <2> QED
    BY <1>3, <2>1 DEF ApplyLogs
<1>4. CASE n > c
  <2>1. ApplyLogs(SubSeq(l, 1, c), l, n) = SubSeq(l, 1, c) \o SubSeq(l, c + 1, n)
    BY <1>2, <1>4 DEF ApplyLogs
  <2>2. PICK a \in Seq(Entry) : a = SubSeq(l, 1, c)
    BY <1>2
  <2>3. PICK b : b = SubSeq(l, c + 1, n)
    OBVIOUS
  <2>4. /\ b \in Seq(Entry) /\ Len(b) = n - c
        /\ \A k \in 1 .. n - c : b[k] = l[c + k]
    <3>1. c + 1 \in Nat /\ c + 1 >= 1
      OBVIOUS
    <3>2. /\ b \in Logs
          /\ Len(b) = IF c + 1 <= n THEN n - (c + 1) + 1 ELSE 0
          /\ \A k \in 1 .. Len(b) : b[k] = l[c + 1 + k - 1]
      BY <2>3, <3>1, SubLog
    <3>3. Len(b) = n - c
      BY <1>4, <3>2
    <3> QED
      BY <3>2, <3>3 DEF Logs
  <2>5. a \o b \in Seq(Entry) /\ Len(a \o b) = n
    BY <1>2, <2>2, <2>4
  <2>6. ASSUME NEW k \in 1 .. n
        PROVE  (a \o b)[k] = SubSeq(l, 1, n)[k]
    <3>0. Len(a) = c /\ Len(b) = n - c
      BY <1>2, <2>2, <2>4
    <3>1. CASE k <= c
      <4>1. (a \o b)[k] = a[k]
        BY <2>4, <3>0, <3>1
      <4> QED
        BY <1>2, <2>2, <3>1, <4>1
    <3>2. CASE k > c
      <4>1. (a \o b)[k] = b[k - c]
        BY <2>4, <3>0, <3>2
      <4>2. k - c \in 1 .. n - c /\ c + (k - c) = k
        BY <3>2
      <4>3. b[k - c] = l[c + (k - c)]
        BY <2>4, <4>2
      <4> QED
        BY <1>2, <4>1, <4>2, <4>3
    <3>3. k <= c \/ k > c
      OBVIOUS
    <3> QED
      BY <3>1, <3>2, <3>3
  <2>7. a \o b = SubSeq(l, 1, n)
    BY <1>2, <2>5, <2>6, SeqEqual
  <2> QED
    BY <2>1, <2>2, <2>3, <2>7
<1> QED
  BY <1>3, <1>4

(* An entry of its own term that a leader counts at a majority is durable.  *)
LEMMA CountedIsDurable ==
  ASSUME Sound, NEW r \in leaders, NEW n \in 1 .. Len(log[r]),
         log[r][n].term = currentTerm[r], NEW Q \in SUBSET Server, Cardinality(Q) > N \div 2,
         \A f \in Q : f = r \/ peer[r][f].match >= n
  PROVE  Durable(currentTerm[r], n)
<1> USE RaftAssumption
<1>1. r \in Server /\ currentTerm[r] \in Term /\ log[r] = leaderLog[currentTerm[r]]
  BY LeaderFacts
<1>2. PICK t \in Term : t = currentTerm[r]
  BY <1>1
<1>3. /\ log[r] = leaderLog[t] /\ n \in 1 .. MaxLog /\ leaderLog[t][n].term = t /\ t \in Nat
      /\ n \in 1 .. Len(leaderLog[t])
  <2>1. Len(log[r]) \in 0 .. MaxLog
    BY <1>1, LogTypes DEF Sound
  <2> QED
    BY <1>1, <1>2, <2>1 DEF Term
<1>4. PICK w \in led : w.by = r /\ w.term = t
  BY <1>2, LeaderFacts
<1>5. \A x \in led : x.term \in Nat /\ x.term \in Term
  BY LedFacts DEF Term
<1>6. ASSUME NEW f \in Q, f # r
      PROVE  \E i \in n .. MaxLog : Acked(f, t, i) /\ Evidence(f, t, i)
  <2>1. f \in Server /\ peer[r][f].match \in 0 .. MaxLog /\ peer[r][f].match >= n
    BY <1>1, <1>6 DEF Sound, TInv, Peer
  <2>2. PICK i \in n .. MaxLog : i = peer[r][f].match
    BY <1>3, <2>1
  <2>3. i > 0 /\ i \in 1 .. MaxLog
    BY <1>3
  <2>4. Acked(f, t, i)
    BY <1>2, <1>4, <1>6, <2>2, <2>3 DEF Acked
  <2> QED
    BY <2>1, <2>3, <2>4 DEF Sound, SInv, Counted
<1>7. \A x \in led : x.term > t => Agree(leaderLog[x.term], leaderLog[t], n)
  <2> DEFINE bad == {x.term : x \in {y \in led :
                       y.term > t /\ ~Agree(leaderLog[y.term], leaderLog[t], n)}}
  <2> SUFFICES ASSUME bad # {} PROVE FALSE
    OBVIOUS
  <2>1. bad \in SUBSET Nat
    BY <1>5
  <2>2. PICK u \in bad : \A v \in bad : u <= v
    <3> HIDE DEF bad
    <3> QED
      BY <2>1, LeastNat
  <2>3. PICK x \in led : x.term = u /\ u > t /\ ~Agree(leaderLog[u], leaderLog[t], n)
    BY <2>2
  <2>4. x.votes \in SUBSET Server /\ Cardinality(x.votes) > N \div 2
        /\ \A d \in x.votes : currentTerm[d] >= u
    BY <2>3, LedFacts
  <2>5. PICK f \in Server : f \in x.votes /\ f \in Q
    BY <2>4, MajoritiesMeet
  <2>6. f # r
    BY <1>2, <1>3, <1>5, <2>3, <2>4, <2>5
  <2>7. PICK i \in n .. MaxLog : Acked(f, t, i)
    BY <1>6, <2>5, <2>6
  <2>8. Passed(f, leaderLog[u], u)
    BY <2>3, <2>5 DEF Sound, SInv, Counted
  <2>9. i \in 1 .. MaxLog /\ n \in 1 .. i /\ t < u
    BY <1>3, <1>5, <2>3, <2>7
  <2>10. Dropped(t, u - 1, n)
    BY <1>3, <2>3, <2>7, <2>8, <2>9 DEF Passed
  <2>11. PICK y \in led : /\ t < y.term /\ y.term <= u - 1
                          /\ ~Agree(leaderLog[y.term], leaderLog[t], n)
    BY <2>10 DEF Dropped
  <2>12. y.term \in bad
    BY <1>5, <2>11
  <2>13. u <= y.term
    BY <2>2, <2>12
  <2>14. u \in Nat /\ y.term \in Nat /\ y.term <= u - 1
    BY <1>5, <2>3, <2>11
  <2> HIDE DEF bad
  <2> QED
    BY <2>13, <2>14
<1>8. \A u : ~Dropped(t, u, n)
  BY <1>5, <1>7 DEF Dropped
<1>9. Holds(r, t, n)
  <2>1. Agree(log[r], leaderLog[t], n)
    BY <1>3 DEF Agree
  <2>2. NoneShorter(r, t, n)
    <3> SUFFICES ASSUME NEW s \in Server, NEW j \in 1 .. Len(chan[s][r]),
                        chan[s][r][j].type = "Append", chan[s][r][j].term = t
                 PROVE  FALSE
      BY DEF NoneShorter
    <3>1. Batch(s, r, chan[s][r][j])
      BY <1>1 DEF Sound, SInv, Requested
    <3>2. s # r /\ \E x \in led : x.by = s /\ x.term = t
      BY <3>1 DEF Batch
    <3> QED
      BY <1>4, <3>2, OneLed
  <2>3. ASSUME NEW c \in Server, Standing(c), cand[c].term > t, r \in Votes(c)
        PROVE  FALSE
    <3>1. currentTerm[r] >= cand[c].term /\ cand[c].term \in Nat
      BY <2>3 DEF Standing, Sound, IInv, VoteInv, VotersMovedOn, ElectionType, Candidacy
    <3> QED
      BY <1>2, <1>3, <2>3, <3>1
  <2> QED
    BY <1>2, <1>3, <2>1, <2>2, <2>3 DEF Holds
<1>10. ASSUME NEW f \in Q PROVE Holds(f, t, n)
  <2>1. CASE f = r
    BY <1>9, <2>1
  <2>2. CASE f # r
    <3>1. PICK i \in n .. MaxLog : Acked(f, t, i) /\ Evidence(f, t, i)
      BY <1>6, <2>2
    <3>2. i \in 1 .. MaxLog /\ n \in 1 .. i /\ f \in Server
      BY <1>3
    <3>3. currentTerm[f] >= t /\ Agree(log[f], leaderLog[t], n)
      BY <1>8, <3>1, <3>2 DEF Evidence
    <3>4. NoneShorter(f, t, n)
      <4> SUFFICES ASSUME NEW s \in Server, NEW j \in 1 .. Len(chan[s][f]),
                          chan[s][f][j].type = "Append", chan[s][f][j].term = t
                   PROVE  Ends(chan[s][f][j]) >= n
        BY DEF NoneShorter
      <4>1. Ends(chan[s][f][j]) >= i
        BY <3>1 DEF Evidence, NoneShorter
      <4>2. Ends(chan[s][f][j]) \in Nat
        <5>1. chan[s][f] \in Seq(Msg)
          BY <3>2 DEF Sound, TInv
        <5>2. chan[s][f][j] \in Msg
          BY <5>1
        <5>3. PICK m \in Msg : m = chan[s][f][j]
          BY <5>2
        <5>4. m \in AppendMsg
          BY <5>3 DEF Msg, VoteMsg
        <5>5. Ends(m) \in Nat
          BY <5>4, EndsType
        <5> QED
          BY <5>3, <5>5
      <4> QED
        BY <3>2, <4>1, <4>2
    <3>5. ASSUME NEW c \in Server, Standing(c), cand[c].term > t, f \in Votes(c)
          PROVE  Agree(log[c], leaderLog[t], n)
      <4>1. Passed(f, log[c], cand[c].term)
        BY <3>5 DEF Sound, SInv, Counted
      <4>2. t < cand[c].term
        BY <1>3, <3>5 DEF Sound, IInv, ElectionType, Candidacy
      <4> QED
        BY <1>3, <1>8, <3>1, <3>2, <4>1, <4>2 DEF Passed
    <3> QED
      BY <3>3, <3>4, <3>5 DEF Holds
  <2> QED
    BY <2>1, <2>2
<1>11. Durable(t, n)
  BY <1>3, <1>7, <1>10 DEF Durable
<1> QED
  BY <1>2, <1>11

(* Logs that stay as they are have grown.                                   *)
LEMMA LogsStay ==
  ASSUME TInv, leaderLog' = leaderLog
  PROVE  LogsGrow
<1>1. \A t \in Term : Len(leaderLog[t]) <= Len(leaderLog[t])
  BY LogTypes
<1> QED
  BY <1>1 DEF LogsGrow, Agree

(* The state of elections and connections does not change what is held.     *)
LEMMA SameHolds ==
  ASSUME UNCHANGED <<log, leaderLog, led, currentTerm, cand, chan>>
  PROVE  /\ DurableKept
         /\ \A c \in Server : Standing(c)' = Standing(c)
         /\ \A f, t, n : Holds(f, t, n)' = Holds(f, t, n)
<1>1. \A c \in Server : Standing(c)' = Standing(c)
  BY DEF Standing, Running
<1>2. ASSUME NEW f, NEW t, NEW n PROVE Holds(f, t, n)' = Holds(f, t, n)
  BY DEF Holds, NoneShorter, Standing, Running, Votes, Agree, Ends
<1>3. ASSUME NEW t, NEW n, Durable(t, n) PROVE Durable(t, n)'
  BY <1>2, <1>3 DEF Durable, Agree
<1> QED
  BY <1>1, <1>2, <1>3 DEF DurableKept

(* HeartbeatLoop commits what a majority has.                               *)
LEMMA AdvanceCommitKeeps ==
  ASSUME Sound, IInv', TInv', NEW r \in Server, AdvanceCommit(r)
  PROVE  SInv'
<1> USE RaftAssumption
<1>1. /\ UNCHANGED <<log, leaderLog, led, currentTerm, cand, chan, acks, peer, leaders>>
      /\ r \in leaders /\ Follower(r) # {}
  BY DEF AdvanceCommit, netVars
<1>2. /\ TInv /\ currentTerm[r] \in Term /\ log[r] = leaderLog[currentTerm[r]]
      /\ \E x \in led : x.by = r /\ x.term = currentTerm[r]
  BY <1>1, LeaderFacts DEF Sound
<1>3. PICK i \in 0 .. MaxLog : /\ i = MatchedIndex(r)
                               /\ Cardinality({f \in Follower(r) : peer[r][f].match >= i})
                                    >= (N - 1) - (N - 1) \div 2
  BY <1>1, <1>2, MatchedIndexReached
<1>4. Len(log[r]) \in 0 .. MaxLog /\ commit[r] \in Nat /\ log[r] \in Logs
  BY <1>2, LogTypes
<1>5. PICK n \in Nat : n = MinOf(i, Len(log[r]))
  BY <1>4 DEF MinOf
<1>6. /\ n > commit[r] /\ log[r][n].term = currentTerm[r]
      /\ commit' = [commit EXCEPT ![r] = n]
      /\ applied' = [applied EXCEPT ![r] = ApplyLogs(applied[r], log[r], n)]
  BY <1>3, <1>5 DEF AdvanceCommit
<1>7. n \in 1 .. Len(log[r]) /\ n <= i /\ n \in 1 .. MaxLog
  BY <1>4, <1>5, <1>6 DEF MinOf
<1>8. commit'[r] = n /\ \A x \in Server \ {r} : commit'[x] = commit[x]
  BY <1>2, <1>6 DEF TInv
<1>9. /\ applied'[r] = ApplyLogs(applied[r], log[r], n)
      /\ \A x \in Server \ {r} : applied'[x] = applied[x]
  BY <1>2, <1>6 DEF TInv
<1>10. Durable(currentTerm[r], n)
  <2> DEFINE A == {f \in Follower(r) : peer[r][f].match >= i}
             Q == A \cup {r}
  <2>1. A \subseteq Server /\ IsFiniteSet(A) /\ r \notin A
    <3>1. A \subseteq Server /\ r \notin A
      BY DEF Follower
    <3> QED
      BY <3>1, FS_Subset
  <2>2. Cardinality(A) \in Nat /\ Cardinality(Q) = Cardinality(A) + 1
    BY <2>1, FS_CardinalityType, FS_AddElement
  <2>3. N \in Nat
    BY FS_CardinalityType DEF N
  <2>4. Cardinality(A) >= (N - 1) - (N - 1) \div 2
    BY <1>3
  <2>5. N >= 1
    <3>1. Server # {}
      OBVIOUS
    <3> QED
      BY <2>3, <3>1, FS_EmptySet DEF N
  <2>6. Cardinality(Q) > N \div 2
    <3> HIDE DEF A, Q
    <3> QED
      BY <2>2, <2>3, <2>4, <2>5
  <2>7. Q \in SUBSET Server
    BY <2>1
  <2>8. \A f \in Q : f = r \/ peer[r][f].match >= n
    <3>1. \A f \in A : f \in Server /\ peer[r][f].match >= i
      BY DEF Follower
    <3>2. \A f \in Server : peer[r][f].match \in 0 .. MaxLog
      BY <1>2 DEF TInv, Peer
    <3>3. \A f \in A : peer[r][f].match >= n
      BY <1>7, <3>1, <3>2
    <3> QED
      BY <3>3
  <2> HIDE DEF Q
  <2> QED
    BY <1>1, <1>6, <1>7, <2>6, <2>7, <2>8, CountedIsDurable
<1>11. LogsGrow /\ DurableKept /\ \A c \in Server : Standing(c)' = Standing(c)
  BY <1>1, <1>2, LogsStay, SameHolds
<1>12. Histories' /\ Roles'
  <2>1. Histories /\ Roles
    BY DEF Sound, SInv
  <2>2. Histories'
    BY <1>1, <2>1 DEF Histories, Traced, Agree
  <2>3. Roles'
    BY <1>1, <2>1 DEF Roles, Running
  <2> QED
    BY <2>2, <2>3
<1>13. Counted'
  <2>1. Counted
    BY DEF Sound, SInv
  <2>2. ASSUME NEW f, NEW t, NEW i_1 PROVE Acked(f, t, i_1)' = Acked(f, t, i_1)
    BY <1>1 DEF Acked
  <2>3. ASSUME NEW f, NEW t, NEW i_1 PROVE Evidence(f, t, i_1)' = Evidence(f, t, i_1)
    BY <1>1 DEF Evidence, NoneShorter, Ends, Agree, Dropped
  <2>4. ASSUME NEW f, NEW l, NEW u PROVE Passed(f, l, u)' = Passed(f, l, u)
    <3>1. \A t, v, k : Dropped(t, v, k)' = Dropped(t, v, k)
      BY <1>1 DEF Dropped, Agree
    <3> QED
      BY <1>1, <2>2, <3>1, Zenon DEF Passed, Agree
  <2>5. /\ \A a \in DOMAIN acks' : a.to # a.from /\ \E x \in led' : x.by = a.to /\ x.term = a.sterm
        /\ \A x \in led' : \A f \in x.votes : Passed(f, leaderLog[x.term], x.term)'
    BY <1>1, <2>1, <2>4 DEF Counted
  <2>6. ASSUME NEW c \in Server, Standing(c)', NEW f \in Votes(c)'
        PROVE  Passed(f, log[c], cand[c].term)'
    BY <1>1, <1>11, <2>1, <2>4, <2>6 DEF Counted, Votes
  <2> QED
    BY <2>1, <2>2, <2>3, <2>5, <2>6 DEF Counted
<1>14. \A l \in Logs, k, b \in Nat : Agree(l, l, k) /\ Safe(l, k, b) => Safe(l, k, b)'
  BY <1>2, <1>11, SafeKept
<1>15. Requested'
  <2> SUFFICES ASSUME NEW s \in Server, NEW d \in Server
               PROVE  /\ \A j \in 1 .. Len(chan[s][d]) :
                           LET m == chan[s][d][j] IN
                           /\ m.type = "Append" => Batch(s, d, m)'
                           /\ m.type = "Vote" => Ask(s, m)'
                      /\ Ordered(chan[s][d])
    BY <1>1 DEF Requested
  <2>1. Ordered(chan[s][d])
    BY DEF Sound, SInv, Requested
  <2>2. ASSUME NEW j \in 1 .. Len(chan[s][d])
        PROVE  chan[s][d][j].type = "Vote" => Ask(s, chan[s][d][j])'
    <3>1. chan[s][d][j].type = "Vote" => Ask(s, chan[s][d][j])
      BY DEF Sound, SInv, Requested
    <3> QED
      BY <1>1, <1>11, <3>1 DEF Ask
  <2>3. ASSUME NEW j \in 1 .. Len(chan[s][d]), chan[s][d][j].type = "Append"
        PROVE  Batch(s, d, chan[s][d][j])'
    <3>1. chan[s][d] \in Seq(Msg)
      BY <1>2 DEF TInv
    <3>2. PICK m \in Msg : m = chan[s][d][j]
      BY <3>1
    <3>3. Batch(s, d, m) /\ m \in AppendMsg
      BY <2>3, <3>2 DEF Sound, SInv, Requested, Msg, VoteMsg
    <3>4. m.term \in Term /\ m.term \in Nat /\ m.commit \in Nat /\ leaderLog[m.term] \in Logs
      BY <1>2, <3>3, LogTypes DEF AppendMsg, Term
    <3>5. Safe(leaderLog[m.term], m.commit, m.term)
      BY <3>3 DEF Batch
    <3>6. Agree(leaderLog[m.term], leaderLog[m.term], m.commit)
      <4>1. m.commit <= Len(leaderLog[m.term])
        <5>1. m.commit <= Ends(m) /\ Ends(m) <= Len(leaderLog[m.term])
          BY <3>3 DEF Batch
        <5>3. Ends(m) \in Nat
          BY <3>3, EndsType
        <5>4. Len(leaderLog[m.term]) \in Nat
          BY <3>4 DEF Logs
        <5> QED
          BY <3>4, <5>1, <5>3, <5>4
      <4> QED
        BY <4>1 DEF Agree
    <3>7. PICK l \in Logs : l = leaderLog[m.term]
      BY <3>4
    <3>8. Safe(l, m.commit, m.term)'
      BY <1>14, <3>4, <3>5, <3>6, <3>7
    <3>9. m.term = currentTerm[d] => commit'[d] <= Ends(m)
      <4>1. CASE d = r
        BY <1>2, <3>3, <4>1, OneLed DEF Batch
      <4>2. CASE d # r
        BY <1>8, <3>3, <4>2 DEF Batch
      <4> QED
        BY <4>1, <4>2
    <3>10. Batch(s, d, m)'
      BY <1>1, <3>3, <3>7, <3>8, <3>9 DEF Batch, Ends
    <3> QED
      BY <1>1, <3>2, <3>10
  <2> QED
    BY <2>1, <2>2, <2>3
<1>16. Committed'
  <2> SUFFICES ASSUME NEW q \in Server
               PROVE  (/\ commit[q] <= Len(log[q])
                       /\ Safe(log[q], commit[q], currentTerm[q])
                       /\ applied[q] = SubSeq(log[q], 1, commit[q]))'
    BY DEF Committed
  <2>1. /\ commit[q] <= Len(log[q]) /\ Safe(log[q], commit[q], currentTerm[q])
        /\ applied[q] = SubSeq(log[q], 1, commit[q])
    BY DEF Sound, SInv, Committed
  <2>2. log[q] \in Logs /\ commit[q] \in Nat /\ currentTerm[q] \in Nat
    BY <1>2, LogTypes
  <2>3. PICK l \in Logs, b \in Nat, k \in Nat : l = log[q] /\ b = currentTerm[q] /\ k = commit'[q]
    BY <1>8, <2>2
  <2>4. CASE q # r
    <3>1. k = commit[q] /\ applied'[q] = applied[q]
      BY <1>8, <1>9, <2>3, <2>4
    <3>2. Agree(l, l, k)
      BY <2>1, <2>3, <3>1 DEF Agree
    <3>3. Safe(l, k, b)'
      BY <1>14, <2>1, <2>3, <3>1, <3>2
    <3> QED
      BY <1>1, <2>1, <2>3, <3>1, <3>3
  <2>5. CASE q = r
    <3>1. k = n
      BY <1>8, <2>3, <2>5
    <3>2. applied'[r] = SubSeq(log[r], 1, n)
      <4>1. applied[r] = SubSeq(log[r], 1, commit[r])
        BY <2>1, <2>5
      <4>2. commit[r] <= n /\ n <= Len(log[r])
        BY <1>4, <1>6, <1>7
      <4>3. ApplyLogs(SubSeq(log[r], 1, commit[r]), log[r], n) = SubSeq(log[r], 1, n)
        BY <1>4, <4>2, ApplyPrefix
      <4> QED
        BY <1>9, <4>1, <4>3
    <3>3. PICK t \in Term : t = currentTerm[r]
      BY <1>2
    <3>4. Durable(t, n)'
      BY <1>7, <1>10, <1>11, <3>3 DEF DurableKept
    <3>5. Agree(l, leaderLog'[t], n)
      BY <1>1, <1>2, <1>7, <2>3, <2>5, <3>3 DEF Agree
    <3>6. t <= b /\ n <= n
      BY <2>3, <2>5, <3>3
    <3>7. Safe(l, k, b)'
      BY <1>7, <3>1, <3>4, <3>5, <3>6 DEF Safe
    <3> QED
      BY <1>1, <1>7, <1>8, <2>3, <2>5, <3>2, <3>7
  <2> QED
    BY <2>4, <2>5
<1> QED
  BY <1>12, <1>13, <1>15, <1>16 DEF SInv
(* A leader sends what it has.                                              *)

(* What a server in the leader's term has committed is in the leader's log. *)
LEMMA CommitWithin ==
  ASSUME Sound, NEW f \in Server, NEW x \in led, currentTerm[f] = x.term
  PROVE  commit[f] <= Len(leaderLog[x.term])
<1> USE RaftAssumption
<1>1. x.term \in Term /\ x.term \in Nat /\ TInv
  BY LedFacts DEF Term, Sound
<1>2. PICK t \in Term : t = x.term
  BY <1>1
<1>3. Len(leaderLog[t]) \in Nat /\ commit[f] \in Nat /\ t \in Nat
  BY <1>1, <1>2, LogTypes
<1>4. Safe(log[f], commit[f], t)
  BY <1>2 DEF Sound, SInv, Committed
<1>5. CASE commit[f] = 0
  BY <1>2, <1>3, <1>5
<1>6. CASE commit[f] # 0
  <2>1. PICK u \in Term, n \in 1 .. MaxLog : u <= t /\ commit[f] <= n /\ Durable(u, n)
    BY <1>4, <1>6 DEF Safe
  <2>2. n <= Len(leaderLog[t])
    <3>1. CASE u = t
      <4>1. n \in 1 .. Len(leaderLog[t])
        BY <2>1, <3>1 DEF Durable
      <4> QED
        BY <1>3, <4>1
    <3>2. CASE u # t
      <4>1. u < t
        BY <2>1, <3>2 DEF Term
      <4>2. x.term > u
        BY <1>1, <1>2, <4>1 DEF Term
      <4>3. Agree(leaderLog[t], leaderLog[u], n)
        BY <1>2, <2>1, <4>2 DEF Durable
      <4> QED
        BY <4>3 DEF Agree
    <3> QED
      BY <3>1, <3>2
  <2>3. commit[f] <= n /\ n \in Nat
    BY <2>1
  <2> QED
    BY <1>2, <1>3, <2>2, <2>3
<1> QED
  BY <1>5, <1>6

(* A batch as it leaves the leader.                                         *)
LEMMA SentBatch ==
  ASSUME Sound, NEW r \in leaders, NEW f \in Server, r # f, NEW m \in AppendMsg, Sent(r, f, m)
  PROVE  Batch(r, f, m) /\ Ends(m) = Len(leaderLog[m.term])
<1> USE RaftAssumption
<1>1. /\ m.term = currentTerm[r] /\ m.commit = commit[r] /\ m.prev <= Len(log[r])
      /\ Ends(m) = Len(log[r]) /\ m.pterm = LastTerm(SubSeq(log[r], 1, m.prev))
      /\ m.ents = SubSeq(log[r], m.prev + 1, Len(log[r]))
  BY DEF Sent
<1>2. /\ r \in Server /\ currentTerm[r] \in Term /\ log[r] = leaderLog[currentTerm[r]]
      /\ \E x \in led : x.by = r /\ x.term = currentTerm[r]
  BY LeaderFacts
<1>3. log[r] \in Logs /\ Len(log[r]) \in Nat /\ m.prev \in Nat /\ currentTerm[r] \in Nat
  BY <1>2, LogTypes DEF Sound, AppendMsg
<1>4. PICK l \in Logs : l = log[r]
  BY <1>3
<1>5. \A j \in 1 .. Len(m.ents) : m.ents[j] = l[m.prev + j]
  <2>1. m.prev + 1 \in Nat /\ m.prev + 1 >= 1 /\ Len(l) <= Len(l) /\ Len(l) \in Nat
    BY <1>3, <1>4
  <2>2. \A j \in 1 .. Len(m.ents) : m.ents[j] = l[m.prev + 1 + j - 1]
    BY <1>1, <1>4, <2>1, SubLog
  <2>3. Len(m.ents) \in Nat
    BY DEF AppendMsg, Logs
  <2>4. \A j \in 1 .. Len(m.ents) : m.prev + 1 + j - 1 = m.prev + j
    BY <1>3, <2>3
  <2> QED
    BY <2>2, <2>4
<1>6. m.prev > 0 => m.pterm = l[m.prev].term
  <2> SUFFICES ASSUME m.prev > 0 PROVE m.pterm = l[m.prev].term
    OBVIOUS
  <2>0. PICK n \in Nat : n = m.prev /\ n >= 1 /\ n <= Len(l)
    BY <1>1, <1>3, <1>4
  <2>1. PICK p \in Logs : p = SubSeq(l, 1, n)
    <3>1. 1 \in Nat /\ 1 >= 1 /\ n <= Len(l)
      BY <2>0
    <3>2. SubSeq(l, 1, n) \in Logs
      BY <3>1, SubLog
    <3> QED
      BY <3>2
  <2>2. Len(p) = m.prev /\ p[m.prev] = l[m.prev]
    <3>1. /\ Len(p) = IF 1 <= n THEN n - 1 + 1 ELSE 0
          /\ \A k \in 1 .. Len(p) : p[k] = l[1 + k - 1]
      BY <2>0, <2>1, SubLog
    <3>2. Len(p) = n /\ n \in 1 .. n
      BY <2>0, <3>1
    <3>3. p[n] = l[1 + n - 1]
      BY <3>1, <3>2
    <3>4. 1 + n - 1 = n
      OBVIOUS
    <3> QED
      BY <2>0, <3>2, <3>3, <3>4
  <2>3. p # << >>
    BY <2>0, <2>2
  <2> QED
    BY <1>1, <1>4, <2>0, <2>1, <2>2, <2>3 DEF LastTerm
<1>7. m.commit <= Ends(m) /\ Safe(l, m.commit, m.term)
  BY <1>1, <1>2, <1>4 DEF Sound, SInv, Committed
<1>8. m.term = currentTerm[f] => commit[f] <= Ends(m)
  BY <1>1, <1>2, CommitWithin
<1>9. \A j \in Ends(m) + 1 .. Len(l) : l[j].term = m.term
  BY <1>1, <1>3, <1>4
<1>10. Ends(m) <= Len(l)
  BY <1>1, <1>3, <1>4
<1> QED
  BY <1>1, <1>2, <1>4, <1>5, <1>6, <1>7, <1>8, <1>9, <1>10 DEF Batch
(* A request is put at the end of a connection.                             *)
LEMMA SentQueue ==
  ASSUME TInv, NEW r \in Server, NEW f \in Server, NEW m \in Msg, Sent(r, f, m)
  PROVE  \A x, y \in Server : \A j \in 1 .. Len(chan'[x][y]) :
           \/ j \in 1 .. Len(chan[x][y]) /\ chan'[x][y][j] = chan[x][y][j]
           \/ /\ x = r /\ y = f /\ chan'[x][y][j] = m
              /\ \A i \in 1 .. Len(chan'[x][y]) : i <= j
<1>1. chan[r][f] \in Seq(Msg)
  BY DEF TInv
<1>2. PICK o \in Seq(Msg) : o = chan[r][f]
  BY <1>1
<1>3. PICK q \in Seq(Msg) : q = Append(o, m)
  <2>1. Append(o, m) \in Seq(Msg)
    OBVIOUS
  <2> QED
    BY <2>1
<1>4. /\ Len(q) = Len(o) + 1 /\ Len(o) \in Nat /\ q[Len(o) + 1] = m
      /\ \A j \in 1 .. Len(o) : q[j] = o[j]
  BY <1>3
<1>5. chan' = [chan EXCEPT ![r][f] = q]
  BY <1>2, <1>3 DEF Sent
<1>6. \A x, y \in Server : chan'[x][y] = IF x = r /\ y = f THEN q ELSE chan[x][y]
  <2>1. Replaced(r, f, q)
    BY <1>5, NewQueue DEF SetQueue
  <2> QED
    BY <2>1 DEF Replaced
<1> SUFFICES ASSUME NEW x \in Server, NEW y \in Server, NEW j \in 1 .. Len(chan'[x][y])
             PROVE  \/ j \in 1 .. Len(chan[x][y]) /\ chan'[x][y][j] = chan[x][y][j]
                    \/ /\ x = r /\ y = f /\ chan'[x][y][j] = m
                       /\ \A i \in 1 .. Len(chan'[x][y]) : i <= j
  OBVIOUS
<1>7. CASE x = r /\ y = f
  <2>1. chan'[x][y] = q /\ chan[x][y] = o
    BY <1>2, <1>6, <1>7
  <2>2. j \in 1 .. Len(o) \/ j = Len(o) + 1
    BY <1>4, <2>1
  <2>3. CASE j \in 1 .. Len(o)
    BY <1>4, <2>1, <2>3
  <2>4. CASE j = Len(o) + 1
    <3>1. \A i \in 1 .. Len(q) : i <= j
      BY <1>4, <2>4
    <3> QED
      BY <1>4, <1>7, <2>1, <2>4, <3>1
  <2> QED
    BY <2>2, <2>3, <2>4
<1>8. CASE ~(x = r /\ y = f)
  <2>1. chan'[x][y] = chan[x][y]
    BY <1>6, <1>8
  <2> QED
    BY <2>1
<1> QED
  BY <1>7, <1>8

(* HeartbeatLoop sends a batch.                                             *)
LEMMA SendKeeps ==
  ASSUME Sound, IInv', TInv', NEW r \in Server, NEW f \in Server, SendAppend(r, f)
  PROVE  SInv'
<1> USE RaftAssumption
<1>1. /\ UNCHANGED <<log, leaderLog, led, currentTerm, cand, acks, leaders, commit, applied>>
      /\ r \in leaders /\ r # f /\ TInv
  BY DEF SendAppend, logVars, Sound
<1>2. /\ \E m \in Msg : Sent(r, f, m)
      /\ \A x, y \in Server : peer'[x][y].match = peer[x][y].match
  BY <1>1, SendFacts
<1>3. PICK m \in Msg : Sent(r, f, m)
  BY <1>2
<1>4. /\ m \in AppendMsg /\ m.term = currentTerm[r]
      /\ Batch(r, f, m) /\ Ends(m) = Len(leaderLog[m.term])
      /\ m.type = "Append"
  <2>1. m \in AppendMsg /\ m.term = currentTerm[r]
    BY <1>3 DEF Sent
  <2>2. m.type = "Append"
    BY <2>1 DEF AppendMsg
  <2> QED
    BY <1>1, <1>3, <2>1, <2>2, SentBatch
<1>5. \A x, y \in Server : \A j \in 1 .. Len(chan'[x][y]) :
        \/ j \in 1 .. Len(chan[x][y]) /\ chan'[x][y][j] = chan[x][y][j]
        \/ /\ x = r /\ y = f /\ chan'[x][y][j] = m
           /\ \A i \in 1 .. Len(chan'[x][y]) : i <= j
  BY <1>1, <1>3, SentQueue
<1>6. ASSUME NEW d \in Server, NEW t \in Term, NEW n \in Nat, NoneShorter(d, t, n),
             n <= Len(leaderLog[t])
      PROVE  NoneShorter(d, t, n)'
  <2> SUFFICES ASSUME NEW s \in Server, NEW j \in 1 .. Len(chan'[s][d]),
                      chan'[s][d][j].type = "Append", chan'[s][d][j].term = t
               PROVE  Ends(chan'[s][d][j]) >= n
    BY DEF NoneShorter, Ends
  <2>1. CASE j \in 1 .. Len(chan[s][d]) /\ chan'[s][d][j] = chan[s][d][j]
    BY <1>6, <2>1 DEF NoneShorter
  <2>2. CASE s = r /\ d = f /\ chan'[s][d][j] = m
    <3>1. Ends(m) = Len(leaderLog[t]) /\ Len(leaderLog[t]) \in Nat
      BY <1>1, <1>4, <2>2, LogTypes
    <3> QED
      BY <1>6, <2>2, <3>1
  <2> QED
    BY <1>5, <2>1, <2>2
<1>7. \A c \in Server : Standing(c)' = Standing(c) /\ Votes(c)' = Votes(c)
  BY <1>1 DEF Standing, Running, Votes
<1>8. ASSUME NEW d \in Server, NEW t \in Term, NEW n \in Nat, Holds(d, t, n)
      PROVE  Holds(d, t, n)'
  <2>1. NoneShorter(d, t, n) /\ n <= Len(leaderLog[t])
    BY <1>8 DEF Holds, Agree
  <2>2. NoneShorter(d, t, n)'
    BY <1>6, <2>1
  <2> QED
    BY <1>1, <1>7, <1>8, <2>2 DEF Holds, Agree
<1>9. DurableKept
  <2> SUFFICES ASSUME NEW t \in Term, NEW n \in 1 .. MaxLog, Durable(t, n) PROVE Durable(t, n)'
    BY DEF DurableKept
  <2>1. PICK Q \in SUBSET Server : Cardinality(Q) > N \div 2 /\ \A d \in Q : Holds(d, t, n)
    BY DEF Durable
  <2>2. \A d \in Q : Holds(d, t, n)'
    <3>1. n \in Nat
      OBVIOUS
    <3> QED
      BY <1>8, <2>1, <3>1
  <2> QED
    BY <1>1, <2>1, <2>2 DEF Durable, Agree
<1>10. LogsGrow
  BY <1>1, LogsStay
<1>11. \A l \in Logs, k, b \in Nat : Agree(l, l, k) /\ Safe(l, k, b) => Safe(l, k, b)'
  BY <1>1, <1>9, <1>10, SafeKept
<1>12. Histories' /\ Roles'
  <2>1. Histories /\ Roles
    BY DEF Sound, SInv
  <2>2. Histories'
    BY <1>1, <2>1 DEF Histories, Traced, Agree
  <2>3. Roles'
    BY <1>1, <2>1 DEF Roles, Running
  <2> QED
    BY <2>2, <2>3
<1>13. Counted'
  <2>1. Counted
    BY DEF Sound, SInv
  <2>2. ASSUME NEW d \in Server, NEW t, NEW i PROVE Acked(d, t, i)' => Acked(d, t, i)
    <3>1. \A x \in led : x.by \in Server
      BY LedFacts
    <3> QED
      BY <1>1, <1>2, <3>1 DEF Acked
  <2>3. \A t, v, k : Dropped(t, v, k)' = Dropped(t, v, k)
    BY <1>1 DEF Dropped, Agree
  <2>4. ASSUME NEW d \in Server, NEW t \in Term, NEW i \in 1 .. MaxLog, Acked(d, t, i)'
        PROVE  Evidence(d, t, i)'
    <3>1. Evidence(d, t, i)
      BY <2>1, <2>2, <2>4 DEF Counted
    <3>2. NoneShorter(d, t, i)'
      BY <1>6, <3>1 DEF Evidence
    <3> QED
      BY <1>1, <2>3, <3>1, <3>2 DEF Evidence, Agree
  <2>5. ASSUME NEW d \in Server, NEW l, NEW u, Passed(d, l, u) PROVE Passed(d, l, u)'
    BY <1>1, <2>2, <2>3, <2>5, Zenon DEF Passed, Agree
  <2>6. /\ \A a \in DOMAIN acks' : a.to # a.from /\ \E x \in led' : x.by = a.to /\ x.term = a.sterm
        /\ \A x \in led' : \A d \in x.votes : Passed(d, leaderLog[x.term], x.term)'
    <3>1. \A x \in led : x.votes \subseteq Server
      BY LedFacts
    <3> QED
      BY <1>1, <2>1, <2>5, <3>1 DEF Counted
  <2>7. ASSUME NEW c \in Server, Standing(c)', NEW d \in Votes(c)'
        PROVE  Passed(d, log[c], cand[c].term)'
    <3>1. Votes(c) \subseteq Server
      BY DEF Votes, Sound, IInv, ElectionType, Candidacy
    <3>2. d \in Server /\ Passed(d, log[c], cand[c].term)
      BY <1>7, <2>1, <2>7, <3>1 DEF Counted
    <3> QED
      BY <1>1, <2>5, <3>2
  <2> QED
    BY <2>4, <2>6, <2>7 DEF Counted
<1>14. Committed'
  <2> SUFFICES ASSUME NEW q \in Server
               PROVE  (/\ commit[q] <= Len(log[q])
                       /\ Safe(log[q], commit[q], currentTerm[q])
                       /\ applied[q] = SubSeq(log[q], 1, commit[q]))'
    BY DEF Committed
  <2>1. /\ commit[q] <= Len(log[q]) /\ Safe(log[q], commit[q], currentTerm[q])
        /\ applied[q] = SubSeq(log[q], 1, commit[q])
    BY DEF Sound, SInv, Committed
  <2>2. log[q] \in Logs /\ commit[q] \in Nat /\ currentTerm[q] \in Nat
    BY <1>1, LogTypes
  <2>3. PICK l \in Logs, b \in Nat, k \in Nat : l = log[q] /\ b = currentTerm[q] /\ k = commit[q]
    BY <2>2
  <2>4. Agree(l, l, k)
    BY <2>1, <2>3 DEF Agree
  <2>5. Safe(l, k, b)'
    BY <1>11, <2>1, <2>3, <2>4
  <2> QED
    BY <1>1, <2>1, <2>3, <2>5
<1>15. ASSUME NEW s \in Server, NEW d \in Server, NEW k \in AppendMsg, Batch(s, d, k)
       PROVE  Batch(s, d, k)'
  <2>1. k.term \in Term /\ k.term \in Nat /\ k.commit \in Nat /\ leaderLog[k.term] \in Logs
    BY <1>1, LogTypes DEF AppendMsg, Term
  <2>2. PICK l \in Logs : l = leaderLog[k.term]
    BY <2>1
  <2>3. k.commit <= Len(l)
    <3>1. k.commit <= Ends(k) /\ Ends(k) <= Len(l)
      BY <1>15, <2>2 DEF Batch
    <3>3. Ends(k) \in Nat
      BY EndsType
    <3>4. Len(l) \in Nat
      BY DEF Logs
    <3> QED
      BY <2>1, <3>1, <3>3, <3>4
  <2>4. Agree(l, l, k.commit)
    BY <2>3 DEF Agree
  <2>5. Safe(l, k.commit, k.term)'
    BY <1>11, <1>15, <2>1, <2>2, <2>4 DEF Batch
  <2> QED
    BY <1>1, <1>15, <2>2, <2>5 DEF Batch, Ends
<1>16. Requested'
  <2> SUFFICES ASSUME NEW s \in Server, NEW d \in Server
               PROVE  /\ \A j \in 1 .. Len(chan'[s][d]) :
                           /\ chan'[s][d][j].type = "Append" => Batch(s, d, chan[s][d][j])'
                           /\ chan'[s][d][j].type = "Vote" => Ask(s, chan[s][d][j])'
                      /\ Ordered(chan[s][d])'
    BY DEF Requested
  <2>0. \A j \in 1 .. Len(chan[s][d]) : chan[s][d][j] \in Msg
    <3>1. chan[s][d] \in Seq(Msg)
      BY <1>1 DEF TInv
    <3> QED
      BY <3>1
  <2>1. ASSUME NEW j \in 1 .. Len(chan'[s][d]), chan'[s][d][j].type = "Append"
        PROVE  Batch(s, d, chan[s][d][j])'
    <3>1. CASE j \in 1 .. Len(chan[s][d]) /\ chan'[s][d][j] = chan[s][d][j]
      <4>1. PICK k \in Msg : k = chan[s][d][j]
        BY <2>0, <3>1
      <4>2. k \in AppendMsg /\ Batch(s, d, k)
        BY <2>1, <3>1, <4>1 DEF Msg, VoteMsg, Sound, SInv, Requested
      <4>3. Batch(s, d, k)'
        BY <1>15, <4>2
      <4> QED
        BY <3>1, <4>1, <4>3
    <3>2. CASE s = r /\ d = f /\ chan'[s][d][j] = m
      <4>1. Batch(s, d, m)'
        BY <1>4, <1>15, <3>2
      <4> QED
        BY <3>2, <4>1
    <3> QED
      BY <1>5, <3>1, <3>2
  <2>2. ASSUME NEW j \in 1 .. Len(chan'[s][d]), chan'[s][d][j].type = "Vote"
        PROVE  Ask(s, chan[s][d][j])'
    <3>1. j \in 1 .. Len(chan[s][d]) /\ chan'[s][d][j] = chan[s][d][j]
      BY <1>4, <1>5, <2>2
    <3>2. Ask(s, chan[s][d][j])
      BY <2>2, <3>1 DEF Sound, SInv, Requested
    <3> QED
      BY <1>1, <1>7, <3>1, <3>2 DEF Ask
  <2>3. ASSUME NEW i \in 1 .. Len(chan'[s][d]), NEW j \in 1 .. Len(chan'[s][d]), i < j,
               chan'[s][d][i].type = "Append", chan'[s][d][j].type = "Append",
               chan'[s][d][i].term = chan'[s][d][j].term
        PROVE  Ends(chan'[s][d][i]) <= Ends(chan'[s][d][j])
    <3>1. i \in 1 .. Len(chan[s][d]) /\ chan'[s][d][i] = chan[s][d][i]
      <4>1. i \in Nat /\ j \in Nat /\ ~(j <= i)
        BY <2>3
      <4> QED
        BY <1>5, <4>1
    <3>2. CASE j \in 1 .. Len(chan[s][d]) /\ chan'[s][d][j] = chan[s][d][j]
      <4>1. Ordered(chan[s][d])
        BY DEF Sound, SInv, Requested
      <4> QED
        BY <2>3, <3>1, <3>2, <4>1 DEF Ordered
    <3>3. CASE s = r /\ d = f /\ chan'[s][d][j] = m
      <4>1. PICK k \in Msg : k = chan[s][d][i]
        BY <2>0, <3>1
      <4>2. Batch(s, d, k)
        BY <2>3, <3>1, <4>1 DEF Sound, SInv, Requested
      <4>3. k.term = m.term
        BY <2>3, <3>1, <3>3, <4>1
      <4>4. Ends(k) <= Len(leaderLog[m.term])
        BY <4>2, <4>3 DEF Batch
      <4> QED
        BY <1>4, <3>1, <3>3, <4>1, <4>4
    <3> QED
      BY <1>5, <3>2, <3>3
  <2>4. Ordered(chan[s][d])'
    BY <2>3 DEF Ordered, Ends
  <2> QED
    BY <2>1, <2>2, <2>4
<1> QED
  BY <1>12, <1>13, <1>14, <1>16 DEF SInv

(* A batch stays one when its leader's log grows with entries of its term.  *)
LEMMA BatchKept ==
  ASSUME TInv, TInv', LogsGrow, DurableKept, led \subseteq led',
         NEW s \in Server, NEW d \in Server, NEW m \in AppendMsg, Batch(s, d, m),
         \A j \in Len(leaderLog[m.term]) + 1 .. Len(leaderLog'[m.term]) :
           leaderLog'[m.term][j].term = m.term,
         m.term = currentTerm'[d] => commit'[d] <= Ends(m)
  PROVE  Batch(s, d, m)'
<1> USE RaftAssumption
<1>1. m.term \in Term /\ m.commit \in Nat /\ m.prev \in Nat /\ m.ents \in Logs
  BY DEF AppendMsg, Term
<1>2. Len(m.ents) \in Nat /\ Ends(m) \in Nat
  BY EndsType
<1>3. PICK t \in Term : t = m.term
  BY <1>1
<1>4. leaderLog[t] \in Logs /\ leaderLog'[t] \in Logs
  BY DEF TInv
<1>5. PICK l \in Logs, p \in Logs : l = leaderLog[t] /\ p = leaderLog'[t]
  BY <1>4
<1>6. Len(l) \in Nat /\ Len(p) \in Nat /\ t \in Nat
  BY DEF Logs, Term
<1>7. Len(l) <= Len(p) /\ \A j \in 1 .. Len(l) : p[j] = l[j]
  BY <1>5 DEF LogsGrow, Agree
<1>8. /\ s # d /\ \E x \in led : x.by = s /\ x.term = t
      /\ Ends(m) <= Len(l)
      /\ \A j \in 1 .. Len(m.ents) : m.ents[j] = l[m.prev + j]
      /\ m.prev > 0 => m.pterm = l[m.prev].term
      /\ \A j \in Ends(m) + 1 .. Len(l) : l[j].term = t
      /\ m.commit <= Ends(m) /\ Safe(l, m.commit, t)
  BY <1>3, <1>5 DEF Batch
<1>9. Ends(m) <= Len(p)
  BY <1>2, <1>6, <1>7, <1>8
<1>10. \A j \in 1 .. Len(m.ents) : m.ents[j] = p[m.prev + j]
  <2>1. \A j \in 1 .. Len(m.ents) : m.prev + j \in 1 .. Len(l)
    BY <1>1, <1>2, <1>6, <1>8 DEF Ends
  <2> QED
    BY <1>7, <1>8, <2>1
<1>11. m.prev > 0 => m.pterm = p[m.prev].term
  <2>1. m.prev > 0 => m.prev \in 1 .. Len(l)
    BY <1>1, <1>2, <1>6, <1>8 DEF Ends
  <2> QED
    BY <1>7, <1>8, <2>1
<1>12. \A j \in Ends(m) + 1 .. Len(p) : p[j].term = t
  <2> SUFFICES ASSUME NEW j \in Ends(m) + 1 .. Len(p) PROVE p[j].term = t
    OBVIOUS
  <2>1. CASE j <= Len(l)
    <3>1. j \in 1 .. Len(l) /\ j \in Ends(m) + 1 .. Len(l)
      BY <1>2, <1>6, <2>1
    <3> QED
      BY <1>7, <1>8, <3>1
  <2>2. CASE ~(j <= Len(l))
    <3>1. j \in Len(l) + 1 .. Len(p)
      BY <1>2, <1>6, <2>2
    <3> QED
      BY <1>3, <1>5, <3>1
  <2> QED
    BY <2>1, <2>2
<1>13. Safe(p, m.commit, t)'
  <2>1. m.commit <= Len(l)
    BY <1>1, <1>2, <1>6, <1>8
  <2>2. Agree(p, l, m.commit)
    BY <1>1, <1>6, <1>7, <2>1 DEF Agree
  <2>3. t <= t
    BY <1>6
  <2> QED
    BY <1>1, <1>6, <1>8, <2>2, <2>3, SafeKept
<1>14. \E x \in led' : x.by = s /\ x.term = t
  BY <1>8
<1> QED
  BY <1>3, <1>5, <1>8, <1>9, <1>10, <1>11, <1>12, <1>13, <1>14 DEF Batch, Ends

(* The same entries.                                                        *)
LEMMA SamePrefix ==
  ASSUME NEW l \in Logs, NEW k \in Logs, NEW n \in Nat, Agree(l, k, n)
  PROVE  SubSeq(l, 1, n) = SubSeq(k, 1, n)
<1>1. n <= Len(l) /\ n <= Len(k) /\ \A j \in 1 .. n : l[j] = k[j]
  BY DEF Agree
<1>2. 1 \in Nat /\ 1 >= 1
  OBVIOUS
<1>3. /\ SubSeq(l, 1, n) \in Logs /\ Len(SubSeq(l, 1, n)) = IF 1 <= n THEN n - 1 + 1 ELSE 0
      /\ \A j \in 1 .. Len(SubSeq(l, 1, n)) : SubSeq(l, 1, n)[j] = l[1 + j - 1]
  BY <1>1, <1>2, SubLog
<1>4. /\ SubSeq(k, 1, n) \in Logs /\ Len(SubSeq(k, 1, n)) = IF 1 <= n THEN n - 1 + 1 ELSE 0
      /\ \A j \in 1 .. Len(SubSeq(k, 1, n)) : SubSeq(k, 1, n)[j] = k[1 + j - 1]
  BY <1>1, <1>2, SubLog
<1>5. PICK a \in Seq(Entry), b \in Seq(Entry) : a = SubSeq(l, 1, n) /\ b = SubSeq(k, 1, n)
  BY <1>3, <1>4 DEF Logs
<1>6. Len(a) = n /\ Len(b) = n
  BY <1>3, <1>4, <1>5
<1>7. \A j \in 1 .. n : 1 + j - 1 = j
  OBVIOUS
<1>8. \A j \in 1 .. n : a[j] = l[j] /\ b[j] = k[j]
  BY <1>3, <1>4, <1>5, <1>6, <1>7
<1>9. \A j \in 1 .. Len(a) : a[j] = b[j]
  BY <1>1, <1>6, <1>8
<1> QED
  BY <1>5, <1>6, <1>9, SeqEqual

(* Who commits nothing keeps what it has committed.                         *)
LEMMA CommittedKept ==
  ASSUME TInv, TInv', LogsGrow, DurableKept, NEW q \in Server, Committed,
         currentTerm'[q] >= currentTerm[q], commit'[q] = commit[q], applied'[q] = applied[q],
         Agree(log'[q], log[q], commit[q])
  PROVE  (/\ commit[q] <= Len(log[q])
          /\ Safe(log[q], commit[q], currentTerm[q])
          /\ applied[q] = SubSeq(log[q], 1, commit[q]))'
<1>1. /\ log[q] \in Logs /\ log'[q] \in Logs /\ commit[q] \in Nat
      /\ currentTerm[q] \in Nat /\ currentTerm'[q] \in Nat
  BY RaftAssumption DEF TInv
<1>2. PICK l \in Logs, p \in Logs, k \in Nat, b \in Nat, c \in Nat :
        l = log[q] /\ p = log'[q] /\ k = commit[q] /\ b = currentTerm[q] /\ c = currentTerm'[q]
  BY <1>1
<1>3. Safe(l, k, b) /\ applied[q] = SubSeq(l, 1, k)
  BY <1>2 DEF Committed
<1>4. Agree(p, l, k) /\ b <= c
  BY <1>2
<1>5. Safe(p, k, c)'
  BY <1>3, <1>4, SafeKept
<1>6. SubSeq(p, 1, k) = SubSeq(l, 1, k)
  BY <1>4, SamePrefix
<1>7. k <= Len(p)
  BY <1>4 DEF Agree
<1> QED
  BY <1>2, <1>3, <1>5, <1>6, <1>7

--------------------------------------------------------------------------------
(* A candidate wins.                                                        *)

(* Nobody has led the term of a candidate with enough votes: it can win.    *)
LEMMA WinnerStands ==
  ASSUME Sound, NEW r \in Server, Win(r)
  PROVE  /\ Standing(r) /\ currentTerm[r] \in Term /\ cand[r].term = currentTerm[r]
         /\ Votes(r) \in SUBSET Server /\ Cardinality(Votes(r)) > N \div 2
         /\ leaderLog[currentTerm[r]] = << >>
<1> USE RaftAssumption
<1>1. Running(r) /\ Yes(cand[r].yes) /\ cand[r].term = currentTerm[r]
  BY DEF Win, Running
<1>2. cand[r].yes \in SUBSET Server /\ cand[r].term > 0 /\ r \notin cand[r].yes
  BY <1>1 DEF Sound, IInv, ElectionType, Candidacy, VoteInv, VotersMovedOn
<1>3. currentTerm[r] \in Term
  <2>1. currentTerm[r] \in 0 .. MaxTerm
    BY DEF Sound, TInv
  <2> QED
    BY <1>1, <1>2, <2>1 DEF Term
<1>4. Votes(r) \in SUBSET Server /\ Cardinality(Votes(r)) > N \div 2
  <2>1. IsFiniteSet(cand[r].yes)
    BY <1>2, FS_Subset
  <2>2. Cardinality(cand[r].yes) \in Nat /\ Cardinality(Votes(r)) = Cardinality(cand[r].yes) + 1
    BY <1>2, <2>1, FS_CardinalityType, FS_AddElement DEF Votes
  <2>3. N \in Nat
    BY FS_CardinalityType DEF N
  <2>4. Cardinality(Votes(r)) > N \div 2
    BY <1>1, <2>2, <2>3 DEF Yes
  <2> QED
    BY <1>2, <2>4 DEF Votes
<1>5. ASSUME NEW x \in led, x.term = currentTerm[r] PROVE FALSE
  <2>1. x.votes \in SUBSET Server /\ Cardinality(x.votes) > N \div 2 /\ Won(x)
    BY LedFacts DEF Sound, LeadersElected
  <2>2. x.by # r
    <3>1. x.by = r => x.term < cand[r].term
      BY <1>1 DEF Sound, SInv, Roles
    <3>2. cand[r].term \in Nat
      BY DEF Sound, IInv, ElectionType, Candidacy
    <3> QED
      BY <1>1, <1>5, <3>1, <3>2
  <2>3. x.votes \cap Votes(r) = {}
    BY <1>1, <1>5, <2>1, <2>2 DEF Sound, IInv, VoteInv, WinnersShareNoVote
  <2>4. \E f \in Server : f \in x.votes /\ f \in Votes(r)
    BY <1>4, <2>1, MajoritiesMeet
  <2> QED
    BY <2>3, <2>4
<1>6. leaderLog[currentTerm[r]] = << >>
  BY <1>3, <1>5 DEF Sound, SInv, Histories
<1>7. Standing(r)
  BY <1>1, <1>5 DEF Standing
<1> QED
  BY <1>1, <1>3, <1>4, <1>6, <1>7

(* What setIsLeader changes: T is the new term, y its history.              *)
Elected(r, T, y) ==
  /\ T = currentTerm[r] /\ y.term = T /\ y.by = r /\ y.votes = Votes(r)
  /\ led' = led \cup {y}
  /\ \A t \in Term \ {T} : leaderLog'[t] = leaderLog[t]
  /\ leaderLog'[T] = log[r]
  /\ leaders' = leaders \cup {r}
  /\ \A x \in Server \ {r} : cand'[x] = cand[x]
  /\ cand'[r] = NoCand
  /\ \A x \in Server \ {r}, f \in Server : peer'[x][f].match = peer[x][f].match
  /\ \A f \in Server : peer'[r][f].match = 0
  /\ UNCHANGED <<currentTerm, log, commit, applied, chan, acks>>

(* It changes that.                                                         *)
LEMMA WinFacts ==
  ASSUME Sound, NEW r \in Server, Win(r)
  PROVE  \E y : Elected(r, currentTerm[r], y)
<1> DEFINE y == [term |-> currentTerm[r], by |-> r, votes |-> cand[r].yes \cup {r}]
<1>1. TInv /\ cand \in [Server -> Candidacy] /\ currentTerm[r] \in Term
  BY WinnerStands DEF Sound, IInv, ElectionType
<1>2. /\ UNCHANGED <<currentTerm, log, commit, applied, chan, acks>>
      /\ leaders' = leaders \cup {r} /\ led' = led \cup {y}
  BY DEF Win, netVars
<1>3. /\ \A t \in Term \ {currentTerm[r]} : leaderLog'[t] = leaderLog[t]
      /\ leaderLog'[currentTerm[r]] = log[r]
  BY <1>1 DEF Win, TInv
<1>4. (\A x \in Server \ {r} : cand'[x] = cand[x]) /\ cand'[r] = NoCand
  BY <1>1 DEF Win
<1>5. /\ \A x \in Server \ {r}, f \in Server : peer'[x][f].match = peer[x][f].match
      /\ \A f \in Server : peer'[r][f].match = 0
  <2>1. peer' = [peer EXCEPT ![r] = [f \in Server |-> Fresh(Len(log[r]))]]
    BY DEF Win
  <2>2. \A x \in Server \ {r} : peer'[x] = peer[x]
    BY <1>1, <2>1 DEF TInv
  <2>3. peer'[r] = [f \in Server |-> Fresh(Len(log[r]))]
    BY <1>1, <2>1 DEF TInv
  <2> QED
    BY <2>2, <2>3 DEF Fresh
<1>6. y.term = currentTerm[r] /\ y.by = r /\ y.votes = Votes(r)
  BY DEF Votes
<1> HIDE DEF y
<1> QED
  BY <1>2, <1>3, <1>4, <1>5, <1>6 DEF Elected

(* An elected leader has everything durable, and nothing is lost.           *)
LEMMA WinKeeps ==
  ASSUME Sound, IInv', TInv', NEW r \in Server, Win(r)
  PROVE  SInv'
<1> USE RaftAssumption
<1>1. PICK T \in Term : /\ T = currentTerm[r] /\ Standing(r) /\ cand[r].term = T
                        /\ Votes(r) \in SUBSET Server /\ Cardinality(Votes(r)) > N \div 2
                        /\ leaderLog[T] = << >>
  BY WinnerStands
<1>2. PICK y : Elected(r, T, y)
  BY <1>1, WinFacts
<1>3. /\ y.term = T /\ y.by = r /\ y.votes = Votes(r) /\ led' = led \cup {y}
      /\ (\A t \in Term \ {T} : leaderLog'[t] = leaderLog[t]) /\ leaderLog'[T] = log[r]
      /\ leaders' = leaders \cup {r}
      /\ (\A x \in Server \ {r} : cand'[x] = cand[x]) /\ cand'[r] = NoCand
      /\ UNCHANGED <<currentTerm, log, commit, applied, chan, acks>>
  BY <1>2 DEF Elected
<1>4. \A x \in led : x.term # T /\ x.term \in Term /\ leaderLog'[x.term] = leaderLog[x.term]
  BY <1>1, <1>3, LedFacts DEF Standing
<1>5. TInv /\ T \in Nat /\ Len(leaderLog[T]) = 0
  BY <1>1 DEF Sound, Term
<1>6. LogsGrow
  <2> SUFFICES ASSUME NEW t \in Term
               PROVE  Agree(leaderLog'[t], leaderLog[t], Len(leaderLog[t]))
    BY DEF LogsGrow
  <2>1. Len(leaderLog[t]) \in Nat /\ Len(leaderLog'[t]) \in Nat
    <3>1. leaderLog[t] \in Logs /\ leaderLog'[t] \in Logs
      BY <1>5 DEF TInv
    <3> QED
      BY <3>1 DEF Logs
  <2>2. CASE t = T
    BY <1>5, <2>1, <2>2 DEF Agree
  <2>3. CASE t # T
    BY <1>3, <2>1, <2>3 DEF Agree
  <2> QED
    BY <2>2, <2>3
<1>7. ASSUME NEW c \in Server, Standing(c)'
      PROVE  /\ c # r /\ Standing(c) /\ cand'[c] = cand[c] /\ log'[c] = log[c]
             /\ Votes(c)' = Votes(c)
  <2>1. c # r
    BY <1>3, <1>7 DEF Standing, Running
  <2>2. cand'[c] = cand[c]
    BY <1>3, <2>1
  <2>3. Standing(c)
    BY <1>3, <1>7, <2>2 DEF Standing, Running
  <2> QED
    BY <1>3, <2>1, <2>2, <2>3 DEF Votes
<1>8. ASSUME NEW t \in Term, t # T, NEW u, NEW n, Dropped(t, u, n)
      PROVE  Dropped(t, u, n)'
  BY <1>3, <1>4, <1>8 DEF Dropped, Agree
<1>9. ASSUME NEW f \in Server, NEW t \in Term, t # T, NEW n, Holds(f, t, n)
      PROVE  Holds(f, t, n)'
  <2>1. currentTerm'[f] >= t /\ Agree(log'[f], leaderLog'[t], n) /\ NoneShorter(f, t, n)'
    BY <1>3, <1>9 DEF Holds, NoneShorter, Ends
  <2>2. ASSUME NEW c \in Server, Standing(c)', cand'[c].term > t, f \in Votes(c)'
        PROVE  Agree(log'[c], leaderLog'[t], n)
    BY <1>3, <1>7, <1>9, <2>2 DEF Holds
  <2> QED
    BY <2>1, <2>2 DEF Holds, Agree
<1>10. DurableKept
  <2> SUFFICES ASSUME NEW t \in Term, NEW n \in 1 .. MaxLog, Durable(t, n) PROVE Durable(t, n)'
    BY DEF DurableKept
  <2>1. /\ n \in 1 .. Len(leaderLog[t]) /\ leaderLog[t][n].term = t
        /\ \A x \in led : x.term > t => Agree(leaderLog[x.term], leaderLog[t], n)
    BY DEF Durable
  <2>2. PICK Q \in SUBSET Server : Cardinality(Q) > N \div 2 /\ \A f \in Q : Holds(f, t, n)
    BY DEF Durable
  <2>3. t # T
    BY <1>5, <2>1
  <2>4. leaderLog'[t] = leaderLog[t]
    BY <1>3, <2>3
  <2>5. \A f \in Q : Holds(f, t, n)'
    BY <1>9, <2>2, <2>3
  <2>6. T > t => Agree(log[r], leaderLog[t], n)
    <3>1. PICK f \in Server : f \in Q /\ f \in Votes(r)
      BY <1>1, <2>2, MajoritiesMeet
    <3> QED
      BY <1>1, <2>2, <3>1 DEF Holds
  <2>7. \A x \in led' : x.term > t => Agree(leaderLog'[x.term], leaderLog'[t], n)
    BY <1>3, <1>4, <2>1, <2>4, <2>6
  <2> QED
    BY <2>1, <2>2, <2>4, <2>5, <2>7 DEF Durable, Agree
<1>11. ASSUME NEW l \in Logs, NEW b, Traced(l, b) PROVE Traced(l, b)'
  <2> SUFFICES ASSUME NEW n \in 1 .. Len(l)
               PROVE  l[n].term <= b /\ Agree(l, leaderLog'[l[n].term], n)
    BY DEF Traced, Agree
  <2>1. /\ l[n].term \in Term /\ l[n].term <= b /\ Agree(l, leaderLog[l[n].term], n)
        /\ \E x \in led : x.term = l[n].term
    BY <1>11, EntryLed
  <2> QED
    BY <1>4, <2>1
<1>12. Histories'
  <2>1. Histories
    BY DEF Sound, SInv
  <2>2. ASSUME NEW q \in Server PROVE Traced(log[q], currentTerm[q])'
    <3>1. PICK l \in Logs, b \in Nat : l = log[q] /\ b = currentTerm[q]
      BY <1>5, LogTypes, TermTypes
    <3>2. Traced(l, b)'
      BY <1>11, <2>1, <3>1 DEF Histories
    <3> QED
      BY <1>3, <3>1, <3>2
  <2>3. ASSUME NEW t \in Term PROVE Traced(leaderLog[t], t)'
    <3>1. CASE t = T
      <4>1. Traced(log[r], currentTerm[r])'
        BY <2>2
      <4> QED
        BY <1>1, <1>3, <3>1, <4>1
    <3>2. CASE t # T
      <4>1. PICK l \in Logs : l = leaderLog[t]
        BY <1>5, LogTypes
      <4>2. Traced(l, t)'
        BY <1>11, <2>1, <4>1 DEF Histories
      <4> QED
        BY <1>3, <3>2, <4>1, <4>2
    <3> QED
      BY <3>1, <3>2
  <2>4. ASSUME NEW t \in Term, leaderLog'[t] # << >> PROVE \E x \in led' : x.term = t
    <3>1. CASE t = T
      BY <1>3, <3>1
    <3>2. CASE t # T
      BY <1>3, <2>1, <2>4, <3>2 DEF Histories
    <3> QED
      BY <3>1, <3>2
  <2>5. ASSUME NEW x \in led', currentTerm'[x.by] = x.term PROVE log'[x.by] = leaderLog'[x.term]
    <3>1. CASE x \in led
      BY <1>3, <1>4, <2>1, <2>5, <3>1 DEF Histories
    <3>2. CASE x = y
      BY <1>3, <3>2
    <3> QED
      BY <1>3, <3>1, <3>2
  <2> QED
    BY <2>2, <2>3, <2>4, <2>5 DEF Histories
<1>13. Roles'
  <2>1. Roles
    BY DEF Sound, SInv
  <2>2. ASSUME NEW q \in leaders' PROVE \E x \in led' : x.by = q /\ x.term = currentTerm'[q]
    <3>1. CASE q \in leaders
      BY <1>3, <2>1, <3>1 DEF Roles
    <3>2. CASE q = r
      BY <1>1, <1>3, <3>2
    <3> QED
      BY <1>3, <3>1, <3>2
  <2>3. \A x \in led' : x.term \in Term /\ x.by \in x.votes
    BY <1>3, <2>1 DEF Roles, Votes
  <2>4. ASSUME NEW q \in Server, Running(q)'
        PROVE  q \notin leaders' /\ \A x \in led' : x.by = q => x.term < cand'[q].term
    <3>1. q # r
      BY <1>3, <2>4 DEF Running
    <3>2. cand'[q] = cand[q] /\ Running(q)
      BY <1>3, <2>4, <3>1 DEF Running
    <3> QED
      BY <1>3, <2>1, <3>1, <3>2 DEF Roles
  <2> QED
    BY <2>2, <2>3, <2>4 DEF Roles
<1>14. Requested'
  <2> SUFFICES ASSUME NEW s \in Server, NEW d \in Server
               PROVE  /\ \A j \in 1 .. Len(chan'[s][d]) :
                           /\ chan'[s][d][j].type = "Append" => Batch(s, d, chan[s][d][j])'
                           /\ chan'[s][d][j].type = "Vote" => Ask(s, chan[s][d][j])'
                      /\ Ordered(chan[s][d])'
    BY DEF Requested
  <2>1. Ordered(chan[s][d])'
    <3>1. Ordered(chan[s][d])
      BY DEF Sound, SInv, Requested
    <3> QED
      BY <1>3, <3>1
  <2>2. ASSUME NEW j \in 1 .. Len(chan[s][d]), chan[s][d][j].type = "Vote"
        PROVE  Ask(s, chan[s][d][j])'
    <3>1. Ask(s, chan[s][d][j])
      BY <2>2 DEF Sound, SInv, Requested
    <3> QED
      BY <1>3, <1>7, <3>1 DEF Ask
  <2>3. ASSUME NEW j \in 1 .. Len(chan[s][d]), chan[s][d][j].type = "Append"
        PROVE  Batch(s, d, chan[s][d][j])'
    <3>1. chan[s][d] \in Seq(Msg)
      BY <1>5 DEF TInv
    <3>2. PICK m \in Msg : m = chan[s][d][j]
      BY <3>1
    <3>3. Batch(s, d, m) /\ m \in AppendMsg
      BY <2>3, <3>2 DEF Sound, SInv, Requested, Msg, VoteMsg
    <3>4. leaderLog'[m.term] = leaderLog[m.term] /\ m.term \in Term
      BY <1>4, <3>3 DEF Batch
    <3>5. Len(leaderLog[m.term]) \in Nat
      BY <1>5, <3>4, LogTypes
    <3>6. \A k \in Len(leaderLog[m.term]) + 1 .. Len(leaderLog'[m.term]) :
            leaderLog'[m.term][k].term = m.term
      BY <3>4, <3>5
    <3>7. m.term = currentTerm'[d] => commit'[d] <= Ends(m)
      BY <1>3, <3>3 DEF Batch
    <3>8. Batch(s, d, m)'
      BY <1>3, <1>5, <1>6, <1>10, <3>3, <3>6, <3>7, BatchKept
    <3> QED
      BY <1>3, <3>2, <3>8
  <2> QED
    BY <1>3, <2>1, <2>2, <2>3
<1>15. ASSUME NEW f \in Server, NEW t \in Term, NEW i \in 1 .. MaxLog, Acked(f, t, i)'
       PROVE  t # T /\ Acked(f, t, i)
  <2>1. CASE \E a \in DOMAIN acks' : a.from = f /\ a.ok /\ ~a.hb /\ a.sterm = t /\ a.last = i
    <3>1. PICK a \in DOMAIN acks : a.from = f /\ a.ok /\ ~a.hb /\ a.sterm = t /\ a.last = i
      BY <1>3, <2>1
    <3>2. \E x \in led : x.term = a.sterm
      BY DEF Sound, SInv, Counted
    <3> QED
      BY <1>4, <3>1, <3>2 DEF Acked
  <2>2. CASE \E x \in led' : /\ x.term = t /\ currentTerm'[x.by] = t /\ f # x.by
                             /\ i > 0 /\ peer'[x.by][f].match = i
    <3>1. PICK x \in led' : /\ x.term = t /\ currentTerm[x.by] = t /\ f # x.by
                            /\ i > 0 /\ peer'[x.by][f].match = i
      BY <1>3, <2>2
    <3>2. x.by # r
      <4>1. x.by = r => peer'[x.by][f].match = 0
        BY <1>2 DEF Elected
      <4> QED
        BY <3>1, <4>1
    <3>3. x \in led /\ x.by \in Server
      BY <1>3, <3>1, <3>2, LedFacts
    <3>4. peer'[x.by][f].match = peer[x.by][f].match
      BY <1>2, <3>2, <3>3 DEF Elected
    <3> QED
      BY <1>4, <3>1, <3>3, <3>4 DEF Acked
  <2> QED
    BY <1>15, <2>1, <2>2 DEF Acked
<1>16. ASSUME NEW f \in Server, NEW l, NEW u, Passed(f, l, u) PROVE Passed(f, l, u)'
  <2> SUFFICES ASSUME NEW t \in Term, NEW i \in 1 .. MaxLog, Acked(f, t, i)', t < u,
                      NEW n \in 1 .. i, leaderLog'[t][n].term = t
               PROVE  Agree(l, leaderLog'[t], n) \/ Dropped(t, u - 1, n)'
    BY DEF Passed, Agree
  <2>1. t # T /\ Acked(f, t, i)
    BY <1>15
  <2>2. leaderLog'[t] = leaderLog[t]
    BY <1>3, <2>1
  <2>3. Agree(l, leaderLog[t], n) \/ Dropped(t, u - 1, n)
    BY <1>16, <2>1, <2>2 DEF Passed
  <2> QED
    BY <1>8, <2>1, <2>2, <2>3
<1>17. Counted'
  <2>1. Counted
    BY DEF Sound, SInv
  <2>2. \A a \in DOMAIN acks' : a.to # a.from /\ \E x \in led' : x.by = a.to /\ x.term = a.sterm
    BY <1>3, <2>1 DEF Counted
  <2>3. ASSUME NEW f \in Server, NEW t \in Term, NEW i \in 1 .. MaxLog, Acked(f, t, i)'
        PROVE  Evidence(f, t, i)'
    <3>1. t # T /\ Evidence(f, t, i)
      BY <1>15, <2>1, <2>3 DEF Counted
    <3>2. leaderLog'[t] = leaderLog[t]
      BY <1>3, <3>1
    <3>3. i <= Len(leaderLog'[t]) /\ currentTerm'[f] >= t /\ NoneShorter(f, t, i)'
      BY <1>3, <3>1, <3>2 DEF Evidence, NoneShorter, Ends
    <3>4. ASSUME NEW n \in 1 .. i
          PROVE  Agree(log'[f], leaderLog'[t], n) \/ Dropped(t, currentTerm[f], n)'
      <4>1. Agree(log[f], leaderLog[t], n) \/ Dropped(t, currentTerm[f], n)
        BY <3>1 DEF Evidence
      <4>2. PICK u : u = currentTerm[f]
        OBVIOUS
      <4>3. Dropped(t, u, n) => Dropped(t, u, n)'
        BY <1>8, <3>1
      <4> QED
        BY <1>3, <3>2, <4>1, <4>2, <4>3
    <3> QED
      BY <3>3, <3>4 DEF Evidence, Agree
  <2>4. ASSUME NEW c \in Server, Standing(c)', NEW f \in Votes(c)'
        PROVE  Passed(f, log[c], cand[c].term)'
    <3>1. PICK l, u : l = log[c] /\ u = cand[c].term
      OBVIOUS
    <3>2. f \in Votes(c) /\ Standing(c) /\ l = log'[c] /\ u = cand'[c].term
      BY <1>7, <2>4, <3>1
    <3>3. f \in Server
      BY <3>2 DEF Votes, Sound, IInv, ElectionType, Candidacy
    <3>4. Passed(f, l, u)'
      BY <1>16, <2>1, <3>1, <3>2, <3>3 DEF Counted
    <3> QED
      BY <3>2, <3>4
  <2>5. ASSUME NEW x \in led', NEW f \in x.votes PROVE Passed(f, leaderLog[x.term], x.term)'
    <3>1. PICK l, u : l = leaderLog'[x.term] /\ u = x.term
      OBVIOUS
    <3>2. CASE x \in led
      <4>1. f \in Server /\ l = leaderLog[x.term]
        BY <1>4, <3>1, <3>2, LedFacts
      <4>2. Passed(f, l, u)'
        BY <1>16, <2>1, <3>1, <3>2, <4>1 DEF Counted
      <4> QED
        BY <3>1, <4>2
    <3>3. CASE x = y
      <4>1. f \in Server /\ f \in Votes(r) /\ l = log[r] /\ u = cand[r].term
        BY <1>1, <1>3, <3>1, <3>3
      <4>2. Passed(f, l, u)
        BY <1>1, <2>1, <4>1 DEF Counted
      <4>3. Passed(f, l, u)'
        BY <1>16, <4>1, <4>2
      <4> QED
        BY <3>1, <4>3
    <3> QED
      BY <1>3, <3>2, <3>3
  <2> QED
    BY <2>2, <2>3, <2>4, <2>5 DEF Counted
<1>18. Committed'
  <2> SUFFICES ASSUME NEW q \in Server
               PROVE  (/\ commit[q] <= Len(log[q])
                       /\ Safe(log[q], commit[q], currentTerm[q])
                       /\ applied[q] = SubSeq(log[q], 1, commit[q]))'
    BY DEF Committed
  <2>1. Committed
    BY DEF Sound, SInv
  <2>2. currentTerm'[q] >= currentTerm[q] /\ Agree(log'[q], log[q], commit[q])
    <3>1. commit[q] <= Len(log[q]) /\ currentTerm[q] \in Nat
      BY <1>5, <2>1, LogTypes DEF Committed
    <3> QED
      BY <1>3, <3>1 DEF Agree
  <2>3. commit'[q] = commit[q] /\ applied'[q] = applied[q]
    BY <1>3
  <2> QED
    BY <1>5, <1>6, <1>10, <2>1, <2>2, <2>3, CommittedKept
<1> QED
  BY <1>12, <1>13, <1>14, <1>17, <1>18 DEF SInv

--------------------------------------------------------------------------------
(* A leader appends a command.                                              *)

(* A log that goes on agrees as far as it did.                              *)
LEMMA GoesOn ==
  ASSUME NEW h \in Logs, NEW k \in Logs, NEW g, NEW n \in Nat, Agree(h, k, Len(k)), Agree(k, g, n)
  PROVE  Agree(h, g, n)
<1>1. Len(h) \in Nat /\ Len(k) \in Nat
  BY DEF Logs
<1>2. n <= Len(k) /\ Len(k) <= Len(h) /\ n <= Len(g)
  BY DEF Agree
<1>3. n <= Len(h)
  BY <1>1, <1>2
<1>4. \A j \in 1 .. n : h[j] = g[j]
  <2> SUFFICES ASSUME NEW j \in 1 .. n PROVE h[j] = g[j]
    OBVIOUS
  <2>1. j \in 1 .. Len(k)
    BY <1>1, <1>2
  <2>2. h[j] = k[j] /\ k[j] = g[j]
    BY <2>1 DEF Agree
  <2> QED
    BY <2>2
<1> QED
  BY <1>2, <1>3, <1>4 DEF Agree

(* What Start changes.                                                      *)
Begun(r, T, p) ==
  /\ r \in leaders /\ T = currentTerm[r]
  /\ p \in Logs /\ Len(p) = Len(log[r]) + 1 /\ p[Len(p)].term = T
  /\ \A j \in 1 .. Len(log[r]) : p[j] = log[r][j]
  /\ log'[r] = p /\ \A x \in Server \ {r} : log'[x] = log[x]
  /\ leaderLog'[T] = p /\ \A t \in Term \ {T} : leaderLog'[t] = leaderLog[t]
  /\ UNCHANGED <<currentTerm, leaders, commit, applied, peer, cand, chan, acks, led>>

(* It changes that.                                                         *)
LEMMA StartFacts ==
  ASSUME Sound, NEW r \in Server, NEW c \in Cmd, Start(r, c)
  PROVE  \E p : Begun(r, currentTerm[r], p)
<1> USE RaftAssumption
<1>1. /\ r \in leaders /\ Len(log[r]) < MaxLog
      /\ log' = [log EXCEPT ![r] = Append(log[r], [term |-> currentTerm[r], cmd |-> c])]
      /\ leaderLog' = [leaderLog EXCEPT ![currentTerm[r]] = log'[r]]
      /\ UNCHANGED <<currentTerm, leaders, commit, applied, peer, cand, chan, acks, led>>
  BY DEF Start, netVars
<1>2. TInv /\ currentTerm[r] \in Term /\ log[r] \in Logs /\ Len(log[r]) \in Nat
  BY <1>1, LeaderFacts, LogTypes DEF Sound
<1>3. PICK e \in Entry : e = [term |-> currentTerm[r], cmd |-> c]
  BY <1>2 DEF Entry, Term
<1>4. e.term = currentTerm[r]
  BY <1>3
<1>5. PICK p : p = Append(log[r], e)
  OBVIOUS
<1>6. /\ p \in Logs /\ Len(p) = Len(log[r]) + 1 /\ p[Len(log[r]) + 1] = e
      /\ \A j \in 1 .. Len(log[r]) : p[j] = log[r][j]
  BY <1>1, <1>2, <1>5, AppendLog
<1>7. log'[r] = p /\ \A x \in Server \ {r} : log'[x] = log[x]
  BY <1>1, <1>2, <1>3, <1>5 DEF TInv
<1>8. /\ leaderLog'[currentTerm[r]] = p
      /\ \A t \in Term \ {currentTerm[r]} : leaderLog'[t] = leaderLog[t]
  BY <1>1, <1>2, <1>7 DEF TInv
<1> QED
  BY <1>1, <1>4, <1>6, <1>7, <1>8 DEF Begun

(* The leader's log grows, and nothing is lost.                             *)
LEMMA StartKeeps ==
  ASSUME Sound, IInv', TInv', NEW r \in Server, NEW c \in Cmd, Start(r, c)
  PROVE  SInv'
<1> USE RaftAssumption
<1>1. r \in leaders /\ TInv
  BY DEF Start, Sound
<1>2. PICK T \in Term : T = currentTerm[r] /\ log[r] = leaderLog[T]
  BY <1>1, LeaderFacts
<1>3. PICK w \in led : w.by = r /\ w.term = T
  BY <1>1, <1>2, LeaderFacts
<1>4. PICK p : Begun(r, T, p)
  BY <1>2, StartFacts
<1>5. PICK l \in Logs : l = log[r]
  BY <1>1, LogTypes
<1>6. /\ p \in Logs /\ Len(p) = Len(l) + 1 /\ p[Len(p)].term = T
      /\ \A j \in 1 .. Len(l) : p[j] = l[j]
      /\ log'[r] = p /\ \A x \in Server \ {r} : log'[x] = log[x]
      /\ leaderLog'[T] = p /\ \A t \in Term \ {T} : leaderLog'[t] = leaderLog[t]
      /\ UNCHANGED <<currentTerm, leaders, commit, applied, peer, cand, chan, acks, led>>
  BY <1>4, <1>5 DEF Begun
<1>7. Len(l) \in Nat /\ Len(p) \in Nat /\ T \in Nat /\ leaderLog[T] = l
  BY <1>2, <1>5, <1>6 DEF Logs, Term
<1>8. Agree(p, l, Len(l))
  BY <1>6, <1>7 DEF Agree
<1>9. \A x \in Server : /\ log[x] \in Logs /\ log'[x] \in Logs /\ Len(log[x]) \in Nat
                        /\ Agree(log'[x], log[x], Len(log[x]))
  <2> SUFFICES ASSUME NEW x \in Server
               PROVE  /\ log[x] \in Logs /\ log'[x] \in Logs /\ Len(log[x]) \in Nat
                      /\ Agree(log'[x], log[x], Len(log[x]))
    OBVIOUS
  <2>1. log[x] \in Logs /\ log'[x] \in Logs /\ Len(log[x]) \in Nat
    BY <1>1 DEF TInv, Logs
  <2>2. CASE x = r
    BY <1>5, <1>6, <1>8, <2>1, <2>2
  <2>3. CASE x # r
    BY <1>6, <2>1, <2>3 DEF Agree
  <2> QED
    BY <2>1, <2>2, <2>3
<1>10. \A t \in Term : /\ leaderLog[t] \in Logs /\ leaderLog'[t] \in Logs
                       /\ Len(leaderLog[t]) \in Nat
                       /\ Agree(leaderLog'[t], leaderLog[t], Len(leaderLog[t]))
  <2> SUFFICES ASSUME NEW t \in Term
               PROVE  /\ leaderLog[t] \in Logs /\ leaderLog'[t] \in Logs
                      /\ Len(leaderLog[t]) \in Nat
                      /\ Agree(leaderLog'[t], leaderLog[t], Len(leaderLog[t]))
    OBVIOUS
  <2>1. leaderLog[t] \in Logs /\ leaderLog'[t] \in Logs /\ Len(leaderLog[t]) \in Nat
    BY <1>1 DEF TInv, Logs
  <2>2. CASE t = T
    BY <1>6, <1>7, <1>8, <2>1, <2>2
  <2>3. CASE t # T
    BY <1>6, <2>1, <2>3 DEF Agree
  <2> QED
    BY <2>1, <2>2, <2>3
<1>11. LogsGrow
  BY <1>10 DEF LogsGrow
<1>12. ASSUME NEW f \in Server, NEW t \in Term, NEW n \in Nat, Agree(log[f], leaderLog[t], n)
       PROVE  Agree(log'[f], leaderLog'[t], n)
  <2>1. Agree(log'[f], leaderLog[t], n)
    BY <1>9, <1>12, GoesOn
  <2> QED
    BY <1>1, <1>11, <2>1, GrowAgree
<1>13. ASSUME NEW t \in Term, NEW u, NEW n \in Nat, n <= Len(leaderLog[t]), Dropped(t, u, n)
       PROVE  Dropped(t, u, n)'
  <2>1. PICK x \in led : t < x.term /\ x.term <= u /\ ~Agree(leaderLog[x.term], leaderLog[t], n)
    BY <1>13 DEF Dropped
  <2>2. PICK v \in Term : v = x.term
    BY LedFacts
  <2>3. t \in Nat /\ v \in Nat /\ t < v
    BY <2>1, <2>2 DEF Term
  <2>4. ~Agree(leaderLog'[v], leaderLog'[t], n)
    <3> SUFFICES ASSUME Agree(leaderLog'[v], leaderLog'[t], n) PROVE FALSE
      OBVIOUS
    <3>1. \A j \in 1 .. n : leaderLog'[t][j] = leaderLog[t][j]
      <4>1. \A j \in 1 .. n : j \in 1 .. Len(leaderLog[t])
        BY <1>10, <1>13
      <4> QED
        BY <1>10, <4>1 DEF Agree
    <3>2. CASE n <= Len(leaderLog[v])
      <4>1. \A j \in 1 .. n : leaderLog'[v][j] = leaderLog[v][j]
        <5>1. \A j \in 1 .. n : j \in 1 .. Len(leaderLog[v])
          BY <1>10, <3>2
        <5> QED
          BY <1>10, <5>1 DEF Agree
      <4>2. Agree(leaderLog[v], leaderLog[t], n)
        BY <1>13, <3>1, <3>2, <4>1 DEF Agree
      <4> QED
        BY <2>1, <2>2, <4>2
    <3>3. CASE ~(n <= Len(leaderLog[v]))
      <4>1. n <= Len(leaderLog'[v])
        BY DEF Agree
      <4>2. v = T
        BY <1>6, <3>3, <4>1
      <4>3. n = Len(p) /\ n \in 1 .. n
        BY <1>6, <1>7, <3>3, <4>1, <4>2
      <4>4. p[n].term = T /\ p[n] = leaderLog[t][n]
        BY <1>6, <3>1, <4>2, <4>3 DEF Agree
      <4>5. n \in 1 .. Len(leaderLog[t])
        BY <1>10, <1>13, <4>3
      <4>6. leaderLog[t][n].term <= t
        BY <4>5 DEF Sound, SInv, Histories, Traced
      <4> QED
        BY <2>3, <4>2, <4>4, <4>6
    <3> QED
      BY <3>2, <3>3
  <2> QED
    BY <1>6, <2>1, <2>2, <2>4 DEF Dropped, Agree
<1>14. ASSUME NEW q \in Server
       PROVE  /\ Standing(q)' = Standing(q) /\ Votes(q)' = Votes(q)
              /\ Standing(q) => log'[q] = log[q]
  <2>1. Standing(q)' = Standing(q) /\ Votes(q)' = Votes(q)
    BY <1>6 DEF Standing, Running, Votes
  <2>2. Standing(q) => q # r
    BY <1>1 DEF Standing, Sound, SInv, Roles
  <2> QED
    BY <1>6, <2>1, <2>2
<1>15. ASSUME NEW f \in Server, NEW t \in Term, NEW n \in Nat, Holds(f, t, n)
       PROVE  Holds(f, t, n)'
  <2>1. currentTerm'[f] >= t /\ NoneShorter(f, t, n)'
    BY <1>6, <1>15 DEF Holds, NoneShorter, Ends
  <2>2. Agree(log'[f], leaderLog'[t], n)
    BY <1>12, <1>15 DEF Holds
  <2>3. ASSUME NEW q \in Server, Standing(q)', cand'[q].term > t, f \in Votes(q)'
        PROVE  Agree(log'[q], leaderLog'[t], n)
    <3>1. Agree(log[q], leaderLog[t], n)
      BY <1>6, <1>14, <1>15, <2>3 DEF Holds
    <3> QED
      BY <1>12, <3>1
  <2> QED
    BY <2>1, <2>2, <2>3 DEF Holds, Agree
<1>16. ASSUME NEW t \in Term, NEW u \in Term, NEW n \in Nat, Agree(leaderLog[u], leaderLog[t], n)
       PROVE  Agree(leaderLog'[u], leaderLog'[t], n)
  <2>1. Agree(leaderLog'[u], leaderLog[t], n)
    BY <1>10, <1>16, GoesOn
  <2> QED
    BY <1>1, <1>11, <2>1, GrowAgree
<1>17. DurableKept
  <2> SUFFICES ASSUME NEW t \in Term, NEW n \in 1 .. MaxLog, Durable(t, n) PROVE Durable(t, n)'
    BY DEF DurableKept
  <2>1. /\ n \in 1 .. Len(leaderLog[t]) /\ leaderLog[t][n].term = t
        /\ \A x \in led : x.term > t => Agree(leaderLog[x.term], leaderLog[t], n)
    BY DEF Durable
  <2>2. PICK Q \in SUBSET Server : Cardinality(Q) > N \div 2 /\ \A f \in Q : Holds(f, t, n)
    BY DEF Durable
  <2>3. n \in Nat /\ Len(leaderLog'[t]) \in Nat
    BY <1>10 DEF Logs
  <2>4. n \in 1 .. Len(leaderLog'[t]) /\ leaderLog'[t][n].term = t
    BY <1>10, <2>1, <2>3 DEF Agree
  <2>5. \A f \in Q : Holds(f, t, n)'
    BY <1>15, <2>2, <2>3
  <2>6. \A x \in led' : x.term > t => Agree(leaderLog'[x.term], leaderLog'[t], n)
    <3>1. \A x \in led : x.term \in Term
      BY LedFacts
    <3> QED
      BY <1>6, <1>16, <2>1, <2>3, <3>1
  <2> QED
    BY <2>2, <2>4, <2>5, <2>6 DEF Durable, Agree
<1>18. ASSUME NEW k \in Logs, NEW b, Traced(k, b) PROVE Traced(k, b)'
  <2> SUFFICES ASSUME NEW n \in 1 .. Len(k)
               PROVE  k[n].term <= b /\ Agree(k, leaderLog'[k[n].term], n)
    BY DEF Traced, Agree
  <2>1. k[n].term \in Term /\ k[n].term <= b /\ Agree(k, leaderLog[k[n].term], n)
    BY <1>18, EntryLed
  <2>2. n \in Nat
    OBVIOUS
  <2> QED
    BY <1>1, <1>11, <2>1, <2>2, GrowAgree
<1>19. Traced(p, T)'
  <2> SUFFICES ASSUME NEW n \in 1 .. Len(p)
               PROVE  p[n].term <= T /\ Agree(p, leaderLog'[p[n].term], n)
    BY DEF Traced, Agree
  <2>1. CASE n <= Len(l)
    <3>1. n \in 1 .. Len(l) /\ n \in Nat
      BY <1>7, <2>1
    <3>2. Traced(l, T)'
      BY <1>2, <1>5, <1>18 DEF Sound, SInv, Histories
    <3>3. l[n].term <= T /\ Agree(l, leaderLog'[l[n].term], n)
      BY <3>1, <3>2 DEF Traced, Agree
    <3>4. p[n] = l[n]
      BY <1>6, <3>1
    <3> QED
      BY <1>6, <1>8, <3>1, <3>3, <3>4, GoesOn
  <2>2. CASE ~(n <= Len(l))
    <3>1. n = Len(p)
      BY <1>6, <1>7, <2>2
    <3>2. Agree(p, leaderLog'[T], n)
      BY <1>6, <1>7, <3>1 DEF Agree
    <3> QED
      BY <1>6, <1>7, <3>1, <3>2
  <2> QED
    BY <2>1, <2>2
<1>20. Histories'
  <2>1. Histories
    BY DEF Sound, SInv
  <2>2. ASSUME NEW q \in Server PROVE Traced(log[q], currentTerm[q])'
    <3>1. CASE q = r
      BY <1>2, <1>6, <1>19, <3>1
    <3>2. CASE q # r
      <4>1. PICK k \in Logs, b \in Nat : k = log[q] /\ b = currentTerm[q]
        BY <1>1, <1>9, TermTypes
      <4>2. Traced(k, b)'
        BY <1>18, <2>1, <4>1 DEF Histories
      <4> QED
        BY <1>6, <3>2, <4>1, <4>2
    <3> QED
      BY <3>1, <3>2
  <2>3. ASSUME NEW t \in Term PROVE Traced(leaderLog[t], t)'
    <3>1. CASE t = T
      BY <1>6, <1>19, <3>1
    <3>2. CASE t # T
      <4>1. PICK k \in Logs : k = leaderLog[t]
        BY <1>10
      <4>2. Traced(k, t)'
        BY <1>18, <2>1, <4>1 DEF Histories
      <4> QED
        BY <1>6, <3>2, <4>1, <4>2
    <3> QED
      BY <3>1, <3>2
  <2>4. ASSUME NEW t \in Term, leaderLog'[t] # << >> PROVE \E x \in led' : x.term = t
    <3>1. CASE t = T
      BY <1>3, <1>6, <3>1
    <3>2. CASE t # T
      BY <1>6, <2>1, <2>4, <3>2 DEF Histories
    <3> QED
      BY <3>1, <3>2
  <2>5. ASSUME NEW x \in led, currentTerm[x.by] = x.term PROVE log'[x.by] = leaderLog'[x.term]
    <3>0. x.by \in Server /\ x.term \in Term
      BY LedFacts
    <3>1. CASE x.by = r
      BY <1>2, <1>6, <2>5, <3>1
    <3>2. CASE x.by # r
      <4>1. x.term # T
        BY <1>3, <3>2, OneLed
      <4> QED
        BY <1>6, <2>1, <2>5, <3>0, <3>2, <4>1 DEF Histories
    <3> QED
      BY <3>1, <3>2
  <2> QED
    BY <1>6, <2>2, <2>3, <2>4, <2>5 DEF Histories
<1>21. Roles'
  <2>1. Roles
    BY DEF Sound, SInv
  <2> QED
    BY <1>6, <2>1 DEF Roles, Running
<1>22. Requested'
  <2> SUFFICES ASSUME NEW s \in Server, NEW d \in Server
               PROVE  /\ \A j \in 1 .. Len(chan'[s][d]) :
                           /\ chan'[s][d][j].type = "Append" => Batch(s, d, chan[s][d][j])'
                           /\ chan'[s][d][j].type = "Vote" => Ask(s, chan[s][d][j])'
                      /\ Ordered(chan[s][d])'
    BY DEF Requested
  <2>1. Ordered(chan[s][d])'
    <3>1. Ordered(chan[s][d])
      BY DEF Sound, SInv, Requested
    <3> QED
      BY <1>6, <3>1
  <2>2. ASSUME NEW j \in 1 .. Len(chan[s][d]), chan[s][d][j].type = "Vote"
        PROVE  Ask(s, chan[s][d][j])'
    <3>1. Ask(s, chan[s][d][j])
      BY <2>2 DEF Sound, SInv, Requested
    <3> QED
      BY <1>6, <1>14, <3>1 DEF Ask
  <2>3. ASSUME NEW j \in 1 .. Len(chan[s][d]), chan[s][d][j].type = "Append"
        PROVE  Batch(s, d, chan[s][d][j])'
    <3>1. chan[s][d] \in Seq(Msg)
      BY <1>1 DEF TInv
    <3>2. PICK m \in Msg : m = chan[s][d][j]
      BY <3>1
    <3>3. Batch(s, d, m) /\ m \in AppendMsg
      BY <2>3, <3>2 DEF Sound, SInv, Requested, Msg, VoteMsg
    <3>4. PICK t \in Term : t = m.term
      BY <3>3 DEF AppendMsg
    <3>5. \A k \in Len(leaderLog[t]) + 1 .. Len(leaderLog'[t]) : leaderLog'[t][k].term = t
      <4>1. CASE t = T
        <5>1. \A k \in Len(l) + 1 .. Len(p) : k = Len(p)
          BY <1>6, <1>7
        <5> QED
          BY <1>6, <1>7, <4>1, <5>1
      <4>2. CASE t # T
        BY <1>6, <1>10, <4>2
      <4> QED
        BY <4>1, <4>2
    <3>6. m.term = currentTerm'[d] => commit'[d] <= Ends(m)
      BY <1>6, <3>3 DEF Batch
    <3>7. led \subseteq led'
      BY <1>6
    <3>8. Batch(s, d, m)'
      BY <1>1, <1>11, <1>17, <3>3, <3>4, <3>5, <3>6, <3>7, BatchKept
    <3> QED
      BY <1>6, <3>2, <3>8
  <2> QED
    BY <1>6, <2>1, <2>2, <2>3
<1>23. ASSUME NEW f, NEW t, NEW i PROVE Acked(f, t, i)' = Acked(f, t, i)
  BY <1>6 DEF Acked
<1>24. ASSUME NEW f \in Server, NEW k \in Logs, NEW h \in Logs, NEW u, Agree(h, k, Len(k)),
              Passed(f, k, u)
       PROVE  Passed(f, h, u)'
  <2> SUFFICES ASSUME NEW t \in Term, NEW i \in 1 .. MaxLog, Acked(f, t, i)', t < u,
                      NEW n \in 1 .. i, leaderLog'[t][n].term = t
               PROVE  Agree(h, leaderLog'[t], n) \/ Dropped(t, u - 1, n)'
    BY DEF Passed, Agree
  <2>1. Acked(f, t, i)
    BY <1>23
  <2>2. i <= Len(leaderLog[t])
    BY <2>1 DEF Sound, SInv, Counted, Evidence
  <2>3. n \in 1 .. Len(leaderLog[t]) /\ n \in Nat /\ n <= Len(leaderLog[t])
    BY <1>10, <2>2
  <2>4. leaderLog[t][n].term = t
    BY <1>10, <2>3 DEF Agree
  <2>5. Agree(k, leaderLog[t], n) \/ Dropped(t, u - 1, n)
    BY <1>24, <2>1, <2>4 DEF Passed
  <2>6. ASSUME Agree(k, leaderLog[t], n) PROVE Agree(h, leaderLog'[t], n)
    <3>1. Agree(h, leaderLog[t], n)
      BY <1>24, <2>3, <2>6, GoesOn
    <3> QED
      BY <1>1, <1>11, <2>3, <3>1, GrowAgree
  <2> QED
    BY <1>13, <2>3, <2>5, <2>6
<1>25. Counted'
  <2>1. Counted
    BY DEF Sound, SInv
  <2>2. \A a \in DOMAIN acks' : a.to # a.from /\ \E x \in led' : x.by = a.to /\ x.term = a.sterm
    BY <1>6, <2>1 DEF Counted
  <2>3. ASSUME NEW f \in Server, NEW t \in Term, NEW i \in 1 .. MaxLog, Acked(f, t, i)'
        PROVE  Evidence(f, t, i)'
    <3>1. Evidence(f, t, i)
      BY <1>23, <2>1, <2>3 DEF Counted
    <3>2. /\ i <= Len(leaderLog[t]) /\ Len(leaderLog[t]) <= Len(leaderLog'[t])
          /\ Len(leaderLog'[t]) \in Nat
      BY <1>10, <3>1 DEF Evidence, Agree, Logs
    <3>3. i <= Len(leaderLog'[t])
      BY <1>10, <3>2
    <3>4. currentTerm'[f] >= t /\ NoneShorter(f, t, i)'
      BY <1>6, <3>1 DEF Evidence, NoneShorter, Ends
    <3>5. ASSUME NEW n \in 1 .. i
          PROVE  Agree(log'[f], leaderLog'[t], n) \/ Dropped(t, currentTerm[f], n)'
      <4>1. Agree(log[f], leaderLog[t], n) \/ Dropped(t, currentTerm[f], n)
        BY <3>1 DEF Evidence
      <4>2. PICK u : u = currentTerm[f]
        OBVIOUS
      <4>3. n \in Nat /\ n <= Len(leaderLog[t])
        BY <1>10, <3>2
      <4>4. Dropped(t, u, n) => Dropped(t, u, n)'
        BY <1>13, <4>3
      <4>5. Agree(log[f], leaderLog[t], n) => Agree(log'[f], leaderLog'[t], n)
        BY <1>12, <4>3
      <4> QED
        BY <1>6, <4>1, <4>2, <4>4, <4>5
    <3> QED
      BY <3>3, <3>4, <3>5 DEF Evidence, Agree
  <2>4. ASSUME NEW q \in Server, Standing(q)', NEW f \in Votes(q)'
        PROVE  Passed(f, log[q], cand[q].term)'
    <3>1. PICK k \in Logs, u \in Nat : k = log[q] /\ u = cand[q].term
      <4>1. cand \in [Server -> Candidacy]
        BY DEF Sound, IInv, ElectionType
      <4>2. cand[q].term \in Nat
        BY <4>1 DEF Candidacy
      <4> QED
        BY <1>9, <4>2
    <3>2. f \in Votes(q) /\ Standing(q) /\ k = log'[q] /\ u = cand'[q].term
      BY <1>6, <1>14, <2>4, <3>1
    <3>3. f \in Server
      BY <3>2 DEF Votes, Sound, IInv, ElectionType, Candidacy
    <3>4. Passed(f, k, u)
      BY <2>1, <3>1, <3>2 DEF Counted
    <3>5. Agree(k, k, Len(k))
      BY DEF Agree, Logs
    <3>6. Passed(f, k, u)'
      BY <1>24, <3>3, <3>4, <3>5
    <3> QED
      BY <3>2, <3>6
  <2>5. ASSUME NEW x \in led, NEW f \in x.votes PROVE Passed(f, leaderLog[x.term], x.term)'
    <3>1. x.term \in Term /\ f \in Server
      BY LedFacts
    <3>2. PICK k \in Logs, h \in Logs, u \in Nat :
            k = leaderLog[x.term] /\ h = leaderLog'[x.term] /\ u = x.term
      BY <1>10, <3>1 DEF Term
    <3>3. Agree(h, k, Len(k)) /\ Passed(f, k, u)
      BY <1>10, <2>1, <3>1, <3>2 DEF Counted
    <3>4. Passed(f, h, u)'
      BY <1>24, <3>1, <3>3
    <3> QED
      BY <3>2, <3>4
  <2> QED
    BY <1>6, <2>2, <2>3, <2>4, <2>5 DEF Counted
<1>26. Committed'
  <2> SUFFICES ASSUME NEW q \in Server
               PROVE  (/\ commit[q] <= Len(log[q])
                       /\ Safe(log[q], commit[q], currentTerm[q])
                       /\ applied[q] = SubSeq(log[q], 1, commit[q]))'
    BY DEF Committed
  <2>1. Committed
    BY DEF Sound, SInv
  <2>2. commit[q] <= Len(log[q]) /\ currentTerm[q] \in Nat /\ commit[q] \in Nat
    BY <1>1, <2>1, LogTypes DEF Committed
  <2>3. Agree(log'[q], log[q], commit[q])
    BY <1>9, <2>2, AgreeLess
  <2>4. currentTerm'[q] >= currentTerm[q] /\ commit'[q] = commit[q] /\ applied'[q] = applied[q]
    BY <1>6, <2>2
  <2> QED
    BY <1>1, <1>11, <1>17, <2>1, <2>3, <2>4, CommittedKept
<1> QED
  BY <1>20, <1>21, <1>22, <1>25, <1>26 DEF SInv

(* Request m of s reaches d, which accepts it.                              *)
Taken(s, d, m) ==
  /\ m \in AppendMsg /\ m = Head(chan[s][d])
  /\ Deliver(s, d) /\ OnAppendEntries(s, d, m) /\ Accepts(d, m)

(* What is known of it.                                                     *)
LEMMA TakenFacts ==
  ASSUME Sound, NEW s \in Server, NEW d \in Server, NEW m, Taken(s, d, m)
  PROVE  /\ Accepted(s, d, m) /\ Batch(s, d, m) /\ QuietChan
         /\ UNCHANGED <<peer, cand, led, leaderLog>>
         /\ m \in AppendMsg /\ m.term \in Term /\ m.term \in Nat /\ m.prev \in Nat
         /\ m.commit \in Nat /\ m.ents \in Logs /\ Len(m.ents) \in Nat /\ Ends(m) \in Nat
         /\ currentTerm[d] \in Nat /\ m.term >= currentTerm[d]
         /\ Len(leaderLog[m.term]) \in Nat /\ leaderLog[m.term] \in Logs
         /\ Ends(m) <= Len(leaderLog[m.term])
<1> USE RaftAssumption
<1>1. m \in AppendMsg /\ Batch(s, d, m) /\ QuietChan
  BY HeadFacts, DeliverChan DEF Taken
<1>2. m.term \in Term /\ m.term \in Nat /\ m.prev \in Nat /\ m.commit \in Nat /\ m.ents \in Logs
  BY <1>1 DEF AppendMsg, Term
<1>3. Len(m.ents) \in Nat /\ Ends(m) \in Nat
  BY <1>2 DEF Logs, Ends
<1>4. /\ currentTerm[d] \in Nat /\ m.term >= currentTerm[d]
      /\ leaderLog[m.term] \in Logs /\ Len(leaderLog[m.term]) \in 0 .. MaxLog
  BY <1>2, LogTypes DEF Sound, Taken, Accepts
<1>5. Ends(m) <= Len(leaderLog[m.term])
  BY <1>1 DEF Batch
<1>6. Ends(m) <= MaxLog
  BY <1>3, <1>4, <1>5
<1>7. Accepted(s, d, m)
  BY <1>1, <1>6, AcceptFacts DEF Sound, Taken
<1>8. UNCHANGED <<peer, cand, led, leaderLog>>
  BY DEF Taken, OnAppendEntries
<1> QED
  BY <1>1, <1>2, <1>3, <1>4, <1>5, <1>7, <1>8

(* The log it leaves agrees with the leader's up to the end of the batch.   *)
LEMMA TakenLog ==
  ASSUME Sound, NEW s \in Server, NEW d \in Server, NEW m, Taken(s, d, m)
  PROVE  /\ Agree(log'[d], leaderLog[m.term], Ends(m))
         /\ m.ents = << >> => log'[d] = log[d]
         /\ m.ents # << >> => Len(log'[d]) = Ends(m)
<1> USE RaftAssumption
<1>1. PICK L \in Logs, E \in Nat, T \in Term, P \in Nat :
        L = leaderLog[m.term] /\ E = Ends(m) /\ T = m.term /\ P = m.prev
  BY TakenFacts
<1>2. E <= Len(L) /\ Len(L) \in Nat /\ P + Len(m.ents) = E /\ P <= E /\ Len(m.ents) \in Nat
  BY <1>1, TakenFacts DEF Ends
<1>3. PICK o \in Logs : o = log[d]
  BY LogTypes DEF Sound
<1>4. Traced(L, T) /\ Traced(o, currentTerm[d])
  BY <1>1, <1>3 DEF Sound, SInv, Histories
<1>5. P <= Len(o) /\ (P > 0 => o[P].term = m.pterm) /\ Len(o) \in Nat
  BY <1>1, <1>3 DEF Taken, Accepts, Logs
<1>6. P > 0 => m.pterm = L[P].term
  BY <1>1, TakenFacts DEF Batch
<1>7. Agree(o, L, P)
  <2>1. CASE P = 0
    BY <1>2, <1>5, <2>1 DEF Agree
  <2>2. CASE P > 0
    <3>1. P \in 1 .. Len(o) /\ P <= Len(L) /\ o[P].term = L[P].term
      BY <1>2, <1>5, <1>6, <2>2
    <3> QED
      BY <1>4, <3>1, LogMatching
  <2> QED
    BY <2>1, <2>2
<1>8. Accepted(s, d, m)
  BY TakenFacts
<1>9. CASE m.ents = << >>
  <2>1. log'[d] = o /\ E = P
    BY <1>2, <1>3, <1>8, <1>9 DEF Accepted
  <2> QED
    BY <1>1, <1>3, <1>7, <1>9, <2>1
<1>10. CASE m.ents # << >>
  <2>1. /\ Len(log'[d]) = E /\ \A k \in 1 .. P : log'[d][k] = o[k]
        /\ \A k \in 1 .. Len(m.ents) : log'[d][P + k] = m.ents[k]
    BY <1>1, <1>3, <1>8, <1>10 DEF Accepted
  <2>2. \A k \in 1 .. Len(m.ents) : m.ents[k] = L[P + k]
    BY <1>1, TakenFacts DEF Batch
  <2>3. ASSUME NEW k \in 1 .. E PROVE log'[d][k] = L[k]
    <3>1. CASE k <= P
      <4>1. k \in 1 .. P
        BY <3>1
      <4> QED
        BY <1>7, <2>1, <4>1 DEF Agree
    <3>2. CASE ~(k <= P)
      <4>1. k - P \in 1 .. Len(m.ents) /\ P + (k - P) = k
        BY <1>2, <3>2
      <4>2. log'[d][P + (k - P)] = m.ents[k - P] /\ m.ents[k - P] = L[P + (k - P)]
        BY <2>1, <2>2, <4>1
      <4> QED
        BY <4>1, <4>2
    <3> QED
      BY <3>1, <3>2
  <2>4. Agree(log'[d], L, E)
    BY <1>2, <2>1, <2>3 DEF Agree
  <2> QED
    BY <1>1, <1>10, <2>1, <2>4
<1> QED
  BY <1>9, <1>10

(* What d has in common with the leader of t stays, unless the leader of    *)
(* the batch does not have it.                                              *)
LEMMA TakenHolds ==
  ASSUME Sound, NEW s \in Server, NEW d \in Server, NEW m, Taken(s, d, m), NEW t \in Term,
         NEW n \in Nat, Agree(log[d], leaderLog[t], n), t <= currentTerm[d], NoneShorter(d, t, n)
  PROVE  \/ Agree(log'[d], leaderLog[t], n)
         \/ t < m.term /\ ~Agree(leaderLog[m.term], leaderLog[t], n)
<1> USE RaftAssumption
<1>1. PICK L \in Logs, E \in Nat, T \in Term :
        L = leaderLog[m.term] /\ E = Ends(m) /\ T = m.term
  BY TakenFacts
<1>2. Agree(log'[d], L, E) /\ (m.ents = << >> => log'[d] = log[d])
  BY <1>1, TakenLog
<1>3. m \in AppendMsg /\ Batch(s, d, m) /\ t \in Nat /\ T \in Nat /\ t <= T
  BY <1>1, TakenFacts DEF Term
<1>4. leaderLog[t] \in Logs /\ Len(leaderLog[t]) \in 0 .. MaxLog /\ n <= Len(leaderLog[t])
  BY LogTypes DEF Sound, Agree
<1>5. CASE n = 0
  <2>1. Len(log'[d]) \in Nat
    <3>1. log'[d] \in Logs
      BY TakenFacts DEF Accepted
    <3> QED
      BY <3>1 DEF Logs
  <2> QED
    BY <1>4, <1>5, <2>1 DEF Agree
<1>6. CASE n # 0 /\ T = t
  <2>1. m = chan[s][d][1] /\ 1 \in 1 .. Len(chan[s][d]) /\ m.type = "Append"
    BY <1>3, HeadFacts DEF Taken, AppendMsg
  <2>2. E >= n
    BY <1>1, <1>6, <2>1 DEF NoneShorter
  <2>3. log'[d] \in Logs
    BY TakenFacts DEF Accepted
  <2>4. Agree(log'[d], L, n)
    BY <1>2, <2>2, <2>3, AgreeLess
  <2> QED
    BY <1>1, <1>6, <2>4
<1>7. CASE n # 0 /\ T # t
  <2>1. t < T
    BY <1>3, <1>7
  <2> SUFFICES ASSUME Agree(L, leaderLog[t], n) PROVE Agree(log'[d], leaderLog[t], n)
    BY <1>1, <2>1
  <2>2. n \in 1 .. MaxLog /\ n \in 1 .. Len(leaderLog[t])
    BY <1>4, <1>7
  <2>3. leaderLog[t][n].term <= t
    BY <2>2 DEF Sound, SInv, Histories, Traced
  <2>4. n <= E
    BY <1>1, <1>3, <2>1, <2>2, <2>3, DurableCovered
  <2>5. log'[d] \in Logs
    BY TakenFacts DEF Accepted
  <2>6. Agree(log'[d], L, n)
    BY <1>2, <2>4, <2>5, AgreeLess
  <2> QED
    BY <2>6, AgreeTrans
<1> QED
  BY <1>5, <1>6, <1>7

(* What d has committed stays in its log.                                   *)
LEMMA TakenCommit ==
  ASSUME Sound, NEW s \in Server, NEW d \in Server, NEW m, Taken(s, d, m)
  PROVE  Agree(log'[d], log[d], commit[d]) /\ commit[d] <= Ends(m)
<1> USE RaftAssumption
<1>1. PICK L \in Logs, E \in Nat, T \in Term :
        L = leaderLog[m.term] /\ E = Ends(m) /\ T = m.term
  BY TakenFacts
<1>2. /\ m \in AppendMsg /\ Batch(s, d, m) /\ T >= currentTerm[d] /\ T \in Nat
      /\ currentTerm[d] \in Nat
  BY <1>1, TakenFacts
<1>3. PICK k \in Nat, o \in Logs : k = commit[d] /\ o = log[d]
  BY LogTypes DEF Sound
<1>4. k <= E
  BY <1>1, <1>2, <1>3, CommitCovered
<1>5. Agree(log'[d], L, E) /\ (m.ents = << >> => log'[d] = o)
  BY <1>1, <1>3, TakenLog
<1>6. k <= Len(o) /\ Safe(o, k, currentTerm[d])
  BY <1>3 DEF Sound, SInv, Committed
<1>7. log'[d] \in Logs /\ Len(log'[d]) \in Nat
  <2>1. log'[d] \in Logs
    BY TakenFacts DEF Accepted
  <2> QED
    BY <2>1 DEF Logs
<1>8. CASE k = 0
  BY <1>3, <1>4, <1>1, <1>6, <1>7, <1>8 DEF Agree
<1>9. CASE k # 0
  <2>1. PICK t \in Term, n \in 1 .. MaxLog :
          t <= currentTerm[d] /\ k <= n /\ Durable(t, n) /\ Agree(o, leaderLog[t], k)
    BY <1>6, <1>9 DEF Safe
  <2>2. t <= T /\ t \in Nat
    BY <1>2, <2>1 DEF Term
  <2>3. Agree(L, leaderLog[t], k)
    <3>1. leaderLog[t] \in Logs /\ Len(leaderLog[t]) \in Nat
      BY LogTypes DEF Sound
    <3>2. CASE t = T
      <4>1. k <= Len(leaderLog[t])
        BY <2>1 DEF Agree
      <4> QED
        BY <1>1, <3>1, <3>2, <4>1 DEF Agree
    <3>3. CASE t # T
      <4>1. PICK x \in led : x.term = T
        BY <1>1, <1>2 DEF Batch
      <4>2. x.term > t
        BY <1>2, <2>2, <3>3, <4>1
      <4>3. Agree(L, leaderLog[t], n)
        BY <1>1, <2>1, <4>1, <4>2 DEF Durable
      <4> QED
        BY <2>1, <3>1, <4>3, AgreeLess
    <3> QED
      BY <3>2, <3>3
  <2>4. Agree(log'[d], L, k)
    BY <1>4, <1>5, <1>7, AgreeLess
  <2>5. Agree(log'[d], leaderLog[t], k) /\ Agree(leaderLog[t], o, k)
    BY <2>1, <2>3, <2>4, AgreeTrans, AgreeSym
  <2>6. Agree(log'[d], o, k)
    BY <2>5, AgreeTrans
  <2> QED
    BY <1>1, <1>3, <1>4, <2>6
<1> QED
  BY <1>8, <1>9

(* The batches of its term still under way to d end no earlier.             *)
LEMMA TakenLater ==
  ASSUME Sound, NEW s \in Server, NEW d \in Server, NEW m, Taken(s, d, m)
  PROVE  NoneShorter(d, m.term, Ends(m))'
<1>1. m \in AppendMsg /\ Batch(s, d, m) /\ leaderLog' = leaderLog
  BY TakenFacts
<1>2. PICK T, E : T = m.term /\ E = Ends(m)
  OBVIOUS
<1> SUFFICES ASSUME NEW x \in Server, NEW j \in 1 .. Len(chan'[x][d]),
                    chan'[x][d][j].type = "Append", chan'[x][d][j].term = T
             PROVE  Ends(chan'[x][d][j]) >= E
  BY <1>2 DEF NoneShorter, Ends
<1>3. PICK i \in 1 .. Len(chan[x][d]) : chan'[x][d][j] = chan[x][d][i] /\ (x = s => i > 1)
  <2>1. TInv /\ Deliver(s, d)
    BY DEF Sound, Taken
  <2> QED
    BY <2>1, StillQueued
<1>4. x = s
  <2> SUFFICES ASSUME x # s PROVE FALSE
    OBVIOUS
  <2>2. Batch(x, d, chan[x][d][i])
    BY <1>3 DEF Sound, SInv, Requested
  <2>3. \E y \in led : y.by = x /\ y.term = T
    BY <1>3, <2>2 DEF Batch
  <2>4. \E y \in led : y.by = s /\ y.term = T
    BY <1>1, <1>2 DEF Batch
  <2> QED
    BY <2>3, <2>4, OneLed
<1>5. PICK q : q = chan[s][d]
  OBVIOUS
<1>6. i \in 1 .. Len(q) /\ chan'[x][d][j] = q[i] /\ 1 \in 1 .. Len(q) /\ 1 < i
  BY <1>1, <1>3, <1>4, <1>5, HeadFacts DEF Taken
<1>7. Ordered(q) /\ m = q[1] /\ m.type = "Append"
  BY <1>1, <1>5, HeadFacts DEF Sound, SInv, Requested, Taken, AppendMsg
<1>8. Ends(q[1]) <= Ends(q[i])
  BY <1>2, <1>6, <1>7 DEF Ordered
<1>9. Ends(q[1]) = E /\ E \in Nat
  BY <1>2, <1>7, TakenFacts
<1>10. Ends(q[i]) \in Nat
  <2>1. q \in Seq(Msg)
    BY <1>5 DEF Sound, TInv
  <2>2. PICK k \in Msg : k = q[i]
    BY <1>6, <2>1
  <2>3. k \in AppendMsg
    BY <1>6, <2>2 DEF Msg, VoteMsg
  <2>4. Ends(k) \in Nat
    BY <2>3, EndsType
  <2> QED
    BY <2>2, <2>4
<1> QED
  BY <1>6, <1>8, <1>9, <1>10
(* A batch replaces the rest of the log, and nothing is lost.               *)
LEMMA AcceptKeeps ==
  ASSUME Sound, IInv', TInv', NEW s \in Server, NEW d \in Server, NEW m, Taken(s, d, m)
  PROVE  SInv'
<1> USE RaftAssumption
<1>1. PICK L \in Logs, E \in Nat, T \in Term :
        L = leaderLog[m.term] /\ E = Ends(m) /\ T = m.term
  BY TakenFacts
<1>2. /\ m \in AppendMsg /\ Batch(s, d, m) /\ QuietChan /\ UNCHANGED <<peer, cand, led, leaderLog>>
      /\ T \in Nat /\ currentTerm[d] \in Nat /\ T >= currentTerm[d] /\ E <= Len(L)
      /\ Len(L) \in Nat /\ m.commit \in Nat /\ TInv
  BY <1>1, TakenFacts DEF Sound
<1>3. Accepted(s, d, m)
  BY TakenFacts
<1>4. /\ log'[d] \in Logs /\ \A x \in Server \ {d} : log'[x] = log[x]
      /\ currentTerm'[d] = T /\ \A x \in Server \ {d} : currentTerm'[x] = currentTerm[x]
      /\ leaders' \subseteq leaders /\ (T > currentTerm[d] => d \notin leaders')
      /\ \A x \in Server \ {d} : commit'[x] = commit[x] /\ applied'[x] = applied[x]
      /\ Replied(s, d, m, TRUE)
  BY <1>1, <1>3 DEF Accepted
<1>5. PICK p \in Logs, o \in Logs : p = log'[d] /\ o = log[d]
  BY <1>2, <1>4, LogTypes
<1>6. Agree(p, L, E) /\ (m.ents = << >> => p = o) /\ (m.ents # << >> => Len(p) = E)
  BY <1>1, <1>5, TakenLog
<1>7. \A x \in Server : /\ currentTerm[x] \in Nat /\ currentTerm'[x] \in Nat
                        /\ currentTerm'[x] >= currentTerm[x]
  <2>1. \A x \in Server : currentTerm[x] \in Nat
    BY <1>2, LogTypes
  <2> QED
    BY <1>2, <1>4, <2>1
<1>8. PICK w \in led : w.by = s /\ w.term = T
  BY <1>1, <1>2 DEF Batch
<1>9. s # d
  BY <1>2 DEF Batch
<1>10. \A x \in led : x.term = T => x.by # d
  BY <1>8, <1>9, OneLed
<1>11. ASSUME NEW c \in Server, Standing(c)'
       PROVE  /\ c # d /\ Standing(c) /\ cand'[c] = cand[c] /\ log'[c] = log[c]
              /\ Votes(c)' = Votes(c)
  <2>1. c # d
    BY <1>2, <1>4, <1>8, <1>11 DEF Standing
  <2>2. Standing(c)
    BY <1>2, <1>4, <1>11, <2>1 DEF Standing, Running
  <2> QED
    BY <1>2, <1>4, <2>1, <2>2 DEF Votes
<1>12. ASSUME NEW f \in Server, NEW t \in Term, NEW n \in Nat, Holds(f, t, n),
              \A x \in led : x.term > t => Agree(leaderLog[x.term], leaderLog[t], n)
       PROVE  Holds(f, t, n)'
  <2>1. currentTerm[f] >= t /\ Agree(log[f], leaderLog[t], n) /\ NoneShorter(f, t, n)
    BY <1>12 DEF Holds
  <2>2. currentTerm'[f] >= t
    BY <1>7, <2>1 DEF Term
  <2>3. NoneShorter(f, t, n)'
    BY <1>2, <2>1, QuietNoneShorter
  <2>4. Agree(log'[f], leaderLog[t], n)
    <3>1. CASE f = d
      <4>1. t <= currentTerm[d]
        BY <1>2, <2>1, <3>1 DEF Term
      <4>2. Agree(log'[d], leaderLog[t], n) \/ (t < T /\ ~Agree(leaderLog[T], leaderLog[t], n))
        BY <1>1, <2>1, <3>1, <4>1, TakenHolds
      <4> QED
        BY <1>8, <1>12, <3>1, <4>2 DEF Term
    <3>2. CASE f # d
      BY <1>4, <2>1, <3>2
    <3> QED
      BY <3>1, <3>2
  <2>5. ASSUME NEW c \in Server, Standing(c)', cand'[c].term > t, f \in Votes(c)'
        PROVE  Agree(log'[c], leaderLog[t], n)
    BY <1>11, <1>12, <2>5 DEF Holds
  <2> QED
    BY <1>2, <2>2, <2>3, <2>4, <2>5 DEF Holds, Agree
<1>13. DurableKept
  <2> SUFFICES ASSUME NEW t \in Term, NEW n \in 1 .. MaxLog, Durable(t, n) PROVE Durable(t, n)'
    BY DEF DurableKept
  <2>1. \A x \in led : x.term > t => Agree(leaderLog[x.term], leaderLog[t], n)
    BY DEF Durable
  <2>2. PICK Q \in SUBSET Server : Cardinality(Q) > N \div 2 /\ \A f \in Q : Holds(f, t, n)
    BY DEF Durable
  <2>3. n \in Nat
    OBVIOUS
  <2>4. \A f \in Q : Holds(f, t, n)'
    BY <1>12, <2>1, <2>2, <2>3
  <2> QED
    BY <1>2, <2>2, <2>4 DEF Durable, Agree
<1>14. LogsGrow
  BY <1>2, LogsStay
<1>15. Histories'
  <2>1. Histories
    BY DEF Sound, SInv
  <2>2. \A l, b : Traced(l, b)' = Traced(l, b)
    BY <1>2 DEF Traced, Agree
  <2>3. Traced(p, T)
    <3>1. CASE m.ents = << >>
      <4>1. Traced(o, currentTerm[d])
        BY <1>5, <2>1 DEF Histories
      <4>2. \A n \in 1 .. Len(o) : o[n].term \in Nat
        BY <1>2, <1>5, LogTypes DEF Term
      <4> QED
        BY <1>2, <1>6, <3>1, <4>1, <4>2 DEF Traced
    <3>2. CASE m.ents # << >>
      <4>1. Traced(L, T)
        BY <1>1, <2>1 DEF Histories
      <4> QED
        BY <1>6, <3>2, <4>1, TracedPrefix
    <3> QED
      BY <3>1, <3>2
  <2>4. ASSUME NEW q \in Server PROVE Traced(log[q], currentTerm[q])'
    <3>1. CASE q = d
      BY <1>2, <1>4, <1>5, <2>3, <3>1 DEF Traced, Agree
    <3>2. CASE q # d
      <4>1. PICK k, b : k = log[q] /\ b = currentTerm[q]
        OBVIOUS
      <4>2. Traced(k, b)'
        BY <2>1, <2>2, <4>1 DEF Histories
      <4> QED
        BY <1>4, <3>2, <4>1, <4>2
    <3> QED
      BY <3>1, <3>2
  <2>5. ASSUME NEW x \in led, currentTerm'[x.by] = x.term PROVE log'[x.by] = leaderLog[x.term]
    <3>1. x.by \in Server /\ x.by # d
      BY <1>4, <1>10, <2>5, LedFacts
    <3> QED
      BY <1>4, <2>1, <2>5, <3>1 DEF Histories
  <2>6. \A t \in Term : Traced(leaderLog[t], t)' /\ (leaderLog[t] # << >> => \E x \in led : x.term = t)
    BY <1>2, <2>1 DEF Histories, Traced, Agree
  <2> QED
    BY <1>2, <2>4, <2>5, <2>6 DEF Histories
<1>16. Roles'
  <2>1. Roles
    BY DEF Sound, SInv
  <2>2. d \notin leaders'
    <3>1. CASE T > currentTerm[d]
      BY <1>4, <3>1
    <3>2. CASE ~(T > currentTerm[d])
      <4>1. T = currentTerm[d]
        BY <1>2, <3>2
      <4>2. d \notin leaders
        BY <1>10, <2>1, <4>1 DEF Roles
      <4> QED
        BY <1>4, <4>2
    <3> QED
      BY <3>1, <3>2
  <2>3. ASSUME NEW q \in leaders' PROVE \E x \in led : x.by = q /\ x.term = currentTerm'[q]
    <3>1. q \in leaders /\ q \in Server /\ q # d
      BY <1>2, <1>4, <2>2 DEF TInv
    <3> QED
      BY <1>4, <2>1, <3>1 DEF Roles
  <2> QED
    BY <1>2, <1>4, <2>1, <2>3 DEF Roles, Running
<1>17. Agree(p, o, commit[d]) /\ commit[d] <= E
  BY <1>1, <1>5, TakenCommit
<1>18. /\ m.commit <= E /\ Safe(L, m.commit, T)
       /\ E <= Len(p) /\ Len(p) \in Nat /\ commit[d] \in Nat
  BY <1>1, <1>2, <1>6, LogTypes DEF Batch, Agree, Logs
<1>19. /\ m.commit > commit[d] => /\ commit'[d] = m.commit
                                  /\ applied'[d] = ApplyLogs(applied[d], p, m.commit)
       /\ ~(m.commit > commit[d]) => commit'[d] = commit[d] /\ applied'[d] = applied[d]
  <2>1. m.commit <= Len(p)
    BY <1>2, <1>18
  <2> QED
    BY <1>3, <1>5, <2>1 DEF Accepted, MinOf
<1>20. commit'[d] <= E /\ commit'[d] \in Nat
  BY <1>2, <1>17, <1>18, <1>19
<1>21. Requested'
  <2> SUFFICES ASSUME NEW x \in Server, NEW y \in Server
               PROVE  /\ \A j \in 1 .. Len(chan'[x][y]) :
                           /\ chan'[x][y][j].type = "Append" => Batch(x, y, chan[x][y][j])'
                           /\ chan'[x][y][j].type = "Vote" => Ask(x, chan[x][y][j])'
                      /\ Ordered(chan[x][y])'
    BY DEF Requested
  <2>1. Ordered(chan[x][y])'
    BY <1>2 DEF QuietChan
  <2>2. ASSUME NEW j \in 1 .. Len(chan'[x][y])
        PROVE  \E i \in 1 .. Len(chan[x][y]) : chan'[x][y][j] = chan[x][y][i]
    BY <1>2, StillQueued DEF Taken
  <2>3. ASSUME NEW j \in 1 .. Len(chan'[x][y]), chan'[x][y][j].type = "Append"
        PROVE  Batch(x, y, chan[x][y][j])'
    <3>1. PICK i \in 1 .. Len(chan[x][y]) : chan'[x][y][j] = chan[x][y][i]
      BY <2>2
    <3>2. chan[x][y] \in Seq(Msg)
      BY <1>2 DEF TInv
    <3>3. PICK k \in Msg : k = chan[x][y][i]
      BY <3>2
    <3>4. Batch(x, y, k) /\ k \in AppendMsg
      BY <2>3, <3>1, <3>3 DEF Sound, SInv, Requested, Msg, VoteMsg
    <3>5. k.term = currentTerm'[y] => commit'[y] <= Ends(k)
      <4>1. CASE y = d
        <5>1. NoneShorter(d, T, E)'
          BY <1>1, TakenLater
        <5>2. k.term = T => Ends(k) >= E
          BY <2>3, <3>1, <3>3, <4>1, <5>1 DEF NoneShorter, Ends
        <5>4. Ends(k) \in Nat
          BY <3>4, EndsType
        <5> QED
          BY <1>4, <1>20, <4>1, <5>2, <5>4
      <4>2. CASE y # d
        BY <1>4, <3>4, <4>2 DEF Batch
      <4> QED
        BY <4>1, <4>2
    <3>6. k.term \in Term
      BY <3>4 DEF AppendMsg
    <3>7. Len(leaderLog[k.term]) \in Nat
      BY <1>2, <3>6, LogTypes
    <3>8. \A e \in Len(leaderLog[k.term]) + 1 .. Len(leaderLog'[k.term]) :
            leaderLog'[k.term][e].term = k.term
      BY <1>2, <3>7
    <3>9. led \subseteq led'
      BY <1>2
    <3>10. Batch(x, y, k)'
      BY <1>2, <1>13, <1>14, <3>4, <3>5, <3>8, <3>9, BatchKept
    <3> QED
      BY <3>1, <3>3, <3>10
  <2>4. ASSUME NEW j \in 1 .. Len(chan'[x][y]), chan'[x][y][j].type = "Vote"
        PROVE  Ask(x, chan[x][y][j])'
    <3>1. PICK i \in 1 .. Len(chan[x][y]) : chan'[x][y][j] = chan[x][y][i]
      BY <2>2
    <3>2. chan[x][y] \in Seq(Msg)
      BY <1>2 DEF TInv
    <3>3. PICK k \in Msg : k = chan[x][y][i]
      BY <3>2
    <3>4. Ask(x, k) /\ k \in VoteMsg
      BY <2>4, <3>1, <3>3 DEF Sound, SInv, Requested, Msg, AppendMsg
    <3>5. k.term \in Nat
      BY <3>4 DEF VoteMsg, Term
    <3>6. k.term <= currentTerm'[x]
      BY <1>7, <3>4, <3>5 DEF Ask
    <3>7. Ask(x, k)'
      BY <1>11, <3>4, <3>6 DEF Ask
    <3> QED
      BY <3>1, <3>3, <3>7
  <2> QED
    BY <2>1, <2>3, <2>4
<1>22. ASSUME NEW f \in Server, NEW t \in Term, NEW i \in 1 .. MaxLog, Acked(f, t, i)'
       PROVE  Acked(f, t, i) \/ (f = d /\ t = T /\ i = E /\ m.ents # << >>)
  <2>1. CASE \E a \in DOMAIN acks' : a.from = f /\ a.ok /\ ~a.hb /\ a.sterm = t /\ a.last = i
    <3>1. PICK a \in DOMAIN acks' : a.from = f /\ a.ok /\ ~a.hb /\ a.sterm = t /\ a.last = i
      BY <2>1
    <3>2. CASE a \in DOMAIN acks
      BY <3>1, <3>2 DEF Acked
    <3>3. CASE a \notin DOMAIN acks
      <4>1. a.from = d /\ a.sterm = T /\ a.last = Len(p) /\ a.hb = (m.ents = << >>)
        BY <1>1, <1>4, <1>5, <3>3 DEF Replied
      <4> QED
        BY <1>6, <3>1, <4>1
    <3> QED
      BY <3>2, <3>3
  <2>2. CASE \E x \in led' : /\ x.term = t /\ currentTerm'[x.by] = t /\ f # x.by
                             /\ i > 0 /\ peer'[x.by][f].match = i
    <3>1. PICK x \in led : /\ x.term = t /\ currentTerm'[x.by] = t /\ f # x.by
                           /\ i > 0 /\ peer[x.by][f].match = i
      BY <1>2, <2>2
    <3>2. currentTerm[x.by] = t
      BY <1>7, <3>1, StillLed
    <3> QED
      BY <3>1, <3>2 DEF Acked
  <2> QED
    BY <1>22, <2>1, <2>2 DEF Acked
<1>23. \A t, u, n : Dropped(t, u, n)' = Dropped(t, u, n)
  BY <1>2 DEF Dropped, Agree
<1>24. ASSUME NEW f \in Server, NEW l, NEW u \in Nat, currentTerm[f] >= u, Passed(f, l, u)
       PROVE  Passed(f, l, u)'
  <2> SUFFICES ASSUME NEW t \in Term, NEW i \in 1 .. MaxLog, Acked(f, t, i)', t < u,
                      NEW n \in 1 .. i, leaderLog[t][n].term = t
               PROVE  Agree(l, leaderLog[t], n) \/ Dropped(t, u - 1, n)
    BY <1>2, <1>23 DEF Passed, Agree
  <2>1. Acked(f, t, i)
    <3>1. ~(f = d /\ t = T)
      BY <1>2, <1>24
    <3> QED
      BY <1>22, <3>1
  <2> QED
    BY <1>24, <2>1 DEF Passed
<1>25. ASSUME NEW f \in Server, NEW t \in Term, NEW i \in 1 .. MaxLog, Acked(f, t, i)'
       PROVE  Evidence(f, t, i)'
  <2>1. CASE Acked(f, t, i)
    <3>1. Evidence(f, t, i)
      BY <2>1 DEF Sound, SInv, Counted
    <3>2. /\ i <= Len(leaderLog[t]) /\ currentTerm[f] >= t /\ NoneShorter(f, t, i)
          /\ \A n \in 1 .. i : Agree(log[f], leaderLog[t], n) \/ Dropped(t, currentTerm[f], n)
      BY <3>1 DEF Evidence
    <3>3. NoneShorter(f, t, i)'
      BY <1>2, <3>2, QuietNoneShorter
    <3>4. currentTerm'[f] >= t
      BY <1>7, <3>2 DEF Term
    <3>5. ASSUME NEW n \in 1 .. i
          PROVE  Agree(log'[f], leaderLog[t], n) \/ Dropped(t, currentTerm'[f], n)
      <4>1. CASE f # d
        BY <1>4, <3>2, <4>1
      <4>2. CASE f = d /\ Dropped(t, currentTerm[f], n)
        <5>1. PICK x \in led : /\ t < x.term /\ x.term <= currentTerm[f]
                               /\ ~Agree(leaderLog[x.term], leaderLog[t], n)
          BY <4>2 DEF Dropped
        <5>2. x.term \in Nat
          BY LedFacts DEF Term
        <5>3. x.term <= currentTerm'[f]
          BY <1>7, <5>1, <5>2
        <5> QED
          BY <5>1, <5>3 DEF Dropped
      <4>3. CASE f = d /\ Agree(log[f], leaderLog[t], n)
        <5>1. t <= currentTerm[d] /\ n \in Nat
          BY <1>2, <3>2, <4>3 DEF Term
        <5>2. NoneShorter(d, t, n)
          <6> SUFFICES ASSUME NEW x \in Server, NEW j \in 1 .. Len(chan[x][d]),
                              chan[x][d][j].type = "Append", chan[x][d][j].term = t
                       PROVE  Ends(chan[x][d][j]) >= n
            BY DEF NoneShorter
          <6>1. Ends(chan[x][d][j]) >= i
            BY <3>2, <4>3 DEF NoneShorter
          <6>2. chan[x][d] \in Seq(Msg)
            BY <1>2 DEF TInv
          <6>3. PICK k \in Msg : k = chan[x][d][j]
            BY <6>2
          <6>4. k \in AppendMsg
            BY <6>3 DEF Msg, VoteMsg
          <6>6. Ends(k) \in Nat
            BY <6>4, EndsType
          <6> QED
            BY <6>1, <6>3, <6>6
        <5>3. Agree(log'[d], leaderLog[t], n) \/ (t < T /\ ~Agree(leaderLog[T], leaderLog[t], n))
          BY <1>1, <4>3, <5>1, <5>2, TakenHolds
        <5>4. T <= currentTerm'[d]
          BY <1>2, <1>4
        <5> QED
          BY <1>8, <4>3, <5>3, <5>4 DEF Dropped
      <4> QED
        BY <3>2, <4>1, <4>2, <4>3
    <3>6. PICK v : v = currentTerm'[f]
      OBVIOUS
    <3>7. \A n \in 1 .. i : Agree(log'[f], leaderLog'[t], n) \/ Dropped(t, v, n)'
      BY <1>2, <1>23, <3>5, <3>6
    <3> QED
      BY <1>2, <3>2, <3>3, <3>4, <3>6, <3>7 DEF Evidence, Agree
  <2>2. CASE f = d /\ t = T /\ i = E
    <3>1. NoneShorter(f, t, i)'
      BY <1>1, <2>2, TakenLater
    <3>2. currentTerm'[f] >= t /\ i <= Len(leaderLog'[t])
      BY <1>1, <1>2, <1>4, <2>2
    <3>3. \A n \in 1 .. i : n \in Nat /\ n <= E
      BY <2>2
    <3>4. \A n \in 1 .. i : Agree(p, L, n)
      BY <1>6, <3>3, AgreeLess
    <3>5. \A n \in 1 .. i : Agree(log'[f], leaderLog'[t], n)
      BY <1>1, <1>2, <1>5, <2>2, <3>4
    <3> QED
      BY <3>1, <3>2, <3>5 DEF Evidence, Agree
  <2> QED
    BY <1>22, <1>25, <2>1, <2>2
<1>26. Counted'
  <2>1. Counted
    BY DEF Sound, SInv
  <2>2. ASSUME NEW a \in DOMAIN acks'
        PROVE  a.to # a.from /\ \E x \in led' : x.by = a.to /\ x.term = a.sterm
    <3>1. CASE a \in DOMAIN acks
      BY <1>2, <2>1, <3>1 DEF Counted
    <3>2. CASE a \notin DOMAIN acks
      <4>1. a.to = s /\ a.from = d /\ a.sterm = T
        BY <1>1, <1>4, <3>2 DEF Replied
      <4> QED
        BY <1>2, <1>8, <1>9, <4>1
    <3> QED
      BY <3>1, <3>2
  <2>3. ASSUME NEW c \in Server, Standing(c)', NEW f \in Votes(c)'
        PROVE  Passed(f, log[c], cand[c].term)'
    <3>1. PICK l \in Logs, u \in Nat : l = log[c] /\ u = cand[c].term
      BY <1>2, LogTypes DEF Sound, IInv, ElectionType, Candidacy
    <3>2. f \in Votes(c) /\ Standing(c) /\ l = log'[c] /\ u = cand'[c].term
      BY <1>11, <2>3, <3>1
    <3>3. f \in Server /\ currentTerm[f] >= u
      BY <3>1, <3>2
      DEF Votes, Sound, IInv, ElectionType, Candidacy, VoteInv, VotersMovedOn, Standing
    <3>4. Passed(f, l, u)
      BY <2>1, <3>1, <3>2 DEF Counted
    <3>5. Passed(f, l, u)'
      BY <1>24, <3>3, <3>4
    <3> QED
      BY <3>2, <3>5
  <2>4. ASSUME NEW x \in led, NEW f \in x.votes PROVE Passed(f, leaderLog[x.term], x.term)'
    <3>0. x.term \in Term /\ TInv
      BY LedFacts DEF Sound
    <3>a. leaderLog[x.term] \in Logs /\ x.term \in Nat
      BY <3>0, LogTypes DEF Term
    <3>1. PICK l \in Logs, u \in Nat : l = leaderLog[x.term] /\ u = x.term
      BY <3>a
    <3>2. f \in Server /\ currentTerm[f] >= u
      BY <3>1, LedFacts
    <3>3. Passed(f, l, u)
      BY <2>1, <3>1 DEF Counted
    <3>4. Passed(f, l, u)'
      BY <1>24, <3>2, <3>3
    <3> QED
      BY <1>2, <3>1, <3>4
  <2> QED
    BY <1>2, <1>25, <2>2, <2>3, <2>4 DEF Counted
<1>27. Committed'
  <2> SUFFICES ASSUME NEW q \in Server
               PROVE  (/\ commit[q] <= Len(log[q])
                       /\ Safe(log[q], commit[q], currentTerm[q])
                       /\ applied[q] = SubSeq(log[q], 1, commit[q]))'
    BY DEF Committed
  <2>1. Committed
    BY DEF Sound, SInv
  <2>2. currentTerm'[q] >= currentTerm[q]
    BY <1>7
  <2>3. CASE q # d
    <3>1. commit'[q] = commit[q] /\ applied'[q] = applied[q] /\ log'[q] = log[q]
      BY <1>4, <2>3
    <3>2. Agree(log'[q], log[q], commit[q])
      BY <2>1, <3>1 DEF Committed, Agree
    <3> QED
      BY <1>2, <1>13, <1>14, <2>1, <2>2, <3>1, <3>2, CommittedKept
  <2>4. CASE q = d /\ ~(m.commit > commit[d])
    <3>1. commit'[q] = commit[q] /\ applied'[q] = applied[q]
      BY <1>19, <2>4
    <3>2. Agree(log'[q], log[q], commit[q])
      BY <1>5, <1>17, <2>4
    <3> QED
      BY <1>2, <1>13, <1>14, <2>1, <2>2, <3>1, <3>2, CommittedKept
  <2>5. CASE q = d /\ m.commit > commit[d]
    <3>1. PICK k \in Nat, j \in Nat : k = m.commit /\ j = commit[d]
      BY <1>2, <1>18
    <3>2. /\ commit'[d] = k /\ applied'[d] = ApplyLogs(applied[d], p, k)
          /\ j <= k /\ k <= E /\ k <= Len(p)
      BY <1>18, <1>19, <2>5, <3>1
    <3>3. applied[d] = SubSeq(o, 1, j)
      BY <1>5, <2>1, <3>1 DEF Committed
    <3>4. SubSeq(p, 1, j) = SubSeq(o, 1, j)
      BY <1>17, <3>1, SamePrefix
    <3>5. ApplyLogs(SubSeq(p, 1, j), p, k) = SubSeq(p, 1, k)
      BY <3>2, ApplyPrefix
    <3>6. applied'[d] = SubSeq(p, 1, k)
      BY <3>2, <3>3, <3>4, <3>5
    <3>7. Agree(p, L, k)
      BY <1>6, <3>2, AgreeLess
    <3>8. Safe(L, k, T) /\ T <= T
      BY <1>2, <1>18, <3>1
    <3>9. Safe(p, k, T)'
      BY <1>2, <1>13, <1>14, <3>7, <3>8, SafeKept
    <3> QED
      BY <1>4, <1>5, <2>5, <3>2, <3>6, <3>9
  <2> QED
    BY <2>3, <2>4, <2>5
<1> QED
  BY <1>15, <1>16, <1>21, <1>26, <1>27 DEF SInv

--------------------------------------------------------------------------------
(* Who has led has led.                                                     *)
LEMMA LedGrows ==
  ASSUME [Next]_vars
  PROVE  led \subseteq led'
<1>1. CASE UNCHANGED vars
  BY <1>1 DEF vars
<1>2. ASSUME NEW r \in Server,
             RequestVote(r) \/ Win(r) \/ GiveUp(r) \/ Demote(r) \/ AdvanceCommit(r)
      PROVE  led \subseteq led'
  BY <1>2 DEF RequestVote, Win, GiveUp, Demote, AdvanceCommit
<1>3. ASSUME NEW h \in Host, Failover(h) PROVE led \subseteq led'
  BY <1>3 DEF Failover
<1>4. ASSUME NEW r \in Server, NEW c \in Cmd, Start(r, c) PROVE led \subseteq led'
  BY <1>4 DEF Start
<1>5. ASSUME NEW s \in Server, NEW d \in Server, SendAppend(s, d) \/ RpcTimeout(s, d)
      PROVE  led \subseteq led'
  BY <1>5 DEF SendAppend, RpcTimeout
<1>6. ASSUME NEW s \in Server, NEW d \in Server, Deliver(s, d) PROVE led \subseteq led'
  <2>1. PICK m : OnRequestVote(s, d, m) \/ OnAppendEntries(s, d, m)
    BY <1>6 DEF Deliver
  <2> QED
    BY <2>1 DEF OnRequestVote, OnAppendEntries
<1>7. ASSUME NEW a \in DOMAIN acks, HandleAck(a) PROVE led \subseteq led'
  BY <1>7 DEF HandleAck, AckIgnored, AckNewerTerm, AckRejected, AckAccepted, RpcError
<1> QED
  BY <1>1, <1>2, <1>3, <1>4, <1>5, <1>6, <1>7 DEF Next

(* As long as leaders were elected, every step keeps the safety invariant.  *)
LEMMA SoundStep ==
  ASSUME Sound, [Next]_vars, LeadersElected'
  PROVE  SInv'
<1>1. IInv' /\ TInv' /\ TInv
  BY IInvStep, TInvStep DEF Sound
<1>2. CASE UNCHANGED vars
  <2>1. leaders' \subseteq leaders /\ UNCHANGED <<log, leaderLog, led, commit, applied, currentTerm,
                                                  cand, chan, acks, peer>>
    BY <1>2 DEF vars, logVars, netVars
  <2> QED
    BY <1>1, <2>1, GateKeeps
<1>3. ASSUME NEW r \in Server, RequestVote(r) PROVE SInv'
  BY <1>1, <1>3, RequestVoteKeeps
<1>4. ASSUME NEW r \in Server, Win(r) PROVE SInv'
  BY <1>1, <1>4, WinKeeps
<1>5. ASSUME NEW r \in Server, GiveUp(r) PROVE SInv'
  BY <1>1, <1>5, GiveUpKeeps
<1>6. ASSUME NEW r \in Server, Demote(r) PROVE SInv'
  <2>1. leaders' \subseteq leaders /\ UNCHANGED <<log, leaderLog, led, commit, applied, currentTerm,
                                                  cand, chan, acks, peer>>
    BY <1>6 DEF Demote, logVars, netVars
  <2> QED
    BY <1>1, <2>1, GateKeeps
<1>7. ASSUME NEW r \in Server, AdvanceCommit(r) PROVE SInv'
  BY <1>1, <1>7, AdvanceCommitKeeps
<1>8. ASSUME NEW h \in Host, Failover(h) PROVE SInv'
  <2>1. leaders' \subseteq leaders /\ UNCHANGED <<log, leaderLog, led, commit, applied, currentTerm,
                                                  cand, chan, acks, peer>>
    BY <1>8 DEF Failover, logVars, netVars
  <2> QED
    BY <1>1, <2>1, GateKeeps
<1>9. ASSUME NEW r \in Server, NEW c \in Cmd, Start(r, c) PROVE SInv'
  BY <1>1, <1>9, StartKeeps
<1>10. ASSUME NEW s \in Server, NEW d \in Server, SendAppend(s, d) PROVE SInv'
  BY <1>1, <1>10, SendKeeps
<1>11. ASSUME NEW s \in Server, NEW d \in Server, Deliver(s, d) PROVE SInv'
  <2>1. Head(chan[s][d]) \in Msg
    BY <1>1, <1>11, DeliverFacts
  <2>2. PICK m \in Msg : m = Head(chan[s][d])
    BY <2>1
  <2>3. CASE m.type = "Vote" /\ OnRequestVote(s, d, m)
    <3>1. m \in VoteMsg
      BY <2>3 DEF Msg, AppendMsg
    <3> QED
      BY <1>1, <1>11, <2>2, <2>3, <3>1, VoteKeeps
  <2>4. CASE m.type = "Append" /\ OnAppendEntries(s, d, m)
    <3>1. m \in AppendMsg
      BY <2>4 DEF Msg, VoteMsg
    <3>2. CASE Accepts(d, m)
      <4>1. Taken(s, d, m)
        BY <1>11, <2>2, <2>4, <3>1, <3>2 DEF Taken
      <4> QED
        BY <1>1, <4>1, AcceptKeeps
    <3>3. CASE ~Accepts(d, m)
      BY <1>1, <1>11, <2>2, <2>4, <3>1, <3>3, RefuseKeeps
    <3> QED
      BY <3>2, <3>3
  <2> QED
    BY <1>11, <2>2, <2>3, <2>4 DEF Deliver
<1>12. ASSUME NEW s \in Server, NEW d \in Server, RpcTimeout(s, d) PROVE SInv'
  BY <1>1, <1>12, TimeoutKeeps
<1>13. ASSUME NEW a \in DOMAIN acks, HandleAck(a) PROVE SInv'
  <2>1. CASE AckAccepted(a)
    BY <1>1, <2>1, AcceptedAckKeeps
  <2>2. CASE AckIgnored(a) \/ AckNewerTerm(a) \/ AckRejected(a) \/ RpcError(a)
    BY <1>1, <2>2, QuietAckKeeps
  <2> QED
    BY <1>13, <2>1, <2>2 DEF HandleAck
<1> QED
  BY <1>2, <1>3, <1>4, <1>5, <1>6, <1>7, <1>8, <1>9, <1>10, <1>11, <1>12, <1>13 DEF Next

(* A leader that was not elected is remembered.                             *)
LEMMA SafetyInvStep == IInv /\ TInv /\ SafetyInv /\ [Next]_vars => SafetyInv'
<1> SUFFICES ASSUME IInv, TInv, SafetyInv, [Next]_vars, LeadersElected' PROVE SInv'
  BY DEF SafetyInv
<1>1. LeadersElected
  BY LedGrows DEF LeadersElected
<1>2. Sound
  BY <1>1 DEF SafetyInv, Sound
<1> QED
  BY <1>2, SoundStep

(* The invariant holds in every behaviour.                                  *)
LEMMA AlwaysSafe == Spec => [](IInv /\ TInv /\ SafetyInv)
<1>1. Init => SafetyInv
  BY SInvInit DEF SafetyInv
<1> QED
  BY <1>1, IInvInit, IInvStep, TInvInit, TInvStep, SafetyInvStep, PTL DEF Spec

(* As long as leaders were elected, all servers apply the same commands in  *)
(* the same order, for any number of servers, terms, entries and requests,  *)
(* whatever is lost, late, refused or sent again and whoever crashes.       *)
THEOREM OneOrder == Spec => []StateMachineSafety
<1>1. IInv /\ TInv /\ SafetyInv => StateMachineSafety
  BY SoundSafe DEF Sound, SafetyInv, StateMachineSafety
<1> QED
  BY <1>1, AlwaysSafe, PTL

(* As long as leaders were elected, match_index_ counts only entries the    *)
(* follower has, though replies are late, out of order or of older terms.   *)
THEOREM MatchHolds == Spec => []MatchIsReplicated
<1>1. IInv /\ TInv /\ SafetyInv => MatchIsReplicated
  BY SoundMatch DEF Sound, SafetyInv, MatchIsReplicated
<1> QED
  BY <1>1, AlwaysSafe, PTL

--------------------------------------------------------------------------------
(* RaftServer implements ReplicatedLog.                                     *)

(* The commands of a sequence of entries.                                   *)
LEMMA CmdsFacts ==
  ASSUME NEW e \in Seq(Entry)
  PROVE  /\ Cmds(e) \in Seq(Cmd) /\ Len(Cmds(e)) = Len(e) /\ DOMAIN Cmds(e) = 1 .. Len(e)
         /\ \A i \in 1 .. Len(e) : Cmds(e)[i] = e[i].cmd
<1>1. PICK n \in Nat : n = Len(e)
  OBVIOUS
<1>2. DOMAIN e = 1 .. n
  BY <1>1
<1>3. \A i \in 1 .. n : e[i] \in Entry
  BY <1>1
<1>4. \A i \in 1 .. n : e[i].cmd \in Cmd
  BY <1>3 DEF Entry
<1>5. PICK s : s = Cmds(e)
  OBVIOUS
<1>6. s \in [1 .. n -> Cmd] /\ \A i \in 1 .. n : s[i] = e[i].cmd
  BY <1>2, <1>4, <1>5 DEF Cmds
<1>7. s \in Seq(Cmd) /\ Len(s) = n /\ DOMAIN s = 1 .. n
  BY <1>6, SeqDef
<1> QED
  BY <1>1, <1>5, <1>6, <1>7

(* Entries that begin alike have commands that begin alike.                 *)
LEMMA CmdsPrefix ==
  ASSUME NEW e \in Seq(Entry), NEW f \in Seq(Entry), Agree(f, e, Len(e))
  PROVE  Log!IsPrefix(Cmds(e), Cmds(f))
<1>1. PICK s \in Seq(Cmd), t \in Seq(Cmd) : s = Cmds(e) /\ t = Cmds(f)
  BY CmdsFacts
<1>2. Len(s) = Len(e) /\ Len(t) = Len(f) /\ Len(s) <= Len(t)
  BY <1>1, CmdsFacts DEF Agree
<1>3. \A i \in 1 .. Len(s) : s[i] = t[i]
  <2>1. ASSUME NEW i \in 1 .. Len(s) PROVE s[i] = t[i]
    <3>1. i \in 1 .. Len(e) /\ i \in 1 .. Len(f)
      BY <1>2
    <3>2. s[i] = e[i].cmd /\ t[i] = f[i].cmd
      BY <1>1, <3>1, CmdsFacts
    <3>3. e[i] = f[i]
      BY <3>1 DEF Agree
    <3> QED
      BY <3>2, <3>3
  <2> QED
    BY <2>1
<1>4. SubSeq(s, 1, Len(s)) = SubSeq(t, 1, Len(s))
  BY <1>2, <1>3
<1>5. Log!IsPrefix(s, t)
  BY <1>2, <1>4 DEF Log!IsPrefix
<1> QED
  BY <1>1, <1>5

--------------------------------------------------------------------------------
(* Every command is submitted once, and is in a log once.                   *)

(* The commands of l were submitted, and are pairwise different.            *)
Once(l) ==
  /\ \A i \in 1 .. Len(l) : l[i].cmd \in submitted
  /\ \A i, j \in 1 .. Len(l) : l[i].cmd = l[j].cmd => i = j

(* So are those of every leader's log.                                      *)
Distinct == \A t \in Term : Once(leaderLog[t])

(* A part of such a log is one.                                             *)
LEMMA OncePrefix ==
  ASSUME NEW l, NEW k, Once(l), Len(k) \in Nat, Len(l) \in Nat, Agree(k, l, Len(k))
  PROVE  Once(k)
<1>1. \A i \in 1 .. Len(k) : i \in 1 .. Len(l) /\ k[i] = l[i]
  BY DEF Agree
<1> QED
  BY <1>1 DEF Once

(* A server's log is a part of a leader's.                                  *)
LEMMA LogOnce ==
  ASSUME Sound, Distinct, NEW r \in Server
  PROVE  Once(log[r])
<1>1. log[r] \in Logs /\ Len(log[r]) \in Nat /\ Traced(log[r], currentTerm[r])
  BY LogTypes DEF Sound, SInv, Histories
<1>2. CASE Len(log[r]) = 0
  BY <1>2 DEF Once
<1>3. CASE Len(log[r]) > 0
  <2>1. PICK n \in 1 .. Len(log[r]) : n = Len(log[r])
    BY <1>1, <1>3
  <2>2. log[r][n].term \in Term /\ Agree(log[r], leaderLog[log[r][n].term], n)
    BY <1>1, EntryLed
  <2>3. PICK t \in Term : t = log[r][n].term
    BY <2>2
  <2>4. Once(leaderLog[t]) /\ Len(leaderLog[t]) \in Nat
    BY LogTypes DEF Distinct, Sound
  <2> QED
    BY <1>1, <2>1, <2>2, <2>3, <2>4, OncePrefix
<1> QED
  BY <1>1, <1>2, <1>3

(* The steps that change neither the leaders' logs nor what is submitted.   *)
LEMMA MostlySame ==
  ASSUME [Next]_vars
  PROVE  \/ UNCHANGED <<leaderLog, submitted>>
         \/ \E r \in Server : Win(r)
         \/ \E r \in Server, c \in Cmd : Start(r, c)
<1>1. CASE UNCHANGED vars
  BY <1>1 DEF vars, logVars
<1>2. ASSUME NEW r \in Server, RequestVote(r) \/ GiveUp(r) \/ Demote(r) \/ AdvanceCommit(r)
      PROVE  UNCHANGED <<leaderLog, submitted>>
  BY <1>2 DEF RequestVote, GiveUp, Demote, AdvanceCommit, logVars
<1>3. ASSUME NEW h \in Host, Failover(h) PROVE UNCHANGED <<leaderLog, submitted>>
  BY <1>3 DEF Failover, logVars
<1>4. ASSUME NEW s \in Server, NEW d \in Server, SendAppend(s, d) \/ RpcTimeout(s, d)
      PROVE  UNCHANGED <<leaderLog, submitted>>
  BY <1>4 DEF SendAppend, RpcTimeout, logVars
<1>5. ASSUME NEW s \in Server, NEW d \in Server, Deliver(s, d)
      PROVE  UNCHANGED <<leaderLog, submitted>>
  <2>1. PICK m : OnRequestVote(s, d, m) \/ OnAppendEntries(s, d, m)
    BY <1>5 DEF Deliver
  <2> QED
    BY <2>1 DEF OnRequestVote, OnAppendEntries, logVars
<1>6. ASSUME NEW a \in DOMAIN acks, HandleAck(a) PROVE UNCHANGED <<leaderLog, submitted>>
  BY <1>6 DEF HandleAck, AckIgnored, AckNewerTerm, AckRejected, AckAccepted, RpcError, logVars
<1> QED
  BY <1>1, <1>2, <1>3, <1>4, <1>5, <1>6 DEF Next

(* A command that Start appends has not been submitted before.              *)
LEMMA DistinctStep ==
  ASSUME Sound, Distinct, [Next]_vars
  PROVE  Distinct'
<1>1. CASE UNCHANGED <<leaderLog, submitted>>
  BY <1>1 DEF Distinct, Once
<1>2. ASSUME NEW r \in Server, Win(r) PROVE Distinct'
  <2>1. PICK y : Elected(r, currentTerm[r], y)
    BY <1>2, WinFacts
  <2>2. submitted' = submitted
    BY <1>2 DEF Win
  <2>3. \A t \in Term : leaderLog'[t] = leaderLog[t] \/ leaderLog'[t] = log[r]
    BY <2>1 DEF Elected
  <2>4. Once(log[r])
    BY LogOnce
  <2> QED
    BY <2>2, <2>3, <2>4 DEF Distinct, Once
<1>3. ASSUME NEW r \in Server, NEW c \in Cmd, Start(r, c) PROVE Distinct'
  <2>1. PICK p : Begun(r, currentTerm[r], p)
    BY <1>3, StartFacts
  <2>2. submitted' = submitted \cup {c} /\ c \notin submitted
    BY <1>3 DEF Start
  <2>3. \A t \in Term : leaderLog'[t] = leaderLog[t] \/ leaderLog'[t] = p
    BY <2>1 DEF Begun
  <2>4. Once(log[r]) /\ log[r] \in Logs /\ Len(log[r]) \in Nat
    BY LogOnce, LogTypes DEF Sound
  <2>5. /\ Len(p) = Len(log[r]) + 1 /\ \A j \in 1 .. Len(log[r]) : p[j] = log[r][j]
        /\ log'[r] = p
    BY <2>1 DEF Begun
  <2>6. p[Len(p)].cmd = c
    <3>1. TInv /\ currentTerm[r] \in Term /\ r \in leaders
      BY <2>1, LeaderFacts DEF Begun, Sound
    <3>2. log'[r] = Append(log[r], [term |-> currentTerm[r], cmd |-> c])
      BY <1>3, <3>1 DEF Start, TInv
    <3>3. PICK e : e = [term |-> currentTerm[r], cmd |-> c]
      OBVIOUS
    <3>4. e.cmd = c /\ e \in Entry
      BY <3>1, <3>3 DEF Entry, Term
    <3>5. log[r] \in Seq(Entry)
      BY <2>4 DEF Logs
    <3>6. Append(log[r], e)[Len(log[r]) + 1] = e
      BY <3>4, <3>5
    <3> QED
      BY <2>5, <3>2, <3>3, <3>4, <3>6
  <2>7. \A i \in 1 .. Len(p) : i = Len(p) \/ i \in 1 .. Len(log[r])
    BY <2>4, <2>5
  <2>8. \A i \in 1 .. Len(log[r]) : p[i].cmd \in submitted
    BY <2>4, <2>5 DEF Once
  <2>9. (\A i \in 1 .. Len(p) : p[i].cmd \in submitted')
    BY <2>2, <2>6, <2>7, <2>8
  <2>10. ASSUME NEW i \in 1 .. Len(p), NEW j \in 1 .. Len(p), p[i].cmd = p[j].cmd PROVE i = j
    <3>1. CASE i \in 1 .. Len(log[r]) /\ j \in 1 .. Len(log[r])
      BY <2>4, <2>5, <2>10, <3>1 DEF Once
    <3>2. CASE i = Len(p) \/ j = Len(p)
      BY <2>2, <2>6, <2>7, <2>8, <2>10, <3>2
    <3> QED
      BY <2>7, <3>1, <3>2
  <2>11. ASSUME NEW t \in Term PROVE Once(leaderLog[t])'
    <3>1. CASE leaderLog'[t] = p
      BY <2>9, <2>10, <3>1 DEF Once
    <3>2. CASE leaderLog'[t] = leaderLog[t]
      BY <2>2, <3>2 DEF Distinct, Once
    <3> QED
      BY <2>3, <3>1, <3>2
  <2> QED
    BY <2>11 DEF Distinct
<1> QED
  BY <1>1, <1>2, <1>3, MostlySame

--------------------------------------------------------------------------------
(* What servers have applied, and the one that is furthest.                 *)

(* What a server has applied is the committed part of its log.              *)
LEMMA AppliedFacts ==
  ASSUME Sound, NEW r \in Server
  PROVE  /\ applied[r] \in Seq(Entry) /\ Len(applied[r]) \in 0 .. MaxLog
         /\ Agree(applied[r], log[r], Len(applied[r]))
<1>1. /\ commit[r] <= Len(log[r]) /\ commit[r] \in Nat
      /\ applied[r] = SubSeq(log[r], 1, commit[r])
      /\ log[r] \in Seq(Entry) /\ Len(log[r]) \in 0 .. MaxLog
  BY LogTypes DEF Sound, SInv, Committed, Logs
<1>2. PICK l \in Seq(Entry), n \in Nat : l = log[r] /\ n = commit[r]
  BY <1>1
<1>3. SubSeq(l, 1, n) \in Seq(Entry) /\ Len(SubSeq(l, 1, n)) = n
  BY <1>1, <1>2
<1>4. \A i \in 1 .. n : SubSeq(l, 1, n)[i] = l[i]
  BY <1>1, <1>2
<1>5. n \in 0 .. MaxLog /\ n <= Len(l)
  BY <1>1, <1>2, RaftAssumption
<1> QED
  BY <1>1, <1>2, <1>3, <1>4, <1>5 DEF Agree

(* Some server is furthest.                                                 *)
LEMMA FurthestFacts ==
  ASSUME Sound
  PROVE  Furthest \in Server /\ \A q \in Server : Len(applied[Furthest]) >= Len(applied[q])
<1> DEFINE S == {Len(applied[r]) : r \in Server}
<1>1. \A r \in Server : Len(applied[r]) \in Nat /\ Len(applied[r]) <= MaxLog
  BY AppliedFacts, RaftAssumption
<1>2. S \in SUBSET Nat /\ S # {} /\ \A n \in S : n <= MaxLog
  BY <1>1, SomeServer, RaftAssumption
<1>3. PICK n \in S : \A m \in S : n >= m
  <2> HIDE DEF S
  <2> QED
    BY <1>2, GreatestNat, RaftAssumption
<1>4. PICK r \in Server : n = Len(applied[r])
  OBVIOUS
<1>5. \A q \in Server : Len(applied[r]) >= Len(applied[q])
  BY <1>3, <1>4
<1> QED
  BY <1>5 DEF Furthest

(* What others have applied, it has applied.                                *)
LEMMA FurthestCovers ==
  ASSUME Sound, NEW q \in Server
  PROVE  Agree(applied[Furthest], applied[q], Len(applied[q]))
<1>1. PICK F \in Server : F = Furthest
  BY FurthestFacts
<1>2. Len(applied[F]) >= Len(applied[q]) /\ Len(applied[F]) \in Nat /\ Len(applied[q]) \in Nat
  BY <1>1, FurthestFacts, AppliedFacts
<1>3. MinOf(Len(applied[F]), Len(applied[q])) = Len(applied[q])
  BY <1>2 DEF MinOf
<1>4. \A i \in 1 .. Len(applied[q]) : applied[F][i] = applied[q][i]
  BY <1>3, SoundSafe
<1> QED
  BY <1>1, <1>2, <1>4 DEF Agree

(* The order holds submitted commands, each once.                           *)
LEMMA OrderOnce ==
  ASSUME Sound, Distinct
  PROVE  Log!IsInjective(Cmds(applied[Furthest]))
         /\ Log!Range(Cmds(applied[Furthest])) \subseteq submitted
<1>1. PICK F \in Server : F = Furthest
  BY FurthestFacts
<1>2. PICK e \in Seq(Entry) : e = applied[F]
  BY AppliedFacts
<1>3. Once(e)
  <2>1. Agree(e, log[F], Len(e)) /\ Len(e) \in Nat /\ Len(log[F]) \in Nat
    BY <1>2, AppliedFacts, LogTypes DEF Sound
  <2> QED
    BY <2>1, LogOnce, OncePrefix
<1>4. PICK s : s = Cmds(e)
  OBVIOUS
<1>5. DOMAIN s = 1 .. Len(e) /\ \A i \in 1 .. Len(e) : s[i] = e[i].cmd
  BY <1>4, CmdsFacts
<1>6. Log!IsInjective(s) /\ Log!Range(s) \subseteq submitted
  BY <1>3, <1>5 DEF Once, Log!IsInjective, Log!Range
<1> QED
  BY <1>1, <1>2, <1>4, <1>6

--------------------------------------------------------------------------------
(* The steps of the implementation.                                         *)

(* Server r alone applies more.                                             *)
Goes(r) ==
  /\ \A q \in Server \ {r} : applied'[q] = applied[q]
  /\ Agree(applied'[r], applied[r], Len(applied[r]))

(* applyLogs goes on where it stopped.                                      *)
LEMMA ApplyGoes ==
  ASSUME NEW e \in Seq(Entry), NEW l \in Seq(Entry), NEW n \in Nat, n <= Len(l)
  PROVE  Agree(ApplyLogs(e, l, n), e, Len(e))
<1>1. CASE ~(n > Len(e))
  BY <1>1 DEF ApplyLogs, Agree
<1>2. CASE n > Len(e)
  <2>1. PICK f : f = SubSeq(l, Len(e) + 1, n)
    OBVIOUS
  <2>2. f \in Seq(Entry)
    BY <1>2, <2>1
  <2>3. Len(e \o f) = Len(e) + Len(f) /\ Len(f) \in Nat /\ Len(e) \in Nat
    BY <2>2
  <2>4. \A i \in 1 .. Len(e) : (e \o f)[i] = e[i]
    BY <2>2
  <2>5. ApplyLogs(e, l, n) = e \o f
    BY <1>2, <2>1 DEF ApplyLogs
  <2> QED
    BY <2>3, <2>4, <2>5 DEF Agree
<1> QED
  BY <1>1, <1>2

(* Only a leader that commits and a follower that accepts apply anything.   *)
LEMMA AppliedStep ==
  ASSUME Sound, [Next]_vars, LeadersElected'
  PROVE  \/ UNCHANGED <<applied, submitted>>
         \/ applied' = applied /\ \E c \in Cmd : submitted' = submitted \cup {c}
         \/ submitted' = submitted /\ \E r \in Server : Goes(r)
<1>1. CASE UNCHANGED vars
  BY <1>1 DEF vars, logVars
<1>2. ASSUME NEW r \in Server, RequestVote(r) \/ Win(r) \/ GiveUp(r) \/ Demote(r)
      PROVE  UNCHANGED <<applied, submitted>>
  BY <1>2 DEF RequestVote, Win, GiveUp, Demote, logVars
<1>3. ASSUME NEW h \in Host, Failover(h) PROVE UNCHANGED <<applied, submitted>>
  BY <1>3 DEF Failover, logVars
<1>4. ASSUME NEW s \in Server, NEW d \in Server, SendAppend(s, d) \/ RpcTimeout(s, d)
      PROVE  UNCHANGED <<applied, submitted>>
  BY <1>4 DEF SendAppend, RpcTimeout, logVars
<1>5. ASSUME NEW a \in DOMAIN acks, HandleAck(a) PROVE UNCHANGED <<applied, submitted>>
  BY <1>5 DEF HandleAck, AckIgnored, AckNewerTerm, AckRejected, AckAccepted, RpcError, logVars
<1>6. ASSUME NEW r \in Server, NEW c \in Cmd, Start(r, c)
      PROVE  applied' = applied /\ submitted' = submitted \cup {c}
  BY <1>6 DEF Start
<1>7. ASSUME NEW r \in Server, AdvanceCommit(r) PROVE submitted' = submitted /\ Goes(r)
  <2>1. TInv /\ log[r] \in Seq(Entry) /\ applied[r] \in Seq(Entry) /\ Len(log[r]) \in Nat
    <3>1. TInv /\ log[r] \in Logs /\ applied[r] \in Seq(Entry)
      BY StateTypes DEF Sound
    <3> QED
      BY <3>1 DEF Logs
  <2>2. MatchedIndex(r) \in Nat
    <3>1. Follower(r) # {}
      BY <1>7 DEF AdvanceCommit
    <3>2. MatchedIndex(r) \in 0 .. MaxLog
      BY <2>1, <3>1, MatchedIndexReached
    <3> QED
      BY <3>2, RaftAssumption
  <2>3. PICK n \in Nat : n = MinOf(MatchedIndex(r), Len(log[r])) /\ n <= Len(log[r])
    BY <2>1, <2>2 DEF MinOf
  <2>4. /\ applied' = [applied EXCEPT ![r] = ApplyLogs(applied[r], log[r], n)]
        /\ submitted' = submitted
    BY <1>7, <2>3 DEF AdvanceCommit
  <2>5. PICK e : e = ApplyLogs(applied[r], log[r], n)
    OBVIOUS
  <2>6. Agree(e, applied[r], Len(applied[r]))
    BY <2>1, <2>3, <2>5, ApplyGoes
  <2>7. applied'[r] = e /\ \A q \in Server \ {r} : applied'[q] = applied[q]
    BY <2>1, <2>4, <2>5 DEF TInv
  <2> QED
    BY <2>4, <2>6, <2>7 DEF Goes
<1>8. ASSUME NEW s \in Server, NEW d \in Server, Deliver(s, d)
      PROVE  UNCHANGED <<applied, submitted>> \/ (submitted' = submitted /\ Goes(d))
  <2>1. PICK m : /\ m = Head(chan[s][d])
                 /\ (m.type = "Vote" /\ OnRequestVote(s, d, m))
                      \/ (m.type = "Append" /\ OnAppendEntries(s, d, m))
    BY <1>8 DEF Deliver
  <2>2. CASE OnRequestVote(s, d, m)
    BY <2>2 DEF OnRequestVote, logVars
  <2>3. CASE OnAppendEntries(s, d, m) /\ ~Accepts(d, m)
    BY <2>3 DEF OnAppendEntries
  <2>4. CASE m.type = "Append" /\ OnAppendEntries(s, d, m) /\ Accepts(d, m)
    <3>1. submitted' = submitted
      BY <2>4 DEF OnAppendEntries
    <3>2. TInv /\ TInv' /\ chan[s][d] # << >>
      BY <1>8, TInvStep DEF Sound, Deliver
    <3>3. /\ log[d] \in Seq(Entry) /\ log'[d] \in Seq(Entry) /\ applied[d] \in Seq(Entry)
          /\ Len(log'[d]) \in Nat
      BY <3>2 DEF TInv, Logs
    <3>4. m.commit \in Nat
      <4>1. chan[s][d] \in Seq(Msg)
        BY <3>2 DEF TInv
      <4>2. m \in Msg
        BY <2>1, <3>2, <4>1
      <4>3. m \in AppendMsg
        BY <2>4, <4>2 DEF Msg, VoteMsg
      <4> QED
        BY <4>3 DEF AppendMsg
    <3>5. PICK p, n : /\ log' = [log EXCEPT ![d] = p] /\ n = MinOf(m.commit, Len(p))
                      /\ applied' = [applied EXCEPT ![d] = IF m.commit > commit[d]
                                       THEN ApplyLogs(applied[d], p, n) ELSE applied[d]]
      BY <2>4 DEF OnAppendEntries
    <3>6. log'[d] = p
      BY <3>2, <3>5 DEF TInv
    <3>7. n \in Nat /\ n <= Len(p) /\ p \in Seq(Entry)
      BY <3>3, <3>4, <3>5, <3>6 DEF MinOf
    <3>8. PICK e : e = IF m.commit > commit[d] THEN ApplyLogs(applied[d], p, n) ELSE applied[d]
      OBVIOUS
    <3>9. applied'[d] = e /\ \A q \in Server \ {d} : applied'[q] = applied[q]
      BY <3>2, <3>5, <3>8 DEF TInv
    <3>10. CASE m.commit > commit[d]
      <4>1. Agree(e, applied[d], Len(applied[d]))
        BY <3>3, <3>7, <3>8, <3>10, ApplyGoes
      <4> QED
        BY <3>1, <3>9, <4>1 DEF Goes
    <3>11. CASE ~(m.commit > commit[d])
      <4>1. e = applied[d] /\ Len(applied[d]) \in Nat
        BY <3>3, <3>8, <3>11
      <4> QED
        BY <3>1, <3>9, <4>1 DEF Goes, Agree
    <3> QED
      BY <3>10, <3>11
  <2> QED
    BY <2>1, <2>2, <2>3, <2>4
<1> QED
  BY <1>1, <1>2, <1>3, <1>4, <1>5, <1>6, <1>7, <1>8 DEF Next

--------------------------------------------------------------------------------
(* What a server that is furthest has applied holds what others applied,    *)
(* and is a sequence of submitted commands, each once.                      *)
Leads ==
  /\ Furthest \in Server
  /\ \A q \in Server : Agree(applied[Furthest], applied[q], Len(applied[q]))
  /\ Log!IsInjective(Cmds(applied[Furthest]))
  /\ Log!Range(Cmds(applied[Furthest])) \subseteq submitted

(* It does, before a step and after it.                                     *)
LEMMA LeadsNow == Sound /\ Distinct => Leads
BY FurthestFacts, FurthestCovers, OrderOnce DEF Leads

(* After it.                                                                *)
LEMMA LeadsNext == (Sound /\ Distinct)' => Leads'
BY LeadsNow, PTL

(* A server that goes on executes the order on.                             *)
LEMMA GoesExecutes ==
  ASSUME Sound, Sound', Distinct', submitted' = submitted, NEW r \in Server, Goes(r)
  PROVE  Log!Execute(r)
<1>1. \A q \in Server : Agree(applied'[q], applied[q], Len(applied[q]))
  <2>1. \A q \in Server : Len(applied[q]) \in Nat
    BY AppliedFacts
  <2> QED
    BY <2>1 DEF Goes, Agree
<1>2. \A q \in Server : applied[q] \in Seq(Entry) /\ applied'[q] \in Seq(Entry)
  BY DEF Sound, TInv
<1>3. PICK F \in Server : F = Furthest
  BY FurthestFacts
<1>4. Furthest' \in Server
  BY LeadsNext DEF Leads
<1>5. PICK G \in Server : G = Furthest'
  BY <1>4
<1>6. \A q \in Server : Agree(applied'[Furthest'], applied'[q], Len(applied'[q]))
  BY LeadsNext DEF Leads, Agree
<1>7. \A q \in Server : Agree(applied'[G], applied'[q], Len(applied'[q]))
  BY <1>5, <1>6
<1>8. PICK o, p : o = Cmds(applied[Furthest]) /\ p = Cmds(applied[Furthest])'
  OBVIOUS
<1>9. o = Cmds(applied[F]) /\ p = Cmds(applied'[G])
  BY <1>3, <1>5, <1>8 DEF Cmds
<1>10. Log!IsPrefix(o, p)
  <2>1. Agree(applied'[G], applied[F], Len(applied[F]))
    <3>1. /\ Agree(applied'[G], applied'[F], Len(applied'[F]))
          /\ Agree(applied'[F], applied[F], Len(applied[F]))
      BY <1>1, <1>7
    <3>2. Len(applied[F]) \in Nat /\ Len(applied'[F]) \in Nat /\ Len(applied'[G]) \in Nat
      BY <1>2
    <3> QED
      BY <3>1, <3>2 DEF Agree
  <2> QED
    BY <1>2, <1>9, <2>1, CmdsPrefix
<1>11. Log!IsInjective(p) /\ Log!Range(p) \subseteq submitted
  BY <1>8, LeadsNext DEF Leads, Log!IsInjective, Log!Range
<1>12. Log!IsPrefix(Cmds(applied[r]), Cmds(applied'[r]))
  BY <1>1, <1>2, CmdsPrefix
<1>13. Log!IsPrefix(Cmds(applied'[r]), p)
  BY <1>2, <1>7, <1>9, CmdsPrefix
<1>14. \A q \in Server \ {r} : applied'[q] = applied[q]
  BY DEF Goes
<1> QED
  BY <1>8, <1>10, <1>11, <1>12, <1>13, <1>14 DEF Log!Execute, Log!Extended, Cmds

(* The initial states are the abstract ones.                                *)
LEMMA LogInit == Init => Log!Init
<1> SUFFICES ASSUME Init PROVE Log!Init
  OBVIOUS
<1>1. applied = [r \in Server |-> << >>] /\ submitted = {} /\ led = {}
  BY DEF Init
<1>2. PICK E : E = << >>
  OBVIOUS
<1>3. Cmds(E) = << >>
  <2>1. E \in Seq(Entry) /\ Len(E) = 0
    BY <1>2
  <2>2. Cmds(E) \in Seq(Cmd) /\ Len(Cmds(E)) = 0
    BY <2>1, CmdsFacts
  <2> QED
    BY <2>2
<1>4. \A r \in Server : applied[r] = E
  BY <1>1, <1>2
<1>5. Furthest \in Server
  BY <1>4, SomeServer DEF Furthest
<1>6. Cmds(applied[Furthest]) = << >> /\ \A r \in Server : Cmds(applied[r]) = << >>
  BY <1>3, <1>4, <1>5
<1>7. LeadersElected = TRUE
  BY <1>1 DEF LeadersElected
<1> QED
  BY <1>1, <1>6, <1>7 DEF Log!Init

(* Every step is a step of the abstract specification or none.              *)
LEMMA LogStep ==
  ASSUME IInv, TInv, SafetyInv, LeadersElected => Distinct, [Next]_vars
  PROVE  [Log!Next]_(Log!vars)
<1>1. CASE ~LeadersElected'
  BY <1>1 DEF Log!Next
<1>2. CASE LeadersElected'
  <2>1. LeadersElected
    BY <1>2, LedGrows DEF LeadersElected
  <2>2. Sound /\ Distinct
    BY <2>1 DEF Sound, SafetyInv
  <2>3. Sound'
    BY <1>2, <2>2, IInvStep, TInvStep, SoundStep DEF Sound
  <2>4. Distinct'
    BY <2>2, DistinctStep
  <2>5. LeadersElected' = LeadersElected
    BY <1>2, <2>1 DEF LeadersElected
  <2>6. CASE UNCHANGED <<applied, submitted>>
    BY <2>5, <2>6 DEF Log!vars, Furthest, Cmds
  <2>7. ASSUME NEW c \in Cmd, applied' = applied, submitted' = submitted \cup {c}
        PROVE  Log!Next
    BY <1>2, <2>1, <2>7 DEF Log!Next, Log!Submit, Furthest, Cmds
  <2>8. ASSUME NEW r \in Server, submitted' = submitted, Goes(r) PROVE Log!Next
    <3>1. Log!Execute(r)
      BY <2>2, <2>3, <2>4, <2>8, GoesExecutes
    <3> QED
      BY <1>2, <2>1, <3>1 DEF Log!Next
  <2> QED
    BY <1>2, <2>2, <2>6, <2>7, <2>8, AppliedStep
<1> QED
  BY <1>1, <1>2

(* Commands are submitted once in every behaviour, as long as leaders were  *)
(* elected.                                                                 *)
LEMMA AlwaysDistinct == Spec => [](LeadersElected => Distinct)
<1>1. Init => Distinct
  BY DEF Init, Distinct, Once, Term
<1>2. IInv /\ TInv /\ SafetyInv /\ (LeadersElected => Distinct) /\ [Next]_vars
        => (LeadersElected => Distinct)'
  <2> SUFFICES ASSUME IInv, TInv, SafetyInv, LeadersElected => Distinct, [Next]_vars,
                      LeadersElected'
               PROVE  Distinct'
    OBVIOUS
  <2>1. LeadersElected
    BY LedGrows DEF LeadersElected
  <2>2. Sound /\ Distinct
    BY <2>1 DEF Sound, SafetyInv
  <2> QED
    BY <2>2, DistinctStep
<1> QED
  BY <1>1, <1>2, AlwaysSafe, PTL DEF Spec

(* RaftServer implements ReplicatedLog for any number of servers, terms,    *)
(* entries and requests, as long as leaders were elected: what the servers  *)
(* apply is one growing order of the submitted commands, each executed at   *)
(* most once by each server and never taken back.                           *)
THEOREM Implements == Spec => ImplementsReplicatedLog
<1>1. IInv /\ TInv /\ SafetyInv /\ (LeadersElected => Distinct) /\ [Next]_vars
        => [Log!Next]_(Log!vars)
  BY LogStep
<1> QED
  BY <1>1, LogInit, AlwaysSafe, AlwaysDistinct, PTL
  DEF Spec, ImplementsReplicatedLog, Log!Spec
================================================================================
