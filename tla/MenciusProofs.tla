----------------------------- MODULE MenciusProofs -----------------------------
(***************************************************************************)
(* Servers agree on what a Mencius slot holds, for any number of servers,  *)
(* commands and slots.  No ballot protects a slot in this code: agreement  *)
(* rests on slot numbers, which no two coordinators may share.  And each   *)
(* server executes each decision once, in the handler that is told of it.  *)
(***************************************************************************)
EXTENDS Mencius, LeastNumber, FiniteSetTheorems, TLAPS

Message == [type: {"Suggest", "Decide"}, slot: Slot, cmd: Cmd]

Types ==
  /\ slot_hint \in [Server -> Nat]
  /\ proposed \in [Slot -> SUBSET [by: Server, cmd: Cmd]]
  /\ acked \in [Slot -> SUBSET Server]
  /\ cmd_ \in [Server -> [Slot -> SUBSET Cmd]]
  /\ committed \in [Server -> [Slot -> SUBSET Cmd]]
  /\ chan \in [Server -> [Server -> Seq(Message)]]

(* A frame numbers the slots of its server in steps of N from 1, so a       *)
(* server's proposals are below its next slot and of its own residue.       *)
Hint(h) == \E k \in Nat : h = 1 + N * k

OwnSlots ==
  /\ \A r \in Server : Hint(slot_hint[r])
  /\ \A s \in Slot : \A p \in proposed[s] :
       Hint(s - p.by) /\ s < slot_hint[p.by] + p.by

OneProposal == \A s \in Slot : \A p, q \in proposed[s] : p = q

CmdsOf(s) == {p.cmd : p \in proposed[s]}

Majority(s) == Cardinality(acked[s]) >= Quorum

(* What is under way: a suggestion carries its slot's proposal, a decision  *)
(* also has a majority behind it.                                           *)
Sound(m) == m.cmd \in CmdsOf(m.slot) /\ (m.type = "Decide" => Majority(m.slot))

MessagesSound ==
  \A r, q \in Server : \A i \in 1 .. Len(chan[r][q]) : Sound(chan[r][q][i])

(* Whoever acknowledged a slot holds its proposal, and a server was told a  *)
(* decision only with a majority behind it.                                 *)
HoldersSound ==
  \A s \in Slot :
    /\ \A q \in acked[s] : \E c \in CmdsOf(s) : cmd_[q][s] = {c}
    /\ \A r \in Server : /\ committed[r][s] \subseteq CmdsOf(s)
                         /\ committed[r][s] # {} => Majority(s)

IInv == Types /\ OwnSlots /\ OneProposal /\ MessagesSound /\ HoldersSound

--------------------------------------------------------------------------------
(* Slot numbers of different servers never meet.                            *)
LEMMA SlotsApart ==
  ASSUME NEW j \in Nat, NEW k \in Nat, NEW r \in Server, NEW q \in Server,
         N * j + r = N * k + q
  PROVE  r = q
<1> USE MenciusAssumption DEF Server
<1>1. ASSUME NEW a \in Nat, NEW b \in Nat, NEW x \in Server, NEW y \in Server,
             N * a + x = N * b + y, a > b
      PROVE  FALSE
  <2>1. PICK d \in Nat : a = b + 1 + d
    <3>1. a - b - 1 \in Nat /\ a = b + 1 + (a - b - 1)
      BY <1>1
    <3> QED
      BY <3>1
  <2>2. N * a = N * b + N + N * d
    BY <2>1
  <2>3. N * d \in Nat /\ N * b \in Nat
    OBVIOUS
  <2> QED
    BY <1>1, <2>2, <2>3
<1>2. j = k
  BY <1>1
<1> QED
  BY <1>2

(* The slot of a new coordinator has no proposal yet.                       *)
LEMMA NextSlotFree ==
  ASSUME IInv, NEW r \in Server, SlotId(r) \in Slot
  PROVE  proposed[SlotId(r)] = {}
<1> USE MenciusAssumption
<1> DEFINE s == SlotId(r)
<1> SUFFICES ASSUME NEW p \in proposed[s] PROVE FALSE
  OBVIOUS
<1>1. p.by \in Server /\ s = slot_hint[r] + r /\ s \in Nat /\ slot_hint[r] \in Nat
  BY DEF IInv, Types, SlotId, Slot
<1>2. PICK j \in Nat : slot_hint[r] = 1 + N * j
  BY DEF IInv, OwnSlots, Hint
<1>3. PICK k \in Nat : s - p.by = 1 + N * k
  BY DEF IInv, OwnSlots, Hint
<1>4. N * j \in Nat /\ N * k \in Nat /\ r \in Nat /\ p.by \in Nat
  BY <1>1 DEF Server
<1>5. N * j + r = N * k + p.by
  <2>1. ASSUME NEW a \in Nat, NEW b \in Nat, NEW h \in Nat, NEW t \in Nat,
               NEW x \in Nat, NEW y \in Nat, h = 1 + a, t = h + x, t - y = 1 + b
        PROVE  a + x = b + y
    BY <2>1
  <2> HIDE DEF s
  <2> QED
    BY <1>1, <1>2, <1>3, <1>4, <2>1
<1>6. r = p.by
  BY <1>1, <1>5, SlotsApart
<1>7. s < slot_hint[p.by] + p.by
  BY DEF IInv, OwnSlots
<1> QED
  BY <1>1, <1>6, <1>7, <1>4

(* Nothing is acknowledged or told of a slot without a proposal.            *)
LEMMA FreeSlotUnknown ==
  ASSUME IInv, NEW s \in Slot, proposed[s] = {}
  PROVE  acked[s] = {} /\ \A r \in Server : committed[r][s] = {}
BY DEF IInv, HoldersSound, CmdsOf

(* There are N servers.                                                     *)
LEMMA ServersFinite == IsFiniteSet(Server) /\ Cardinality(Server) = N
<1>1. 0 \in Int /\ N - 1 \in Int /\ N \in Nat
  BY MenciusAssumption
<1> QED
  BY <1>1, FS_Interval, MenciusAssumption DEF Server

(* A majority stays one when more servers acknowledge.                      *)
LEMMA MajorityGrows ==
  ASSUME NEW S \in SUBSET Server, NEW T \in SUBSET Server, S \subseteq T,
         Cardinality(S) >= Quorum
  PROVE  Cardinality(T) >= Quorum
<1>1. IsFiniteSet(T)
  BY ServersFinite, FS_Subset
<1>2. IsFiniteSet(S) /\ Cardinality(S) \in Nat /\ Cardinality(T) \in Nat
      /\ Cardinality(S) <= Cardinality(T)
  BY <1>1, FS_Subset, FS_CardinalityType
<1>3. Quorum \in Int
  BY MenciusAssumption DEF Quorum
<1> QED
  BY <1>2, <1>3

(* What was sound stays so while proposals and acknowledgements only grow.  *)
LEMMA SoundGrows ==
  ASSUME Types, Types',
         \A s \in Slot : proposed[s] \subseteq proposed'[s] /\ acked[s] \subseteq acked'[s]
  PROVE  /\ \A s \in Slot : CmdsOf(s) \subseteq CmdsOf(s)'
         /\ \A s \in Slot : Majority(s) => Majority(s)'
         /\ \A m \in Message : Sound(m) => Sound(m)'
<1>1. \A s \in Slot : CmdsOf(s) \subseteq CmdsOf(s)'
  BY DEF CmdsOf
<1>2. ASSUME NEW s \in Slot, Majority(s) PROVE Majority(s)'
  <2>1. acked[s] \in SUBSET Server /\ acked'[s] \in SUBSET Server
        /\ acked[s] \subseteq acked'[s] /\ Cardinality(acked[s]) >= Quorum
    BY <1>2 DEF Types, Majority
  <2>2. Cardinality(acked'[s]) >= Quorum
    BY <2>1, MajorityGrows
  <2> QED
    BY <2>2 DEF Majority, Quorum
<1>3. ASSUME NEW m \in Message, Sound(m) PROVE Sound(m)'
  <2>1. m.slot \in Slot
    BY DEF Message
  <2> QED
    BY <1>1, <1>2, <1>3, <2>1 DEF Sound
<1> QED
  BY <1>1, <1>2, <1>3

--------------------------------------------------------------------------------
(* Nothing is proposed, acknowledged or sent at the start.                  *)
LEMMA IInvInit == Init => IInv
<1> SUFFICES ASSUME Init PROVE IInv
  OBVIOUS
<1> USE MenciusAssumption
<1>1. Types
  BY DEF Init, Types
<1>2. OwnSlots
  <2>1. 1 = 1 + N * 0
    OBVIOUS
  <2> QED
    BY <2>1 DEF Init, OwnSlots, Hint
<1>3. OneProposal
  BY DEF Init, OneProposal
<1>4. MessagesSound
  BY DEF Init, MessagesSound
<1>5. HoldersSound
  BY DEF Init, HoldersSound
<1> QED
  BY <1>1, <1>2, <1>3, <1>4, <1>5 DEF IInv

(* A queue whose requests are sound stays so when a sound one is appended,  *)
(* or when its head is delivered.                                           *)
LEMMA QueueKept ==
  ASSUME Types, Types', NEW c \in Seq(Message), NEW m \in Message,
         \A n \in Message : Sound(n) => Sound(n)',
         \A i \in 1 .. Len(c) : Sound(c[i])
  PROVE  /\ \A i \in 1 .. Len(c) : Sound(c[i])'
         /\ Sound(m)' => \A i \in 1 .. Len(Append(c, m)) : Sound(Append(c, m)[i])'
         /\ c # << >> => \A i \in 1 .. Len(Tail(c)) : Sound(Tail(c)[i])'
<1>1. \A i \in 1 .. Len(c) : c[i] \in Message /\ Sound(c[i])'
  OBVIOUS
<1>2. ASSUME Sound(m)', NEW i \in 1 .. Len(Append(c, m))
      PROVE  Sound(Append(c, m)[i])'
  <2>1. Len(Append(c, m)) = Len(c) + 1 /\ Len(c) \in Nat
    OBVIOUS
  <2>2. CASE i = Len(c) + 1
    BY <1>2, <2>2
  <2>3. CASE i # Len(c) + 1
    BY <1>1, <2>1, <2>3
  <2> QED
    BY <2>2, <2>3
<1>3. ASSUME c # << >>, NEW i \in 1 .. Len(Tail(c)) PROVE Sound(Tail(c)[i])'
  <2>1. Tail(c)[i] = c[i + 1] /\ i + 1 \in 1 .. Len(c)
    BY <1>3
  <2> QED
    BY <1>1, <2>1
<1> QED
  BY <1>1, <1>2, <1>3

(* Submit: the proposal enters a slot nobody had proposed in.               *)
LEMMA SubmitKeeps ==
  ASSUME IInv, NEW r \in Server, NEW c \in Cmd, Submit(r, c)
  PROVE  IInv'
<1> USE MenciusAssumption
<1>s. PICK s \in Slot : s = SlotId(r)
  BY DEF Submit
<1>p. PICK p \in [by: Server, cmd: Cmd] : p = [by |-> r, cmd |-> c]
  OBVIOUS
<1>m. PICK m \in Message : m = [type |-> "Suggest", slot |-> s, cmd |-> c]
  BY DEF Message
<1>f. proposed[s] = {} /\ acked[s] = {} /\ \A q \in Server : committed[q][s] = {}
  BY <1>s, NextSlotFree, FreeSlotUnknown
<1>0. /\ slot_hint' = [slot_hint EXCEPT ![r] = @ + N]
      /\ proposed' = [proposed EXCEPT ![s] = {p}]
      /\ acked' = [acked EXCEPT ![s] = {r}]
      /\ cmd_' = [cmd_ EXCEPT ![r][s] = {c}]
      /\ chan' = [chan EXCEPT ![r] = [q \in Server |->
                     IF q = r THEN chan[r][q] ELSE Append(chan[r][q], m)]]
      /\ committed' = committed
  <2>1. Types
    BY DEF IInv
  <2>2. proposed[s] \cup {p} = {p} /\ acked[s] \cup {r} = {r}
    BY <1>f
  <2> QED
    BY <1>s, <1>p, <1>m, <2>1, <2>2 DEF Submit, BroadcastSuggest, Suggested, replicaVars, Types
<1>t. Types /\ OwnSlots /\ OneProposal /\ MessagesSound /\ HoldersSound
  BY DEF IInv
<1>h. PICK j \in Nat : slot_hint[r] = 1 + N * j /\ s = slot_hint[r] + r
  BY <1>s, <1>t DEF OwnSlots, Hint, SlotId
<1>1. Types'
  <2>1. slot_hint' \in [Server -> Nat]
    <3>1. slot_hint \in [Server -> Nat] /\ N \in Nat
      BY <1>t DEF Types
    <3>2. slot_hint[r] \in Nat
      BY <3>1
    <3>3. slot_hint[r] + N \in Nat
      BY <3>1, <3>2
    <3> QED
      BY <1>0, <3>1, <3>3
  <2>2. proposed' \in [Slot -> SUBSET [by: Server, cmd: Cmd]]
        /\ acked' \in [Slot -> SUBSET Server]
    BY <1>0, <1>t DEF Types
  <2>3. cmd_' \in [Server -> [Slot -> SUBSET Cmd]]
        /\ committed' \in [Server -> [Slot -> SUBSET Cmd]]
    BY <1>0, <1>t DEF Types
  <2>4. chan' \in [Server -> [Server -> Seq(Message)]]
    <3>1. chan \in [Server -> [Server -> Seq(Message)]]
      BY <1>t DEF Types
    <3>2. \A q \in Server : chan[r][q] \in Seq(Message)
                             /\ Append(chan[r][q], m) \in Seq(Message)
      BY <3>1
    <3>3. [q \in Server |-> IF q = r THEN chan[r][q] ELSE Append(chan[r][q], m)]
            \in [Server -> Seq(Message)]
      BY <3>2
    <3> QED
      BY <1>0, <3>1, <3>3
  <2> QED
    BY <2>1, <2>2, <2>3, <2>4 DEF Types
<1>g. /\ \A t \in Slot : CmdsOf(t) \subseteq CmdsOf(t)'
      /\ \A t \in Slot : Majority(t) => Majority(t)'
      /\ \A n \in Message : Sound(n) => Sound(n)'
  <2>1. \A t \in Slot : proposed[t] \subseteq proposed'[t] /\ acked[t] \subseteq acked'[t]
    BY <1>0, <1>f, <1>t DEF Types
  <2> QED
    BY <2>1, <1>1, <1>t, SoundGrows
<1>2. OwnSlots'
  <2>1. \A q \in Server : Hint(slot_hint'[q])
    <3>1. slot_hint[r] + N = 1 + N * (j + 1) /\ j + 1 \in Nat
      BY <1>h
    <3>2. slot_hint'[r] = slot_hint[r] + N /\ \A q \in Server \ {r} : slot_hint'[q] = slot_hint[q]
      BY <1>0, <1>t DEF Types
    <3> QED
      BY <3>1, <3>2, <1>t DEF OwnSlots, Hint
  <2>2. ASSUME NEW t \in Slot, NEW q \in proposed'[t]
        PROVE  Hint(t - q.by) /\ t < slot_hint'[q.by] + q.by
    <3>1. CASE t = s
      <4>1. q = p /\ q.by = r
        BY <3>1, <1>0, <1>p, <1>t DEF Types
      <4>2. s - r = slot_hint[r]
        BY <1>h, <1>t DEF Types, Server
      <4>3. slot_hint'[r] = slot_hint[r] + N
        BY <1>0, <1>t DEF Types
      <4>4. s < slot_hint[r] + N + r
        BY <1>h, <1>t DEF Types, Server
      <4> QED
        BY <3>1, <4>1, <4>2, <4>3, <4>4, <1>t DEF OwnSlots
    <3>2. CASE t # s
      <4>1. q \in proposed[t]
        BY <3>2, <1>0, <1>t DEF Types
      <4>2. q.by \in Server
        BY <4>1, <1>t DEF Types
      <4>3. /\ slot_hint'[q.by] >= slot_hint[q.by]
            /\ slot_hint'[q.by] \in Nat /\ slot_hint[q.by] \in Nat
        <5>1. slot_hint \in [Server -> Nat]
          BY <1>t DEF Types
        <5>2. CASE q.by = r
          BY <1>0, <5>1, <5>2
        <5>3. CASE q.by # r
          BY <1>0, <4>2, <5>1, <5>3
        <5> QED
          BY <5>2, <5>3
      <4>4. Hint(t - q.by) /\ t < slot_hint[q.by] + q.by
        BY <4>1, <1>t DEF OwnSlots
      <4> QED
        BY <4>2, <4>3, <4>4 DEF Server, Slot
    <3> QED
      BY <3>1, <3>2
  <2> QED
    BY <2>1, <2>2 DEF OwnSlots, Hint
<1>3. OneProposal'
  BY <1>0, <1>t DEF OneProposal, Types
<1>4. MessagesSound'
  <2>1. Sound(m)'
    <3>1. p \in proposed'[s] /\ p.cmd = c
      BY <1>0, <1>p, <1>t DEF Types
    <3>2. m.slot = s /\ m.cmd = c /\ m.type = "Suggest"
      BY <1>m
    <3> QED
      BY <3>1, <3>2 DEF Sound, CmdsOf
  <2>2. ASSUME NEW a \in Server, NEW b \in Server
        PROVE  \A i \in 1 .. Len(chan'[a][b]) : Sound(chan[a][b][i])'
    <3>0. chan[a][b] \in Seq(Message)
      BY <1>t DEF Types
    <3>1. PICK q \in Seq(Message) : q = chan[a][b]
      BY <3>0
    <3>2. chan'[a][b] = q \/ chan'[a][b] = Append(q, m)
      <4>1. chan \in [Server -> [Server -> Seq(Message)]]
        BY <1>t DEF Types
      <4>2. CASE a = r
        BY <1>0, <3>1, <4>1, <4>2
      <4>3. CASE a # r
        BY <1>0, <3>1, <4>1, <4>3
      <4> QED
        BY <4>2, <4>3
    <3>3. \A i \in 1 .. Len(q) : Sound(q[i])
      BY <1>t, <3>1 DEF MessagesSound
    <3>4. /\ \A i \in 1 .. Len(q) : Sound(q[i])'
          /\ \A i \in 1 .. Len(Append(q, m)) : Sound(Append(q, m)[i])'
      BY <3>3, <2>1, <1>g, <1>1, <1>t, QueueKept
    <3> QED
      BY <3>2, <3>4 DEF Sound
  <2> QED
    BY <2>2 DEF MessagesSound
<1>5. HoldersSound'
  <2>1. ASSUME NEW t \in Slot, NEW q \in acked'[t]
        PROVE  \E d \in CmdsOf(t)' : cmd_'[q][t] = {d}
    <3>1. CASE t = s
      <4>1. q = r /\ cmd_'[r][s] = {c} /\ c \in CmdsOf(s)'
        BY <3>1, <1>0, <1>p, <1>t DEF Types, CmdsOf
      <4> QED
        BY <3>1, <4>1
    <3>2. CASE t # s
      <4>1. q \in acked[t] /\ q \in Server /\ cmd_'[q][t] = cmd_[q][t]
        BY <3>2, <1>0, <1>t DEF Types
      <4> QED
        BY <4>1, <1>g, <1>t DEF HoldersSound
    <3> QED
      BY <3>1, <3>2
  <2>2. ASSUME NEW t \in Slot, NEW q \in Server
        PROVE  committed'[q][t] \subseteq CmdsOf(t)' /\ (committed'[q][t] # {} => Majority(t)')
    BY <1>0, <1>g, <1>t DEF HoldersSound
  <2> QED
    BY <2>1, <2>2 DEF HoldersSound
<1> QED
  BY <1>1, <1>2, <1>3, <1>4, <1>5 DEF IInv

(* Commit: the decision carries the proposal of a slot with a majority.     *)
LEMMA CommitKeeps ==
  ASSUME IInv, NEW s \in Slot, Commit(s)
  PROVE  IInv'
<1>t. Types /\ OwnSlots /\ OneProposal /\ MessagesSound /\ HoldersSound
  BY DEF IInv
<1>p. PICK p \in proposed[s] :
        chan' = [chan EXCEPT ![p.by] = [q \in Server |->
                  Append(@[q], [type |-> "Decide", slot |-> s, cmd |-> p.cmd])]]
  BY DEF Commit, BroadcastDecide
<1>b. p \in [by: Server, cmd: Cmd]
  BY <1>t DEF Types
<1>m. PICK m \in Message : m = [type |-> "Decide", slot |-> s, cmd |-> p.cmd]
  BY <1>b DEF Message
<1>0. chan' = [chan EXCEPT ![p.by] = [q \in Server |-> Append(chan[p.by][q], m)]]
  BY <1>p, <1>m, <1>b, <1>t DEF Types
<1>u. UNCHANGED <<slot_hint, proposed, acked, cmd_, committed>>
  BY DEF Commit, replicaVars
<1>1. Types'
  <2>1. chan \in [Server -> [Server -> Seq(Message)]]
    BY <1>t DEF Types
  <2>2. [q \in Server |-> Append(chan[p.by][q], m)] \in [Server -> Seq(Message)]
    BY <2>1, <1>b
  <2>3. chan' \in [Server -> [Server -> Seq(Message)]]
    BY <1>0, <2>1, <2>2
  <2> QED
    BY <2>3, <1>u, <1>t DEF Types
<1>2. \A n \in Message : Sound(n) => Sound(n)'
  BY <1>u DEF Sound, CmdsOf, Majority
<1>3. Sound(m)'
  <2>1. m.slot = s /\ m.cmd = p.cmd
    BY <1>m
  <2>2. Majority(s)
    BY DEF Commit, Majority
  <2> QED
    BY <2>1, <2>2, <1>p, <1>u DEF Sound, CmdsOf, Majority
<1>4. MessagesSound'
  <2>1. ASSUME NEW a \in Server, NEW b \in Server
        PROVE  \A i \in 1 .. Len(chan'[a][b]) : Sound(chan[a][b][i])'
    <3>1. chan[a][b] \in Seq(Message)
      BY <1>t DEF Types
    <3>2. PICK q \in Seq(Message) : q = chan[a][b]
      BY <3>1
    <3>3. chan'[a][b] = q \/ chan'[a][b] = Append(q, m)
      <4>1. chan \in [Server -> [Server -> Seq(Message)]]
        BY <1>t DEF Types
      <4>2. CASE a = p.by
        BY <1>0, <1>b, <3>2, <4>1, <4>2
      <4>3. CASE a # p.by
        BY <1>0, <3>2, <4>1, <4>3
      <4> QED
        BY <4>2, <4>3
    <3>4. \A i \in 1 .. Len(q) : Sound(q[i])
      BY <1>t, <3>2 DEF MessagesSound
    <3>5. /\ \A i \in 1 .. Len(q) : Sound(q[i])'
          /\ \A i \in 1 .. Len(Append(q, m)) : Sound(Append(q, m)[i])'
      BY <3>4, <1>2, <1>3, <1>1, <1>t, QueueKept
    <3> QED
      BY <3>3, <3>5 DEF Sound
  <2> QED
    BY <2>1 DEF MessagesSound
<1>5. OwnSlots' /\ OneProposal' /\ HoldersSound'
  <2>1. OwnSlots'
    BY <1>u, <1>t DEF OwnSlots, Hint
  <2>2. OneProposal'
    BY <1>u, <1>t DEF OneProposal
  <2>3. HoldersSound'
    BY <1>u, <1>t DEF HoldersSound, CmdsOf, Majority
  <2> QED
    BY <2>1, <2>2, <2>3
<1> QED
  BY <1>1, <1>4, <1>5 DEF IInv

(* Deliver: the receiver records what the request carries, which is sound.  *)
LEMMA DeliverKeeps ==
  ASSUME IInv, NEW r \in Server, NEW q \in Server, Deliver(r, q)
  PROVE  IInv'
<1>t. Types /\ OwnSlots /\ OneProposal /\ MessagesSound /\ HoldersSound
  BY DEF IInv
<1>c. chan[r][q] \in Seq(Message) /\ chan[r][q] # << >>
  BY <1>t DEF Types, Deliver
<1>m. PICK m \in Message : m = Head(chan[r][q]) /\ m = chan[r][q][1]
  BY <1>c
<1>k. m.slot \in Slot /\ m.cmd \in Cmd /\ Sound(m)
  <2>1. 1 \in 1 .. Len(chan[r][q])
    BY <1>c
  <2> QED
    BY <2>1, <1>m, <1>t DEF Message, MessagesSound
<1>u. /\ UNCHANGED <<slot_hint, proposed>>
      /\ chan' = [chan EXCEPT ![r][q] = Tail(@)]
  BY DEF Deliver
<1>s. \/ /\ m.type = "Suggest"
         /\ cmd_' = [cmd_ EXCEPT ![q][m.slot] = {m.cmd}]
         /\ acked' = [acked EXCEPT ![m.slot] = @ \cup {q}]
         /\ committed' = committed
      \/ /\ m.type = "Decide"
         /\ committed' = [committed EXCEPT ![q] = [committed[q] EXCEPT ![m.slot] = {m.cmd}]]
         /\ cmd_' = cmd_ /\ acked' = acked
  BY <1>m DEF Deliver, OnSuggest, OnCommit, Suggested, replicaVars
<1>1. Types'
  <2>1. chan' \in [Server -> [Server -> Seq(Message)]]
    <3>1. chan \in [Server -> [Server -> Seq(Message)]] /\ Tail(chan[r][q]) \in Seq(Message)
      BY <1>t, <1>c DEF Types
    <3> QED
      BY <1>u, <3>1
  <2>0. PICK k \in Slot, c \in Cmd : k = m.slot /\ c = m.cmd
    BY <1>k
  <2>2. cmd_' \in [Server -> [Slot -> SUBSET Cmd]]
    <3>1. cmd_ \in [Server -> [Slot -> SUBSET Cmd]]
      BY <1>t DEF Types
    <3>2. cmd_' = cmd_ \/ cmd_' = [cmd_ EXCEPT ![q][k] = {c}]
      BY <1>s, <2>0
    <3> QED
      BY <3>1, <3>2
  <2>3. committed' \in [Server -> [Slot -> SUBSET Cmd]]
    <3>1. committed \in [Server -> [Slot -> SUBSET Cmd]]
      BY <1>t DEF Types
    <3>2. \/ committed' = committed
          \/ committed' = [committed EXCEPT ![q] = [committed[q] EXCEPT ![k] = {c}]]
      BY <1>s, <2>0
    <3> QED
      BY <3>1, <3>2
  <2>4. acked' \in [Slot -> SUBSET Server]
    <3>1. acked \in [Slot -> SUBSET Server]
      BY <1>t DEF Types
    <3>2. acked' = acked \/ acked' = [acked EXCEPT ![k] = @ \cup {q}]
      BY <1>s, <2>0
    <3> QED
      BY <3>1, <3>2
  <2> QED
    BY <2>1, <2>2, <2>3, <2>4, <1>u, <1>t DEF Types
<1>g. /\ \A t \in Slot : CmdsOf(t)' = CmdsOf(t)
      /\ \A t \in Slot : Majority(t) => Majority(t)'
      /\ \A n \in Message : Sound(n) => Sound(n)'
  <2>1. \A t \in Slot : proposed[t] \subseteq proposed'[t] /\ acked[t] \subseteq acked'[t]
    <3>1. acked \in [Slot -> SUBSET Server]
      BY <1>t DEF Types
    <3>2. acked' = acked \/ acked' = [acked EXCEPT ![m.slot] = @ \cup {q}]
      BY <1>s
    <3>3. \A t \in Slot : acked[t] \subseteq acked'[t]
      BY <1>k, <3>1, <3>2
    <3> QED
      BY <1>u, <3>3
  <2>2. \A t \in Slot : CmdsOf(t)' = CmdsOf(t)
    BY <1>u DEF CmdsOf
  <2> QED
    BY <2>1, <2>2, <1>1, <1>t, SoundGrows
<1>2. OwnSlots' /\ OneProposal'
  BY <1>u, <1>t DEF OwnSlots, Hint, OneProposal
<1>3. MessagesSound'
  <2>1. ASSUME NEW a \in Server, NEW b \in Server
        PROVE  \A i \in 1 .. Len(chan'[a][b]) : Sound(chan[a][b][i])'
    <3>1. chan[a][b] \in Seq(Message)
      BY <1>t DEF Types
    <3>2. PICK d \in Seq(Message) : d = chan[a][b]
      BY <3>1
    <3>3. chan'[a][b] = d \/ (d # << >> /\ chan'[a][b] = Tail(d))
      <4>1. chan \in [Server -> [Server -> Seq(Message)]]
        BY <1>t DEF Types
      <4>2. CASE a = r /\ b = q
        BY <1>u, <1>c, <3>2, <4>1, <4>2
      <4>3. CASE ~(a = r /\ b = q)
        BY <1>u, <3>2, <4>1, <4>3
      <4> QED
        BY <4>2, <4>3
    <3>4. \A i \in 1 .. Len(d) : Sound(d[i])
      BY <1>t, <3>2 DEF MessagesSound
    <3>5. /\ \A i \in 1 .. Len(d) : Sound(d[i])'
          /\ d # << >> => \A i \in 1 .. Len(Tail(d)) : Sound(Tail(d)[i])'
      BY <3>4, <1>g, <1>1, <1>t, QueueKept
    <3> QED
      BY <3>3, <3>5 DEF Sound
  <2> QED
    BY <2>1 DEF MessagesSound
<1>4. HoldersSound'
  <2>1. ASSUME NEW t \in Slot, NEW w \in acked'[t]
        PROVE  \E d \in CmdsOf(t)' : cmd_'[w][t] = {d}
    <3>1. w \in Server
      BY <1>1 DEF Types
    <3>2. CASE m.type = "Suggest" /\ t = m.slot /\ w = q
      <4>1. cmd_'[w][t] = {m.cmd}
        BY <3>2, <1>s, <1>k, <1>t DEF Types
      <4> QED
        BY <3>2, <4>1, <1>k, <1>g DEF Sound
    <3>3. CASE ~(m.type = "Suggest" /\ t = m.slot /\ w = q)
      <4>1. w \in acked[t] /\ cmd_'[w][t] = cmd_[w][t]
        BY <3>1, <3>3, <1>s, <1>k, <1>t DEF Types
      <4> QED
        BY <4>1, <1>g, <1>t DEF HoldersSound
    <3> QED
      BY <3>2, <3>3
  <2>2. ASSUME NEW t \in Slot, NEW w \in Server
        PROVE  committed'[w][t] \subseteq CmdsOf(t)' /\ (committed'[w][t] # {} => Majority(t)')
    <3>1. CASE m.type = "Decide" /\ t = m.slot /\ w = q
      <4>1. committed'[w][t] = {m.cmd}
        BY <3>1, <1>s, <1>k, <1>t DEF Types
      <4> QED
        BY <3>1, <4>1, <1>k, <1>g DEF Sound
    <3>2. CASE ~(m.type = "Decide" /\ t = m.slot /\ w = q)
      <4>1. committed'[w][t] = committed[w][t]
        BY <3>2, <1>s, <1>k, <1>t DEF Types
      <4> QED
        BY <4>1, <1>g, <1>t DEF HoldersSound
    <3> QED
      BY <3>1, <3>2
  <2> QED
    BY <2>1, <2>2 DEF HoldersSound
<1> QED
  BY <1>1, <1>2, <1>3, <1>4 DEF IInv

(* Every step keeps the invariant.                                          *)
LEMMA IInvStep == IInv /\ [Next]_vars => IInv'
<1> SUFFICES ASSUME IInv, [Next]_vars PROVE IInv'
  OBVIOUS
<1>1. ASSUME NEW r \in Server, NEW c \in Cmd, Submit(r, c) PROVE IInv'
  BY <1>1, SubmitKeeps
<1>2. ASSUME NEW s \in Slot, Commit(s) PROVE IInv'
  BY <1>2, CommitKeeps
<1>3. ASSUME NEW r \in Server, NEW q \in Server, Deliver(r, q) PROVE IInv'
  BY <1>3, DeliverKeeps
<1>4. CASE UNCHANGED vars
  <2> USE <1>4 DEF IInv, vars
  <2>1. Types'
    BY DEF Types
  <2>2. OwnSlots'
    BY DEF OwnSlots, Hint
  <2>3. OneProposal'
    BY DEF OneProposal
  <2>4. MessagesSound'
    BY DEF MessagesSound, Sound, CmdsOf, Majority
  <2>5. HoldersSound'
    BY DEF HoldersSound, CmdsOf, Majority
  <2> QED
    BY <2>1, <2>2, <2>3, <2>4, <2>5
<1> QED
  BY <1>1, <1>2, <1>3, <1>4 DEF Next

(* The invariant makes servers agree on a slot.                             *)
LEMMA IInvAgreement == IInv => SlotAgreement
<1> SUFFICES ASSUME IInv, NEW r \in Server, NEW s \in Slot, NEW c \in committed[r][s]
             PROVE  /\ \A q \in Server : committed[q][s] \subseteq {c}
                    /\ Cardinality({q \in Server : c \in cmd_[q][s]}) > N \div 2
  BY DEF SlotAgreement
<1> DEFINE H == {q \in Server : c \in cmd_[q][s]}
<1>1. c \in CmdsOf(s) /\ \A d \in CmdsOf(s) : d = c
  BY DEF IInv, HoldersSound, OneProposal, CmdsOf
<1>2. \A q \in Server : committed[q][s] \subseteq {c}
  BY <1>1 DEF IInv, HoldersSound
<1>3. acked[s] \in SUBSET Server /\ H \in SUBSET Server
  BY DEF IInv, Types
<1>4. acked[s] \subseteq H
  <2>1. ASSUME NEW q \in acked[s] PROVE q \in Server /\ c \in cmd_[q][s]
    <3>1. PICK d \in CmdsOf(s) : cmd_[q][s] = {d}
      BY DEF IInv, HoldersSound
    <3> QED
      BY <1>1, <1>3, <3>1
  <2> QED
    BY <2>1
<1>5. Cardinality(acked[s]) >= Quorum
  BY DEF IInv, HoldersSound, Majority
<1>6. Cardinality(H) >= Quorum
  <2> HIDE DEF H
  <2> QED
    BY <1>3, <1>4, <1>5, MajorityGrows
<1>7. Cardinality(H) \in Nat
  BY <1>3, ServersFinite, FS_Subset, FS_CardinalityType
<1>8. Cardinality(H) > N \div 2
  <2> HIDE DEF H
  <2>1. N \div 2 \in Int
    BY MenciusAssumption
  <2> QED
    BY <1>6, <1>7, <2>1 DEF Quorum
<1> QED
  BY <1>2, <1>8

(* Agreement: whatever the number of servers, the commands and the order in *)
(* which suggestions and decisions arrive, OnCommit is told one command per *)
(* slot, which a majority was suggested.                                    *)
THEOREM Agreement == Spec => []SlotAgreement
<1>1. Init => IInv
  BY IInvInit
<1>2. IInv /\ [Next]_vars => IInv'
  BY IInvStep
<1>3. IInv => SlotAgreement
  BY IInvAgreement
<1> QED
  BY <1>1, <1>2, <1>3, PTL DEF Spec

--------------------------------------------------------------------------------
(* What OnCommit's two loops execute, for a slot s that was not decided     *)
(* before.                                                                  *)
Zero == [k \in Key |-> 0]

(* The command of a slot with one decision.                                 *)
LEMMA CmdAtOne ==
  ASSUME NEW com, NEW s, NEW c, com[s] = {c}
  PROVE  CmdAt(com, s) = c
BY DEF CmdAt

(* One command is counted on its key, and uncounted when it is executed.    *)
LEMMA CountOne ==
  ASSUME NEW com, NEW s, NEW c \in Cmd, com[s] = {c}
  PROVE  /\ Count(Zero, c)[KeyOf[c]] = 1
         /\ Uncount(Count(Zero, c), com, {s}) = Zero
         /\ Uncount(Count(Zero, c), com, {}) = Count(Zero, c)
         /\ Uncount(Zero, com, {}) = Zero
<1> USE MenciusAssumption
<1> DEFINE u == Count(Zero, c)
<1>1. KeyOf[c] \in Key
  OBVIOUS
<1>2. /\ u \in [Key -> Nat] /\ u[KeyOf[c]] = 1
      /\ \A k \in Key : u[k] = IF k = KeyOf[c] THEN 1 ELSE 0
  BY <1>1 DEF Count, Zero
<1> HIDE DEF u
<1>3. Cardinality({}) = 0 /\ Cardinality({s}) = 1
  BY FS_EmptySet, FS_Singleton
<1>4. CmdAt(com, s) = c
  BY CmdAtOne
<1>6. Uncount(u, com, {s}) = Zero
  <2>1. ASSUME NEW k \in Key
        PROVE  u[k] - Cardinality({x \in {s} : KeyOf[CmdAt(com, x)] = k}) = 0
    <3>1. CASE k = KeyOf[c]
      <4>1. {x \in {s} : KeyOf[CmdAt(com, x)] = k} = {s} /\ u[k] = 1
        BY <1>2, <1>4, <3>1
      <4> QED
        BY <1>3, <4>1
    <3>2. CASE k # KeyOf[c]
      <4>1. {x \in {s} : KeyOf[CmdAt(com, x)] = k} = {} /\ u[k] = 0
        BY <1>2, <1>4, <3>2
      <4> QED
        BY <1>3, <4>1
    <3> QED
      BY <3>1, <3>2
  <2> QED
    BY <2>1 DEF Uncount, Zero
<1>7. \A k \in Key : {x \in {} : KeyOf[CmdAt(com, x)] = k} = {}
  OBVIOUS
<1>8. Uncount(u, com, {}) = u
  <2>1. \A k \in Key : u[k] - Cardinality({x \in {} : KeyOf[CmdAt(com, x)] = k}) = u[k]
    BY <1>2, <1>3, <1>7
  <2> QED
    BY <1>2, <2>1 DEF Uncount
<1>9. Uncount(Zero, com, {}) = Zero
  <2>1. \A k \in Key : Zero[k] - Cardinality({x \in {} : KeyOf[CmdAt(com, x)] = k}) = 0
    BY <1>3, <1>7 DEF Zero
  <2> QED
    BY <2>1 DEF Uncount, Zero
<1> QED
  BY <1>2, <1>6, <1>8, <1>9 DEF u

(* The first slot after m that is not decided.                              *)
LEMMA FirstGap ==
  ASSUME NEW D \in SUBSET Slot, NEW m \in Nat, m <= MaxSlot
  PROVE  \E n \in m + 1 .. MaxSlot + 1 : n \notin D /\ \A t \in m + 1 .. n - 1 : t \in D
<1> USE MenciusAssumption
<1> DEFINE G == {n \in Nat : n > m /\ n \notin D}
<1>1. MaxSlot + 1 \in G
  BY DEF Slot
<1>2. PICK n \in G : \A x \in G : n <= x
  <2>1. G \in SUBSET Nat /\ G # {}
    BY <1>1
  <2> HIDE DEF G
  <2> QED
    BY <2>1, LeastNat
<1>3. n \in m + 1 .. MaxSlot + 1 /\ n \notin D
  BY <1>1, <1>2
<1>4. ASSUME NEW t \in m + 1 .. n - 1 PROVE t \in D
  <2>1. t \in Nat /\ t > m /\ t < n
    BY <1>2, <1>4
  <2> QED
    BY <1>2, <2>1
<1> QED
  BY <1>3, <1>4

(* The two loops of OnCommit, told c for slot s, execute s and nothing      *)
(* else, and the prefix grows to the first slot that is not decided.        *)
Decided(com) == {s \in Slot : com[s] # {}}

DecidedUpTo(com, m) == 1 .. m \subseteq Decided(com) /\ m + 1 \notin Decided(com)

ExecuteOne(old, s, c, m) ==
  LET com   == [old EXCEPT ![s] = {c}]
      done  == Decided(old)
      unex  == Count(Zero, c)
      pass  == InOrder(com, done, m)
      first == pass \ done
      unex1 == Uncount(unex, com, first)
      upto  == m + Cardinality(pass)
      then  == OutOfOrder(com, done \cup first, unex1, upto)
  IN  /\ (first = {s} /\ then = {}) \/ (first = {} /\ then = {s})
      /\ upto \in 0 .. MaxSlot
      /\ 1 .. upto \subseteq done \cup {s}
      /\ upto + 1 \notin done \cup {s}
      /\ Uncount(unex1, com, then) = Zero

(* The loops execute the slot of a new decision.                            *)
LEMMA LoopsExecuteOne ==
  ASSUME NEW old \in [Slot -> SUBSET Cmd], NEW s \in Slot, old[s] = {}, NEW c \in Cmd,
         NEW m \in 0 .. MaxSlot, DecidedUpTo(old, m)
  PROVE  ExecuteOne(old, s, c, m)
<1> USE MenciusAssumption
<1> DEFINE com   == [old EXCEPT ![s] = {c}]
           done  == Decided(old)
           unex  == Count(Zero, c)
           pass  == InOrder(com, done, m)
           first == pass \ done
           unex1 == Uncount(unex, com, first)
           upto  == m + Cardinality(pass)
           then  == OutOfOrder(com, done \cup first, unex1, upto)
<1> SUFFICES /\ (first = {s} /\ then = {}) \/ (first = {} /\ then = {s})
             /\ upto \in 0 .. MaxSlot
             /\ 1 .. upto \subseteq done \cup {s}
             /\ upto + 1 \notin done \cup {s}
             /\ Uncount(unex1, com, then) = Zero
  BY Zenon DEF ExecuteOne
<1>1. /\ com[s] = {c} /\ \A t \in Slot : com[t] # {} <=> t \in done \cup {s}
      /\ done \in SUBSET Slot /\ s \notin done
  BY DEF Decided
<1>2. /\ unex[KeyOf[c]] = 1 /\ CmdAt(com, s) = c
      /\ Uncount(unex, com, {s}) = Zero /\ Uncount(unex, com, {}) = unex
      /\ Uncount(Zero, com, {}) = Zero
  <2> HIDE DEF com, done
  <2>1. CmdAt(com, s) = c
    BY <1>1, CmdAtOne
  <2>2. /\ Count(Zero, c)[KeyOf[c]] = 1
        /\ Uncount(Count(Zero, c), com, {s}) = Zero
        /\ Uncount(Count(Zero, c), com, {}) = Count(Zero, c)
        /\ Uncount(Zero, com, {}) = Zero
    <3>1. com[s] = {c}
      BY <1>1
    <3> QED
      BY <3>1, CountOne
  <2> QED
    BY <2>1, <2>2
<1>3. m \in Nat /\ m <= MaxSlot /\ 1 .. m \subseteq done /\ m + 1 \notin done
  BY DEF DecidedUpTo
<1>4. s > m /\ s \in Nat
  BY <1>1, <1>3 DEF Slot
<1> HIDE DEF com, done, unex
<1>5. CASE s = m + 1
  <2> DEFINE D == done \cup {s}
  <2>0. D \in SUBSET Slot
    BY <1>1
  <2>1. PICK n \in m + 1 .. MaxSlot + 1 : n \notin D /\ \A t \in m + 1 .. n - 1 : t \in D
    <3> HIDE DEF D
    <3> QED
      BY <1>3, <2>0, FirstGap
  <2>2. n # m + 1 /\ n \in Nat /\ n - 1 \in m + 1 .. MaxSlot
    BY <1>3, <1>5, <2>1
  <2>3. pass = m + 1 .. n - 1
    <3>1. ASSUME NEW x \in pass PROVE x \in m + 1 .. n - 1
      <4>1. x \in Slot /\ x > m /\ \A t \in m + 1 .. x : com[t] # {}
        BY DEF InOrder
      <4>2. x >= n => n \in Slot /\ com[n] # {}
        BY <1>3, <2>1, <4>1 DEF Slot
      <4>3. x < n
        BY <1>1, <2>1, <2>2, <4>1, <4>2 DEF Slot
      <4> QED
        BY <1>3, <2>2, <4>1, <4>3 DEF Slot
    <3>2. ASSUME NEW x \in m + 1 .. n - 1 PROVE x \in pass
      <4>1. x \in Slot /\ x > m
        BY <1>3, <2>1, <3>2 DEF Slot
      <4>2. ASSUME NEW t \in m + 1 .. x PROVE com[t] # {}
        <5>1. t \in Slot /\ t \in m + 1 .. n - 1
          BY <1>3, <2>1, <3>2 DEF Slot
        <5> QED
          BY <1>1, <2>1, <5>1
      <4> QED
        BY <4>1, <4>2 DEF InOrder
    <3> QED
      BY <3>1, <3>2
  <2>4. first = {s}
    <3>1. s \in m + 1 .. n - 1
      BY <1>3, <1>4, <1>5, <2>2
    <3> QED
      BY <1>1, <2>1, <2>3, <3>1
  <2>5. unex1 = Zero
    BY <1>2, <2>4
  <2>6. upto = n - 1
    <3>1. m + 1 \in Int /\ n - 1 \in Int /\ ~(m + 1 > n - 1)
      BY <1>3, <2>2
    <3>2. Cardinality(m + 1 .. n - 1) = (n - 1) - (m + 1) + 1
      BY <3>1, FS_Interval
    <3> QED
      BY <1>3, <2>2, <2>3, <3>2
  <2>7. then = {}
    BY <1>1, <2>4 DEF OutOfOrder
  <2>8. 1 .. n - 1 \subseteq done \cup {s}
    <3> SUFFICES ASSUME NEW t \in 1 .. n - 1 PROVE t \in done \cup {s}
      OBVIOUS
    <3>1. t \in 1 .. m \/ t \in m + 1 .. n - 1
      BY <1>3, <2>2
    <3> QED
      BY <1>3, <2>1, <3>1
  <2>9. (n - 1) + 1 = n /\ n - 1 \in 0 .. MaxSlot
    BY <1>3, <2>2
  <2>10. Uncount(unex1, com, then) = Zero
    BY <1>2, <2>5, <2>7
  <2>11. n \notin done \cup {s}
    BY <2>1
  <2> HIDE DEF first, then, upto, unex1, D
  <2> QED
    BY <2>4, <2>6, <2>7, <2>8, <2>9, <2>10, <2>11
<1>6. CASE s # m + 1
  <2>1. pass = {}
    <3> SUFFICES ASSUME NEW x \in pass PROVE FALSE
      OBVIOUS
    <3>1. x \in Slot /\ x > m /\ \A t \in m + 1 .. x : com[t] # {}
      BY DEF InOrder
    <3>2. m + 1 \in m + 1 .. x /\ m + 1 \in Slot
      BY <1>3, <3>1 DEF Slot
    <3> QED
      BY <1>1, <1>3, <1>6, <3>1, <3>2
  <2>2. first = {} /\ Cardinality(pass) = 0
    BY <2>1, FS_EmptySet
  <2>3. unex1 = unex /\ upto = m
    <3>1. upto = m
      BY <1>3, <2>2
    <3>2. unex1 = unex
      <4> HIDE DEF first
      <4> QED
        BY <1>2, <2>2
    <3> QED
      BY <3>1, <3>2
  <2>4. then = {s}
    <3>1. s \in then
      BY <1>1, <1>2, <1>4, <2>2, <2>3 DEF OutOfOrder
    <3>2. ASSUME NEW x \in then PROVE x = s
      BY <1>1, <2>2, <3>2 DEF OutOfOrder
    <3> QED
      BY <3>1, <3>2
  <2>5. Uncount(unex1, com, then) = Zero
    BY <1>2, <2>3, <2>4
  <2>6. m \in 0 .. MaxSlot /\ 1 .. m \subseteq done \cup {s} /\ m + 1 \notin done \cup {s}
    BY <1>3, <1>6
  <2> HIDE DEF first, then, upto, unex1
  <2> QED
    BY <2>2, <2>3, <2>4, <2>5, <2>6
<1> QED
  BY <1>5, <1>6

(* The slots of one loop in slot order, when there is one or none.          *)
LEMMA InSlotOrderOne ==
  ASSUME NEW s \in Slot
  PROVE  InSlotOrder({}) = << >> /\ InSlotOrder({s}) = <<s>>
<1>1. Cardinality({}) = 0 /\ Cardinality({s}) = 1
  BY FS_EmptySet, FS_Singleton
<1>2. InSlotOrder({}) = << >>
  BY <1>1 DEF InSlotOrder
<1>3. {t \in {s} : t <= s} = {s}
  BY DEF Slot
<1>4. (CHOOSE x \in {s} : Cardinality({t \in {s} : t <= x}) = 1) = s
  BY <1>1, <1>3
<1>5. InSlotOrder({s}) = [i \in 1 .. 1 |-> s]
  <2>1. \A i \in 1 .. 1 : i = 1
    OBVIOUS
  <2> QED
    BY <1>1, <1>4, <2>1 DEF InSlotOrder
<1> QED
  BY <1>2, <1>5

--------------------------------------------------------------------------------
(* Each server executes each decision as it arrives.                        *)

(* What a handler of decisions leaves behind at a server: both loops ran to *)
(* their end and nothing is left to execute.                                *)
AllRun(com, ex, mx, un) ==
  /\ ex \in Seq(Slot) /\ Range(ex) = Decided(com) /\ IsInjective(ex)
  /\ un = Zero
  /\ mx \in 0 .. MaxSlot /\ DecidedUpTo(com, mx)

Shapes ==
  /\ executed \in [Server -> Seq(Slot)]
  /\ max_executed \in [Server -> 0 .. MaxSlot]
  /\ unexecuted \in [Server -> [Key -> Nat]]

ServersRun ==
  \A r \in Server : AllRun(committed[r], executed[r], max_executed[r], unexecuted[r])

(* A slot holds one command or none.                                        *)
Single(S) == S = {} \/ \E c \in Cmd : S = {c}

AllSingle(f) == \A r \in Server, s \in Slot : Single(f[r][s])

Singles == AllSingle(cmd_) /\ AllSingle(committed)

(* A slot whose coordinator waits for its quorum was decided to nobody.     *)
Undecided(s) == proposed[s] # {} /\ \A q \in Server : committed[q][s] = {}

(* A server is told each decision once: one under way from r to q is of     *)
(* r's slot, whose coordinator is through, and was not told q before ...    *)
Fresh(r, q, m) ==
  m.type = "Decide" => /\ m.slot \notin waiting /\ committed[q][m.slot] = {}
                       /\ \A p \in proposed[m.slot] : p.by = r

(* ... nor is it under way twice.                                           *)
NoTwins(c) ==
  \A i, j \in 1 .. Len(c) :
    i # j /\ c[i].type = "Decide" /\ c[j].type = "Decide" => c[i].slot # c[j].slot

QueueFresh(r, q, c) == NoTwins(c) /\ \A i \in 1 .. Len(c) : Fresh(r, q, c[i])

ToldOnce ==
  /\ waiting \subseteq Slot /\ \A s \in waiting : Undecided(s)
  /\ \A r, q \in Server : QueueFresh(r, q, chan[r][q])

EInv == Singles /\ Shapes /\ ToldOnce /\ ServersRun

(* Nobody has executed anything at the start.                               *)
LEMMA EInvInit == Init => EInv
<1> SUFFICES ASSUME Init PROVE EInv
  OBVIOUS
<1> USE MenciusAssumption
<1>1. Singles
  BY DEF Init, Singles, AllSingle, Single
<1>2. Shapes
  BY DEF Init, Shapes
<1>3. ToldOnce
  BY DEF Init, ToldOnce, QueueFresh, NoTwins
<1>4. ASSUME NEW r \in Server
      PROVE  AllRun(committed[r], executed[r], max_executed[r], unexecuted[r])
  <2>1. committed[r] = [s \in Slot |-> {}] /\ executed[r] = << >>
        /\ max_executed[r] = 0 /\ unexecuted[r] = Zero
    BY DEF Init, Zero
  <2>2. Decided(committed[r]) = {}
    BY <2>1 DEF Decided
  <2>3. << >> \in Seq(Slot) /\ Range(<< >>) = {} /\ IsInjective(<< >>)
    BY DEF Range, IsInjective
  <2>4. 0 \in 0 .. MaxSlot /\ 1 .. 0 = {}
    OBVIOUS
  <2> QED
    BY <2>1, <2>2, <2>3, <2>4 DEF AllRun, DecidedUpTo
<1> QED
  BY <1>1, <1>2, <1>3, <1>4 DEF EInv, ServersRun

(* A sequence with a new element appended.                                  *)
LEMMA AppendNew ==
  ASSUME NEW ex \in Seq(Slot), NEW s \in Slot, s \notin Range(ex), IsInjective(ex)
  PROVE  /\ ex \o <<s>> \in Seq(Slot)
         /\ Range(ex \o <<s>>) = Range(ex) \cup {s}
         /\ IsInjective(ex \o <<s>>)
<1> DEFINE x == ex \o <<s>>
<1>1. /\ x \in Seq(Slot) /\ Len(x) = Len(ex) + 1 /\ Len(ex) \in Nat
      /\ DOMAIN x = 1 .. Len(ex) + 1 /\ DOMAIN ex = 1 .. Len(ex)
      /\ x[Len(ex) + 1] = s /\ \A i \in 1 .. Len(ex) : x[i] = ex[i]
  OBVIOUS
<1> HIDE DEF x
<1>2. Range(x) = Range(ex) \cup {s}
  <2>1. ASSUME NEW i \in DOMAIN x PROVE x[i] \in Range(ex) \cup {s}
    BY <1>1 DEF Range
  <2>2. \A i \in DOMAIN ex : i \in DOMAIN x /\ ex[i] = x[i]
    BY <1>1
  <2>3. Len(ex) + 1 \in DOMAIN x
    BY <1>1
  <2> QED
    BY <1>1, <2>1, <2>2, <2>3 DEF Range
<1>3. IsInjective(x)
  <2> SUFFICES ASSUME NEW i \in DOMAIN x, NEW j \in DOMAIN x, x[i] = x[j] PROVE i = j
    BY DEF IsInjective
  <2>1. \A k \in 1 .. Len(ex) : ex[k] # s
    BY <1>1 DEF Range
  <2>2. (i = Len(ex) + 1 \/ i \in 1 .. Len(ex)) /\ (j = Len(ex) + 1 \/ j \in 1 .. Len(ex))
    BY <1>1
  <2> QED
    BY <1>1, <2>1, <2>2 DEF IsInjective
<1> QED
  BY <1>1, <1>2, <1>3 DEF x

(* OnCommit leaves nothing to execute, when it is told a new decision.      *)
LEMMA OnCommitRuns ==
  ASSUME Types, Shapes, ServersRun, NEW q \in Server, NEW s \in Slot, NEW c \in Cmd,
         OnCommit(q, s, c), committed[q][s] = {}
  PROVE  Shapes' /\ ServersRun'
<1> USE MenciusAssumption
<1>o. PICK old \in [Slot -> SUBSET Cmd] : old = committed[q]
  BY DEF Types
<1>x. PICK ex \in Seq(Slot) : ex = executed[q]
  BY DEF Shapes
<1>m. PICK m \in 0 .. MaxSlot : m = max_executed[q]
  BY DEF Shapes
<1>a. AllRun(old, ex, m, Zero) /\ unexecuted[q] = Zero /\ old[s] = {}
  <2>1. AllRun(old, ex, m, unexecuted[q])
    BY <1>o, <1>x, <1>m DEF ServersRun
  <2>2. unexecuted[q] = Zero
    BY <2>1 DEF AllRun
  <2> QED
    BY <1>o, <2>1, <2>2
<1> DEFINE com   == [old EXCEPT ![s] = {c}]
           done  == Decided(old)
           unex  == Count(Zero, c)
           pass  == InOrder(com, done, m)
           first == pass \ done
           unex1 == Uncount(unex, com, first)
           upto  == m + Cardinality(pass)
           then  == OutOfOrder(com, done \cup first, unex1, upto)
<1>d. done = Range(ex)
  BY <1>a DEF AllRun
<1>1. /\ (first = {s} /\ then = {}) \/ (first = {} /\ then = {s})
      /\ upto \in 0 .. MaxSlot
      /\ 1 .. upto \subseteq done \cup {s}
      /\ upto + 1 \notin done \cup {s}
      /\ Uncount(unex1, com, then) = Zero
  <2>1. ExecuteOne(old, s, c, m)
    BY <1>a, LoopsExecuteOne DEF AllRun
  <2> QED
    BY <2>1, Zenon DEF ExecuteOne
<1>2. /\ committed' = [committed EXCEPT ![q] = com]
      /\ max_executed' = [max_executed EXCEPT ![q] = upto]
      /\ executed' = [executed EXCEPT ![q] = ex \o InSlotOrder(first) \o InSlotOrder(then)]
      /\ unexecuted' = [unexecuted EXCEPT ![q] = Uncount(unex1, com, then)]
  <2>1. Range(executed[q]) = done
    BY <1>d, <1>x
  <2> HIDE DEF done
  <2> QED
    BY <1>a, <1>o, <1>x, <1>m, <2>1 DEF OnCommit
<1>3. Decided(com) = done \cup {s} /\ s \notin done
  BY <1>a DEF Decided
<1> HIDE DEF com, done, unex, pass, first, unex1, upto, then
<1>4. ex \o InSlotOrder(first) \o InSlotOrder(then) = ex \o <<s>>
  <2>1. InSlotOrder({}) = << >> /\ InSlotOrder({s}) = <<s>>
    BY InSlotOrderOne
  <2>2. ex \o << >> = ex /\ (ex \o <<s>>) \o << >> = ex \o <<s>>
    OBVIOUS
  <2> QED
    BY <1>1, <2>1, <2>2
<1>5. /\ ex \o <<s>> \in Seq(Slot)
      /\ Range(ex \o <<s>>) = done \cup {s}
      /\ IsInjective(ex \o <<s>>)
  <2>1. IsInjective(ex) /\ s \notin Range(ex) /\ Range(ex) = done
    BY <1>a, <1>d, <1>3 DEF AllRun
  <2> QED
    BY <2>1, AppendNew
<1>6. PICK y \in Seq(Slot) : y = ex \o <<s>>
  BY <1>5
<1>7. AllRun(com, y, upto, Zero)
  BY <1>1, <1>3, <1>5, <1>6 DEF AllRun, DecidedUpTo
<1>8. Zero \in [Key -> Nat]
  BY DEF Zero
<1>9. executed' = [executed EXCEPT ![q] = y] /\ unexecuted' = [unexecuted EXCEPT ![q] = Zero]
  BY <1>1, <1>2, <1>4, <1>6
<1>10. Shapes'
  <2>1. executed' \in [Server -> Seq(Slot)]
    BY <1>9 DEF Shapes
  <2>2. max_executed' \in [Server -> 0 .. MaxSlot]
    BY <1>1, <1>2 DEF Shapes
  <2>3. unexecuted' \in [Server -> [Key -> Nat]]
    BY <1>8, <1>9 DEF Shapes
  <2> QED
    BY <2>1, <2>2, <2>3 DEF Shapes
<1>11. ASSUME NEW r \in Server
       PROVE  AllRun(committed'[r], executed'[r], max_executed'[r], unexecuted'[r])
  <2>1. CASE r = q
    <3>1. committed'[q] = com /\ executed'[q] = y /\ max_executed'[q] = upto
          /\ unexecuted'[q] = Zero
      BY <1>2, <1>9 DEF Types, Shapes
    <3> QED
      BY <1>7, <2>1, <3>1
  <2>2. CASE r # q
    <3>1. committed'[r] = committed[r] /\ executed'[r] = executed[r]
          /\ max_executed'[r] = max_executed[r] /\ unexecuted'[r] = unexecuted[r]
      BY <1>2, <1>9, <2>2 DEF Types, Shapes
    <3> QED
      BY <3>1 DEF ServersRun
  <2> QED
    BY <2>1, <2>2
<1> QED
  BY <1>10, <1>11 DEF ServersRun, AllRun, Decided, Zero

(* A queue has no twins after a request other than its own is appended, or  *)
(* its head is taken.                                                       *)
Other(c, m) ==
  \A i \in 1 .. Len(c) : c[i].type = "Decide" /\ m.type = "Decide" => c[i].slot # m.slot

(* A request other than those of the queue is appended.                     *)
LEMMA NoTwinsAppend ==
  ASSUME NEW c \in Seq(Message), NEW m \in Message, NoTwins(c), Other(c, m)
  PROVE  NoTwins(Append(c, m))
<1> DEFINE d == Append(c, m)
<1>1. /\ Len(d) = Len(c) + 1 /\ Len(c) \in Nat /\ d[Len(c) + 1] = m
      /\ \A i \in 1 .. Len(c) : d[i] = c[i]
  OBVIOUS
<1> HIDE DEF d
<1>2. \A i \in 1 .. Len(d) : i = Len(c) + 1 \/ i \in 1 .. Len(c)
  BY <1>1
<1>3. NoTwins(d)
  BY <1>1, <1>2 DEF NoTwins, Other
<1> QED
  BY <1>3 DEF d

(* What follows the head of a queue is other than the head.                 *)
LEMMA NoTwinsTail ==
  ASSUME NEW c \in Seq(Message), NoTwins(c), c # << >>
  PROVE  NoTwins(Tail(c)) /\ Other(Tail(c), c[1])
<1> DEFINE d == Tail(c)
<1>1. /\ Len(c) \in Nat /\ Len(d) = Len(c) - 1 /\ 1 \in 1 .. Len(c)
      /\ \A i \in 1 .. Len(d) : d[i] = c[i + 1]
  OBVIOUS
<1> HIDE DEF d
<1>2. \A i \in 1 .. Len(d) : i + 1 \in 1 .. Len(c) /\ i + 1 # 1
  BY <1>1
<1>3. NoTwins(d)
  BY <1>1, <1>2 DEF NoTwins
<1>4. Other(d, c[1])
  BY <1>1, <1>2 DEF NoTwins, Other
<1> QED
  BY <1>3, <1>4 DEF d

(* One command suggested or decided leaves one command in its slot.         *)
SetAt(f, q, s, c) == [f EXCEPT ![q][s] = {c}]

(* A slot that is set holds one command.                                    *)
LEMMA SingleKept ==
  ASSUME NEW f \in [Server -> [Slot -> SUBSET Cmd]], NEW q \in Server, NEW s \in Slot,
         NEW c \in Cmd, AllSingle(f)
  PROVE  AllSingle(SetAt(f, q, s, c))
<1> DEFINE g == SetAt(f, q, s, c)
<1>1. ASSUME NEW a \in Server, NEW t \in Slot PROVE Single(g[a][t])
  <2>1. g[a][t] = IF a = q /\ t = s THEN {c} ELSE f[a][t]
    BY DEF SetAt
  <2> HIDE DEF g
  <2>2. CASE a = q /\ t = s
    BY <2>1, <2>2 DEF Single
  <2>3. CASE ~(a = q /\ t = s)
    BY <2>1, <2>3 DEF AllSingle
  <2> QED
    BY <2>2, <2>3
<1> QED
  BY <1>1 DEF AllSingle

(* Submit: its slot was free, so no decision of it is under way.            *)
LEMMA SubmitRuns ==
  ASSUME IInv, IInv', EInv, NEW r \in Server, NEW c \in Cmd, Submit(r, c)
  PROVE  EInv'
<1>s. PICK s \in Slot : s = SlotId(r)
  BY DEF Submit
<1>m. PICK m \in Message : m = [type |-> "Suggest", slot |-> s, cmd |-> c]
  BY DEF Message
<1>f. proposed[s] = {} /\ \A q \in Server : committed[q][s] = {}
  BY <1>s, NextSlotFree, FreeSlotUnknown
<1>t. Types /\ MessagesSound /\ Singles /\ Shapes /\ ToldOnce /\ ServersRun
  BY DEF IInv, EInv
<1>0. /\ proposed' = [proposed EXCEPT ![s] = @ \cup {[by |-> r, cmd |-> c]}]
      /\ waiting' = waiting \cup {s}
      /\ cmd_' = [cmd_ EXCEPT ![r][s] = {c}]
      /\ chan' = [chan EXCEPT ![r] = [q \in Server |->
                     IF q = r THEN chan[r][q] ELSE Append(chan[r][q], m)]]
      /\ UNCHANGED <<committed, executed, max_executed, unexecuted>>
  BY <1>s, <1>m, <1>t DEF Submit, BroadcastSuggest, Suggested, replicaVars, Types
<1>1. Singles'
  <2>1. cmd_' = SetAt(cmd_, r, s, c) /\ committed' = committed
    BY <1>0 DEF SetAt
  <2>2. AllSingle(SetAt(cmd_, r, s, c))
    BY <1>t, SingleKept DEF Singles, Types
  <2> QED
    BY <1>t, <2>1, <2>2 DEF Singles, AllSingle, Single
<1>2. Shapes' /\ ServersRun'
  BY <1>0, <1>t DEF Shapes, ServersRun
<1>3. waiting' \subseteq Slot /\ \A t \in waiting' : Undecided(t)'
  <2>1. ASSUME NEW t \in Slot PROVE proposed[t] \subseteq proposed'[t] /\ proposed'[s] # {}
    BY <1>0, <1>t DEF Types
  <2> QED
    BY <1>0, <1>f, <1>t, <2>1 DEF ToldOnce, Undecided
<1>4. ASSUME NEW a \in Server, NEW b \in Server
      PROVE  QueueFresh(a, b, chan[a][b])'
  <2>1. PICK q \in Seq(Message) : q = chan[a][b]
    BY <1>t DEF Types
  <2>2. chan'[a][b] = q \/ chan'[a][b] = Append(q, m)
    <3>1. chan \in [Server -> [Server -> Seq(Message)]]
      BY <1>t DEF Types
    <3>2. CASE a = r
      BY <1>0, <2>1, <3>1, <3>2
    <3>3. CASE a # r
      BY <1>0, <2>1, <3>1, <3>3
    <3> QED
      BY <3>2, <3>3
  <2>3. NoTwins(q) /\ \A i \in 1 .. Len(q) : Fresh(a, b, q[i]) /\ Sound(q[i])
    BY <1>t, <2>1 DEF ToldOnce, QueueFresh, MessagesSound
  <2>4. ASSUME NEW n \in Message, Fresh(a, b, n), Sound(n) PROVE Fresh(a, b, n)'
    <3>1. n.slot # s /\ n.slot \in Slot
      BY <1>f, <2>4 DEF Sound, CmdsOf, Message
    <3> QED
      BY <1>0, <1>t, <2>4, <3>1 DEF Fresh, Types
  <2>5. NoTwins(Append(q, m))
    <3>1. Other(q, m)
      BY <1>m DEF Other
    <3> QED
      BY <2>3, <3>1, NoTwinsAppend
  <2>6. \A i \in 1 .. Len(q) : q[i] \in Message /\ Fresh(a, b, q[i])'
    BY <2>3, <2>4
  <2>7. Fresh(a, b, m)'
    BY <1>m DEF Fresh
  <2>8. \A i \in 1 .. Len(Append(q, m)) : Fresh(a, b, Append(q, m)[i])'
    <3>1. /\ Len(Append(q, m)) = Len(q) + 1 /\ Len(q) \in Nat /\ Append(q, m)[Len(q) + 1] = m
          /\ \A i \in 1 .. Len(q) : Append(q, m)[i] = q[i]
      OBVIOUS
    <3>2. \A i \in 1 .. Len(Append(q, m)) : i = Len(q) + 1 \/ i \in 1 .. Len(q)
      BY <3>1
    <3> QED
      BY <2>6, <2>7, <3>1, <3>2
  <2> QED
    BY <2>2, <2>3, <2>5, <2>6, <2>8 DEF QueueFresh, NoTwins, Fresh
<1> QED
  BY <1>1, <1>2, <1>3, <1>4 DEF EInv, ToldOnce

(* Commit: the coordinator stops waiting, and sends each server the one     *)
(* decision of its slot.                                                    *)
LEMMA CommitRuns ==
  ASSUME IInv, EInv, NEW s \in Slot, Commit(s)
  PROVE  EInv'
<1>t. Types /\ OneProposal /\ Singles /\ Shapes /\ ToldOnce /\ ServersRun
  BY DEF IInv, EInv
<1>p. PICK p \in proposed[s] :
        chan' = [chan EXCEPT ![p.by] = [q \in Server |->
                  Append(@[q], [type |-> "Decide", slot |-> s, cmd |-> p.cmd])]]
  BY DEF Commit, BroadcastDecide
<1>b. p \in [by: Server, cmd: Cmd]
  BY <1>t DEF Types
<1>m. PICK m \in Message : m = [type |-> "Decide", slot |-> s, cmd |-> p.cmd]
  BY <1>b DEF Message
<1>0. chan' = [chan EXCEPT ![p.by] = [q \in Server |-> Append(chan[p.by][q], m)]]
  BY <1>p, <1>m, <1>b, <1>t DEF Types
<1>u. /\ UNCHANGED <<proposed, cmd_, committed, executed, max_executed, unexecuted>>
      /\ s \in waiting /\ waiting' = waiting \ {s}
  BY DEF Commit, replicaVars
<1>1. Singles' /\ Shapes' /\ ServersRun'
  BY <1>u, <1>t DEF Singles, Shapes, ServersRun, AllSingle
<1>2. waiting' \subseteq Slot /\ \A t \in waiting' : Undecided(t)'
  BY <1>u, <1>t DEF ToldOnce, Undecided
<1>3. ASSUME NEW a \in Server, NEW b \in Server
      PROVE  QueueFresh(a, b, chan[a][b])'
  <2>1. PICK q \in Seq(Message) : q = chan[a][b]
    BY <1>t DEF Types
  <2>2. chan'[a][b] = q \/ (a = p.by /\ chan'[a][b] = Append(q, m))
    <3>1. chan \in [Server -> [Server -> Seq(Message)]]
      BY <1>t DEF Types
    <3>2. CASE a = p.by
      BY <1>0, <1>b, <2>1, <3>1, <3>2
    <3>3. CASE a # p.by
      BY <1>0, <2>1, <3>1, <3>3
    <3> QED
      BY <3>2, <3>3
  <2>3. NoTwins(q) /\ \A i \in 1 .. Len(q) : Fresh(a, b, q[i])
    BY <1>t, <2>1 DEF ToldOnce, QueueFresh
  <2>4. \A i \in 1 .. Len(q) : q[i] \in Message /\ Fresh(a, b, q[i])'
    BY <1>u, <2>3 DEF Fresh
  <2>5. NoTwins(Append(q, m))
    <3>1. Other(q, m)
      BY <1>m, <1>u, <2>3 DEF Fresh, Other
    <3> QED
      BY <2>3, <3>1, NoTwinsAppend
  <2>6. a = p.by => Fresh(a, b, m)'
    BY <1>m, <1>u, <1>t DEF Fresh, ToldOnce, Undecided, OneProposal
  <2>7. a = p.by => \A i \in 1 .. Len(Append(q, m)) : Fresh(a, b, Append(q, m)[i])'
    <3>1. /\ Len(Append(q, m)) = Len(q) + 1 /\ Len(q) \in Nat /\ Append(q, m)[Len(q) + 1] = m
          /\ \A i \in 1 .. Len(q) : Append(q, m)[i] = q[i]
      OBVIOUS
    <3>2. \A i \in 1 .. Len(Append(q, m)) : i = Len(q) + 1 \/ i \in 1 .. Len(q)
      BY <3>1
    <3> QED
      BY <2>4, <2>6, <3>1, <3>2
  <2>8. CASE chan'[a][b] = q
    BY <2>3, <2>4, <2>8 DEF QueueFresh, NoTwins, Fresh
  <2>9. CASE a = p.by /\ chan'[a][b] = Append(q, m)
    <3>1. PICK y : y = Append(q, m)
      OBVIOUS
    <3>2. NoTwins(y) /\ \A i \in 1 .. Len(y) : Fresh(a, b, y[i])'
      BY <2>5, <2>7, <2>9, <3>1
    <3>3. QueueFresh(a, b, y)'
      BY <3>2 DEF QueueFresh, NoTwins
    <3> QED
      BY <2>9, <3>1, <3>3
  <2> QED
    BY <2>2, <2>8, <2>9
<1> QED
  BY <1>1, <1>2, <1>3 DEF EInv, ToldOnce

(* Deliver: a suggestion executes nothing; a decision is told once.         *)
LEMMA DeliverRuns ==
  ASSUME IInv, EInv, NEW r \in Server, NEW q \in Server, Deliver(r, q)
  PROVE  EInv'
<1>t. Types /\ MessagesSound /\ Singles /\ Shapes /\ ToldOnce /\ ServersRun
  BY DEF IInv, EInv
<1>c. PICK h \in Seq(Message) : h = chan[r][q] /\ h # << >>
  BY <1>t DEF Types, Deliver
<1>m. PICK m \in Message : m = Head(chan[r][q]) /\ m = h[1]
  BY <1>c
<1>k. m.slot \in Slot /\ m.cmd \in Cmd /\ Sound(m) /\ Fresh(r, q, m)
  <2>1. 1 \in 1 .. Len(h)
    BY <1>c
  <2> QED
    BY <2>1, <1>c, <1>m, <1>t DEF Message, MessagesSound, ToldOnce, QueueFresh
<1>u. UNCHANGED <<proposed, waiting>> /\ chan' = [chan EXCEPT ![r][q] = Tail(h)]
  BY <1>c, <1>t DEF Deliver, Types
<1>d. \/ m.type = "Suggest" /\ OnSuggest(q, m.slot, m.cmd)
      \/ m.type = "Decide" /\ OnCommit(q, m.slot, m.cmd)
  BY <1>m DEF Deliver
<1>v. ASSUME NEW a \in Server, NEW b \in Server, NEW x \in Seq(Message), x = chan[a][b]
      PROVE  \/ a = r /\ b = q /\ x = h /\ chan'[a][b] = Tail(h)
             \/ ~(a = r /\ b = q) /\ chan'[a][b] = x
  <2>1. chan \in [Server -> [Server -> Seq(Message)]]
    BY <1>t DEF Types
  <2>2. CASE a = r /\ b = q
    BY <1>c, <1>u, <1>v, <2>1, <2>2
  <2>3. CASE ~(a = r /\ b = q)
    BY <1>u, <1>v, <2>1, <2>3
  <2> QED
    BY <2>2, <2>3
<1>w. ASSUME \A a, b \in Server : \A n \in Message :
               /\ Fresh(a, b, n) /\ Sound(n)
               /\ a = r /\ b = q /\ m.type = "Decide" /\ n.type = "Decide" => n.slot # m.slot
               => Fresh(a, b, n)'
      PROVE  \A a, b \in Server : QueueFresh(a, b, chan[a][b])'
  <2> SUFFICES ASSUME NEW a \in Server, NEW b \in Server
               PROVE  QueueFresh(a, b, chan[a][b])'
    OBVIOUS
  <2>1. PICK x \in Seq(Message) : x = chan[a][b]
    BY <1>t DEF Types
  <2>2. NoTwins(x) /\ \A i \in 1 .. Len(x) : x[i] \in Message /\ Fresh(a, b, x[i]) /\ Sound(x[i])
    BY <1>t, <2>1 DEF ToldOnce, QueueFresh, MessagesSound
  <2>3. CASE a = r /\ b = q
    <3>1. x = h /\ chan'[a][b] = Tail(h)
      BY <1>v, <2>1, <2>3
    <3>2. NoTwins(Tail(h)) /\ Other(Tail(h), m)
      BY <1>c, <1>m, <2>2, <3>1, NoTwinsTail
    <3>3. ASSUME NEW i \in 1 .. Len(Tail(h)) PROVE Fresh(a, b, Tail(h)[i])'
      <4>1. Tail(h)[i] = h[i + 1] /\ i + 1 \in 1 .. Len(h)
        BY <1>c, <3>3
      <4>2. PICK n \in Message : n = Tail(h)[i]
        BY <2>2, <3>1, <4>1
      <4>3. /\ Fresh(a, b, n) /\ Sound(n)
            /\ m.type = "Decide" /\ n.type = "Decide" => n.slot # m.slot
        BY <2>2, <3>1, <3>2, <4>1, <4>2 DEF Other
      <4>4. Fresh(a, b, n)'
        BY <1>w, <4>3
      <4> QED
        BY <4>2, <4>4
    <3> QED
      BY <3>1, <3>2, <3>3 DEF QueueFresh, NoTwins, Fresh
  <2>4. CASE ~(a = r /\ b = q)
    <3>1. chan'[a][b] = x
      BY <1>v, <2>1, <2>4
    <3>2. \A i \in 1 .. Len(x) : Fresh(a, b, x[i])'
      BY <1>w, <2>2, <2>4
    <3> QED
      BY <2>2, <3>1, <3>2 DEF QueueFresh, NoTwins, Fresh
  <2> QED
    BY <2>3, <2>4
<1>1. CASE m.type = "Suggest"
  <2>1. cmd_' = [cmd_ EXCEPT ![q][m.slot] = {m.cmd}]
        /\ UNCHANGED <<committed, executed, max_executed, unexecuted>>
    BY <1>1, <1>d DEF OnSuggest, Suggested, replicaVars
  <2>2. Singles'
    <3>1. cmd_' = SetAt(cmd_, q, m.slot, m.cmd) /\ committed' = committed
      BY <2>1 DEF SetAt
    <3>2. AllSingle(SetAt(cmd_, q, m.slot, m.cmd))
      BY <1>k, <1>t, SingleKept DEF Singles, Types
    <3> QED
      BY <1>t, <3>1, <3>2 DEF Singles, AllSingle, Single
  <2>3. Shapes' /\ ServersRun'
    BY <1>t, <2>1 DEF Shapes, ServersRun
  <2>4. waiting' \subseteq Slot /\ \A t \in waiting' : Undecided(t)'
    BY <1>t, <1>u, <2>1 DEF ToldOnce, Undecided
  <2>5. \A a, b \in Server : \A n \in Message : Fresh(a, b, n) => Fresh(a, b, n)'
    BY <1>u, <2>1 DEF Fresh
  <2> QED
    BY <1>w, <2>2, <2>3, <2>4, <2>5 DEF EInv, ToldOnce
<1>2. CASE m.type = "Decide"
  <2>1. OnCommit(q, m.slot, m.cmd) /\ committed[q][m.slot] = {} /\ m.slot \notin waiting
    BY <1>2, <1>d, <1>k DEF Fresh
  <2>2. cmd_' = cmd_ /\ committed' = [committed EXCEPT ![q][m.slot] = {m.cmd}]
    <3>1. cmd_' = cmd_
          /\ committed' = [committed EXCEPT ![q] = [committed[q] EXCEPT ![m.slot] = {m.cmd}]]
      BY <2>1 DEF OnCommit
    <3> QED
      BY <1>t, <3>1 DEF Types
  <2>3. Singles'
    <3>1. committed' = SetAt(committed, q, m.slot, m.cmd)
      BY <2>2 DEF SetAt
    <3>2. AllSingle(SetAt(committed, q, m.slot, m.cmd))
      BY <1>k, <1>t, SingleKept DEF Singles, Types
    <3>3. cmd_' = cmd_ /\ AllSingle(cmd_)
      BY <1>t, <2>2 DEF Singles
    <3>4. AllSingle(cmd_)'
      BY <3>3 DEF AllSingle
    <3>5. AllSingle(committed)'
      BY <3>1, <3>2 DEF AllSingle
    <3> QED
      BY <3>4, <3>5 DEF Singles
  <2>4. Shapes' /\ ServersRun'
    BY <1>k, <1>t, <2>1, OnCommitRuns
  <2>5. waiting' \subseteq Slot /\ \A t \in waiting' : Undecided(t)'
    BY <1>t, <1>u, <2>1, <2>2 DEF ToldOnce, Undecided, Types
  <2>6. ASSUME NEW a \in Server, NEW b \in Server, NEW n \in Message,
               Fresh(a, b, n), Sound(n), n.type = "Decide",
               a = r /\ b = q => n.slot # m.slot
        PROVE  committed'[b][n.slot] = {}
    <3>1. n.slot \in Slot /\ committed[b][n.slot] = {}
      BY <2>6 DEF Fresh, Message
    <3>2. ~(b = q /\ n.slot = m.slot)
      <4> SUFFICES ASSUME b = q, n.slot = m.slot PROVE FALSE
        OBVIOUS
      <4>1. PICK p \in proposed[m.slot] : TRUE
        BY <1>k DEF Sound, CmdsOf
      <4>2. p.by = r /\ p.by = a
        BY <1>2, <1>k, <2>6, <4>1 DEF Fresh
      <4> QED
        BY <2>6, <4>2
    <3> QED
      BY <1>k, <1>t, <2>2, <3>1, <3>2 DEF Types
  <2>7. \A a, b \in Server : \A n \in Message :
          /\ Fresh(a, b, n) /\ Sound(n)
          /\ a = r /\ b = q /\ m.type = "Decide" /\ n.type = "Decide" => n.slot # m.slot
          => Fresh(a, b, n)'
    BY <1>2, <1>u, <2>6 DEF Fresh
  <2> QED
    BY <1>w, <2>3, <2>4, <2>5, <2>7 DEF EInv, ToldOnce
<1> QED
  BY <1>1, <1>2, <1>d

(* Every step keeps the invariant of execution.                             *)
LEMMA EInvStep == IInv /\ EInv /\ [Next]_vars => EInv'
<1> SUFFICES ASSUME IInv, EInv, [Next]_vars PROVE EInv'
  OBVIOUS
<1>0. IInv'
  BY IInvStep
<1>1. ASSUME NEW r \in Server, NEW c \in Cmd, Submit(r, c) PROVE EInv'
  BY <1>0, <1>1, SubmitRuns
<1>2. ASSUME NEW s \in Slot, Commit(s) PROVE EInv'
  BY <1>2, CommitRuns
<1>3. ASSUME NEW r \in Server, NEW q \in Server, Deliver(r, q) PROVE EInv'
  BY <1>3, DeliverRuns
<1>4. CASE UNCHANGED vars
  <2> USE <1>4 DEF EInv, vars
  <2>1. Singles' /\ Shapes'
    BY DEF Singles, AllSingle, Shapes
  <2>2. ServersRun'
    BY DEF ServersRun
  <2>3. ToldOnce'
    BY DEF ToldOnce, Undecided, QueueFresh, Fresh
  <2> QED
    BY <2>1, <2>2, <2>3
<1> QED
  BY <1>1, <1>2, <1>3, <1>4 DEF Next

(* The invariants hold in every reachable state.                            *)
LEMMA Invariant == Spec => [](IInv /\ EInv)
<1>1. Init => IInv /\ EInv
  BY IInvInit, EInvInit
<1>2. IInv /\ EInv /\ [Next]_vars => IInv' /\ EInv'
  BY IInvStep, EInvStep
<1> QED
  BY <1>1, <1>2, PTL DEF Spec

(* A set of at most one command has at most one element.                    *)
LEMMA SingleSize ==
  ASSUME NEW S, Single(S)
  PROVE  Cardinality(S) <= 1
<1>1. CASE S = {}
  BY <1>1, FS_EmptySet
<1>2. ASSUME NEW c \in Cmd, S = {c} PROVE Cardinality(S) <= 1
  <2>1. Cardinality({c}) = 1
    BY FS_Singleton
  <2> QED
    BY <1>2, <2>1
<1> QED
  BY <1>1, <1>2 DEF Single

(* Types: a server never holds two commands of one slot, its prefix of      *)
(* executed slots stays within the slots, and no key's count of unexecuted  *)
(* commands goes below zero.                                                *)
THEOREM TypeCorrect == Spec => []TypeOK
<1>1. IInv /\ EInv => TypeOK
  <2> SUFFICES ASSUME IInv, EInv PROVE TypeOK
    OBVIOUS
  <2>1. /\ slot_hint \in [Server -> Nat] /\ waiting \subseteq Slot
        /\ \A s \in Slot : proposed[s] \subseteq [by: Server, cmd: Cmd] /\ acked[s] \subseteq Server
    BY DEF IInv, EInv, Types, ToldOnce
  <2>2. ASSUME NEW r \in Server, NEW s \in Slot
        PROVE  Cardinality(cmd_[r][s]) <= 1 /\ Cardinality(committed[r][s]) <= 1
    BY SingleSize DEF EInv, Singles, AllSingle
  <2>3. ASSUME NEW r \in Server
        PROVE  /\ Range(executed[r]) \subseteq Slot
               /\ max_executed[r] \in 0 .. MaxSlot
               /\ unexecuted[r] \in [Key -> Nat]
    BY DEF EInv, Shapes, ServersRun, AllRun, Decided
  <2> QED
    BY <2>1, <2>2, <2>3 DEF TypeOK
<1> QED
  BY <1>1, Invariant, PTL

(* Execution: OnCommit's two loops execute each decided slot once, in the   *)
(* handler of its decision, and leave no key counted: the conflict test of  *)
(* the second loop never holds a command back.                              *)
THEOREM EachRunOnce == Spec => []ExecutedWhenDecided
<1>1. EInv => ExecutedWhenDecided
  <2> SUFFICES ASSUME EInv, NEW r \in Server
               PROVE  LET decided == {s \in Slot : committed[r][s] # {}} IN
                      /\ Range(executed[r]) = decided
                      /\ IsInjective(executed[r])
                      /\ \A k \in Key : unexecuted[r][k] = 0
                      /\ 1 .. max_executed[r] \subseteq decided
                      /\ max_executed[r] + 1 \notin decided
    BY DEF ExecutedWhenDecided
  <2>1. AllRun(committed[r], executed[r], max_executed[r], unexecuted[r])
    BY DEF EInv, ServersRun
  <2>2. \A k \in Key : unexecuted[r][k] = 0
    BY <2>1 DEF AllRun, Zero
  <2> QED
    BY <2>1, <2>2 DEF AllRun, DecidedUpTo, Decided
<1> QED
  BY <1>1, Invariant, PTL
================================================================================
