------------------------------- MODULE RaftLease -------------------------------
(***************************************************************************)
(* The read lease of a Raft leader (raft/server.cc HasReadLease,           *)
(* RecomputeLeaseLocked, setIsLeader; none/scheduler.cc), on top of        *)
(* RaftServer: every step of RaftServer is a step here that also keeps the *)
(* lease's clocks, and time passes between steps.                          *)
(*                                                                         *)
(* MonotonicNowUs counts ticks of one clock; steady_clock runs at the same *)
(* rate everywhere, and a lease never compares readings of two servers.    *)
(***************************************************************************)
EXTENDS RaftServer, FiniteSetsExt, Functions

CONSTANTS
  kReadLeaseDurationUs,
  MaxNow            \* bound: ticks

ASSUME LeaseAssumption ==
  /\ kReadLeaseDurationUs \in Nat \ {0}
  /\ MaxNow \in Nat

VARIABLES
  ae_sent,  \* ae_sent[r]: last_ae_send_us_, a function on the followers
            \* that have answered
  expires,  \* expires[r]: lease_expires_us_
  warmup    \* warmup[r]: leader_warmup_until_us_

leaseVars == <<ae_sent, expires, warmup>>

LeaseInit ==
  /\ Init
  /\ ae_sent = [r \in Server |-> << >>]
  /\ expires = [r \in Server |-> 0]
  /\ warmup = [r \in Server |-> 0]

HasReadLease(r) ==
  /\ r \in leaders
  /\ now >= warmup[r]
  /\ now < expires[r]

(* RecomputeLeaseLocked: the anchor is the oldest of the n/2 latest         *)
(* answered sends; the deadline only moves forward.                         *)
Anchor(times) ==
  Max({t \in Range(times) :
         Cardinality({f \in DOMAIN times : times[f] >= t}) >= N \div 2})

RecomputeLease(old, times) ==
  IF Cardinality(DOMAIN times) < N \div 2 THEN 0
  ELSE MaxOf(old, Anchor(times) + kReadLeaseDurationUs)

MutWarmUp == now + kReadLeaseDurationUs - 1

WarmUp == now + kReadLeaseDurationUs

(* setIsLeader: a new leader warms up, and a leader that steps down drops   *)
(* its lease; neither has an answered heartbeat.                            *)
SetIsLeader ==
  LET turned == (leaders \ leaders') \cup (leaders' \ leaders) IN
  /\ ae_sent' = [r \in Server |-> IF r \in turned THEN << >> ELSE ae_sent[r]]
  /\ expires' = [r \in Server |-> IF r \in turned THEN 0 ELSE expires[r]]
  /\ warmup' = [r \in Server |-> IF r \notin turned THEN warmup[r]
                                 ELSE IF r \in leaders' THEN WarmUp ELSE 0]

--------------------------------------------------------------------------------
Tick ==
  /\ now < MaxNow
  /\ now' = now + 1
  /\ UNCHANGED <<currentTerm, leaders, logVars, peer, cand, gateVars, netVars,
                 led, leaseVars>>

(* Steps of RaftServer that make no leader and unmake none.                 *)
PlainStep ==
  /\ \/ \E r \in Server : RequestVote(r) \/ GiveUp(r) \/ AdvanceCommit(r)
     \/ \E h \in Host : Failover(h)
     \/ \E r \in Server, c \in Cmd : Start(r, c)
     \/ \E r, f \in Server : SendAppend(r, f) \/ RpcTimeout(r, f)
     \/ \E m \in DOMAIN acks : AckIgnored(m) \/ AckRejected(m) \/ RpcError(m)
  /\ UNCHANGED leaseVars

(* Steps that end in setIsLeader, if they change the role.                  *)
RoleStep ==
  /\ \/ \E r \in Server : Win(r) \/ Demote(r)
     \/ \E s, d \in Server : Deliver(s, d)
     \/ \E m \in DOMAIN acks : AckNewerTerm(m)
  /\ SetIsLeader

(* An accepted AppendEntries of the current term renews the lease.          *)
Renew(m) ==
  LET r == m.to
      times == [f \in DOMAIN ae_sent[r] \cup {m.from} |->
                  IF f = m.from THEN m.at ELSE ae_sent[r][f]]
  IN
  /\ AckAccepted(m)
  /\ IF r \in leaders
     THEN /\ ae_sent' = [ae_sent EXCEPT ![r] = times]
          /\ expires' = [expires EXCEPT ![r] = RecomputeLease(@, times)]
     ELSE UNCHANGED <<ae_sent, expires>>
  /\ UNCHANGED warmup

LeaseNext ==
  \/ Tick
  \/ PlainStep
  \/ RoleStep
  \/ \E m \in DOMAIN acks : Renew(m)

LeaseSpec == LeaseInit /\ [][LeaseNext]_<<vars, leaseVars>>

--------------------------------------------------------------------------------
(* As long as leaders were elected, two servers never hold a read lease at  *)
(* the same time: the quorum behind the older lease and the votes of the    *)
(* newer leader meet in a server, so the warm-up outlasts the older lease,  *)
(* whatever the order of votes, heartbeats and their replies.               *)
AtMostOneLease ==
  LeadersElected =>
    \A r, q \in Server : HasReadLease(r) /\ HasReadLease(q) => r = q

(* A new leader serves no read under a lease before the prior leader's has  *)
(* expired (the comment in setIsLeader), so two never do.  A leader that    *)
(* doVote lifts into a newer term breaks this: README, section 5.           *)
LeaseIsExclusive ==
  \A r, q \in Server : HasReadLease(r) /\ HasReadLease(q) => r = q
================================================================================
