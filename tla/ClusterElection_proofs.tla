----------------------- MODULE ClusterElection_proofs -----------------------
(***************************************************************************)
(* ElectionInvariant is an invariant of every cluster, and with a static   *)
(* membership it leaves no room for two leaders in one term.               *)
(*                                                                         *)
(* All actions but four change one manager and send messages in its name   *)
(* (Step).  Lawful says what such a change may be; StepPreserves shows     *)
(* that a lawful step preserves the invariant, and one lemma per action    *)
(* shows that the action is lawful.  What a lawful step is (OneMoves) also *)
(* shows that votes are final and, with what the actions do to timers and  *)
(* phases (Ticks), that the cluster implements TermLeadership.             *)
(***************************************************************************)
EXTENDS ClusterElection, FiniteSetTheorems, TLAPS

USE NoneAssumption, EnvironmentAssumption

-----------------------------------------------------------------------------
(* The private methods: what they return and what they leave alone.        *)

(* The fields that votes, promotions and claims are about.                 *)
SameBallot(s, n) == /\ s.term = n.term /\ s.role = n.role /\ s.leader = n.leader
                    /\ s.vote = n.vote /\ s.votes = n.votes

SamePeers(s, n) == s.members = n.members /\ s.known = n.known

(* scheduleElection touches nothing but the timer.                         *)
LEMMA ScheduleElectionKeeps ==
    ASSUME NEW n \in Manager
    PROVE  LET s == ScheduleElection(n) IN
           s \in Manager /\ SameBallot(s, n) /\ SamePeers(s, n)
BY DEF ScheduleElection, Manager, SameBallot, SamePeers

(* stepDown for a higher term forgets the old ballot; no other term does.  *)
LEMMA StepDownIfBehindResult ==
    ASSUME NEW n \in Manager, NEW t \in Term
    PROVE  LET s == StepDownIfBehind(n, t) IN
           /\ s \in Manager /\ SamePeers(s, n)
           /\ t <= n.term => s = n
           /\ t > n.term => /\ s.term = t /\ s.role = "follower" /\ s.leader = None
                            /\ s.vote = None /\ s.votes = {}
<1>1. n.term \in Int /\ t \in Int
  BY DEF Manager, Term
<1>2. CASE t > n.term
  <2>1. StepDownIfBehind(n, t) = StepDown(n, t)
    BY <1>2 DEF StepDownIfBehind
  <2>2. StepDown(n, t) \in Manager
    BY DEF StepDown, Manager, Role
  <2>3. LET s == StepDown(n, t) IN
        /\ SamePeers(s, n) /\ s.term = t /\ s.role = "follower"
        /\ s.leader = None /\ s.vote = None /\ s.votes = {}
    BY DEF StepDown, Manager, SamePeers
  <2> QED BY <1>1, <1>2, <2>1, <2>2, <2>3
<1>3. CASE ~ (t > n.term)
  BY <1>1, <1>3 DEF StepDownIfBehind, SamePeers
<1> QED BY <1>2, <1>3

(* relinquishLeadership forgets the ballot and keeps the term.             *)
LEMMA RelinquishResult ==
    ASSUME NEW n \in Manager
    PROVE  LET s == RelinquishLeadership(n) IN
           /\ s \in Manager /\ SamePeers(s, n) /\ s.term = n.term
           /\ s.role = "follower" /\ s.leader = None /\ s.vote = None /\ s.votes = {}
<1> DEFINE r == [n EXCEPT !.role = "follower", !.leader = None, !.lease = FALSE,
                          !.vote = None, !.votes = {}, !.heartbeatTimer = FALSE]
<1>1. /\ r \in Manager /\ SamePeers(r, n) /\ r.term = n.term
      /\ r.role = "follower" /\ r.leader = None /\ r.vote = None /\ r.votes = {}
  BY DEF Manager, SamePeers, Role
<1>2. RelinquishLeadership(n) = ScheduleElection(r)
  BY DEF RelinquishLeadership
<1> HIDE DEF r
<1>3. LET s == RelinquishLeadership(n) IN
      s \in Manager /\ SameBallot(s, r) /\ SamePeers(s, r)
  BY <1>1, <1>2, ScheduleElectionKeeps
<1> QED BY <1>1, <1>3 DEF SameBallot, SamePeers

(* sendHeartbeats leaves a leader as it is or makes it relinquish.         *)
LEMMA SendHeartbeatsResult ==
    ASSUME NEW n \in Manager, NEW i \in Node, n.role = "leader"
    PROVE  LET s == SendHeartbeats(n, i) IN
           /\ s \in Manager /\ SamePeers(s, n) /\ s.term = n.term
           /\ \/ SameBallot(s, n)
              \/ /\ s.role = "follower" /\ s.leader = None
                 /\ s.vote = None /\ s.votes = {}
<1>1. CASE HasLeaderQuorum(n, i)
  BY <1>1 DEF SendHeartbeats, Manager, SameBallot, SamePeers
<1>2. CASE ~ HasLeaderQuorum(n, i)
  BY <1>2, RelinquishResult DEF SendHeartbeats
<1> QED BY <1>1, <1>2

(* becomeLeader makes the server a leader that voted for itself, or one    *)
(* that relinquished at once.                                              *)
LEMMA BecomeLeaderResult ==
    ASSUME NEW n \in Manager, NEW i \in Node
    PROVE  LET s == BecomeLeader(n, i) IN
           /\ s \in Manager /\ SamePeers(s, n) /\ s.term = n.term
           /\ \/ /\ s.role = "leader" /\ s.leader = i
                 /\ s.vote = i /\ s.votes = n.votes
              \/ /\ s.role = "follower" /\ s.leader = None
                 /\ s.vote = None /\ s.votes = {}
<1> DEFINE r == [n EXCEPT !.role = "leader", !.leader = i, !.lease = TRUE,
                          !.vote = i, !.electionTimer = FALSE]
           h == SendHeartbeats(r, i)
<1>1. /\ r \in Manager /\ SamePeers(r, n) /\ r.term = n.term
      /\ r.role = "leader" /\ r.leader = i /\ r.vote = i /\ r.votes = n.votes
  BY DEF Manager, SamePeers, Role
<1>2. /\ h \in Manager /\ SamePeers(h, r) /\ h.term = r.term
      /\ \/ SameBallot(h, r)
         \/ h.role = "follower" /\ h.leader = None /\ h.vote = None /\ h.votes = {}
  BY <1>1, SendHeartbeatsResult
<1>3. BecomeLeader(n, i) = [h EXCEPT !.heartbeatTimer = TRUE]
  BY DEF BecomeLeader
<1> HIDE DEF r, h
<1> QED BY <1>1, <1>2, <1>3 DEF SameBallot, SamePeers, Manager

(* observeLeader of another server: ignored, or followed in its term.      *)
LEMMA ObserveLeaderResult ==
    ASSUME NEW n \in Manager, NEW i \in Node, NEW l \in Node, l # i,
           NEW t \in Term, NEW source
    PROVE  LET s == ObserveLeader(n, i, l, t, source) IN
           /\ s \in Manager /\ SamePeers(s, n)
           /\ \/ s = n
              \/ /\ s.role = "follower" /\ s.leader = l /\ s.term = t
                 /\ \/ t = n.term /\ s.vote = n.vote /\ s.votes = n.votes
                    \/ t > n.term /\ s.vote = None /\ s.votes = {}
<1> DEFINE d == StepDownIfBehind(n, t)
           f == [d EXCEPT !.role = "follower", !.leader = l,
                          !.lease = TRUE, !.heartbeatTimer = FALSE]
           s == ObserveLeader(n, i, l, t, source)
<1>1. s = n \/ (s = ScheduleElection(f) /\ ~ (t < n.term))
  BY DEF ObserveLeader
<1>2. CASE s = n
  BY <1>2 DEF SamePeers
<1>3. CASE s = ScheduleElection(f) /\ ~ (t < n.term)
  <2>1. d \in Manager /\ SamePeers(d, n)
        /\ (t <= n.term => d = n)
        /\ (t > n.term => d.term = t /\ d.vote = None /\ d.votes = {})
    BY StepDownIfBehindResult
  <2>2. n.term \in Int /\ t \in Int
    BY DEF Manager, Term
  <2>3. /\ d.term = t
        /\ \/ t = n.term /\ d.vote = n.vote /\ d.votes = n.votes
           \/ t > n.term /\ d.vote = None /\ d.votes = {}
    BY <1>3, <2>1, <2>2
  <2> HIDE DEF d
  <2>4. /\ f \in Manager /\ SamePeers(f, d) /\ f.role = "follower" /\ f.leader = l
        /\ f.term = d.term /\ f.vote = d.vote /\ f.votes = d.votes
    BY <2>1 DEF Manager, SamePeers, Role
  <2> HIDE DEF f
  <2>5. s \in Manager /\ SameBallot(s, f) /\ SamePeers(s, f)
    BY <1>3, <2>4, ScheduleElectionKeeps
  <2> QED BY <2>1, <2>3, <2>4, <2>5 DEF SameBallot, SamePeers
<1> QED BY <1>1, <1>2, <1>3

(* A peer that is heard joins the peers.                                   *)
LEMMA HeardKeeps ==
    ASSUME NEW n \in Manager, NEW i \in Node, NEW j \in Node, i # j
    PROVE  LET s == Heard(n, j) IN
           /\ s \in Manager /\ SameBallot(s, n)
           /\ i \notin n.known => i \notin s.known
           /\ n.members = Node => s.members = Node
<1>1. Heard(n, j) \in Manager /\ SameBallot(Heard(n, j), n)
  BY DEF Heard, Manager, SameBallot
<1>2. /\ Heard(n, j).known = n.known \cup {j}
      /\ Heard(n, j).members = n.members \cup {j}
  BY DEF Heard, Manager
<1> QED BY <1>1, <1>2
-----------------------------------------------------------------------------
(* What a step of manager i to n, which sends "out", may be.               *)

LawfulOut(i, n, out) ==
    /\ out \subseteq Message
    /\ \A m \in out :
         /\ m.from = i /\ m.to # i /\ m.term = n.term
         /\ m.type \in {"hello", "meta"} => m.leader \in {None, i}
         /\ m.type \in {"heartbeat", "resign"} => m.leader = i
         /\ m.type = "voteResponse" /\ m.granted => n.vote = m.to
         /\ Claims(m) => m.leader = n.leader

LawfulPeers(i, n) == i \notin n.known /\ (Static => n.members = Node)

LawfulBallot(i, n) ==
    LET o == mgr[i] IN
    /\ n.term >= o.term
    /\ n.role # "follower" => n.vote = i
    /\ n.leader = i <=> n.role = "leader"
    /\ n.leader \notin {None, i} => <<n.term, n.leader>> \in elected
    /\ n.term = o.term /\ o.vote \notin {None, i} => n.vote = o.vote
    /\ \A v \in n.votes \ {i} : Backs(v, i, n.term)

LawfulPromotion(i, n) ==
    LET o == mgr[i] IN
    /\ n.role = "candidate"
         => n.term > o.term \/ (n.term = o.term /\ o.role = "candidate")
    /\ n.role = "leader" /\ o.role = "leader" => n.term = o.term /\ n.votes = o.votes
    /\ n.role = "leader" /\ o.role # "leader"
         => /\ n.term > o.term \/ o.role = "candidate"
            /\ Static => Cardinality(n.votes) >= QuorumSize(n)

Lawful(i, n, out) ==
    /\ n \in Manager
    /\ LawfulOut(i, n, out) /\ LawfulPeers(i, n)
    /\ LawfulBallot(i, n) /\ LawfulPromotion(i, n)

(* What every step leaves behind, before any invariant is looked at.       *)
LEMMA StepEffect ==
    ASSUME TypeOK, NEW i \in Node, NEW n, NEW used, NEW out,
           Lawful(i, n, out), Step(i, n, used, out)
    PROVE  /\ TypeOK'
           /\ mgr'[i] = n
           /\ \A j \in Node \ {i} : mgr'[j] = mgr[j]
           /\ \A m \in msgs' : m \in msgs \/ m \in out
           /\ elected \subseteq elected'
           /\ n.role = "leader" /\ mgr[i].role # "leader" => <<n.term, i>> \in elected'
           /\ \A e \in elected' \ elected :
                e = <<n.term, i>> /\ n.role = "leader" /\ mgr[i].role # "leader"
<1>1. /\ mgr' = [mgr EXCEPT ![i] = n]
      /\ msgs' = (msgs \ used) \cup out
      /\ elected' = elected \cup NewlyElected(n, mgr[i], i)
      /\ link' = link
  BY DEF Step
<1>2. n \in Manager /\ out \subseteq Message /\ n.term \in Term
  BY DEF Lawful, LawfulOut, Manager
<1>3. mgr' \in [Node -> Manager] /\ mgr'[i] = n
      /\ \A j \in Node \ {i} : mgr'[j] = mgr[j]
  BY <1>1, <1>2 DEF TypeOK
<1>4. msgs' \subseteq Message /\ \A m \in msgs' : m \in msgs \/ m \in out
  BY <1>1, <1>2 DEF TypeOK
<1>5. elected' \subseteq (Term \X Node)
  BY <1>1, <1>2 DEF TypeOK, NewlyElected
<1>6. TypeOK'
  BY <1>1, <1>3, <1>4, <1>5 DEF TypeOK
<1>7. /\ elected \subseteq elected'
      /\ n.role = "leader" /\ mgr[i].role # "leader" => <<n.term, i>> \in elected'
      /\ \A e \in elected' \ elected :
           e = <<n.term, i>> /\ n.role = "leader" /\ mgr[i].role # "leader"
  BY <1>1 DEF NewlyElected
<1> QED BY <1>3, <1>4, <1>6, <1>7

(* The votes behind a server after a lawful step are old ones, or the one  *)
(* vote that the step sends.                                               *)
LEMMA StepBacks ==
    ASSUME TypeOK, NEW i \in Node, NEW n, NEW used, NEW out,
           Lawful(i, n, out), Step(i, n, used, out),
           NEW v \in Node, NEW c \in Node, NEW t \in Term, v # c, Backs(v, c, t)'
    PROVE  \/ Backs(v, c, t)
           \/ v = i /\ t = n.term /\ n.vote = c
<1>1. /\ mgr'[i] = n
      /\ \A j \in Node \ {i} : mgr'[j] = mgr[j]
      /\ \A m \in msgs' : m \in msgs \/ m \in out
  BY StepEffect
<1>2. CASE mgr'[c].term = t /\ v \in mgr'[c].votes
  <2>1. CASE c = i
    BY <1>1, <1>2, <2>1 DEF Lawful, LawfulBallot
  <2>2. CASE c # i
    BY <1>1, <1>2, <2>2 DEF Backs
  <2> QED BY <2>1, <2>2
<1>3. ASSUME NEW m \in msgs', m.type = "voteResponse", m.granted,
             m.from = v, m.to = c, m.term = t
      PROVE  \/ Backs(v, c, t)
             \/ v = i /\ t = n.term /\ n.vote = c
  <2>1. CASE m \in msgs
    BY <1>3, <2>1 DEF Backs
  <2>2. CASE m \in out
    BY <1>3, <2>2 DEF Lawful, LawfulOut
  <2> QED BY <1>1, <2>1, <2>2
<1> QED BY <1>2, <1>3 DEF Backs

(* A lawful step preserves the invariant.                                  *)
LEMMA StepPreserves ==
    ASSUME ElectionInvariant, NEW i \in Node, NEW n, NEW used, NEW out,
           Lawful(i, n, out), Step(i, n, used, out)
    PROVE  ElectionInvariant'
<1> DEFINE o == mgr[i]
<1>1. TypeOK /\ o \in Manager /\ n \in Manager /\ o.term \in Term /\ n.term \in Term
      /\ \A j \in Node : mgr[j] \in Manager /\ mgr[j].term \in Term
  BY DEF ElectionInvariant, TypeOK, Lawful, Manager
<1>2. /\ TypeOK'
      /\ mgr'[i] = n
      /\ \A j \in Node \ {i} : mgr'[j] = mgr[j]
      /\ \A m \in msgs' : m \in msgs \/ m \in out
      /\ elected \subseteq elected'
      /\ n.role = "leader" /\ o.role # "leader" => <<n.term, i>> \in elected'
      /\ \A e \in elected' \ elected :
           e = <<n.term, i>> /\ n.role = "leader" /\ o.role # "leader"
  BY <1>1, StepEffect
<1>3. PeersAreOthers'
  BY <1>2 DEF ElectionInvariant, PeersAreOthers, Lawful, LawfulOut, LawfulPeers
<1>4. KnowsItself'
  BY <1>2 DEF ElectionInvariant, KnowsItself, Lawful, LawfulBallot
<1>5. BackersRemember'
  <2> SUFFICES ASSUME NEW v \in Node, NEW c \in Node, NEW t \in Term,
                      Backs(v, c, t)', v # c
               PROVE  mgr'[v].term > t \/ (mgr'[v].term = t /\ mgr'[v].vote = c)
    BY DEF BackersRemember
  <2>1. \/ Backs(v, c, t)
        \/ v = i /\ t = n.term /\ n.vote = c
    BY <1>1, StepBacks
  <2>2. CASE v = i /\ t = n.term /\ n.vote = c
    BY <1>2, <2>2
  <2>3. CASE Backs(v, c, t)
    <3>1. mgr[v].term > t \/ (mgr[v].term = t /\ mgr[v].vote = c)
      BY <2>3 DEF ElectionInvariant, BackersRemember
    <3>2. CASE v # i
      BY <1>2, <3>1, <3>2
    <3>3. CASE v = i
      <4>1. n.term >= o.term
            /\ (n.term = o.term /\ o.vote \notin {None, i} => n.vote = o.vote)
        BY DEF Lawful, LawfulBallot
      <4>2. n.term \in Int /\ o.term \in Int /\ t \in Int
        BY <1>1 DEF Term
      <4> QED BY <1>2, <3>1, <3>3, <4>1, <4>2
    <3> QED BY <3>2, <3>3
  <2> QED BY <2>1, <2>2, <2>3
<1>6. BacksOneOther'
  <2> SUFFICES ASSUME NEW v \in Node, NEW c \in Node, NEW d \in Node, NEW t \in Term,
                      Backs(v, c, t)', Backs(v, d, t)', v \notin {c, d}
               PROVE  c = d
    BY DEF BacksOneOther
  <2>1. \/ Backs(v, c, t)
        \/ v = i /\ t = n.term /\ n.vote = c
    BY <1>1, StepBacks
  <2>2. \/ Backs(v, d, t)
        \/ v = i /\ t = n.term /\ n.vote = d
    BY <1>1, StepBacks
  <2>3. \A e \in Node : Backs(v, e, t) /\ v # e /\ v = i /\ t = n.term => n.vote = e
    <3> SUFFICES ASSUME NEW e \in Node, Backs(v, e, t), v # e, v = i, t = n.term
                 PROVE  n.vote = e
      OBVIOUS
    <3>1. o.term > t \/ (o.term = t /\ o.vote = e)
      BY DEF ElectionInvariant, BackersRemember
    <3>2. n.term >= o.term
          /\ (n.term = o.term /\ o.vote \notin {None, i} => n.vote = o.vote)
      BY DEF Lawful, LawfulBallot
    <3>3. n.term \in Int /\ o.term \in Int
      BY <1>1 DEF Term
    <3> QED BY <3>1, <3>2, <3>3
  <2>4. Backs(v, c, t) /\ Backs(v, d, t) => c = d
    BY DEF ElectionInvariant, BacksOneOther
  <2> QED BY <2>1, <2>2, <2>3, <2>4
<1>7. LeadersHaveQuorum'
  <2> SUFFICES ASSUME NEW j \in Node, Static, mgr'[j].role = "leader"
               PROVE  Cardinality(mgr'[j].votes) >= QuorumSize(mgr'[j])
    BY DEF LeadersHaveQuorum, QuorumSize
  <2>1. CASE j # i
    BY <1>2, <2>1 DEF ElectionInvariant, LeadersHaveQuorum
  <2>2. CASE j = i /\ o.role # "leader"
    BY <1>2, <2>2 DEF Lawful, LawfulPromotion
  <2>3. CASE j = i /\ o.role = "leader"
    <3>1. Cardinality(o.votes) >= QuorumSize(o) /\ o.members = Node
      BY <2>3 DEF ElectionInvariant, LeadersHaveQuorum, PeersAreOthers
    <3>2. n.votes = o.votes /\ n.members = Node
      BY <1>2, <2>3 DEF Lawful, LawfulPromotion, LawfulPeers
    <3> QED BY <1>2, <2>3, <3>1, <3>2 DEF QuorumSize
  <2> QED BY <2>1, <2>2, <2>3
<1>8. FollowsElected'
  <2> SUFFICES ASSUME NEW j \in Node, mgr'[j].leader # None
               PROVE  <<mgr'[j].term, mgr'[j].leader>> \in elected'
    BY DEF FollowsElected
  <2>1. CASE j # i
    BY <1>2, <2>1 DEF ElectionInvariant, FollowsElected
  <2>2. CASE j = i /\ n.leader # i
    BY <1>2, <2>2 DEF Lawful, LawfulBallot
  <2>3. CASE j = i /\ n.leader = i
    <3>1. n.role = "leader"
      BY <2>3 DEF Lawful, LawfulBallot
    <3>2. CASE o.role = "leader"
      <4>1. o.leader = i /\ n.term = o.term
        BY <3>1, <3>2 DEF ElectionInvariant, KnowsItself, Lawful, LawfulPromotion
      <4>2. <<o.term, i>> \in elected
        BY <4>1 DEF ElectionInvariant, FollowsElected
      <4> QED BY <1>2, <2>3, <4>1, <4>2
    <3>3. CASE o.role # "leader"
      BY <1>2, <2>3, <3>1, <3>3
    <3> QED BY <3>2, <3>3
  <2> QED BY <2>1, <2>2, <2>3
<1>9. ClaimsAreTrue'
  <2> SUFFICES ASSUME NEW m \in msgs', Claims(m)
               PROVE  <<m.term, m.leader>> \in elected'
    BY DEF ClaimsAreTrue, Claims
  <2>1. CASE m \in msgs
    BY <1>2, <2>1 DEF ElectionInvariant, ClaimsAreTrue
  <2>2. CASE m \in out
    <3>1. m.term = n.term /\ m.leader = n.leader /\ m.leader # None
      BY <2>2 DEF Lawful, LawfulOut, Claims
    <3> QED BY <1>2, <1>8, <3>1 DEF FollowsElected
  <2> QED BY <1>2, <2>1, <2>2
<1>10. ElectedNeverCampaignAgain'
  <2> SUFFICES ASSUME NEW t \in Term, NEW j \in Node, <<t, j>> \in elected'
               PROVE  mgr'[j].term > t \/ (mgr'[j].term = t /\ mgr'[j].role # "candidate")
    BY DEF ElectedNeverCampaignAgain
  <2>1. CASE <<t, j>> \notin elected
    BY <1>2, <2>1
  <2>2. CASE <<t, j>> \in elected
    <3>1. mgr[j].term > t \/ (mgr[j].term = t /\ mgr[j].role # "candidate")
      BY <2>2 DEF ElectionInvariant, ElectedNeverCampaignAgain
    <3>2. CASE j # i
      BY <1>2, <3>1, <3>2
    <3>3. CASE j = i
      <4>1. n.term >= o.term
            /\ (n.role = "candidate"
                  => n.term > o.term \/ (n.term = o.term /\ o.role = "candidate"))
        BY DEF Lawful, LawfulBallot, LawfulPromotion
      <4>2. n.term \in Int /\ o.term \in Int /\ t \in Int
        BY <1>1 DEF Term
      <4> QED BY <1>2, <3>1, <3>3, <4>1, <4>2
    <3> QED BY <3>2, <3>3
  <2> QED BY <2>1, <2>2
<1> QED BY <1>2, <1>3, <1>4, <1>5, <1>6, <1>7, <1>8, <1>9, <1>10 DEF ElectionInvariant

(* What a step of the cluster may be: one server moves lawfully, and who is *)
(* new as a leader is entered as elected.                                   *)
OneMoves(i) ==
    /\ LawfulBallot(i, mgr'[i]) /\ LawfulPromotion(i, mgr'[i])
    /\ \A j \in Node \ {i} : SameBallot(mgr'[j], mgr[j])
    /\ elected' = elected \cup NewlyElected(mgr'[i], mgr[i], i)

Advances == ElectionInvariant' /\ \E i \in Node : OneMoves(i)

(* A lawful step of a manager is one.                                       *)
LEMMA StepAdvances ==
    ASSUME ElectionInvariant, NEW i \in Node, NEW n, NEW used, NEW out,
           Lawful(i, n, out), Step(i, n, used, out)
    PROVE  Advances
<1>1. ElectionInvariant'
  BY StepPreserves
<1>2. mgr'[i] = n /\ \A j \in Node \ {i} : mgr'[j] = mgr[j]
  BY StepEffect DEF ElectionInvariant
<1>3. elected' = elected \cup NewlyElected(n, mgr[i], i)
  BY DEF Step
<1>4. OneMoves(i)
  BY <1>2, <1>3 DEF OneMoves, Lawful, SameBallot
<1> QED BY <1>1, <1>4 DEF Advances

-----------------------------------------------------------------------------
(* Lawful steps.                                                           *)

(* A step that keeps the ballot is lawful as far as the ballot goes.       *)
LEMMA SameBallotIsLawful ==
    ASSUME ElectionInvariant, NEW i \in Node, NEW n \in Manager, SameBallot(n, mgr[i])
    PROVE  LawfulBallot(i, n) /\ LawfulPromotion(i, n)
<1>1. mgr[i] \in Manager /\ mgr[i].term \in Int
  BY DEF ElectionInvariant, TypeOK, Manager, Term
<1>2. LawfulBallot(i, n)
  BY <1>1 DEF ElectionInvariant, KnowsItself, FollowsElected, SameBallot, LawfulBallot, Backs
<1>3. LawfulPromotion(i, n)
  BY <1>1 DEF SameBallot, LawfulPromotion
<1> QED BY <1>2, <1>3

(* So is forgetting it, in a later term or by a leader or candidate, which *)
(* voted for itself.                                                       *)
LEMMA ForgettingIsLawful ==
    ASSUME ElectionInvariant, NEW i \in Node, NEW n \in Manager,
           n.role = "follower", n.leader = None, n.vote = None, n.votes = {},
           \/ n.term > mgr[i].term
           \/ n.term = mgr[i].term /\ mgr[i].role # "follower"
    PROVE  LawfulBallot(i, n) /\ LawfulPromotion(i, n)
<1>1. mgr[i] \in Manager /\ mgr[i].term \in Int /\ n.term \in Int
  BY DEF ElectionInvariant, TypeOK, Manager, Term
<1>2. mgr[i].role # "follower" => mgr[i].vote = i
  BY DEF ElectionInvariant, KnowsItself
<1>3. LawfulBallot(i, n)
  BY <1>1, <1>2 DEF LawfulBallot
<1>4. LawfulPromotion(i, n)
  BY <1>1 DEF LawfulPromotion
<1> QED BY <1>3, <1>4

(* So is following a server elected in the same or a later term.           *)
LEMMA FollowingIsLawful ==
    ASSUME ElectionInvariant, NEW i \in Node, NEW l \in Node, l # i,
           NEW n \in Manager, n.role = "follower", n.leader = l,
           <<n.term, l>> \in elected,
           \/ n.term = mgr[i].term /\ n.vote = mgr[i].vote /\ n.votes = mgr[i].votes
           \/ n.term > mgr[i].term /\ n.vote = None /\ n.votes = {}
    PROVE  LawfulBallot(i, n) /\ LawfulPromotion(i, n)
<1>1. mgr[i] \in Manager /\ mgr[i].term \in Int /\ n.term \in Int
  BY DEF ElectionInvariant, TypeOK, Manager, Term
<1>2. LawfulBallot(i, n)
  BY <1>1 DEF LawfulBallot, Backs
<1>3. LawfulPromotion(i, n)
  BY <1>1 DEF LawfulPromotion
<1> QED BY <1>2, <1>3

(* The receiver of a message, before the message is looked at.             *)
LEMMA ReceiverResult ==
    ASSUME ElectionInvariant, NEW m \in msgs
    PROVE  /\ m \in Message /\ m.to \in Node /\ m.from \in Node /\ m.term \in Term
           /\ m.leader \in Node \cup {None}
           /\ mgr[m.to] \in Manager
           /\ Receiver(m) \in Manager /\ SameBallot(Receiver(m), mgr[m.to])
           /\ \A s : SamePeers(s, Receiver(m)) => LawfulPeers(m.to, s)
<1>1. /\ m \in Message /\ m.to \in Node /\ m.from \in Node /\ m.term \in Term
      /\ m.leader \in Node \cup {None} /\ m.from # m.to /\ mgr[m.to] \in Manager
      /\ m.to \notin mgr[m.to].known /\ (Static => mgr[m.to].members = Node)
  BY DEF ElectionInvariant, TypeOK, PeersAreOthers, Message
<1>2. Receiver(m) = Heard(mgr[m.to], m.from)
  BY DEF Receiver
<1>3. /\ Receiver(m) \in Manager /\ SameBallot(Receiver(m), mgr[m.to])
      /\ m.to \notin Receiver(m).known /\ (Static => Receiver(m).members = Node)
  BY <1>1, <1>2, HeardKeeps
<1>4. \A s : SamePeers(s, Receiver(m)) => LawfulPeers(m.to, s)
  BY <1>3 DEF SamePeers, LawfulPeers
<1> QED BY <1>1, <1>3, <1>4

(* Nothing sent, nothing to check.                                         *)
LEMMA SilenceIsLawful ==
    ASSUME NEW i, NEW n
    PROVE  LawfulOut(i, n, {})
BY DEF LawfulOut

(* A single answer.                                                        *)
LEMMA AnswerIsLawful ==
    ASSUME NEW i \in Node, NEW n \in Manager, NEW type \in Kind, NEW j \in Node, i # j,
           NEW l \in Node \cup {None}, NEW granted \in BOOLEAN,
           type = "voteResponse" /\ granted => n.vote = j,
           type \in {"ack", "rpcRequest", "rpcResponse", "voteResponse"},
           type = "voteResponse" => l = n.leader
    PROVE  LawfulOut(i, n, {Msg(type, i, j, n.term, l, granted)})
<1> DEFINE m == Msg(type, i, j, n.term, l, granted)
<1>1. n.term \in Term
  BY DEF Manager
<1>2. m \in Message
  BY <1>1 DEF Msg, Message
<1>3. /\ m.type = type /\ m.from = i /\ m.to = j /\ m.term = n.term
      /\ m.leader = l /\ m.granted = granted
  BY DEF Msg
<1> HIDE DEF m
<1>4. Claims(m) => m.leader = n.leader
  BY <1>3 DEF Claims
<1> QED BY <1>2, <1>3, <1>4 DEF LawfulOut, m

(* A broadcast to the known peers.                                         *)
LEMMA BroadcastIsLawful ==
    ASSUME NEW i \in Node, NEW n \in Manager, i \notin n.known,
           NEW type \in {"heartbeat", "voteRequest", "resign"},
           type = "heartbeat" => n.leader = i
    PROVE  LawfulOut(i, n, Broadcast(type, n, i))
<1> SUFFICES ASSUME NEW j \in n.known
             PROVE  LET m == Msg(type, i, j, n.term, i, FALSE) IN
                    /\ m \in Message /\ m.from = i /\ m.to # i /\ m.term = n.term
                    /\ m.type # "voteResponse" /\ m.leader = i
                    /\ Claims(m) => m.leader = n.leader
  BY DEF LawfulOut, Broadcast
<1>1. n.term \in Term /\ j \in Node /\ j # i
  BY DEF Manager
<1> DEFINE m == Msg(type, i, j, n.term, i, FALSE)
<1>2. m \in Message
  BY <1>1 DEF Msg, Message, Kind
<1>3. /\ m.type = type /\ m.from = i /\ m.to = j /\ m.term = n.term /\ m.leader = i
  BY DEF Msg
<1> HIDE DEF m
<1>4. Claims(m) => m.leader = n.leader
  BY <1>3 DEF Claims
<1> QED BY <1>1, <1>2, <1>3, <1>4 DEF m

(* The heartbeats of a leader, or nothing.                                 *)
LEMMA HeartbeatsAreLawful ==
    ASSUME NEW i \in Node, NEW n \in Manager, i \notin n.known,
           n.role = "leader" => n.leader = i
    PROVE  LawfulOut(i, n, Heartbeats(n, i))
BY BroadcastIsLawful, SilenceIsLawful DEF Heartbeats

-----------------------------------------------------------------------------
(* Each action that is a step of one manager is a lawful one.              *)

(* What the invariant says of one server's own record.                     *)
LEMMA OwnState ==
    ASSUME ElectionInvariant, NEW i \in Node
    PROVE  /\ mgr[i] \in Manager /\ i \notin mgr[i].known
           /\ \A s : SamePeers(s, mgr[i]) => LawfulPeers(i, s)
BY DEF ElectionInvariant, TypeOK, PeersAreOthers, SamePeers, LawfulPeers

(* Starting, expiry and the two halves of an RPC keep the ballot.          *)
LEMMA QuietActions ==
    ASSUME ElectionInvariant, NEW i \in Node,
           \/ Start(i) \/ LeaseExpires(i) \/ BeginRpc(i) \/ SendRpc(i) \/ Close(i)
           \/ \E j \in Node : PeerTurnsStale(i, j)
    PROVE  Advances
<1> DEFINE o == mgr[i]
<1>1. o \in Manager /\ i \notin o.known /\ \A s : SamePeers(s, o) => LawfulPeers(i, s)
  BY OwnState
<1>2. ASSUME NEW n, NEW out, n \in Manager, SameBallot(n, o), SamePeers(n, o),
             LawfulOut(i, n, out), Step(i, n, {}, out)
      PROVE  Advances
  <2>1. Lawful(i, n, out)
    BY <1>1, <1>2, SameBallotIsLawful DEF Lawful
  <2> QED BY <1>2, <2>1, StepAdvances
<1>3. CASE Start(i)
  <2> DEFINE r == [o EXCEPT !.phase = "running"]
             n == ScheduleElection(r)
  <2>1. r \in Manager /\ SameBallot(r, o) /\ SamePeers(r, o)
    BY <1>1 DEF Manager, SameBallot, SamePeers, Phase
  <2>2. n \in Manager /\ SameBallot(n, r) /\ SamePeers(n, r)
    BY <2>1, ScheduleElectionKeeps
  <2>3. Step(i, n, {}, {})
    BY <1>3 DEF Start
  <2> HIDE DEF n, r
  <2>4. SameBallot(n, o) /\ SamePeers(n, o)
    BY <2>1, <2>2 DEF SameBallot, SamePeers
  <2> QED BY <1>2, <2>2, <2>3, <2>4, SilenceIsLawful
<1>4. CASE LeaseExpires(i)
  <2> DEFINE n == [o EXCEPT !.lease = FALSE]
  <2>1. n \in Manager /\ SameBallot(n, o) /\ SamePeers(n, o)
    BY <1>1 DEF Manager, SameBallot, SamePeers
  <2>2. Step(i, n, {}, {})
    BY <1>4 DEF LeaseExpires
  <2> QED BY <1>2, <2>1, <2>2, SilenceIsLawful
<1>5. CASE BeginRpc(i)
  <2> DEFINE n == [o EXCEPT !.rpc = o.leader]
  <2>1. n \in Manager /\ SameBallot(n, o) /\ SamePeers(n, o)
    BY <1>1 DEF Manager, SameBallot, SamePeers
  <2>2. Step(i, n, {}, {})
    BY <1>5 DEF BeginRpc
  <2> QED BY <1>2, <2>1, <2>2, SilenceIsLawful
<1>6. CASE SendRpc(i)
  <2> DEFINE n == [o EXCEPT !.rpc = None]
             out == IF o.rpc \in o.known
                    THEN {Msg("rpcRequest", i, o.rpc, o.term, None, FALSE)} ELSE {}
  <2>1. n \in Manager /\ SameBallot(n, o) /\ SamePeers(n, o)
    BY <1>1 DEF Manager, SameBallot, SamePeers
  <2>2. Step(i, n, {}, out)
    BY <1>6 DEF SendRpc
  <2>3. CASE o.rpc \in o.known
    <3>1. o.rpc \in Node /\ i # o.rpc /\ n.term = o.term
      BY <1>1, <2>1, <2>3 DEF Manager, SameBallot
    <3>2. LawfulOut(i, n, {Msg("rpcRequest", i, o.rpc, n.term, None, FALSE)})
      BY <2>1, <3>1, AnswerIsLawful DEF Kind
    <3> QED BY <1>2, <2>1, <2>2, <2>3, <3>1, <3>2
  <2>4. CASE o.rpc \notin o.known
    BY <1>2, <2>1, <2>2, <2>4, SilenceIsLawful
  <2> QED BY <2>3, <2>4
<1>7. CASE Close(i)
  <2> DEFINE n == [o EXCEPT !.phase = "closing", !.electionTimer = FALSE,
                            !.heartbeatTimer = FALSE]
             out == IF o.role = "leader" THEN Broadcast("resign", o, i) ELSE {}
  <2>1. n \in Manager /\ SameBallot(n, o) /\ SamePeers(n, o)
    BY <1>1 DEF Manager, SameBallot, SamePeers, Phase
  <2>2. Step(i, n, {}, out)
    BY <1>7 DEF Close
  <2> HIDE DEF n
  <2>3. LawfulOut(i, o, Broadcast("resign", o, i))
    BY <1>1, BroadcastIsLawful
  <2>4. LawfulOut(i, n, out)
    BY <2>1, <2>3, SilenceIsLawful DEF LawfulOut, SameBallot
  <2> QED BY <1>2, <2>1, <2>2, <2>4
<1>8. ASSUME NEW j \in Node, PeerTurnsStale(i, j)
      PROVE  Advances
  <2> DEFINE n == [o EXCEPT !.fresh = @ \ {j}]
  <2>1. n \in Manager /\ SameBallot(n, o) /\ SamePeers(n, o)
    BY <1>1 DEF Manager, SameBallot, SamePeers
  <2>2. Step(i, n, {}, {})
    BY <1>8 DEF PeerTurnsStale
  <2> QED BY <1>2, <2>1, <2>2, SilenceIsLawful
<1> QED BY <1>3, <1>4, <1>5, <1>6, <1>7, <1>8

(* The heartbeat timer: the leader stays one or relinquishes.              *)
LEMMA HeartbeatTickPreserves ==
    ASSUME ElectionInvariant, NEW i \in Node, HeartbeatTick(i)
    PROVE  Advances
<1> DEFINE o == mgr[i]
           n == SendHeartbeats(o, i)
<1>1. o \in Manager /\ i \notin o.known /\ \A s : SamePeers(s, o) => LawfulPeers(i, s)
  BY OwnState
<1>2. o.role = "leader" /\ Step(i, n, {}, Heartbeats(n, i))
  BY DEF HeartbeatTick
<1>3. /\ n \in Manager /\ SamePeers(n, o) /\ n.term = o.term
      /\ \/ SameBallot(n, o)
         \/ n.role = "follower" /\ n.leader = None /\ n.vote = None /\ n.votes = {}
  BY <1>1, <1>2, SendHeartbeatsResult
<1> HIDE DEF n
<1>4. LawfulBallot(i, n) /\ LawfulPromotion(i, n)
  BY <1>2, <1>3, SameBallotIsLawful, ForgettingIsLawful
<1>5. LawfulPeers(i, n)
  BY <1>1, <1>3
<1>6. LawfulOut(i, n, Heartbeats(n, i))
  BY <1>3, <1>4, <1>5, HeartbeatsAreLawful DEF LawfulBallot, LawfulPeers
<1>7. Lawful(i, n, Heartbeats(n, i))
  BY <1>3, <1>4, <1>5, <1>6 DEF Lawful
<1> QED BY <1>2, <1>7, StepAdvances

(* What becomeLeader makes of a candidate with a quorum of votes.          *)
LEMMA PromotionIsLawful ==
    ASSUME ElectionInvariant, NEW i \in Node, NEW c \in Manager, LawfulPeers(i, c),
           mgr[i].role # "leader",
           \/ c.term > mgr[i].term
           \/ c.term = mgr[i].term /\ mgr[i].role = "candidate",
           \A v \in c.votes \ {i} : Backs(v, i, c.term),
           Cardinality(c.votes) >= QuorumSize(c)
    PROVE  LET n == BecomeLeader(c, i) IN Lawful(i, n, Heartbeats(n, i))
<1> DEFINE o == mgr[i]
           n == BecomeLeader(c, i)
<1>1. o \in Manager /\ o.term \in Int /\ c.term \in Int
  BY OwnState DEF Manager, Term
<1>2. /\ n \in Manager /\ SamePeers(n, c) /\ n.term = c.term
      /\ \/ n.role = "leader" /\ n.leader = i /\ n.vote = i /\ n.votes = c.votes
         \/ n.role = "follower" /\ n.leader = None /\ n.vote = None /\ n.votes = {}
  BY BecomeLeaderResult
<1> HIDE DEF n
<1>3. LawfulPeers(i, n)
  BY <1>2 DEF LawfulPeers, SamePeers
<1>4. LawfulBallot(i, n) /\ LawfulPromotion(i, n)
  <2>1. CASE n.role = "follower"
    BY <1>1, <1>2, <2>1, ForgettingIsLawful
  <2>2. CASE n.role = "leader"
    <3>1. o.role = "candidate" => o.vote = i
      BY DEF ElectionInvariant, KnowsItself
    <3>2. LawfulBallot(i, n)
      BY <1>1, <1>2, <2>2, <3>1 DEF LawfulBallot
    <3>3. QuorumSize(n) = QuorumSize(c) /\ n.votes = c.votes
      BY <1>2, <2>2 DEF QuorumSize, SamePeers
    <3>4. LawfulPromotion(i, n)
      BY <1>2, <2>2, <3>3 DEF LawfulPromotion
    <3> QED BY <3>2, <3>4
  <2> QED BY <1>2, <2>1, <2>2
<1>5. LawfulOut(i, n, Heartbeats(n, i))
  BY <1>2, <1>3, HeartbeatsAreLawful DEF LawfulPeers
<1> QED BY <1>2, <1>3, <1>4, <1>5 DEF Lawful, n

(* The election timer: a candidate of the next term, or its leader.        *)
LEMMA StartElectionPreserves ==
    ASSUME ElectionInvariant, NEW i \in Node, StartElection(i)
    PROVE  Advances
<1> DEFINE o == mgr[i]
           c == Campaign(o, i)
<1>1. o \in Manager /\ o.term \in Term /\ i \notin o.known
      /\ \A s : SamePeers(s, o) => LawfulPeers(i, s)
  BY OwnState DEF Manager
<1>2. o.role # "leader" /\ o.term < MaxTerm
  BY DEF StartElection
<1>3. o.term + 1 \in Term /\ o.term + 1 > o.term /\ o.term \in Int
  BY <1>1, <1>2 DEF Term
<1>4. /\ c \in Manager /\ SamePeers(c, o)
      /\ c.term = o.term + 1 /\ c.role = "candidate" /\ c.leader = None
      /\ c.vote = i /\ c.votes = {i}
  BY <1>1, <1>3 DEF Campaign, Manager, SamePeers, Role
<1>5. CASE /\ QuorumSize(c) <= 1
           /\ LET b == BecomeLeader(c, i) IN Step(i, b, {}, Heartbeats(b, i))
  <2>1. Cardinality({i}) = 1
    BY FS_Singleton
  <2>2. QuorumSize(c) \in Int
    <3>1. c.members \subseteq Node
      BY <1>4 DEF Manager
    <3>2. Cardinality(c.members) \in Nat
      BY <3>1, NodeAssumption, FS_Subset, FS_CardinalityType
    <3> QED BY <3>2 DEF QuorumSize
  <2>3. Cardinality(c.votes) >= QuorumSize(c)
    BY <1>4, <1>5, <2>1, <2>2
  <2>4. LawfulPeers(i, c)
    BY <1>1, <1>4
  <2>5. \A v \in c.votes \ {i} : Backs(v, i, c.term)
    BY <1>4
  <2>6. c.term > o.term
    BY <1>3, <1>4
  <2> HIDE DEF c
  <2> DEFINE b == BecomeLeader(c, i)
  <2>7. Lawful(i, b, Heartbeats(b, i))
    BY <1>2, <1>4, <2>3, <2>4, <2>5, <2>6, PromotionIsLawful
  <2> QED BY <1>5, <2>7, StepAdvances
<1>6. CASE /\ QuorumSize(c) > 1
           /\ Step(i, ScheduleElection(c), {}, Broadcast("voteRequest", c, i))
  <2> DEFINE n == ScheduleElection(c)
             out == Broadcast("voteRequest", c, i)
  <2>1. n \in Manager /\ SameBallot(n, c) /\ SamePeers(n, c)
    BY <1>4, ScheduleElectionKeeps
  <2>2. LawfulOut(i, c, out)
    BY <1>1, <1>4, BroadcastIsLawful DEF SamePeers
  <2> HIDE DEF c, n, out
  <2>3. LawfulOut(i, n, out)
    <3>1. \A m \in out : ~ (m.type = "voteResponse" /\ m.granted /\ n.vote # m.to)
      BY <2>1, <2>2 DEF LawfulOut, SameBallot
    <3> QED BY <2>1, <2>2, <3>1 DEF LawfulOut, SameBallot
  <2>4. LawfulPeers(i, n)
    BY <1>1, <1>4, <2>1 DEF SamePeers
  <2>5. LawfulBallot(i, n)
    BY <1>1, <1>3, <1>4, <2>1 DEF LawfulBallot, SameBallot
  <2>6. LawfulPromotion(i, n)
    BY <1>3, <1>4, <2>1 DEF LawfulPromotion, SameBallot
  <2>7. Lawful(i, n, out)
    BY <2>1, <2>3, <2>4, <2>5, <2>6 DEF Lawful
  <2> QED BY <1>6, <2>7, StepAdvances DEF n, out
<1> QED BY <1>5, <1>6 DEF StartElection

-----------------------------------------------------------------------------
(* Messages.                                                               *)

(* A message handler that is done with the receiver: what is left to show. *)
LEMMA HandlerIsLawful ==
    ASSUME ElectionInvariant, NEW m \in msgs, NEW n \in Manager, NEW out,
           SamePeers(n, Receiver(m)), LawfulBallot(m.to, n), LawfulPromotion(m.to, n),
           LawfulOut(m.to, n, out), Step(m.to, n, {m}, out)
    PROVE  Advances
<1>1. m.to \in Node /\ LawfulPeers(m.to, n)
  BY ReceiverResult
<1>2. Lawful(m.to, n, out)
  BY <1>1 DEF Lawful
<1> QED BY <1>1, <1>2, StepAdvances

(* Stepping down for the message's term is lawful.                         *)
LEMMA DeposedIsLawful ==
    ASSUME ElectionInvariant, NEW m \in msgs
    PROVE  LET n == StepDownIfBehind(Receiver(m), m.term) IN
           /\ n \in Manager /\ SamePeers(n, Receiver(m))
           /\ n.term >= m.term
           /\ LawfulBallot(m.to, n) /\ LawfulPromotion(m.to, n)
<1> DEFINE r == Receiver(m)
           n == StepDownIfBehind(r, m.term)
<1>1. /\ m.to \in Node /\ m.term \in Term
      /\ r \in Manager /\ SameBallot(r, mgr[m.to])
  BY ReceiverResult
<1>2. /\ n \in Manager /\ SamePeers(n, r)
      /\ m.term <= r.term => n = r
      /\ m.term > r.term => /\ n.term = m.term /\ n.role = "follower" /\ n.leader = None
                            /\ n.vote = None /\ n.votes = {}
  BY <1>1, StepDownIfBehindResult
<1>3. m.term \in Int /\ r.term \in Int
  BY <1>1 DEF Manager, Term
<1> HIDE DEF r, n
<1>4. CASE m.term <= r.term
  BY <1>1, <1>2, <1>3, <1>4, SameBallotIsLawful DEF n, r
<1>5. CASE m.term > r.term
  <2>1. n.term > mgr[m.to].term
    BY <1>1, <1>2, <1>5 DEF SameBallot
  <2>2. LawfulBallot(m.to, n) /\ LawfulPromotion(m.to, n)
    BY <1>1, <1>2, <1>5, <2>1, ForgettingIsLawful
  <2> QED BY <1>2, <1>3, <1>5, <2>2 DEF n, r
<1> QED BY <1>3, <1>4, <1>5

(* Following the leader that a message names is lawful.                    *)
LEMMA ObservingIsLawful ==
    ASSUME ElectionInvariant, NEW m \in msgs, Claims(m), m.leader # m.to, NEW source,
           NEW r \in Manager, SameBallot(r, mgr[m.to])
    PROVE  LET n == ObserveLeader(r, m.to, m.leader, m.term, source) IN
           /\ n \in Manager /\ SamePeers(n, r)
           /\ LawfulBallot(m.to, n) /\ LawfulPromotion(m.to, n)
<1> DEFINE n == ObserveLeader(r, m.to, m.leader, m.term, source)
<1>1. /\ m.to \in Node /\ m.term \in Term /\ m.leader \in Node
      /\ <<m.term, m.leader>> \in elected
  BY ReceiverResult DEF Claims, ElectionInvariant, ClaimsAreTrue
<1>2. /\ n \in Manager /\ SamePeers(n, r)
      /\ \/ n = r
         \/ /\ n.role = "follower" /\ n.leader = m.leader /\ n.term = m.term
            /\ \/ m.term = r.term /\ n.vote = r.vote /\ n.votes = r.votes
               \/ m.term > r.term /\ n.vote = None /\ n.votes = {}
  BY <1>1, ObserveLeaderResult
<1> HIDE DEF n
<1>3. LawfulBallot(m.to, n) /\ LawfulPromotion(m.to, n)
  <2>1. CASE n = r
    BY <1>1, <1>2, <2>1, SameBallotIsLawful
  <2>2. CASE n # r
    <3>1. /\ n.role = "follower" /\ n.leader = m.leader /\ <<n.term, m.leader>> \in elected
          /\ \/ n.term = mgr[m.to].term /\ n.vote = mgr[m.to].vote
                                        /\ n.votes = mgr[m.to].votes
             \/ n.term > mgr[m.to].term /\ n.vote = None /\ n.votes = {}
      BY <1>1, <1>2, <2>2 DEF SameBallot
    <3> QED BY <1>1, <1>2, <3>1, FollowingIsLawful
  <2> QED BY <2>1, <2>2
<1> QED BY <1>2, <1>3 DEF n

(* A hello only makes its receiver follow a leader that was elected.       *)
LEMMA ReceiveHelloPreserves ==
    ASSUME ElectionInvariant, NEW m \in msgs, ReceiveHello(m)
    PROVE  Advances
<1> DEFINE r == Receiver(m)
           n == IF m.leader # None THEN ObserveLeader(r, m.to, m.leader, m.term, "control")
                ELSE StepDownIfBehind(r, m.term)
<1>1. m.type = "hello" /\ Step(m.to, n, {m}, {})
  BY DEF ReceiveHello, Deliverable
<1>2. m.from # m.to /\ m.leader \in {None, m.from}
  BY <1>1 DEF ElectionInvariant, PeersAreOthers
<1>3. r \in Manager /\ SameBallot(r, mgr[m.to])
  BY ReceiverResult
<1>4. /\ n \in Manager /\ SamePeers(n, r)
      /\ LawfulBallot(m.to, n) /\ LawfulPromotion(m.to, n)
  <2>1. CASE m.leader # None
    BY <1>1, <1>2, <1>3, <2>1, ObservingIsLawful DEF Claims
  <2>2. CASE m.leader = None
    BY <2>2, DeposedIsLawful
  <2> QED BY <2>1, <2>2
<1> QED BY <1>1, <1>4, HandlerIsLawful, SilenceIsLawful

(* A heartbeat of an earlier term renews a lease and changes no vote.      *)
LEMMA ReceiveHeartbeatPreserves ==
    ASSUME ElectionInvariant, NEW m \in msgs, ReceiveHeartbeat(m)
    PROVE  Advances
<1> DEFINE r == Receiver(m)
           f == ObserveLeader(r, m.to, m.leader, m.term, "control")
           n == [f EXCEPT !.lease = TRUE]
           out == {Msg("ack", m.to, m.from, n.term, m.leader, FALSE)}
<1>1. m.type = "heartbeat" /\ Step(m.to, n, {m}, out)
  BY DEF ReceiveHeartbeat, Deliverable
<1>2. /\ m.from # m.to /\ m.leader = m.from /\ m.from \in Node /\ m.to \in Node
      /\ r \in Manager /\ SameBallot(r, mgr[m.to])
  BY <1>1, ReceiverResult DEF ElectionInvariant, PeersAreOthers
<1>3. /\ f \in Manager /\ SamePeers(f, r)
      /\ LawfulBallot(m.to, f) /\ LawfulPromotion(m.to, f)
  BY <1>1, <1>2, ObservingIsLawful DEF Claims
<1> HIDE DEF f
<1>4. n \in Manager /\ SamePeers(n, r) /\ SameBallot(n, f)
  BY <1>3 DEF Manager, SamePeers, SameBallot
<1> HIDE DEF n
<1>5. LawfulBallot(m.to, n)
  BY <1>3, <1>4 DEF LawfulBallot, SameBallot
<1>6. LawfulPromotion(m.to, n)
  <2>1. QuorumSize(n) = QuorumSize(f)
    BY <1>3, <1>4 DEF QuorumSize, SamePeers
  <2> QED BY <1>3, <1>4, <2>1 DEF LawfulPromotion, SameBallot
<1>7. LawfulOut(m.to, n, out)
  BY <1>2, <1>4, AnswerIsLawful DEF Kind
<1> QED BY <1>1, <1>4, <1>5, <1>6, <1>7, HandlerIsLawful

(* An acknowledgement changes nothing but who was heard.                   *)
LEMMA ReceiveAckPreserves ==
    ASSUME ElectionInvariant, NEW m \in msgs, ReceiveAck(m) \/ ReceiveRpcResponse(m)
    PROVE  Advances
<1> DEFINE n == Receiver(m)
<1>1. Step(m.to, n, {m}, {})
  BY DEF ReceiveAck, ReceiveRpcResponse
<1>2. n \in Manager /\ SameBallot(n, mgr[m.to]) /\ m.to \in Node
  BY ReceiverResult
<1> HIDE DEF n
<1>3. LawfulBallot(m.to, n) /\ LawfulPromotion(m.to, n)
  BY <1>2, SameBallotIsLawful
<1>4. SamePeers(n, Receiver(m))
  BY DEF n, SamePeers
<1> QED BY <1>1, <1>2, <1>3, <1>4, HandlerIsLawful, SilenceIsLawful

(* A vote is given to one other server per term, and remembered.           *)
LEMMA ReceiveVoteRequestPreserves ==
    ASSUME ElectionInvariant, NEW m \in msgs, ReceiveVoteRequest(m)
    PROVE  Advances
<1> DEFINE i == m.to
           c == m.from
           n == StepDownIfBehind(Receiver(m), m.term)
           g == [n EXCEPT !.vote = c]
           v == ScheduleElection(g)
<1>1. m.from # m.to /\ m.from \in Node /\ m.to \in Node
  BY ReceiverResult DEF ElectionInvariant, PeersAreOthers
<1>2. /\ n \in Manager /\ SamePeers(n, Receiver(m))
      /\ LawfulBallot(i, n) /\ LawfulPromotion(i, n)
  BY DeposedIsLawful
<1>3. CASE /\ VoteRefused(n, i, m)
           /\ Step(i, n, {m}, {VoteResponse(n, i, c, FALSE)})
  <2> HIDE DEF n
  <2>1. n.leader \in Node \cup {None}
    BY <1>2 DEF Manager
  <2>2. LawfulOut(i, n, {VoteResponse(n, i, c, FALSE)})
    BY <1>1, <1>2, <2>1, AnswerIsLawful DEF Kind, VoteResponse
  <2> QED BY <1>2, <1>3, <2>2, HandlerIsLawful
<1>4. CASE /\ ~ VoteRefused(n, i, m)
           /\ Step(i, v, {m}, {VoteResponse(v, i, c, TRUE)})
  <2>1. n.vote \in {None, c}
    BY <1>4 DEF VoteRefused
  <2> HIDE DEF n
  <2>2. /\ g \in Manager /\ SamePeers(g, n) /\ g.term = n.term /\ g.role = n.role
        /\ g.leader = n.leader /\ g.vote = c /\ g.votes = n.votes
    BY <1>1, <1>2 DEF Manager, SamePeers
  <2> HIDE DEF g
  <2>3. v \in Manager /\ SameBallot(v, g) /\ SamePeers(v, g)
    BY <2>2, ScheduleElectionKeeps
  <2> HIDE DEF v
  <2>4. n.role = "follower"
    BY <1>1, <1>2, <2>1, NoneAssumption DEF LawfulBallot
  <2>5. LawfulBallot(i, v)
    BY <1>2, <2>1, <2>2, <2>3, <2>4 DEF LawfulBallot, SameBallot
  <2>6. LawfulPromotion(i, v)
    BY <2>2, <2>3, <2>4 DEF LawfulPromotion, SameBallot
  <2>7. v.vote = c /\ v.leader \in Node \cup {None}
    BY <2>2, <2>3 DEF SameBallot, Manager
  <2>8. LawfulOut(i, v, {VoteResponse(v, i, c, TRUE)})
    BY <1>1, <2>3, <2>7, AnswerIsLawful DEF Kind, VoteResponse
  <2>9. SamePeers(v, Receiver(m))
    BY <1>2, <2>2, <2>3 DEF SamePeers
  <2> QED BY <1>4, <2>3, <2>5, <2>6, <2>8, <2>9, HandlerIsLawful
<1> QED BY <1>3, <1>4 DEF ReceiveVoteRequest

(* A candidate that counts a vote or wins has the voters it counted.       *)
LEMMA ReceiveVoteResponsePreserves ==
    ASSUME ElectionInvariant, NEW m \in msgs, ReceiveVoteResponse(m)
    PROVE  Advances
<1> DEFINE i == m.to
           r == Receiver(m)
           counts == r.role = "candidate" /\ m.term = r.term
           v == Counted(r, m.from)
           d == StepDownIfBehind(r, m.term)
           f == IF m.leader = None THEN r
                ELSE ObserveLeader(r, i, m.leader, m.term, "control")
           b == BecomeLeader(v, i)
<1>1. /\ m \in Message /\ m.from # m.to /\ m.from \in Node /\ m.to \in Node
      /\ r \in Manager /\ SameBallot(r, mgr[i]) /\ mgr[i] \in Manager
      /\ \A s : SamePeers(s, r) => LawfulPeers(i, s)
  BY ReceiverResult DEF ElectionInvariant, PeersAreOthers
<1>2. m.type = "voteResponse"
  BY DEF ReceiveVoteResponse, Deliverable
<1>3. CASE ~ counts /\ Step(i, d, {m}, {})
  BY <1>3, DeposedIsLawful, HandlerIsLawful, SilenceIsLawful
<1>4. CASE counts /\ ~ m.granted
           /\ Step(i, f, {m}, IF f.role = r.role THEN {} ELSE Heartbeats(f, i))
  <2>1. m.leader # i
    <3> SUFFICES ASSUME m.leader = i PROVE FALSE
      OBVIOUS
    <3>1. <<m.term, i>> \in elected /\ m.term \in Term
      BY <1>1, <1>2 DEF Claims, ElectionInvariant, ClaimsAreTrue, Message
    <3>2. mgr[i].term > m.term \/ (mgr[i].term = m.term /\ mgr[i].role # "candidate")
      BY <1>1, <3>1 DEF ElectionInvariant, ElectedNeverCampaignAgain
    <3>3. mgr[i].term = m.term /\ mgr[i].role = "candidate" /\ m.term \in Int
      BY <1>1, <1>4, <3>1 DEF SameBallot, Term
    <3> QED BY <3>2, <3>3
  <2>2. /\ f \in Manager /\ SamePeers(f, r)
        /\ LawfulBallot(i, f) /\ LawfulPromotion(i, f)
    <3>1. CASE m.leader = None
      BY <1>1, <3>1, SameBallotIsLawful DEF SamePeers
    <3>2. CASE m.leader # None
      BY <1>1, <1>2, <2>1, <3>2, ObservingIsLawful DEF Claims
    <3> QED BY <3>1, <3>2
  <2> HIDE DEF f
  <2>3. LawfulOut(i, f, IF f.role = r.role THEN {} ELSE Heartbeats(f, i))
    BY <1>1, <2>2, HeartbeatsAreLawful, SilenceIsLawful DEF LawfulBallot, LawfulPeers
  <2> QED BY <1>4, <2>2, <2>3, HandlerIsLawful
<1>5. ASSUME counts, m.granted
      PROVE  /\ v \in Manager /\ SamePeers(v, r)
             /\ v.term = mgr[i].term /\ v.role = "candidate" /\ mgr[i].role = "candidate"
             /\ v.leader = mgr[i].leader /\ v.vote = mgr[i].vote
             /\ \A w \in v.votes \ {i} : Backs(w, i, v.term)
  <2>1. /\ v \in Manager /\ SamePeers(v, r) /\ v.term = r.term /\ v.role = r.role
        /\ v.leader = r.leader /\ v.vote = r.vote /\ v.votes = r.votes \cup {m.from}
    BY <1>1 DEF Counted, Manager, SamePeers
  <2>2. \A w \in v.votes : Backs(w, i, v.term)
    BY <1>1, <1>2, <1>5, <2>1 DEF Backs, SameBallot
  <2> QED BY <1>1, <1>5, <2>1, <2>2 DEF SameBallot
<1>6. CASE counts /\ m.granted /\ Cardinality(v.votes) < QuorumSize(v) /\ Step(i, v, {m}, {})
  <2> HIDE DEF v
  <2>1. LawfulBallot(i, v)
    <3>1. mgr[i].term \in Int
      BY <1>1 DEF Manager, Term
    <3>2. /\ mgr[i].vote = i /\ mgr[i].leader # i
          /\ mgr[i].leader # None => <<mgr[i].term, mgr[i].leader>> \in elected
      BY <1>1, <1>5, <1>6 DEF ElectionInvariant, KnowsItself, FollowsElected
    <3> QED BY <1>5, <1>6, <3>1, <3>2 DEF LawfulBallot
  <2>2. LawfulPromotion(i, v)
    BY <1>5, <1>6 DEF LawfulPromotion
  <2> QED BY <1>5, <1>6, <2>1, <2>2, HandlerIsLawful, SilenceIsLawful
<1>7. CASE counts /\ m.granted /\ Cardinality(v.votes) >= QuorumSize(v)
           /\ Step(i, b, {m}, Heartbeats(b, i))
  <2>1. LawfulPeers(i, v)
    BY <1>1, <1>5, <1>7
  <2> HIDE DEF v
  <2>2. Lawful(i, b, Heartbeats(b, i))
    BY <1>1, <1>5, <1>7, <2>1, PromotionIsLawful
  <2> QED BY <1>1, <1>7, <2>2, StepAdvances
<1> QED BY <1>3, <1>4, <1>6, <1>7 DEF ReceiveVoteResponse

(* A resignation takes no vote back.                                       *)
LEMMA ReceiveResignPreserves ==
    ASSUME ElectionInvariant, NEW m \in msgs, ReceiveResign(m)
    PROVE  Advances
<1> DEFINE i == m.to
           d == StepDownIfBehind(Receiver(m), m.term)
           e == ClearLeader(d)
           s == ScheduleElection(e)
           n == IF d.leader = m.leader THEN s ELSE d
<1>1. Step(i, n, {m}, {}) /\ m.type = "resign"
  BY DEF ReceiveResign, Deliverable
<1>2. /\ d \in Manager /\ SamePeers(d, Receiver(m))
      /\ LawfulBallot(i, d) /\ LawfulPromotion(i, d) /\ i \in Node
  BY DeposedIsLawful, ReceiverResult
<1>3. CASE d.leader # m.leader
  BY <1>1, <1>2, <1>3, HandlerIsLawful, SilenceIsLawful
<1>4. CASE d.leader = m.leader
  <2>1. m.leader # i
    BY <1>1 DEF ElectionInvariant, PeersAreOthers
  <2> HIDE DEF d
  <2>2. /\ e \in Manager /\ SamePeers(e, d) /\ e.term = d.term /\ e.role = d.role
        /\ e.leader = None /\ e.vote = d.vote /\ e.votes = d.votes
    BY <1>2 DEF ClearLeader, Manager, SamePeers
  <2> HIDE DEF e
  <2>3. s \in Manager /\ SameBallot(s, e) /\ SamePeers(s, e)
    BY <2>2, ScheduleElectionKeeps
  <2> HIDE DEF s
  <2>4. d.role # "leader" /\ s.role # "leader"
    BY <1>2, <1>4, <2>1, <2>2, <2>3 DEF LawfulBallot, SameBallot
  <2>5. LawfulBallot(i, s)
    BY <1>2, <2>2, <2>3, <2>4 DEF LawfulBallot, SameBallot
  <2>6. LawfulPromotion(i, s)
    BY <1>2, <2>2, <2>3, <2>4 DEF LawfulPromotion, SameBallot
  <2>7. SamePeers(s, Receiver(m))
    BY <1>2, <2>2, <2>3 DEF SamePeers
  <2> QED BY <1>1, <1>4, <2>3, <2>5, <2>6, <2>7, HandlerIsLawful, SilenceIsLawful
<1> QED BY <1>3, <1>4

(* An RPC of a later term deposes, and changes nothing else.               *)
LEMMA ReceiveRpcRequestPreserves ==
    ASSUME ElectionInvariant, NEW m \in msgs, ReceiveRpcRequest(m)
    PROVE  Advances
<1> DEFINE n == StepDownIfBehind(Receiver(m), m.term)
           out == {Msg("rpcResponse", m.to, m.from, n.term, None, n.role = "leader")}
<1>1. Step(m.to, n, {m}, out)
  BY DEF ReceiveRpcRequest
<1>2. m.from # m.to /\ m.from \in Node /\ m.to \in Node
  BY ReceiverResult DEF ElectionInvariant, PeersAreOthers
<1>3. /\ n \in Manager /\ SamePeers(n, Receiver(m))
      /\ LawfulBallot(m.to, n) /\ LawfulPromotion(m.to, n)
  BY DeposedIsLawful
<1> HIDE DEF n
<1>4. (n.role = "leader") \in BOOLEAN
  OBVIOUS
<1>5. LawfulOut(m.to, n, out)
  BY <1>2, <1>3, <1>4, AnswerIsLawful DEF Kind
<1> QED BY <1>1, <1>3, <1>5, HandlerIsLawful

(* An outdated probe answer names a leader that was elected.               *)
LEMMA ApplyProbePreserves ==
    ASSUME ElectionInvariant, NEW m \in msgs, ApplyProbe(m)
    PROVE  Advances
<1> DEFINE i == m.to
           o == mgr[i]
           u == [o EXCEPT !.members = @ \cup {m.from}, !.fresh = @ \cup {m.from}]
           n == IF m.leader = None THEN u
                ELSE ObserveLeader(u, i, m.leader, m.term, "discovery")
<1>1. m.type = "meta" /\ Step(i, n, {m}, {})
  BY DEF ApplyProbe, Deliverable
<1>2. /\ m.from # m.to /\ m.from \in Node /\ i \in Node /\ o \in Manager
      /\ m.leader \in {None, m.from} /\ i \notin o.known /\ (Static => o.members = Node)
  BY <1>1, ReceiverResult DEF ElectionInvariant, PeersAreOthers
<1>3. /\ u \in Manager /\ SameBallot(u, o) /\ u.known = o.known
      /\ Static => u.members = Node
  <2>1. u \in Manager
    BY <1>2 DEF Manager
  <2>2. /\ SameBallot(u, o) /\ u.known = o.known
        /\ u.members = o.members \cup {m.from}
    BY <1>2 DEF Manager, SameBallot
  <2> QED BY <1>2, <2>1, <2>2
<1> HIDE DEF u
<1>4. /\ n \in Manager /\ SamePeers(n, u)
      /\ LawfulBallot(i, n) /\ LawfulPromotion(i, n)
  <2>1. CASE m.leader = None
    BY <1>2, <1>3, <2>1, SameBallotIsLawful DEF SamePeers
  <2>2. CASE m.leader # None
    BY <1>1, <1>2, <1>3, <2>2, ObservingIsLawful DEF Claims
  <2> QED BY <2>1, <2>2
<1> HIDE DEF n
<1>5. LawfulPeers(i, n)
  BY <1>2, <1>3, <1>4 DEF LawfulPeers, SamePeers
<1>6. Lawful(i, n, {})
  BY <1>4, <1>5, SilenceIsLawful DEF Lawful
<1> QED BY <1>1, <1>2, <1>6, StepAdvances

-----------------------------------------------------------------------------
(* Links and processes come and go, and the ballots stay.                  *)

SameBallots ==
    \A i \in Node : /\ mgr'[i] \in Manager /\ SameBallot(mgr'[i], mgr[i])
                    /\ mgr'[i].members = mgr[i].members
                    /\ mgr'[i].known \subseteq mgr[i].known

Honest(m) == /\ m \in Message /\ m.from # m.to /\ m.type \in {"hello", "meta"}
             /\ m.leader \in {None, m.from}
             /\ m.leader # None => <<m.term, m.leader>> \in elected

(* Only hellos and probe answers are new, and they tell the truth.         *)
LEMMA NetworkPreserves ==
    ASSUME ElectionInvariant,
           mgr' = [i \in Node |-> mgr'[i]], SameBallots,
           link' \subseteq {{i, j} : i, j \in Node}, elected' = elected,
           \A m \in msgs' : m \in msgs \/ Honest(m)
    PROVE  ElectionInvariant'
<1>1. TypeOK'
  <2>1. mgr' \in [Node -> Manager]
    BY DEF SameBallots
  <2>2. msgs \subseteq Message /\ elected \subseteq (Term \X Node)
    BY DEF ElectionInvariant, TypeOK
  <2>3. \A m \in msgs' : m \in Message
    BY <2>2 DEF Honest
  <2> QED BY <2>1, <2>2, <2>3 DEF TypeOK
<1>2. PeersAreOthers'
  BY DEF ElectionInvariant, PeersAreOthers, SameBallots, Honest
<1>3. KnowsItself'
  BY DEF ElectionInvariant, KnowsItself, SameBallot, SameBallots
<1>4. \A v, c \in Node, t \in Term : Backs(v, c, t)' => Backs(v, c, t)
  BY DEF Backs, SameBallot, SameBallots, Honest
<1>5. BackersRemember'
  BY <1>4 DEF ElectionInvariant, BackersRemember, SameBallot, SameBallots
<1>6. BacksOneOther'
  BY <1>4 DEF ElectionInvariant, BacksOneOther
<1>7. LeadersHaveQuorum'
  BY DEF ElectionInvariant, LeadersHaveQuorum, SameBallot, SameBallots, QuorumSize
<1>8. ClaimsAreTrue'
  BY DEF ElectionInvariant, ClaimsAreTrue, Claims, Honest
<1>9. FollowsElected'
  BY DEF ElectionInvariant, FollowsElected, SameBallot, SameBallots
<1>10. ElectedNeverCampaignAgain'
  BY DEF ElectionInvariant, ElectedNeverCampaignAgain, SameBallot, SameBallots
<1> QED BY <1>1, <1>2, <1>3, <1>5, <1>6, <1>7, <1>8, <1>9, <1>10 DEF ElectionInvariant

(* Such a step is one that nobody moves in.                                 *)
LEMMA NetworkAdvances ==
    ASSUME ElectionInvariant,
           mgr' = [i \in Node |-> mgr'[i]], SameBallots,
           link' \subseteq {{i, j} : i, j \in Node}, elected' = elected,
           \A m \in msgs' : m \in msgs \/ Honest(m)
    PROVE  Advances
<1>1. ElectionInvariant'
  BY NetworkPreserves
<1>2. PICK i \in Node : TRUE
  BY NodeAssumption
<1>3. /\ mgr'[i] \in Manager
      /\ \A j \in Node : SameBallot(mgr'[j], mgr[j])
  BY DEF SameBallots
<1>4. LawfulBallot(i, mgr'[i]) /\ LawfulPromotion(i, mgr'[i])
  BY <1>3, SameBallotIsLawful
<1>5. NewlyElected(mgr'[i], mgr[i], i) = {}
  BY <1>3 DEF SameBallot, NewlyElected
<1>6. OneMoves(i)
  BY <1>3, <1>4, <1>5 DEF OneMoves
<1> QED BY <1>1, <1>6 DEF Advances

(* A hello tells the truth about who leads.                                *)
LEMMA HelloResult ==
    ASSUME ElectionInvariant, NEW i \in Node, NEW j \in Node, i # j, NEW type \in {"hello", "meta"}
    PROVE  Honest(Hello(type, mgr[i], i, j))
<1> DEFINE l == IF mgr[i].role = "leader" THEN i ELSE None
           h == Msg(type, i, j, mgr[i].term, l, FALSE)
<1>1. mgr[i].term \in Term /\ l \in {None, i}
  BY DEF ElectionInvariant, TypeOK, Manager
<1>2. l # None => <<mgr[i].term, l>> \in elected
  BY DEF ElectionInvariant, KnowsItself, FollowsElected
<1> HIDE DEF l
<1>3. h \in Message
  BY <1>1 DEF Message, Kind, Msg
<1>4. h.type = type /\ h.from = i /\ h.to = j /\ h.term = mgr[i].term /\ h.leader = l
  BY DEF Msg
<1>5. h = Hello(type, mgr[i], i, j)
  BY DEF Hello, l
<1> HIDE DEF h
<1> QED BY <1>1, <1>2, <1>3, <1>4, <1>5 DEF Honest

(* Nothing happened to the managers.                                       *)
LEMMA UnchangedManagers ==
    ASSUME ElectionInvariant, mgr' = mgr
    PROVE  mgr' = [k \in Node |-> mgr'[k]] /\ SameBallots
<1>1. mgr \in [Node -> Manager]
  BY DEF ElectionInvariant, TypeOK
<1> QED BY <1>1 DEF SameBallots, SameBallot

(* The hellos of a new link are true.                                      *)
LEMMA ConnectPreserves ==
    ASSUME ElectionInvariant, NEW i \in Node, NEW j \in Node, Connect(i, j)
    PROVE  Advances
<1> DEFINE a == Hello("hello", mgr[i], i, j)
           b == Hello("hello", mgr[j], j, i)
<1>1. /\ i # j /\ mgr' = mgr /\ elected' = elected
      /\ link' = link \cup {{i, j}} /\ msgs' = msgs \cup {a, b}
  BY DEF Connect
<1>2. Honest(a) /\ Honest(b)
  BY <1>1, HelloResult
<1> HIDE DEF a, b
<1>3. link' \subseteq {{k, l} : k, l \in Node}
  BY <1>1 DEF ElectionInvariant, TypeOK
<1> QED BY <1>1, <1>2, <1>3, UnchangedManagers, NetworkAdvances

(* The answer to a probe is true when it is given.                         *)
LEMMA ProbePreserves ==
    ASSUME ElectionInvariant, NEW i \in Node, NEW j \in Node, Probe(i, j)
    PROVE  Advances
<1> DEFINE a == Hello("meta", mgr[j], j, i)
<1>1. /\ i # j /\ mgr' = mgr /\ elected' = elected /\ link' = link
      /\ msgs' = msgs \cup {a}
  BY DEF Probe
<1>2. Honest(a)
  BY <1>1, HelloResult
<1> HIDE DEF a
<1>3. link' \subseteq {{k, l} : k, l \in Node}
  BY <1>1 DEF ElectionInvariant, TypeOK
<1> QED BY <1>1, <1>2, <1>3, UnchangedManagers, NetworkAdvances

(* Forgetting links keeps everything else.                                 *)
LEMMA ForgetResult ==
    ASSUME NEW n \in Manager, NEW gone
    PROVE  LET s == Forget(n, gone) IN
           /\ s \in Manager /\ SameBallot(s, n)
           /\ s.members = n.members /\ s.known \subseteq n.known
BY DEF Forget, Manager, SameBallot

(* Losing a link and its messages only takes votes away.                   *)
LEMMA DisconnectPreserves ==
    ASSUME ElectionInvariant, NEW i \in Node, NEW j \in Node, Disconnect(i, j)
    PROVE  Advances
<1>1. mgr \in [Node -> Manager] /\ link \subseteq {{k, l} : k, l \in Node}
  BY DEF ElectionInvariant, TypeOK
<1>2. /\ mgr' = [k \in Node |-> IF k \in {i, j} THEN Forget(mgr[k], {i, j}) ELSE mgr[k]]
      /\ elected' = elected /\ link' \subseteq link /\ msgs' \subseteq msgs
  BY DEF Disconnect
<1>3. mgr' = [k \in Node |-> mgr'[k]]
  BY <1>2
<1>4. SameBallots
  <2> SUFFICES ASSUME NEW k \in Node
               PROVE  /\ mgr'[k] \in Manager /\ SameBallot(mgr'[k], mgr[k])
                      /\ mgr'[k].members = mgr[k].members
                      /\ mgr'[k].known \subseteq mgr[k].known
    BY DEF SameBallots
  <2>1. CASE k \in {i, j}
    BY <1>1, <1>2, <2>1, ForgetResult
  <2>2. CASE k \notin {i, j}
    BY <1>1, <1>2, <2>2 DEF SameBallot
  <2> QED BY <2>1, <2>2
<1> QED BY <1>1, <1>2, <1>3, <1>4, NetworkAdvances

(* The end of a process leaves what others know of its votes.              *)
LEMMA GonePreserves ==
    ASSUME ElectionInvariant, NEW i \in Node, Gone(i)
    PROVE  Advances
<1> DEFINE dead == [mgr[i] EXCEPT !.phase = "down", !.known = {}]
<1>1. mgr \in [Node -> Manager] /\ link \subseteq {{k, l} : k, l \in Node}
  BY DEF ElectionInvariant, TypeOK
<1>2. /\ mgr' = [j \in Node |-> IF j = i THEN dead ELSE Forget(mgr[j], {i})]
      /\ elected' = elected /\ link' \subseteq link /\ msgs' \subseteq msgs
  BY DEF Gone
<1>3. /\ dead \in Manager /\ SameBallot(dead, mgr[i])
      /\ dead.members = mgr[i].members /\ dead.known \subseteq mgr[i].known
  <2>1. mgr[i] \in Manager
    BY <1>1
  <2> QED BY <2>1 DEF Manager, SameBallot, Phase
<1> HIDE DEF dead
<1>4. /\ mgr' = [k \in Node |-> mgr'[k]] /\ mgr'[i] = dead
      /\ \A k \in Node \ {i} : mgr'[k] = Forget(mgr[k], {i})
  BY <1>2
<1>5. SameBallots
  <2> SUFFICES ASSUME NEW k \in Node
               PROVE  /\ mgr'[k] \in Manager /\ SameBallot(mgr'[k], mgr[k])
                      /\ mgr'[k].members = mgr[k].members
                      /\ mgr'[k].known \subseteq mgr[k].known
    BY DEF SameBallots
  <2>1. CASE k = i
    BY <1>3, <1>4, <2>1
  <2>2. CASE k # i
    BY <1>1, <1>4, <2>2, ForgetResult
  <2> QED BY <2>1, <2>2
<1> QED BY <1>1, <1>2, <1>4, <1>5, NetworkAdvances

-----------------------------------------------------------------------------
(* Timers and phases.                                                      *)

Timed(n, i) ==
    /\ ~ Closed(n) => /\ n.role = "candidate" => n.electionTimer
                      /\ n.leader \notin {None, i} => n.electionTimer
                      /\ n.role = "leader" => n.heartbeatTimer
    /\ n.phase = "closing" \/ n.role = "leader" => ~ n.electionTimer

(* The private methods leave the phase alone and start no campaign.         *)
Calm(s, n) ==
    s.phase = n.phase /\ (s.role = "candidate" => n.role = "candidate" /\ s.term = n.term)

(* The fields that the timers depend on.                                    *)
SameTimers(s, n) ==
    /\ s.phase = n.phase /\ s.role = n.role /\ s.leader = n.leader /\ s.term = n.term
    /\ s.electionTimer = n.electionTimer /\ s.heartbeatTimer = n.heartbeatTimer

(* They say whether a server is timed.                                      *)
LEMMA SameTimersTimed ==
    ASSUME NEW n, NEW s, NEW i, SameTimers(s, n)
    PROVE  Calm(s, n) /\ (Timed(n, i) => Timed(s, i))
BY DEF SameTimers, Calm, Timed, Closed

(* scheduleElection arms what is not a leader's or a closed manager's.      *)
LEMMA ScheduleElectionTimed ==
    ASSUME NEW n \in Manager, NEW i \in Node,
           n.role # "leader", n.phase = "closing" => ~ n.electionTimer
    PROVE  LET s == ScheduleElection(n) IN Calm(s, n) /\ Timed(s, i)
<1>1. CASE Closed(n)
  BY <1>1 DEF ScheduleElection, Calm, Timed, Closed
<1>2. CASE ~ Closed(n)
  <2>1. PICK s : s = [n EXCEPT !.electionTimer = TRUE]
    OBVIOUS
  <2>2. /\ s.phase = n.phase /\ s.role = n.role /\ s.leader = n.leader /\ s.term = n.term
        /\ s.electionTimer
    BY <2>1 DEF Manager
  <2>3. Calm(s, n) /\ Timed(s, i)
    BY <1>2, <2>2 DEF Calm, Timed, Closed
  <2>4. ScheduleElection(n) = s
    BY <1>2, <2>1 DEF ScheduleElection
  <2> QED BY <2>3, <2>4
<1> QED BY <1>1, <1>2

(* stepDown leaves a follower of nobody, who needs no timer.                *)
LEMMA StepDownIfBehindTimed ==
    ASSUME NEW n \in Manager, NEW i \in Node, NEW t, Timed(n, i)
    PROVE  LET s == StepDownIfBehind(n, t) IN Calm(s, n) /\ Timed(s, i)
<1>1. PICK s : s = StepDown(n, t)
  OBVIOUS
<1>2. s.phase = n.phase /\ s.role = "follower" /\ s.leader = None /\ s.electionTimer = n.electionTimer
  BY <1>1 DEF StepDown, Manager
<1>3. Calm(s, n) /\ Timed(s, i)
  BY <1>2 DEF Calm, Timed, Closed
<1>4. StepDownIfBehind(n, t) \in {s, n}
  BY <1>1 DEF StepDownIfBehind
<1> QED BY <1>3, <1>4 DEF Calm

(* relinquishLeadership arms the election timer again.                      *)
LEMMA RelinquishTimed ==
    ASSUME NEW n \in Manager, NEW i \in Node, n.phase = "closing" => ~ n.electionTimer
    PROVE  LET s == RelinquishLeadership(n) IN Calm(s, n) /\ Timed(s, i) /\ s.role = "follower" /\ s.leader = None
<1>1. PICK r : r = [n EXCEPT !.role = "follower", !.leader = None, !.lease = FALSE,
                             !.vote = None, !.votes = {}, !.heartbeatTimer = FALSE]
  OBVIOUS
<1>2. r \in Manager /\ r.role = "follower" /\ r.phase = n.phase /\ r.electionTimer = n.electionTimer
  BY <1>1 DEF Manager, Role
<1>3. RelinquishLeadership(n) = ScheduleElection(r)
  BY <1>1 DEF RelinquishLeadership
<1>4. Calm(ScheduleElection(r), r) /\ Timed(ScheduleElection(r), i)
  BY <1>2, ScheduleElectionTimed
<1> QED BY <1>2, <1>3, <1>4, RelinquishResult DEF Calm

(* A leader that sends heartbeats keeps its timers or relinquishes.         *)
LEMMA SendHeartbeatsTimed ==
    ASSUME NEW n \in Manager, NEW i \in Node, Timed(n, i), n.role = "leader"
    PROVE  LET s == SendHeartbeats(n, i) IN Calm(s, n) /\ Timed(s, i)
<1>1. CASE HasLeaderQuorum(n, i)
  <2>1. SendHeartbeats(n, i) = [n EXCEPT !.lease = TRUE]
    BY <1>1 DEF SendHeartbeats
  <2>2. SameTimers(SendHeartbeats(n, i), n)
    BY <2>1 DEF SameTimers, Manager
  <2> QED BY <2>2, SameTimersTimed
<1>2. CASE ~ HasLeaderQuorum(n, i)
  BY <1>2, RelinquishTimed DEF SendHeartbeats, Timed
<1> QED BY <1>1, <1>2

(* becomeLeader stops the election timer and starts the heartbeats.         *)
LEMMA BecomeLeaderTimed ==
    ASSUME NEW n \in Manager, NEW i \in Node
    PROVE  LET s == BecomeLeader(n, i) IN s.phase = n.phase /\ s.role # "candidate" /\ Timed(s, i)
<1>1. PICK r : r = [n EXCEPT !.role = "leader", !.leader = i, !.lease = TRUE,
                             !.vote = i, !.electionTimer = FALSE]
  OBVIOUS
<1>2. /\ r \in Manager /\ r.role = "leader" /\ r.phase = n.phase /\ r.leader = i
      /\ ~ r.electionTimer
  BY <1>1 DEF Manager, Role
<1>3. PICK h : h = SendHeartbeats(r, i)
  OBVIOUS
<1>4. h \in Manager
  BY <1>2, <1>3, SendHeartbeatsResult
<1>5. /\ h.phase = n.phase
      /\ \/ h.role = "leader" /\ h.leader = i /\ ~ h.electionTimer
         \/ h.role = "follower" /\ h.leader = None /\ Timed(h, i)
  <2>1. CASE HasLeaderQuorum(r, i)
    <3>1. h = [r EXCEPT !.lease = TRUE]
      BY <1>2, <1>3, <2>1 DEF SendHeartbeats
    <3> QED BY <1>2, <3>1 DEF Manager
  <2>2. CASE ~ HasLeaderQuorum(r, i)
    <3>1. h = RelinquishLeadership(r)
      BY <1>2, <1>3, <2>2 DEF SendHeartbeats
    <3> QED BY <1>2, <3>1, RelinquishTimed DEF Calm
  <2> QED BY <2>1, <2>2
<1>6. PICK s : s = [h EXCEPT !.heartbeatTimer = TRUE]
  OBVIOUS
<1>7. /\ s.phase = h.phase /\ s.role = h.role /\ s.leader = h.leader
      /\ s.electionTimer = h.electionTimer /\ s.heartbeatTimer
  BY <1>4, <1>6 DEF Manager
<1>8. Timed(s, i)
  BY <1>5, <1>7 DEF Timed, Closed
<1>9. BecomeLeader(n, i) = s
  BY <1>1, <1>3, <1>6 DEF BecomeLeader
<1> QED BY <1>5, <1>7, <1>8, <1>9

(* observeLeader arms the timer of whoever follows.                         *)
LEMMA ObserveLeaderTimed ==
    ASSUME NEW n \in Manager, NEW i \in Node, NEW l \in Node, NEW t \in Term, NEW source,
           Timed(n, i)
    PROVE  LET s == ObserveLeader(n, i, l, t, source) IN Calm(s, n) /\ Timed(s, i)
<1>1. PICK d : d = StepDownIfBehind(n, t)
  OBVIOUS
<1>2. PICK f : f = [d EXCEPT !.role = "follower", !.leader = l,
                             !.lease = TRUE, !.heartbeatTimer = FALSE]
  OBVIOUS
<1>3. d \in Manager /\ d.phase = n.phase /\ Timed(d, i)
  BY <1>1, StepDownIfBehindResult, StepDownIfBehindTimed DEF Calm
<1>4. f \in Manager /\ f.role = "follower" /\ f.phase = d.phase /\ f.electionTimer = d.electionTimer
  BY <1>2, <1>3 DEF Manager, Role
<1>5. Calm(ScheduleElection(f), f) /\ Timed(ScheduleElection(f), i)
  BY <1>3, <1>4, ScheduleElectionTimed DEF Timed
<1>6. Calm(ScheduleElection(f), n)
  BY <1>3, <1>4, <1>5 DEF Calm
<1>7. ObserveLeader(n, i, l, t, source) \in {n, BecomeLeader(n, i), ScheduleElection(f)}
  BY <1>1, <1>2 DEF ObserveLeader
<1> QED BY <1>5, <1>6, <1>7, BecomeLeaderTimed DEF Calm

(* Arming the timer once more changes nothing for a server that is timed.   *)
LEMMA RescheduleTimed ==
    ASSUME NEW n \in Manager, NEW i \in Node, Timed(n, i)
    PROVE  LET s == ScheduleElection(n) IN Calm(s, n) /\ Timed(s, i)
<1>1. CASE n.role = "leader"
  BY <1>1 DEF ScheduleElection, Calm
<1>2. CASE n.role # "leader"
  BY <1>2, ScheduleElectionTimed DEF Timed
<1> QED BY <1>1, <1>2

(* A server goes down by a step of Gone only, does nothing once it is down, *)
(* and does not campaign once it is closed.                                 *)
AliveAsBefore(j) ==
    /\ mgr'[j].phase = "down" <=> mgr[j].phase = "down"
    /\ mgr[j].phase = "down" => SameBallot(mgr'[j], mgr[j])
    /\ Closed(mgr[j]) /\ mgr'[j].role = "candidate"
         => mgr[j].role = "candidate" /\ mgr'[j].term = mgr[j].term

Ticks == TimersArmed' /\ ((\A j \in Node : AliveAsBefore(j)) \/ \E i \in Node : Gone(i))

(* A step of one manager that leaves it timed.                              *)
LEMMA StepTicks ==
    ASSUME TypeOK, TimersArmed, NEW i \in Node, NEW n, NEW used, NEW out, Step(i, n, used, out),
           Timed(n, i),
           \/ n.phase = mgr[i].phase /\ SameBallot(n, mgr[i])
           \/ n.phase # "down" /\ mgr[i].phase # "down" /\ (Calm(n, mgr[i]) \/ ~ Closed(mgr[i]))
    PROVE  Ticks
<1>1. mgr'[i] = n /\ \A j \in Node \ {i} : mgr'[j] = mgr[j]
  BY DEF TypeOK, Step
<1>2. TimersArmed'
  <2> SUFFICES ASSUME NEW j \in Node PROVE Timed(mgr'[j], j)
    BY DEF TimersArmed, Timed, Closed
  <2>1. Timed(mgr[j], j)
    BY DEF TimersArmed, Timed
  <2> QED BY <1>1, <2>1
<1>3. AliveAsBefore(i)
  BY <1>1 DEF AliveAsBefore, Calm, SameBallot
<1>4. \A j \in Node \ {i} : AliveAsBefore(j)
  BY <1>1 DEF AliveAsBefore, SameBallot
<1> QED BY <1>2, <1>3, <1>4 DEF Ticks

(* The record of a server is timed.                                         *)
LEMMA OwnTimers ==
    ASSUME ElectionInvariant, TimersArmed, NEW i \in Node
    PROVE  TypeOK /\ mgr[i] \in Manager /\ Timed(mgr[i], i)
BY OwnState DEF ElectionInvariant, TimersArmed, Timed

(* So is the receiver of a message, once it has noted who speaks.           *)
LEMMA ReceiverTimed ==
    ASSUME ElectionInvariant, TimersArmed, NEW m \in msgs
    PROVE  /\ TypeOK /\ m.to \in Node /\ m.term \in Term /\ m.leader \in Node \cup {None}
           /\ Receiver(m) \in Manager /\ Calm(Receiver(m), mgr[m.to])
           /\ Timed(Receiver(m), m.to)
<1>1. m.to \in Node /\ m.term \in Term /\ m.leader \in Node \cup {None} /\ Receiver(m) \in Manager
  BY ReceiverResult
<1>2. TypeOK /\ mgr[m.to] \in Manager /\ Timed(mgr[m.to], m.to)
  BY <1>1, OwnTimers
<1>3. SameTimers(Receiver(m), mgr[m.to])
  BY <1>2 DEF Receiver, Heard, SameTimers, Manager
<1> QED BY <1>1, <1>2, <1>3, SameTimersTimed

(* A message handler leaves its manager timed.                              *)
LEMMA HandlerTicks ==
    ASSUME ElectionInvariant, TimersArmed, NEW m \in msgs, NEW type, Deliverable(m, type),
           NEW n, NEW out, Step(m.to, n, {m}, out),
           Timed(n, m.to), Calm(n, Receiver(m))
    PROVE  Ticks
<1>1. /\ TypeOK /\ m.to \in Node /\ mgr[m.to].phase # "down"
      /\ Calm(Receiver(m), mgr[m.to])
  BY ReceiverTimed DEF Deliverable
<1>2. Calm(n, mgr[m.to])
  BY <1>1 DEF Calm
<1>3. n.phase # "down"
  BY <1>1, <1>2 DEF Calm
<1> QED BY <1>1, <1>2, <1>3, StepTicks

(* Hellos, heartbeats and answers to probes.                                *)
LEMMA ObservingTicks ==
    ASSUME ElectionInvariant, TimersArmed, NEW m \in msgs,
           ReceiveHello(m) \/ ReceiveHeartbeat(m) \/ ApplyProbe(m)
    PROVE  Ticks
<1> DEFINE i == m.to
           r == Receiver(m)
<1>1. /\ TypeOK /\ i \in Node /\ m.term \in Term /\ m.leader \in Node \cup {None}
      /\ r \in Manager /\ Timed(r, i)
  BY ReceiverTimed
<1>2. CASE ReceiveHello(m)
  <2>1. PICK n : n = IF m.leader # None THEN ObserveLeader(r, i, m.leader, m.term, "control")
                     ELSE StepDownIfBehind(r, m.term)
    OBVIOUS
  <2>2. Deliverable(m, "hello") /\ Step(i, n, {m}, {})
    BY <1>2, <2>1 DEF ReceiveHello
  <2>3. Calm(n, r) /\ Timed(n, i)
    BY <1>1, <2>1, ObserveLeaderTimed, StepDownIfBehindTimed
  <2> QED BY <2>2, <2>3, HandlerTicks
<1>3. CASE ReceiveHeartbeat(m)
  <2>1. PICK f : f = ObserveLeader(r, i, m.leader, m.term, "control")
    OBVIOUS
  <2>2. PICK n : n = [f EXCEPT !.lease = TRUE]
    OBVIOUS
  <2>3. /\ Deliverable(m, "heartbeat")
        /\ Step(i, n, {m}, {Msg("ack", i, m.from, n.term, m.leader, FALSE)})
    BY <1>3, <2>1, <2>2 DEF ReceiveHeartbeat
  <2>4. m.leader \in Node /\ m.leader # i
    BY <1>1, <2>3, ReceiverResult DEF Deliverable, ElectionInvariant, PeersAreOthers
  <2>5. f \in Manager /\ Calm(f, r) /\ Timed(f, i)
    BY <1>1, <2>1, <2>4, ObserveLeaderResult, ObserveLeaderTimed
  <2>6. SameTimers(n, f)
    BY <2>2, <2>5 DEF SameTimers, Manager
  <2>7. Calm(n, r) /\ Timed(n, i)
    BY <2>5, <2>6, SameTimersTimed DEF Calm
  <2> QED BY <2>3, <2>7, HandlerTicks
<1>4. CASE ApplyProbe(m)
  <2>1. PICK u : u = [mgr[i] EXCEPT !.members = @ \cup {m.from}, !.fresh = @ \cup {m.from}]
    OBVIOUS
  <2>2. PICK n : n = IF m.leader = None THEN u ELSE ObserveLeader(u, i, m.leader, m.term, "discovery")
    OBVIOUS
  <2>3. Deliverable(m, "meta") /\ Step(i, n, {m}, {})
    BY <1>4, <2>1, <2>2 DEF ApplyProbe
  <2>4. mgr[i] \in Manager /\ Timed(mgr[i], i) /\ m.from \in Node
    BY <1>1, OwnTimers, ReceiverResult
  <2>5. u \in Manager /\ SameTimers(u, mgr[i])
    BY <2>1, <2>4 DEF SameTimers, Manager
  <2>6. Calm(u, mgr[i]) /\ Timed(u, i)
    BY <2>4, <2>5, SameTimersTimed
  <2>7. Calm(n, u) /\ Timed(n, i)
    BY <1>1, <2>2, <2>5, <2>6, ObserveLeaderTimed DEF Calm
  <2>8. Calm(n, mgr[i])
    BY <2>6, <2>7 DEF Calm
  <2>9. mgr[i].phase # "down" /\ n.phase # "down"
    BY <2>3, <2>8 DEF Deliverable, Calm
  <2> QED BY <1>1, <2>3, <2>7, <2>8, <2>9, StepTicks
<1> QED BY <1>2, <1>3, <1>4

(* Votes that are asked for and given.                                      *)
LEMMA VotingTicks ==
    ASSUME ElectionInvariant, TimersArmed, NEW m \in msgs,
           ReceiveVoteRequest(m) \/ ReceiveVoteResponse(m)
    PROVE  Ticks
<1> DEFINE i == m.to
           r == Receiver(m)
<1>1. /\ TypeOK /\ i \in Node /\ m.term \in Term /\ m.leader \in Node \cup {None}
      /\ r \in Manager /\ Timed(r, i) /\ m.from \in Node
  BY ReceiverTimed, ReceiverResult
<1>2. PICK d : d = StepDownIfBehind(r, m.term)
  OBVIOUS
<1>3. d \in Manager /\ Calm(d, r) /\ Timed(d, i)
  BY <1>1, <1>2, StepDownIfBehindResult, StepDownIfBehindTimed
<1>4. CASE ReceiveVoteRequest(m)
  <2>1. PICK g : g = [d EXCEPT !.vote = m.from]
    OBVIOUS
  <2>2. PICK v : v = ScheduleElection(g)
    OBVIOUS
  <2>3. Deliverable(m, "voteRequest") /\ \E n \in {d, v} : \E out : Step(i, n, {m}, out)
    BY <1>2, <1>4, <2>1, <2>2 DEF ReceiveVoteRequest
  <2>4. g \in Manager /\ SameTimers(g, d)
    BY <1>1, <1>3, <2>1 DEF SameTimers, Manager
  <2>5. Calm(g, d) /\ Timed(g, i)
    BY <1>3, <2>4, SameTimersTimed
  <2>6. Calm(v, g) /\ Timed(v, i)
    BY <1>1, <2>2, <2>4, <2>5, RescheduleTimed
  <2>7. Calm(v, r)
    BY <1>3, <2>5, <2>6 DEF Calm
  <2> QED BY <1>3, <2>3, <2>6, <2>7, HandlerTicks
<1>5. CASE ReceiveVoteResponse(m)
  <2>1. PICK v : v = Counted(r, m.from)
    OBVIOUS
  <2>2. PICK f : f = IF m.leader = None THEN r ELSE ObserveLeader(r, i, m.leader, m.term, "control")
    OBVIOUS
  <2>3. PICK b : b = BecomeLeader(v, i)
    OBVIOUS
  <2>4. Deliverable(m, "voteResponse") /\ \E n \in {d, f, v, b} : \E out : Step(i, n, {m}, out)
    BY <1>2, <1>5, <2>1, <2>2, <2>3 DEF ReceiveVoteResponse
  <2>5. v \in Manager /\ SameTimers(v, r)
    BY <1>1, <2>1 DEF Counted, SameTimers, Manager
  <2>6. Calm(v, r) /\ Timed(v, i)
    BY <1>1, <2>5, SameTimersTimed
  <2>7. Calm(f, r) /\ Timed(f, i)
    BY <1>1, <2>2, ObserveLeaderTimed DEF Calm
  <2>8. b.phase = v.phase /\ b.role # "candidate" /\ Timed(b, i)
    BY <1>1, <2>3, <2>5, BecomeLeaderTimed
  <2>9. Calm(b, r)
    BY <2>6, <2>8 DEF Calm
  <2> QED BY <1>3, <2>4, <2>6, <2>7, <2>8, <2>9, HandlerTicks
<1> QED BY <1>4, <1>5

(* The other messages.                                                      *)
LEMMA MessageTicks ==
    ASSUME ElectionInvariant, TimersArmed, NEW m \in msgs,
           ReceiveAck(m) \/ ReceiveRpcResponse(m) \/ ReceiveResign(m) \/ ReceiveRpcRequest(m)
    PROVE  Ticks
<1> DEFINE i == m.to
           r == Receiver(m)
<1>1. i \in Node /\ m.term \in Term /\ r \in Manager /\ Timed(r, i)
  BY ReceiverTimed
<1>2. PICK d : d = StepDownIfBehind(r, m.term)
  OBVIOUS
<1>3. d \in Manager /\ Calm(d, r) /\ Timed(d, i)
  BY <1>1, <1>2, StepDownIfBehindResult, StepDownIfBehindTimed
<1>4. CASE ReceiveAck(m) \/ ReceiveRpcResponse(m)
  <2>1. Calm(r, r)
    BY DEF Calm
  <2>2. \E type : Deliverable(m, type) /\ Step(i, r, {m}, {})
    BY <1>4 DEF ReceiveAck, ReceiveRpcResponse
  <2> QED BY <1>1, <2>1, <2>2, HandlerTicks
<1>5. CASE ReceiveRpcRequest(m)
  <2>1. Deliverable(m, "rpcRequest") /\ \E out : Step(i, d, {m}, out)
    BY <1>2, <1>5 DEF ReceiveRpcRequest
  <2> QED BY <1>3, <2>1, HandlerTicks
<1>6. CASE ReceiveResign(m)
  <2>1. PICK e : e = ClearLeader(d)
    OBVIOUS
  <2>2. PICK s : s = ScheduleElection(e)
    OBVIOUS
  <2>3. Deliverable(m, "resign") /\ \E n \in {d, s} : Step(i, n, {m}, {})
    BY <1>2, <1>6, <2>1, <2>2 DEF ReceiveResign
  <2>4. /\ e \in Manager /\ e.phase = d.phase /\ e.role = d.role /\ e.leader = None /\ e.term = d.term
        /\ e.electionTimer = d.electionTimer /\ e.heartbeatTimer = d.heartbeatTimer
    BY <1>3, <2>1 DEF ClearLeader, Manager
  <2>5. Calm(e, d) /\ Timed(e, i)
    BY <1>3, <2>4 DEF Calm, Timed, Closed
  <2>6. Calm(s, e) /\ Timed(s, i)
    BY <1>1, <2>2, <2>4, <2>5, RescheduleTimed
  <2>7. Calm(s, r)
    BY <1>3, <2>5, <2>6 DEF Calm
  <2> QED BY <1>3, <2>3, <2>6, <2>7, HandlerTicks
<1> QED BY <1>4, <1>5, <1>6

(* What a server does by itself.                                            *)
LEMMA LocalTicks ==
    ASSUME ElectionInvariant, TimersArmed, NEW i \in Node, Local(i)
    PROVE  Ticks
<1> DEFINE o == mgr[i]
<1>1. TypeOK /\ o \in Manager /\ Timed(o, i)
  BY OwnTimers
<1>2. CASE Start(i)
  <2>1. PICK r : r = [o EXCEPT !.phase = "running"]
    OBVIOUS
  <2>2. PICK n : n = ScheduleElection(r)
    OBVIOUS
  <2>3. o.phase = "starting" /\ Step(i, n, {}, {})
    BY <1>2, <2>1, <2>2 DEF Start
  <2>4. /\ r \in Manager /\ r.phase = "running" /\ r.role = o.role /\ r.leader = o.leader
        /\ r.electionTimer = o.electionTimer /\ r.heartbeatTimer = o.heartbeatTimer
    BY <1>1, <2>1 DEF Manager, Phase
  <2>5. Timed(r, i)
    BY <1>1, <2>3, <2>4 DEF Timed, Closed
  <2>6. n.phase = "running" /\ Timed(n, i)
    BY <2>2, <2>4, <2>5, RescheduleTimed DEF Calm
  <2> QED BY <1>1, <2>3, <2>6, StepTicks DEF Closed
<1>3. ASSUME NEW n, NEW out, Step(i, n, {}, out), SameTimers(n, o), SameBallot(n, o)
      PROVE  Ticks
  BY <1>1, <1>3, SameTimersTimed, StepTicks DEF SameTimers
<1>4. CASE LeaseExpires(i)
  <2>1. PICK n : n = [o EXCEPT !.lease = FALSE]
    OBVIOUS
  <2>2. SameTimers(n, o) /\ SameBallot(n, o)
    BY <1>1, <2>1 DEF SameTimers, SameBallot, Manager
  <2> QED BY <1>3, <1>4, <2>1, <2>2 DEF LeaseExpires
<1>5. CASE BeginRpc(i)
  <2>1. PICK n : n = [o EXCEPT !.rpc = o.leader]
    OBVIOUS
  <2>2. SameTimers(n, o) /\ SameBallot(n, o)
    BY <1>1, <2>1 DEF SameTimers, SameBallot, Manager
  <2> QED BY <1>3, <1>5, <2>1, <2>2 DEF BeginRpc
<1>6. CASE SendRpc(i)
  <2>1. PICK n : n = [o EXCEPT !.rpc = None]
    OBVIOUS
  <2>2. SameTimers(n, o) /\ SameBallot(n, o)
    BY <1>1, <2>1 DEF SameTimers, SameBallot, Manager
  <2> QED BY <1>3, <1>6, <2>1, <2>2 DEF SendRpc
<1>7. CASE StartElection(i)
  <2>1. PICK c : c = Campaign(o, i)
    OBVIOUS
  <2>2. PICK n : n \in {BecomeLeader(c, i), ScheduleElection(c)} /\ \E out : Step(i, n, {}, out)
    BY <1>7, <2>1 DEF StartElection
  <2>3. ~ Closed(o) /\ o.term + 1 \in Term
    BY <1>1, <1>7 DEF StartElection, Manager, Term
  <2>4. c \in Manager /\ c.phase = o.phase /\ c.role = "candidate"
    BY <1>1, <2>1, <2>3 DEF Campaign, Manager, Role
  <2>5. c.phase # "closing" /\ c.phase # "down"
    BY <2>3, <2>4 DEF Closed
  <2>6. n.phase = c.phase /\ Timed(n, i)
    BY <2>2, <2>4, <2>5, BecomeLeaderTimed, ScheduleElectionTimed DEF Calm
  <2> QED BY <1>1, <2>2, <2>3, <2>4, <2>5, <2>6, StepTicks
<1>8. CASE HeartbeatTick(i)
  <2>1. PICK n : n = SendHeartbeats(o, i)
    OBVIOUS
  <2>2. o.role = "leader" /\ o.phase # "down" /\ \E out : Step(i, n, {}, out)
    BY <1>8, <2>1 DEF HeartbeatTick
  <2>3. Calm(n, o) /\ Timed(n, i)
    BY <1>1, <2>1, <2>2, SendHeartbeatsTimed
  <2>4. n.phase # "down"
    BY <2>2, <2>3 DEF Calm
  <2> QED BY <1>1, <2>2, <2>3, <2>4, StepTicks
<1>9. CASE Close(i)
  <2>1. PICK n : n = [o EXCEPT !.phase = "closing", !.electionTimer = FALSE,
                               !.heartbeatTimer = FALSE]
    OBVIOUS
  <2>2. ~ Closed(o) /\ \E out : Step(i, n, {}, out)
    BY <1>9, <2>1 DEF Close
  <2>3. n.phase = "closing" /\ ~ n.electionTimer
    BY <1>1, <2>1 DEF Manager
  <2>4. Timed(n, i)
    BY <2>3 DEF Timed, Closed
  <2>5. n.phase # "down" /\ o.phase # "down"
    BY <2>2, <2>3 DEF Closed
  <2> QED BY <1>1, <2>2, <2>4, <2>5, StepTicks
<1>10. CASE Gone(i)
  <2>1. PICK dead : dead = [o EXCEPT !.phase = "down", !.known = {}]
    OBVIOUS
  <2>2. mgr' = [j \in Node |-> IF j = i THEN dead ELSE Forget(mgr[j], {i})]
    BY <1>10, <2>1 DEF Gone
  <2>3. TimersArmed'
    <3> SUFFICES ASSUME NEW j \in Node PROVE Timed(mgr'[j], j)
      BY DEF TimersArmed, Timed, Closed
    <3>1. CASE j = i
      <4>1. dead.phase = "down" /\ dead.role = o.role /\ dead.electionTimer = o.electionTimer
        BY <1>1, <2>1 DEF Manager
      <4>2. Timed(dead, i)
        BY <1>1, <4>1 DEF Timed, Closed
      <4> QED BY <2>2, <3>1, <4>2
    <3>2. CASE j # i
      <4>1. mgr[j] \in Manager /\ Timed(mgr[j], j)
        BY OwnTimers
      <4>2. SameTimers(Forget(mgr[j], {i}), mgr[j])
        BY <4>1 DEF Forget, SameTimers, Manager
      <4> QED BY <2>2, <3>2, <4>1, <4>2, SameTimersTimed
    <3> QED BY <3>1, <3>2
  <2> QED BY <1>10, <2>3 DEF Ticks
<1> QED BY <1>2, <1>4, <1>5, <1>6, <1>7, <1>8, <1>9, <1>10 DEF Local, CloseLinks, Crash

(* Links come and go, and peers are heard or not.                           *)
LEMMA PairwiseTicks ==
    ASSUME ElectionInvariant, TimersArmed, NEW i \in Node, NEW j \in Node, Pairwise(i, j)
    PROVE  Ticks
<1>1. TypeOK /\ \A k \in Node : mgr[k] \in Manager /\ Timed(mgr[k], k)
  BY OwnTimers
<1>2. ASSUME \A k \in Node : SameTimers(mgr'[k], mgr[k]) /\ SameBallot(mgr'[k], mgr[k])
      PROVE  Ticks
  <2>1. \A k \in Node : AliveAsBefore(k)
    BY <1>2 DEF AliveAsBefore, SameTimers, SameBallot
  <2>2. \A k \in Node : Timed(mgr'[k], k)
    BY <1>1, <1>2, SameTimersTimed
  <2>3. TimersArmed'
    BY <2>2 DEF TimersArmed, Timed, Closed
  <2> QED BY <2>1, <2>3 DEF Ticks
<1>3. CASE Connect(i, j) \/ Probe(i, j)
  <2>1. mgr' = mgr
    BY <1>3 DEF Connect, Probe
  <2> QED BY <1>2, <2>1 DEF SameTimers, SameBallot
<1>4. CASE Disconnect(i, j)
  <2>1. mgr' = [k \in Node |-> IF k \in {i, j} THEN Forget(mgr[k], {i, j}) ELSE mgr[k]]
    BY <1>4 DEF Disconnect
  <2>2. ASSUME NEW k \in Node
        PROVE  SameTimers(mgr'[k], mgr[k]) /\ SameBallot(mgr'[k], mgr[k])
    <3>1. /\ SameTimers(Forget(mgr[k], {i, j}), mgr[k])
          /\ SameBallot(Forget(mgr[k], {i, j}), mgr[k])
      BY <1>1 DEF Forget, SameTimers, SameBallot, Manager
    <3>2. SameTimers(mgr[k], mgr[k]) /\ SameBallot(mgr[k], mgr[k])
      BY DEF SameTimers, SameBallot
    <3>3. mgr'[k] \in {Forget(mgr[k], {i, j}), mgr[k]}
      BY <2>1
    <3> QED BY <3>1, <3>2, <3>3
  <2> QED BY <1>2, <2>2
<1>5. CASE PeerTurnsStale(i, j)
  <2>1. PICK n : n = [mgr[i] EXCEPT !.fresh = @ \ {j}]
    OBVIOUS
  <2>2. Step(i, n, {}, {})
    BY <1>5, <2>1 DEF PeerTurnsStale
  <2>3. SameTimers(n, mgr[i]) /\ SameBallot(n, mgr[i])
    BY <1>1, <2>1 DEF SameTimers, SameBallot, Manager
  <2>4. Timed(n, i) /\ n.phase = mgr[i].phase
    BY <1>1, <2>3, SameTimersTimed DEF SameTimers
  <2> QED BY <1>1, <2>2, <2>3, <2>4, StepTicks
<1> QED BY <1>3, <1>4, <1>5 DEF Pairwise

(* Every step.                                                              *)
LEMMA NextTicks == ElectionInvariant /\ TimersArmed /\ [Next]_vars => Ticks
<1> SUFFICES ASSUME ElectionInvariant, TimersArmed, [Next]_vars PROVE Ticks
  OBVIOUS
<1>1. ASSUME NEW i \in Node, Local(i) PROVE Ticks
  BY <1>1, LocalTicks
<1>2. ASSUME NEW i \in Node, NEW j \in Node, Pairwise(i, j) PROVE Ticks
  BY <1>2, PairwiseTicks
<1>3. ASSUME NEW m \in msgs, Receive(m) PROVE Ticks
  BY <1>3, ObservingTicks, VotingTicks, MessageTicks DEF Receive
<1>4. CASE UNCHANGED vars
  <2>1. mgr' = mgr
    BY <1>4 DEF vars
  <2>2. TimersArmed'
    BY <2>1 DEF TimersArmed, Closed
  <2>3. \A j \in Node : AliveAsBefore(j)
    BY <2>1 DEF AliveAsBefore, SameBallot
  <2> QED BY <2>2, <2>3 DEF Ticks
<1> QED BY <1>1, <1>2, <1>3, <1>4 DEF Next

-----------------------------------------------------------------------------
(* The theorems.                                                           *)

(* The invariant holds when the servers are constructed.                   *)
LEMMA InitEstablishes == Init => ElectionInvariant
<1> SUFFICES ASSUME Init PROVE ElectionInvariant
  OBVIOUS
<1>1. 0 \in Term
  BY DEF Term
<1>2. TypeOK
  BY <1>1 DEF Init, TypeOK, Manager, Phase, Role
<1>3. \A i \in Node : /\ mgr[i].role = "follower" /\ mgr[i].leader = None
                      /\ mgr[i].votes = {} /\ mgr[i].known = {}
                      /\ Static => mgr[i].members = Node
  BY DEF Init
<1>4. msgs = {} /\ elected = {}
  BY DEF Init
<1>5. PeersAreOthers /\ KnowsItself
  BY <1>3, <1>4 DEF PeersAreOthers, KnowsItself
<1>6. \A v, c \in Node, t \in Term : ~ Backs(v, c, t)
  BY <1>3, <1>4 DEF Backs
<1>7. BackersRemember /\ BacksOneOther
  BY <1>6 DEF BackersRemember, BacksOneOther
<1>8. LeadersHaveQuorum
  BY <1>3 DEF LeadersHaveQuorum
<1>9. ClaimsAreTrue /\ FollowsElected /\ ElectedNeverCampaignAgain
  BY <1>3, <1>4 DEF ClaimsAreTrue, FollowsElected, ElectedNeverCampaignAgain
<1> QED BY <1>2, <1>5, <1>7, <1>8, <1>9 DEF ElectionInvariant

(* Every step is such a step.                                              *)
LEMMA NextAdvances == ElectionInvariant /\ [Next]_vars => Advances
<1> SUFFICES ASSUME ElectionInvariant, [Next]_vars PROVE Advances
  OBVIOUS
<1>1. ASSUME NEW i \in Node, Local(i) PROVE Advances
  BY <1>1, QuietActions, StartElectionPreserves, HeartbeatTickPreserves, GonePreserves
     DEF Local, CloseLinks, Crash
<1>2. ASSUME NEW i \in Node, NEW j \in Node, Pairwise(i, j) PROVE Advances
  BY <1>2, ConnectPreserves, DisconnectPreserves, QuietActions, ProbePreserves DEF Pairwise
<1>3. ASSUME NEW m \in msgs, Receive(m) PROVE Advances
  BY <1>3, ReceiveHelloPreserves, ReceiveHeartbeatPreserves, ReceiveAckPreserves,
     ReceiveVoteRequestPreserves, ReceiveVoteResponsePreserves, ReceiveResignPreserves,
     ReceiveRpcRequestPreserves, ApplyProbePreserves DEF Receive
<1>4. CASE UNCHANGED vars
  <2>1. mgr' = mgr /\ link' = link /\ msgs' = msgs /\ elected' = elected
    BY <1>4 DEF vars
  <2>2. link' \subseteq {{k, l} : k, l \in Node}
    BY <2>1 DEF ElectionInvariant, TypeOK
  <2> QED BY <2>1, <2>2, UnchangedManagers, NetworkAdvances
<1> QED BY <1>1, <1>2, <1>3, <1>4 DEF Next

(* So every step preserves the invariant.                                  *)
LEMMA NextPreserves == ElectionInvariant /\ [Next]_vars => ElectionInvariant'
BY NextAdvances DEF Advances

(* The invariant holds in every run of every cluster, whatever its size,   *)
(* its membership mode and the faults it is exposed to.                    *)
THEOREM ElectionIsInvariant == Spec => []ElectionInvariant
<1>1. Init => ElectionInvariant
  BY InitEstablishes
<1>2. ElectionInvariant /\ [Next]_vars => ElectionInvariant'
  BY NextPreserves
<1> QED BY <1>1, <1>2, PTL DEF Spec

(* The fields and the messages always have their types.                    *)
THEOREM TypeCorrect == Spec => []TypeOK
<1>1. ElectionInvariant => TypeOK
  BY DEF ElectionInvariant
<1> QED BY <1>1, ElectionIsInvariant, PTL

(* A server never follows one that was not elected in that very term.      *)
THEOREM FollowersFollowElected == Spec => []FollowsElected
<1>1. ElectionInvariant => FollowsElected
  BY DEF ElectionInvariant
<1> QED BY <1>1, ElectionIsInvariant, PTL

(* Two quorums share a server; it voted for both leaders of a term only if *)
(* one of them is the server itself, and then it no longer leads.          *)
LEMMA QuorumsMeet ==
    ASSUME ElectionInvariant, Static, NEW i \in Node, NEW j \in Node,
           mgr[i].role = "leader", mgr[j].role = "leader"
    PROVE  \E v \in Node : v \in mgr[i].votes /\ v \in mgr[j].votes
<1> DEFINE S == mgr[i].votes
           T == mgr[j].votes
           k == Cardinality(Node)
<1>1. mgr[i] \in Manager /\ mgr[j] \in Manager
  BY DEF ElectionInvariant, TypeOK
<1>2. S \subseteq Node /\ T \subseteq Node
  BY <1>1 DEF Manager
<1>3. IsFiniteSet(Node) /\ IsFiniteSet(S) /\ IsFiniteSet(T)
  BY <1>2, NodeAssumption, FS_Subset
<1>4. k \in Nat /\ Cardinality(S) \in Nat /\ Cardinality(T) \in Nat
  BY <1>3, FS_CardinalityType
<1>5. mgr[i].members = Node /\ mgr[j].members = Node
  BY DEF ElectionInvariant, PeersAreOthers
<1>6. Cardinality(S) >= (k \div 2) + 1 /\ Cardinality(T) >= (k \div 2) + 1
  BY <1>5 DEF ElectionInvariant, LeadersHaveQuorum, QuorumSize
<1> HIDE DEF S, T, k
<1>7. Cardinality(S) + Cardinality(T) > k
  BY <1>4, <1>6
<1>8. S \cap T # {}
  BY <1>2, <1>3, <1>7, FS_MajoritiesIntersect DEF k
<1> QED BY <1>2, <1>8 DEF S, T

(* With a static membership no term ever has two leaders at a time.        *)
THEOREM ElectionSafety == ASSUME Static PROVE Spec => []OneLeaderPerTerm
<1>1. ElectionInvariant => OneLeaderPerTerm
  <2> SUFFICES ASSUME ElectionInvariant, NEW i \in Node, NEW j \in Node,
                      mgr[i].role = "leader", mgr[j].role = "leader",
                      mgr[i].term = mgr[j].term
               PROVE  i = j
    BY DEF OneLeaderPerTerm
  <2>1. PICK v \in Node : v \in mgr[i].votes /\ v \in mgr[j].votes
    BY QuorumsMeet
  <2> DEFINE t == mgr[i].term
  <2>2. t \in Term /\ t \in Int
    BY DEF ElectionInvariant, TypeOK, Manager, Term
  <2>3. Backs(v, i, t) /\ Backs(v, j, t)
    BY <2>1 DEF Backs
  <2>4. mgr[i].vote = i /\ mgr[j].vote = j
    BY DEF ElectionInvariant, KnowsItself
  <2>5. CASE v \notin {i, j}
    BY <2>2, <2>3, <2>5 DEF ElectionInvariant, BacksOneOther
  <2>6. CASE v = i /\ v # j
    <3>1. mgr[v].term > t \/ (mgr[v].term = t /\ mgr[v].vote = j)
      BY <2>2, <2>3, <2>6 DEF ElectionInvariant, BackersRemember
    <3> QED BY <2>2, <2>4, <2>6, <3>1
  <2>7. CASE v = j /\ v # i
    <3>1. mgr[v].term > t \/ (mgr[v].term = t /\ mgr[v].vote = i)
      BY <2>2, <2>3, <2>7 DEF ElectionInvariant, BackersRemember
    <3> QED BY <2>2, <2>4, <2>7, <3>1
  <2> QED BY <2>5, <2>6, <2>7
<1> QED BY <1>1, ElectionIsInvariant, PTL

(* Whoever campaigns or follows notices that nothing happens, a leader      *)
(* notices that its quorum is gone, and close() leaves no election timer.   *)
THEOREM TimersStayArmed == Spec => []TimersArmed
<1>1. Init => TimersArmed
  BY DEF Init, TimersArmed, Closed
<1>2. ElectionInvariant /\ TimersArmed /\ [Next]_vars => TimersArmed'
  BY NextTicks DEF Ticks
<1> QED BY <1>1, <1>2, ElectionIsInvariant, PTL DEF Spec

(* A vote for another server is final in its term, and terms only grow.     *)
THEOREM VotesStayFinal == Spec => VotesAreFinal
<1>1. ElectionInvariant /\ [Next]_vars
        => \A i \in Node :
             /\ mgr'[i].term >= mgr[i].term
             /\ mgr'[i].term = mgr[i].term /\ mgr[i].vote \notin {None, i}
                => mgr'[i].vote = mgr[i].vote
  <2> SUFFICES ASSUME ElectionInvariant, [Next]_vars, NEW i \in Node
               PROVE  /\ mgr'[i].term >= mgr[i].term
                      /\ mgr'[i].term = mgr[i].term /\ mgr[i].vote \notin {None, i}
                         => mgr'[i].vote = mgr[i].vote
    OBVIOUS
  <2>1. PICK j \in Node : OneMoves(j)
    BY NextAdvances DEF Advances
  <2>2. CASE i = j
    BY <2>1, <2>2 DEF OneMoves, LawfulBallot
  <2>3. CASE i # j
    <3>1. SameBallot(mgr'[i], mgr[i])
      BY <2>1, <2>3 DEF OneMoves
    <3>2. mgr[i].term \in Int
      BY OwnState DEF Manager, Term
    <3> QED BY <3>1, <3>2 DEF SameBallot
  <2> QED BY <2>2, <2>3
<1> QED BY <1>1, ElectionIsInvariant, PTL DEF Spec, VotesAreFinal

(* The end of a process changes no ballot and ends that process only.       *)
LEMMA GoneEffect ==
    ASSUME ElectionInvariant, NEW i \in Node, Gone(i)
    PROVE  /\ elected' = elected
           /\ \A j \in Node : SameBallot(mgr'[j], mgr[j])
           /\ mgr'[i].phase = "down"
           /\ \A j \in Node \ {i} : mgr'[j].phase = mgr[j].phase
<1>1. \A j \in Node : mgr[j] \in Manager
  BY OwnState
<1>2. PICK dead : dead = [mgr[i] EXCEPT !.phase = "down", !.known = {}]
  OBVIOUS
<1>3. /\ mgr' = [j \in Node |-> IF j = i THEN dead ELSE Forget(mgr[j], {i})]
      /\ elected' = elected
  BY <1>2 DEF Gone
<1>4. dead.phase = "down" /\ SameBallot(dead, mgr[i])
  BY <1>1, <1>2 DEF Manager, SameBallot
<1>5. \A j \in Node : /\ SameBallot(Forget(mgr[j], {i}), mgr[j])
                      /\ Forget(mgr[j], {i}).phase = mgr[j].phase
  BY <1>1 DEF Forget, Manager, SameBallot
<1> QED BY <1>3, <1>4, <1>5

(* A manager that was closed does not campaign.                             *)
THEOREM ClosedStaysQuiet == Spec => ClosedNeverCampaigns
<1>1. ElectionInvariant /\ TimersArmed /\ [Next]_vars
        => \A i \in Node : mgr[i].phase = "closing" /\ mgr'[i].role = "candidate"
                             => mgr[i].role = "candidate" /\ mgr'[i].term = mgr[i].term
  <2> SUFFICES ASSUME ElectionInvariant, TimersArmed, [Next]_vars, NEW i \in Node,
                      mgr[i].phase = "closing", mgr'[i].role = "candidate"
               PROVE  mgr[i].role = "candidate" /\ mgr'[i].term = mgr[i].term
    OBVIOUS
  <2>1. CASE AliveAsBefore(i)
    BY <2>1 DEF AliveAsBefore, Closed
  <2>2. ASSUME NEW j \in Node, Gone(j)
        PROVE  mgr[i].role = "candidate" /\ mgr'[i].term = mgr[i].term
    BY <2>2, GoneEffect DEF SameBallot
  <2> QED BY <2>1, <2>2, NextTicks DEF Ticks
<1> QED BY <1>1, ElectionIsInvariant, TimersStayArmed, PTL DEF Spec, ClosedNeverCampaigns

-----------------------------------------------------------------------------
(* The refinement of TermLeadership.                                       *)

Leading == {<<mgr[i].term, i>> : i \in {j \in Node : Leads(j)}}

(* The pairs that lead, before and after a step.                            *)
LEMMA LeadingIs ==
    /\ \A t, i : <<t, i>> \in Leading <=> i \in Node /\ Leads(i) /\ t = mgr[i].term
    /\ \A t, i : <<t, i>> \in Leading' <=> i \in Node /\ Leads(i)' /\ t = mgr'[i].term
    /\ \A e \in Leading \cup Leading' : e = <<e[1], e[2]>>
BY DEF Leading

(* Sets of pairs with the same pairs are the same.                          *)
LEMMA SameLeading ==
    ASSUME \A t, j : <<t, j>> \in Leading' <=> <<t, j>> \in Leading
    PROVE  Leading' = Leading
<1>1. ASSUME NEW e \in Leading PROVE e \in Leading'
  <2>1. e = <<e[1], e[2]>>
    BY <1>1, LeadingIs
  <2>2. <<e[1], e[2]>> \in Leading'
    BY <1>1, <2>1
  <2> QED BY <2>1, <2>2
<1>2. ASSUME NEW e \in Leading' PROVE e \in Leading
  <2>1. e = <<e[1], e[2]>>
    BY <1>2, LeadingIs
  <2>2. <<e[1], e[2]>> \in Leading
    BY <1>2, <2>1
  <2> QED BY <2>1, <2>2
<1> QED BY <1>1, <1>2

(* When the ballots stay, the end of a process can only end its leadership. *)
LEMMA GoneResigns ==
    ASSUME ElectionInvariant, NEW i \in Node, Gone(i)
    PROVE  [TL!Next]_TL!vars
<1>1. /\ elected' = elected
      /\ \A j \in Node : SameBallot(mgr'[j], mgr[j])
      /\ mgr'[i].phase = "down"
      /\ \A j \in Node \ {i} : mgr'[j].phase = mgr[j].phase
  BY GoneEffect
<1>2. /\ ~ Leads(i)'
      /\ \A j \in Node \ {i} : (Leads(j)' <=> Leads(j)) /\ mgr'[j].term = mgr[j].term
  BY <1>1 DEF Leads, SameBallot
<1>3. mgr[i].term \in Term
  BY OwnState DEF Manager
<1>4. Leading' = Leading \ {<<mgr[i].term, i>>}
  BY <1>2, LeadingIs
<1>5. CASE Leads(i)
  <2>1. TL!Resign(mgr[i].term, i)
    BY <1>1, <1>4, <1>5, LeadingIs DEF TL!Resign, Leading
  <2> QED BY <1>3, <2>1 DEF TL!Next
<1>6. CASE ~ Leads(i)
  <2>1. Leading' = Leading
    BY <1>4, <1>6, LeadingIs
  <2> QED BY <1>1, <2>1 DEF TL!vars, Leading
<1> QED BY <1>5, <1>6

(* Any other step elects its server, ends its leadership, or does neither.  *)
LEMMA MoveLeads ==
    ASSUME ElectionInvariant, ElectionInvariant', NEW i \in Node, OneMoves(i),
           \A j \in Node : AliveAsBefore(j), OneLeaderPerTerm'
    PROVE  [TL!Next]_TL!vars
<1>1. /\ LawfulPromotion(i, mgr'[i])
      /\ elected' = elected \cup NewlyElected(mgr'[i], mgr[i], i)
      /\ mgr[i].term \in Term /\ mgr[i].term \in Int
  BY OwnState DEF OneMoves, Manager, Term
<1>2. \A j \in Node \ {i} : (Leads(j)' <=> Leads(j)) /\ mgr'[j].term = mgr[j].term
  BY DEF OneMoves, AliveAsBefore, SameBallot, Leads
<1>3. CASE Leads(i) /\ Leads(i)'
  <2>1. mgr'[i].term = mgr[i].term /\ elected' = elected
    BY <1>1, <1>3 DEF LawfulPromotion, Leads, NewlyElected
  <2>2. Leading' = Leading
    <3>1. \A t, j : <<t, j>> \in Leading' <=> <<t, j>> \in Leading
      <4> SUFFICES ASSUME NEW t, NEW j PROVE <<t, j>> \in Leading' <=> <<t, j>> \in Leading
        OBVIOUS
      <4>1. CASE j = i
        BY <1>3, <2>1, <4>1, LeadingIs
      <4>2. CASE j # i
        BY <1>2, <4>2, LeadingIs
      <4> QED BY <4>1, <4>2
    <3> QED BY <3>1, SameLeading
  <2> QED BY <2>1, <2>2 DEF TL!vars, Leading
<1>4. CASE Leads(i) /\ ~ Leads(i)'
  <2>1. elected' = elected
    BY <1>1, <1>4 DEF Leads, NewlyElected
  <2>2. Leading' = Leading \ {<<mgr[i].term, i>>}
    BY <1>2, <1>4, LeadingIs
  <2>3. TL!Resign(mgr[i].term, i)
    BY <1>4, <2>1, <2>2, LeadingIs DEF TL!Resign, Leading
  <2> QED BY <1>1, <2>3 DEF TL!Next
<1>5. CASE ~ Leads(i) /\ Leads(i)'
  <2>1. PICK t \in Term : t = mgr'[i].term
    BY DEF ElectionInvariant, TypeOK, Manager
  <2>2. /\ mgr'[i].role = "leader" /\ mgr[i].role # "leader"
        /\ t > mgr[i].term \/ (t = mgr[i].term /\ mgr[i].role = "candidate")
    <3>1. mgr'[i].role = "leader" /\ mgr'[i].phase # "down"
      BY <1>5 DEF Leads
    <3>2. mgr[i].phase # "down"
      BY <3>1 DEF AliveAsBefore
    <3>3. mgr[i].role # "leader"
      BY <1>5, <3>2 DEF Leads
    <3>4. mgr'[i].term > mgr[i].term \/ mgr[i].role = "candidate"
      BY <1>1, <3>1, <3>3 DEF LawfulPromotion
    <3>5. mgr'[i].term >= mgr[i].term /\ mgr'[i].term \in Int
      BY <2>1 DEF OneMoves, LawfulBallot, Term
    <3> QED BY <1>1, <2>1, <3>1, <3>3, <3>4, <3>5
  <2>3. <<t, i>> \notin elected
    BY <1>1, <2>1, <2>2 DEF ElectionInvariant, ElectedNeverCampaignAgain, Term
  <2>4. \A j \in Node : <<t, j>> \notin Leading
    <3> SUFFICES ASSUME NEW j \in Node, Leads(j), mgr[j].term = t PROVE FALSE
      BY LeadingIs
    <3>1. j # i
      BY <1>5
    <3>2. Leads(j)' /\ mgr'[j].term = t
      BY <1>2, <3>1
    <3> QED BY <1>5, <2>1, <3>1, <3>2 DEF OneLeaderPerTerm, Leads
  <2>5. elected' = elected \cup {<<t, i>>}
    BY <1>1, <2>1, <2>2 DEF NewlyElected
  <2>6. Leading' = Leading \cup {<<t, i>>}
    BY <1>2, <1>5, <2>1, LeadingIs
  <2>7. TL!Elect(t, i)
    BY <2>3, <2>4, <2>5, <2>6 DEF TL!Elect, Leading
  <2> QED BY <2>7 DEF TL!Next
<1>6. CASE ~ Leads(i) /\ ~ Leads(i)'
  <2>1. elected' = elected
    BY <1>1, <1>6 DEF AliveAsBefore, SameBallot, Leads, NewlyElected
  <2>2. Leading' = Leading
    <3>1. \A t, j : <<t, j>> \in Leading' <=> <<t, j>> \in Leading
      <4> SUFFICES ASSUME NEW t, NEW j PROVE <<t, j>> \in Leading' <=> <<t, j>> \in Leading
        OBVIOUS
      <4>1. CASE j = i
        BY <1>6, <4>1, LeadingIs
      <4>2. CASE j # i
        BY <1>2, <4>2, LeadingIs
      <4> QED BY <4>1, <4>2
    <3> QED BY <3>1, SameLeading
  <2> QED BY <2>1, <2>2 DEF TL!vars, Leading
<1> QED BY <1>3, <1>4, <1>5, <1>6

(* With a static membership the manager keeps the promise of an election    *)
(* protocol: a term has one leader at a time, and a server that stopped     *)
(* leading in a term does not lead in it again.                             *)
THEOREM ElectionImplementsTermLeadership ==
    ASSUME Static
    PROVE  Spec => ImplementsTermLeadership
<1>1. Init => TL!Init
  <2> SUFFICES ASSUME Init PROVE TL!Init
    OBVIOUS
  <2>1. \A i \in Node : ~ Leads(i)
    BY DEF Init, Leads
  <2>2. elected = {}
    BY DEF Init
  <2> QED BY <2>1, <2>2 DEF TL!Init
<1>2. ElectionInvariant /\ TimersArmed /\ OneLeaderPerTerm' /\ [Next]_vars => [TL!Next]_TL!vars
  <2> SUFFICES ASSUME ElectionInvariant, TimersArmed, OneLeaderPerTerm', [Next]_vars
               PROVE  [TL!Next]_TL!vars
    OBVIOUS
  <2>1. PICK i \in Node : OneMoves(i)
    BY NextAdvances DEF Advances
  <2>2. CASE \A j \in Node : AliveAsBefore(j)
    <3>1. ElectionInvariant'
      BY NextPreserves
    <3> QED BY <2>1, <2>2, <3>1, MoveLeads
  <2>3. ASSUME NEW j \in Node, Gone(j) PROVE [TL!Next]_TL!vars
    BY <2>3, GoneResigns
  <2> QED BY <2>2, <2>3, NextTicks DEF Ticks
<1> QED BY <1>1, <1>2, ElectionIsInvariant, TimersStayArmed, ElectionSafety, PTL
        DEF Spec, ImplementsTermLeadership
=============================================================================
