--------------------------- MODULE ClusterElection ---------------------------
(***************************************************************************)
(* Primary election between MDP servers: the class MdpClusterManager of    *)
(* packages/server/src/cluster-manager.ts, one instance per server.        *)
(*                                                                         *)
(* The fields of a manager are a record mgr[i]; its private methods are    *)
(* operators from a record to a record (StepDown, ObserveLeader, ...), so  *)
(* that a handler composes them in the order in which the code calls them. *)
(* A handler runs to completion between two turns of the event loop: every *)
(* timer callback and every message is one action.                         *)
(*                                                                         *)
(* Time is abstracted to what the code compares: a lease is running or has *)
(* expired, a peer was heard within leaseDurationMs or was not, a timer is *)
(* armed or not and an armed one may fire at any moment.                   *)
(*                                                                         *)
(* The sockets between two servers (each may dial the other) are one link. *)
(* Two sockets do not keep the order of the messages spread over them, so  *)
(* the messages in flight are a set.  A closed link takes its messages     *)
(* with it; a partition that closes nothing is a message never delivered.  *)
(***************************************************************************)
EXTENDS Integers, FiniteSets

CONSTANTS
    Node,           \* the server ids of one cluster
    None,           \* undefined
    Static,         \* BOOLEAN: was --cluster-members given, with all of Node?
    Stoppable,      \* the servers that may be shut down or may crash
    Flaky,          \* the servers whose links may close
    Silent,         \* the servers that others may not hear from for a lease
    Probing,        \* the servers whose discovery timer is modelled
    Calling,        \* the servers that forward RPCs to the leader
    MaxTerm         \* bound: no server campaigns beyond this term

ASSUME NodeAssumption == IsFiniteSet(Node) /\ Node # {}
ASSUME NoneAssumption == None \notin Node
ASSUME StaticAssumption == Static \in BOOLEAN
ASSUME EnvironmentAssumption ==
    /\ Stoppable \subseteq Node /\ Flaky \subseteq Node /\ Silent \subseteq Node
    /\ Probing \subseteq Node /\ Calling \subseteq Node
    /\ MaxTerm \in Nat

VARIABLES
    mgr,            \* the manager object of each server
    link,           \* the pairs of servers joined by an open websocket
    msgs,           \* the control messages and probe answers in flight
    elected         \* history: who ever became leader, and in which term

vars == <<mgr, link, msgs, elected>>

Term == 0 .. MaxTerm
Phase == {"starting", "running", "closing", "down"}
Role == {"follower", "candidate", "leader"}
Kind == {"hello", "heartbeat", "ack", "voteRequest", "voteResponse", "resign",
         "rpcRequest", "rpcResponse", "meta"}

(* "known" are the peers with a link in peer.links, "fresh" those whose    *)
(* lastSeenAt lies within the lease, "rpc" is the leader a forwarded RPC   *)
(* has captured before it awaits the connection.                           *)
Manager == [phase: Phase, term: Term, role: Role, leader: Node \cup {None},
            vote: Node \cup {None}, lease: BOOLEAN, votes: SUBSET Node,
            electionTimer: BOOLEAN, heartbeatTimer: BOOLEAN,
            members: SUBSET Node, known: SUBSET Node, fresh: SUBSET Node,
            rpc: Node \cup {None}]

(* "leader" is the leader a message names, if it names one.                *)
Message == [type: Kind, from: Node, to: Node, term: Term,
            leader: Node \cup {None}, granted: BOOLEAN]

Msg(type, from, to, term, leader, granted) ==
    [type |-> type, from |-> from, to |-> to, term |-> term,
     leader |-> leader, granted |-> granted]

TypeOK == /\ mgr \in [Node -> Manager]
          /\ link \subseteq {{i, j} : i, j \in Node}
          /\ msgs \subseteq Message
          /\ elected \subseteq (Term \X Node)

-----------------------------------------------------------------------------
(* The private methods.                                                    *)

OnlyDown(n) == n.phase = "down"                               \* mutant
Closed(n) == n.phase \in {"closing", "down"}

HalfSize(n) == Cardinality(n.members) \div 2                  \* mutant
QuorumSize(n) == (Cardinality(n.members) \div 2) + 1

ReachableMemberCount(n, i) ==
    1 + Cardinality((n.members \ {i}) \cap n.known \cap n.fresh)

HasLeaderQuorum(n, i) == ReachableMemberCount(n, i) >= QuorumSize(n)

HasActiveLeaderLease(n, i) == n.leader \notin {None, i} /\ n.lease

ScheduleWhenClosed(n) ==                                      \* mutant
    IF n.role = "leader" THEN n ELSE [n EXCEPT !.electionTimer = TRUE]

ScheduleElection(n) ==
    IF Closed(n) \/ n.role = "leader" THEN n ELSE [n EXCEPT !.electionTimer = TRUE]

ClearLeader(n) == [n EXCEPT !.leader = None, !.lease = FALSE]

StepDown(n, t) ==
    [n EXCEPT !.term = t, !.role = "follower", !.leader = None, !.lease = FALSE,
              !.vote = None, !.votes = {}, !.heartbeatTimer = FALSE]

StepDownIfNotAhead(n, t) == IF t >= n.term THEN StepDown(n, t) ELSE n  \* mutant
StepDownIfBehind(n, t) == IF t > n.term THEN StepDown(n, t) ELSE n

RelinquishLeadership(n) ==
    ScheduleElection([n EXCEPT !.role = "follower", !.leader = None, !.lease = FALSE,
                               !.vote = None, !.votes = {}, !.heartbeatTimer = FALSE])

HeartbeatsWithoutQuorum(n, i) ==                              \* mutant
    IF n.role # "leader" THEN n ELSE [n EXCEPT !.lease = TRUE]

(* The record after sendHeartbeats; the heartbeats go out iff it still     *)
(* leads.                                                                  *)
SendHeartbeats(n, i) ==
    IF n.role # "leader" THEN n
    ELSE IF HasLeaderQuorum(n, i) THEN [n EXCEPT !.lease = TRUE]
    ELSE RelinquishLeadership(n)

(* startHeartbeatTimer comes after sendHeartbeats, whatever that did.      *)
BecomeLeader(n, i) ==
    [SendHeartbeats([n EXCEPT !.role = "leader", !.leader = i, !.lease = TRUE,
                              !.vote = i, !.electionTimer = FALSE], i)
        EXCEPT !.heartbeatTimer = TRUE]

ObserveAnyTerm(n, i, l, t, source) ==                         \* mutant
    IF l = i THEN n
    ELSE ScheduleElection(
            [StepDownIfBehind(n, t) EXCEPT !.role = "follower", !.leader = l,
                                           !.lease = TRUE, !.heartbeatTimer = FALSE])

ObserveUntimed(n, i, l, t, source) ==                         \* mutant
    IF l = i THEN n
    ELSE IF t < n.term THEN n
    ELSE [StepDownIfBehind(n, t) EXCEPT !.role = "follower", !.leader = l,
                                        !.lease = TRUE, !.heartbeatTimer = FALSE]

ObserveLeader(n, i, l, t, source) ==
    IF l = i THEN IF n.role = "leader" THEN n ELSE BecomeLeader(n, i)
    ELSE IF \/ /\ source = "discovery" /\ n.leader # l /\ t <= n.term
               /\ n.role = "leader" \/ HasActiveLeaderLease(n, i)
            \/ t < n.term
         THEN n
    ELSE ScheduleElection(
            [StepDownIfBehind(n, t) EXCEPT !.role = "follower", !.leader = l,
                                           !.lease = TRUE, !.heartbeatTimer = FALSE])

(* upsertPeerFromMessage: whoever speaks becomes a member, and the link it *)
(* speaks over is from now on the link broadcasts use.                     *)
Heard(n, j) == [n EXCEPT !.members = @ \cup {j}, !.known = @ \cup {j},
                         !.fresh = @ \cup {j}]

-----------------------------------------------------------------------------
(* The network.                                                            *)

Linked(i, j) == {i, j} \in link

Broadcast(type, n, i) == {Msg(type, i, j, n.term, i, FALSE) : j \in n.known}

(* What a promotion or a heartbeat tick sends.                             *)
Heartbeats(n, i) == IF n.role = "leader" THEN Broadcast("heartbeat", n, i) ELSE {}

(* A hello and the answer to a probe tell the same.                        *)
Hello(type, n, i, j) ==
    Msg(type, i, j, n.term, IF n.role = "leader" THEN i ELSE None, FALSE)

NewlyElected(n, old, i) ==
    IF n.role = "leader" /\ old.role # "leader" THEN {<<n.term, i>>} ELSE {}

(* Manager i has handled something and is now n; it sent "out" and the     *)
(* messages "used" are consumed.                                           *)
Step(i, n, used, out) ==
    /\ mgr' = [mgr EXCEPT ![i] = n]
    /\ msgs' = (msgs \ used) \cup out
    /\ elected' = elected \cup NewlyElected(n, mgr[i], i)
    /\ UNCHANGED link

(* Socket events of i stop with its process; a "meta" is an HTTP answer.   *)
Deliverable(m, type) == m.type = type /\ mgr[m.to].phase # "down"

Receiver(m) == Heard(mgr[m.to], m.from)

-----------------------------------------------------------------------------
Init == /\ mgr = [i \in Node |->
                    [phase |-> "starting", term |-> 0, role |-> "follower",
                     leader |-> None, vote |-> None, lease |-> FALSE, votes |-> {},
                     electionTimer |-> FALSE, heartbeatTimer |-> FALSE,
                     members |-> IF Static THEN Node ELSE {i},
                     known |-> {}, fresh |-> {}, rpc |-> None]]
        /\ link = {}
        /\ msgs = {}
        /\ elected = {}

(* start() after its first refreshPeers: arm the election timer.           *)
Start(i) ==
    /\ mgr[i].phase = "starting"
    /\ Step(i, ScheduleElection([mgr[i] EXCEPT !.phase = "running"]), {}, {})

(* openPeerConnection at i and handleConnection at j: both say hello.      *)
Connect(i, j) ==
    /\ i # j /\ ~ Linked(i, j)
    /\ ~ Closed(mgr[i]) /\ mgr[j].phase # "down"
    /\ link' = link \cup {{i, j}}
    /\ msgs' = msgs \cup {Hello("hello", mgr[i], i, j), Hello("hello", mgr[j], j, i)}
    /\ UNCHANGED <<mgr, elected>>

Forget(n, gone) == [n EXCEPT !.known = @ \ gone]

OnLinks(closing) == {m \in msgs : m.type # "meta" /\ {m.from, m.to} \in closing}

(* unregisterLink at both ends; what was in flight is lost.                *)
Disconnect(i, j) ==
    /\ i # j /\ Linked(i, j) /\ {i, j} \cap Flaky # {}
    /\ mgr' = [k \in Node |-> IF k \in {i, j} THEN Forget(mgr[k], {i, j}) ELSE mgr[k]]
    /\ link' = link \ {{i, j}}
    /\ msgs' = msgs \ OnLinks({{i, j}})
    /\ UNCHANGED elected

(* now - peer.lastSeenAt exceeds leaseDurationMs.                          *)
PeerTurnsStale(i, j) ==
    /\ j \in mgr[i].fresh /\ j \in Silent
    /\ Step(i, [mgr[i] EXCEPT !.fresh = @ \ {j}], {}, {})

(* Date.now() reaches leaderLeaseExpiresAt; nobody reads the lease of a    *)
(* server that knows no leader or leads itself.                            *)
LeaseExpires(i) ==
    /\ HasActiveLeaderLease(mgr[i], i)
    /\ Step(i, [mgr[i] EXCEPT !.lease = FALSE], {}, {})

-----------------------------------------------------------------------------
(* Timers.                                                                 *)

Campaign(n, i) ==
    [n EXCEPT !.term = @ + 1, !.role = "candidate", !.leader = None,
              !.lease = FALSE, !.vote = i, !.votes = {i}]

(* The election timer fires: startElection.  While the lease runs the      *)
(* timer is only armed again, which changes nothing.                       *)
StartElection(i) ==
    LET n == mgr[i]
        c == Campaign(n, i) IN
    /\ n.electionTimer
    /\ ~ (Closed(n) \/ HasActiveLeaderLease(n, i) \/ n.role = "leader")
    /\ n.term < MaxTerm
    /\ \/ /\ QuorumSize(c) <= 1
          /\ LET b == BecomeLeader(c, i) IN Step(i, b, {}, Heartbeats(b, i))
       \/ /\ QuorumSize(c) > 1
          /\ Step(i, ScheduleElection(c), {}, Broadcast("voteRequest", c, i))

(* The heartbeat interval fires; a manager that no longer leads ignores it.*)
HeartbeatTick(i) ==
    LET n == SendHeartbeats(mgr[i], i) IN
    /\ mgr[i].heartbeatTimer /\ mgr[i].role = "leader" /\ mgr[i].phase # "down"
    /\ Step(i, n, {}, Heartbeats(n, i))

-----------------------------------------------------------------------------
(* handleClusterMessage, one action per message type.                      *)

ReceiveHello(m) ==
    LET i == m.to
        r == Receiver(m)
        n == IF m.leader # None THEN ObserveLeader(r, i, m.leader, m.term, "control")
             ELSE StepDownIfBehind(r, m.term) IN
    /\ Deliverable(m, "hello")
    /\ Step(i, n, {m}, {})

(* The lease is renewed after observeLeader, even if that ignored the      *)
(* heartbeat as one of an earlier term.                                    *)
ReceiveHeartbeat(m) ==
    LET i == m.to
        n == [ObserveLeader(Receiver(m), i, m.leader, m.term, "control")
                EXCEPT !.lease = TRUE] IN
    /\ Deliverable(m, "heartbeat")
    /\ Step(i, n, {m}, {Msg("ack", i, m.from, n.term, m.leader, FALSE)})

(* Heard already did all an acknowledgement can do; its term is not looked *)
(* at by a leader that is behind.                                          *)
ReceiveAck(m) ==
    /\ Deliverable(m, "ack")
    /\ Step(m.to, Receiver(m), {m}, {})

VoteResponse(n, i, j, granted) ==
    Msg("voteResponse", i, j, n.term, n.leader, granted)

VoteTwice(n, i, m) == m.term < n.term                         \* mutant

(* A request of an earlier term, a running lease of another leader, or a   *)
(* vote already given.                                                     *)
VoteRefused(n, i, m) == \/ m.term < n.term
                        \/ HasActiveLeaderLease(n, i) /\ n.leader # m.from
                        \/ n.vote \notin {None, m.from}

ReceiveVoteRequest(m) ==
    LET i == m.to
        n == StepDownIfBehind(Receiver(m), m.term) IN
    /\ Deliverable(m, "voteRequest")
    /\ \/ /\ VoteRefused(n, i, m)
          /\ Step(i, n, {m}, {VoteResponse(n, i, m.from, FALSE)})
       \/ /\ ~ VoteRefused(n, i, m)
          /\ LET v == ScheduleElection([n EXCEPT !.vote = m.from])
             IN Step(i, v, {m}, {VoteResponse(v, i, m.from, TRUE)})

Counted(n, voter) == [n EXCEPT !.votes = @ \cup {voter}]

ReceiveVoteResponse(m) ==
    LET i == m.to
        r == Receiver(m)
        counts == r.role = "candidate" /\ m.term = r.term
        v == Counted(r, m.from) IN
    /\ Deliverable(m, "voteResponse")
    /\ \/ /\ ~ counts                      \* too new, or too late
          /\ Step(i, StepDownIfBehind(r, m.term), {m}, {})
       \/ /\ counts /\ ~ m.granted
          /\ LET n == IF m.leader = None THEN r
                      ELSE ObserveLeader(r, i, m.leader, m.term, "control")
             IN Step(i, n, {m}, IF n.role = r.role THEN {} ELSE Heartbeats(n, i))
       \/ /\ counts /\ m.granted /\ Cardinality(v.votes) < QuorumSize(v)
          /\ Step(i, v, {m}, {})
       \/ /\ counts /\ m.granted /\ Cardinality(v.votes) >= QuorumSize(v)
          /\ LET n == BecomeLeader(v, i) IN Step(i, n, {m}, Heartbeats(n, i))

ReceiveResign(m) ==
    LET n == StepDownIfBehind(Receiver(m), m.term) IN
    /\ Deliverable(m, "resign")
    /\ Step(m.to,
            IF n.leader = m.leader THEN ScheduleElection(ClearLeader(n)) ELSE n,
            {m}, {})

(* What the RPC itself computes is not modelled; its answer is.            *)
ReceiveRpcRequest(m) ==
    LET n == StepDownIfBehind(Receiver(m), m.term) IN
    /\ Deliverable(m, "rpcRequest")
    /\ Step(m.to, n, {m},
            {Msg("rpcResponse", m.to, m.from, n.term, None, n.role = "leader")})

ReceiveRpcResponse(m) ==
    /\ Deliverable(m, "rpcResponse")
    /\ Step(m.to, Receiver(m), {m}, {})

-----------------------------------------------------------------------------
(* requestLeaderRpc: the leader is captured before the connection is       *)
(* awaited, the term is read when the request is at last sent.             *)

BeginRpc(i) ==
    /\ i \in Calling /\ mgr[i].rpc = None /\ ~ Closed(mgr[i])
    /\ mgr[i].leader \notin {None, i}
    /\ Step(i, [mgr[i] EXCEPT !.rpc = mgr[i].leader], {}, {})

SendRpc(i) ==
    LET n == mgr[i] IN
    /\ n.rpc # None /\ n.phase # "down"
    /\ Step(i, [n EXCEPT !.rpc = None], {},
            IF n.rpc \in n.known THEN {Msg("rpcRequest", i, n.rpc, n.term, None, FALSE)}
            ELSE {})

(* refreshPeers, split at its await: j answers the probe, and later i      *)
(* works with an answer that may no longer be true.                        *)
Probe(i, j) ==
    /\ i \in Probing /\ i # j
    /\ ~ Closed(mgr[i]) /\ mgr[j].phase # "down"
    /\ msgs' = msgs \cup {Hello("meta", mgr[j], j, i)}
    /\ UNCHANGED <<mgr, link, elected>>

ApplyProbe(m) ==
    LET i == m.to
        u == [mgr[i] EXCEPT !.members = @ \cup {m.from}, !.fresh = @ \cup {m.from}]
        n == IF m.leader = None THEN u
             ELSE ObserveLeader(u, i, m.leader, m.term, "discovery") IN
    /\ Deliverable(m, "meta")
    /\ Step(i, n, {m}, {})

-----------------------------------------------------------------------------
(* The end of a server.                                                    *)

(* close(): timers off; a leader resigns, and goes on handling messages    *)
(* for the 50 ms before it closes its links.                               *)
Close(i) ==
    LET n == mgr[i] IN
    /\ i \in Stoppable /\ ~ Closed(n)
    /\ Step(i, [n EXCEPT !.phase = "closing", !.electionTimer = FALSE,
                         !.heartbeatTimer = FALSE], {},
            IF n.role = "leader" THEN Broadcast("resign", n, i) ELSE {})

Gone(i) ==
    LET lost == {l \in link : i \in l} IN
    /\ link' = link \ lost
    /\ msgs' = {m \in msgs \ OnLinks(lost) : m.to # i}
    /\ mgr' = [j \in Node |->
                 IF j = i THEN [mgr[i] EXCEPT !.phase = "down", !.known = {}]
                 ELSE Forget(mgr[j], {i})]
    /\ UNCHANGED elected

(* The links of a closing server are closed.                               *)
CloseLinks(i) == mgr[i].phase = "closing" /\ Gone(i)

(* The process dies; the kernel closes its sockets.                        *)
Crash(i) == i \in Stoppable /\ mgr[i].phase # "down" /\ Gone(i)

-----------------------------------------------------------------------------
Receive(m) == \/ ReceiveHello(m) \/ ReceiveHeartbeat(m) \/ ReceiveAck(m)
              \/ ReceiveVoteRequest(m) \/ ReceiveVoteResponse(m)
              \/ ReceiveResign(m) \/ ReceiveRpcRequest(m)
              \/ ReceiveRpcResponse(m) \/ ApplyProbe(m)

Local(i) == \/ Start(i) \/ LeaseExpires(i) \/ StartElection(i) \/ HeartbeatTick(i)
            \/ BeginRpc(i) \/ SendRpc(i)
            \/ Close(i) \/ CloseLinks(i) \/ Crash(i)

Pairwise(i, j) == \/ Connect(i, j) \/ Disconnect(i, j) \/ PeerTurnsStale(i, j)
                  \/ Probe(i, j)

Next == \/ \E i \in Node : Local(i)
        \/ \E i, j \in Node : Pairwise(i, j)
        \/ \E m \in msgs : Receive(m)

Spec == Init /\ [][Next]_vars

(* setInterval: the heartbeat of a server that keeps leading keeps ticking. *)
FairSpec == Spec /\ \A i \in Node : WF_vars(HeartbeatTick(i))

-----------------------------------------------------------------------------
(* Properties.                                                             *)

Leads(i) == mgr[i].role = "leader" /\ mgr[i].phase # "down"

(* With a static membership two servers never lead in the same term, for   *)
(* all that a leader which lost its quorum forgets its own vote            *)
(* (relinquishLeadership) and may vote again in that term.                 *)
OneLeaderPerTerm ==
    \A i, j \in Node :
        /\ mgr[i].role = "leader" /\ mgr[j].role = "leader"
        /\ mgr[i].term = mgr[j].term
        => i = j

(* A server only ever follows one that was elected in the follower's own   *)
(* term: no heartbeat, hello, refused vote or outdated probe answer makes  *)
(* it follow a server that never won.                                      *)
FollowsElected ==
    \A i \in Node : mgr[i].leader # None => <<mgr[i].term, mgr[i].leader>> \in elected

(* Whoever campaigns or trusts a leader has an election timer to notice    *)
(* that nothing happens, a leader has a heartbeat timer to notice that its *)
(* quorum is gone, and a closing manager has no election timer left.        *)
TimersArmed ==
    \A i \in Node :
        LET n == mgr[i] IN
        /\ ~ Closed(n) => /\ n.role = "candidate" => n.electionTimer
                          /\ n.leader \notin {None, i} => n.electionTimer
                          /\ n.role = "leader" => n.heartbeatTimer
        /\ n.phase = "closing" \/ n.role = "leader" => ~ n.electionTimer

(* A vote for another server is final in its term, whatever else the voter *)
(* goes through in that term, and no message takes a server back to an     *)
(* earlier one.                                                            *)
VotesAreFinal ==
    [][\A i \in Node :
         /\ mgr'[i].term >= mgr[i].term
         /\ mgr'[i].term = mgr[i].term /\ mgr[i].vote \notin {None, i}
            => mgr'[i].vote = mgr[i].vote]_vars

(* A closing manager still handles messages, but it never campaigns.       *)
ClosedNeverCampaigns ==
    [][\A i \in Node : mgr[i].phase = "closing" /\ mgr'[i].role = "candidate"
                         => mgr[i].role = "candidate" /\ mgr'[i].term = mgr[i].term]_vars

(* The manager keeps the promise of an election protocol.                  *)
TL == INSTANCE TermLeadership
        WITH Term <- Term,
             leads <- {<<mgr[i].term, i>> : i \in {j \in Node : Leads(j)}}
ImplementsTermLeadership == TL!Init /\ [][TL!Next]_TL!vars

(* A leader that no longer sees a quorum gives up, unless it sees one      *)
(* again or is shut down: it does not serve indefinitely.                  *)
LostQuorumStepsDown ==
    \A i \in Node :
        Leads(i) /\ ~ HasLeaderQuorum(mgr[i], i)
            ~> \/ ~ Leads(i) \/ HasLeaderQuorum(mgr[i], i) \/ Closed(mgr[i])

-----------------------------------------------------------------------------
(* The inductive invariant behind OneLeaderPerTerm and FollowsElected.     *)

(* v has voted for c in term t: the vote is counted or still on its way.   *)
Backs(v, c, t) ==
    \/ mgr[c].term = t /\ v \in mgr[c].votes
    \/ \E m \in msgs : /\ m.type = "voteResponse" /\ m.granted
                        /\ m.from = v /\ m.to = c /\ m.term = t

PeersAreOthers ==
    /\ \A i \in Node : i \notin mgr[i].known /\ (Static => mgr[i].members = Node)
    /\ \A m \in msgs :
         /\ m.from # m.to
         /\ m.type \in {"hello", "meta"} => m.leader \in {None, m.from}
         /\ m.type \in {"heartbeat", "resign"} => m.leader = m.from

KnowsItself ==
    \A i \in Node : /\ mgr[i].role # "follower" => mgr[i].vote = i
                    /\ mgr[i].leader = i <=> mgr[i].role = "leader"

(* A vote for another is the one the voter remembers, until its next term. *)
BackersRemember ==
    \A v, c \in Node, t \in Term :
        Backs(v, c, t) /\ v # c
            => mgr[v].term > t \/ (mgr[v].term = t /\ mgr[v].vote = c)

(* A server that gave up its own candidacy may have backed one other, no   *)
(* server ever backs two others.                                           *)
BacksOneOther ==
    \A v, c, d \in Node, t \in Term :
        Backs(v, c, t) /\ Backs(v, d, t) /\ v \notin {c, d} => c = d

LeadersHaveQuorum ==
    \A i \in Node : Static /\ mgr[i].role = "leader"
                      => Cardinality(mgr[i].votes) >= QuorumSize(mgr[i])

Claims(m) == m.type \in {"hello", "heartbeat", "voteResponse", "meta"} /\ m.leader # None

ClaimsAreTrue == \A m \in msgs : Claims(m) => <<m.term, m.leader>> \in elected

ElectedNeverCampaignAgain ==
    \A t \in Term, i \in Node :
        <<t, i>> \in elected
            => mgr[i].term > t \/ (mgr[i].term = t /\ mgr[i].role # "candidate")

(* Votes, promotions and the messages about them fit together.             *)
ElectionInvariant ==
    /\ TypeOK /\ PeersAreOthers /\ KnowsItself
    /\ BackersRemember /\ BacksOneOther /\ LeadersHaveQuorum
    /\ ClaimsAreTrue /\ FollowsElected /\ ElectedNeverCampaignAgain

-----------------------------------------------------------------------------
(* What the documentation says and the code does not do.                   *)

(* "when quorum is later restored, the cluster can converge again and      *)
(* elect a primary": as long as a quorum of running servers is joined by   *)
(* links, one of them leads or will campaign, or a message is on its way.  *)
Convergent(S) ==
    /\ \A i \in S : mgr[i].phase = "running" /\ S \ {i} \subseteq mgr[i].known
    /\ 2 * Cardinality(S) > Cardinality(Node)

ElectionPossible ==
    \A S \in SUBSET Node :
        Convergent(S) /\ (\A m \in msgs : m.to \notin S)
            => \E i \in S : mgr[i].role = "leader" \/ mgr[i].electionTimer
=============================================================================
