--------------------------- MODULE ServerDiscovery ---------------------------
(* How the servers of a host find each other: what a server looks for       *)
(* before it chooses its port, the rounds of probes in which it meets the   *)
(* others, the control connections it opens to them and the hellos that     *)
(* introduce both ends, while servers start, stop and take the ports of     *)
(* others.  Elections are in ClusterElection, which takes this as given.    *)
EXTENDS Naturals, FiniteSets

CONSTANTS
    Deployments, \* the command lines of servers that may be started together
    Probed,      \* the ports 1..Probed are probed, 1 is the default port
    Ports,       \* ports a server may be given; those after Probed are not probed
    MaxUnderway, \* bound: starts, rounds, dials and connections without hellos at a time
    MaxStops     \* bound: servers that are stopped

ASSUME DiscoveryConstants ==
    /\ Probed \in Nat /\ Ports \in Nat
    /\ \A given \in Deployments :
          /\ IsFiniteSet(DOMAIN given)
          /\ \A s \in DOMAIN given : /\ given[s].port \in Nat /\ given[s].seed \in Nat
                                     /\ given[s].wildcard \in BOOLEAN
                                     /\ IsFiniteSet(given[s].members)

VARIABLES
    options, \* options[s]: the command line of s; port and seed 0: none is given
    proc,    \* proc[s]: the process of s
    links,   \* open control connections: heard are the ends that had the other's hello
    before,  \* history: the servers that listen since a round of s began ...
    met,     \* ... and those that listen since a round of s that is complete,
             \* unless s then had their id elsewhere, or has since heard of
             \* another server with their id
    misled   \* history: the ids of peers at whose address s met somebody else

(* Processes, each of which is started at most once.                        *)
Server == DOMAIN options

discoveryVars == <<options, proc, links, before, met, misled>>

Off == [phase |-> "off", asked |-> 0, port |-> 0, at |-> 0, found |-> {},
        peers |-> {}, outbound |-> {}, dials |-> {}]

DiscoveryInit ==
    /\ options \in Deployments
    /\ proc = [s \in Server |-> Off]
    /\ links = {}
    /\ before = [s \in Server |-> {}] /\ met = [s \in Server |-> {}]
    /\ misled = [s \in Server |-> {}]

-----------------------------------------------------------------------------
(* What servers say of themselves.                                          *)

(* resolveServerId: a given id, the host and port, or the process.          *)
Ident(s) ==
    IF options[s].name # "" THEN <<options[s].name>>
    ELSE IF proc[s].asked # 0 THEN <<options[s].wildcard, proc[s].asked>>
    ELSE <<s>>

Clustered(s) == options[s].mode # "standalone"

(* The configured members and the server itself; {} is dynamic.             *)
Membership(s) == IF options[s].members = {} THEN {} ELSE options[s].members \cup {Ident(s)}

Eligible(s, id) == Membership(s) = {} \/ id \in Membership(s)

SameCluster(s, t) == options[s].cluster = options[t].cluster

SameVersion(s, t) == options[s].version = options[t].version

Listening(s) == proc[s].phase \in {"starting", "running"}

Listener(p) == {t \in Server : Listening(t) /\ proc[t].port = p}

Peer(t) == [id |-> Ident(t), port |-> proc[t].port]

(* A server that listens on every address does not know itself: what it     *)
(* advertises is told with the address it was asked at.                     *)
IsSelf(s, t) ==
    /\ Ident(t) = Ident(s) /\ proc[t].port = proc[s].port
    /\ ~options[s].wildcard

-----------------------------------------------------------------------------
(* Connections.                                                             *)

(* The peer an outbound connection is counted for: the one that was dialed  *)
(* until another has said that it is somebody else.                         *)
CountedFor(l) == IF l.from \in l.heard THEN Ident(l.to) ELSE l.dialed

(* Mutant: the flag is not cleared.                                         *)
FlagsStay(s, closed) == proc[s].outbound

OutboundWithout(s, closed) == proc[s].outbound \ {CountedFor(l) : l \in {k \in closed : k.from = s}}

(* The end of a process closes its port and its connections.                *)
Ends(s, phase) ==
    LET closed == {l \in links : s \in {l.from, l.to}} IN
    /\ proc' = [t \in Server |->
                   IF t = s
                   THEN [proc[s] EXCEPT !.phase = phase, !.at = 0, !.found = {}, !.peers = {},
                                        !.outbound = {}, !.dials = {}]
                   ELSE [proc[t] EXCEPT !.outbound = OutboundWithout(t, closed)]]
    /\ links' = links \ closed
    /\ before' = [t \in Server |-> IF t = s THEN {} ELSE before[t] \ {s}]
    /\ met' = [t \in Server |-> IF t = s THEN {} ELSE met[t] \ {s}]
    /\ misled' = [misled EXCEPT ![s] = {}]
    /\ UNCHANGED options

Stop(s) ==
    /\ Cardinality({t \in Server : proc[t].phase = "stopped"}) < MaxStops
    /\ Listening(s) /\ Ends(s, "stopped")

(* An error while a server starts, or in a round nobody waits for.          *)
Fails(s) == Ends(s, "failed")

-----------------------------------------------------------------------------
(* A round of probes, the same before and after the port is chosen.         *)

LastProbe(s) == IF options[s].seed = 0 THEN Probed ELSE Probed + 1

ProbedPort(s) == IF proc[s].at <= Probed THEN proc[s].at ELSE options[s].seed

(* An answer that ends the round: of another version, or at the upstream    *)
(* URL of another cluster or of a server that is no member.                 *)
Throws(s, t) ==
    \/ ~SameVersion(s, t)
    \/ proc[s].at > Probed
       /\ \/ ~SameCluster(s, t)
          \/ proc[s].phase # "looking" /\ ~Eligible(s, Ident(t))

(* Mutant: servers of other clusters are found.                             *)
AnswersToAll(s) == Listener(ProbedPort(s))

Answers(s) == {t \in Listener(ProbedPort(s)) : SameCluster(s, t)}

Probe(s) ==
    /\ proc[s].at \in 1..LastProbe(s)
    /\ IF \E t \in Listener(ProbedPort(s)) : Throws(s, t)
       THEN Fails(s)
       ELSE /\ proc' = [proc EXCEPT ![s].at = @ + 1, ![s].found = @ \cup Answers(s)]
            /\ UNCHANGED <<options, links, before, met, misled>>

(* What may begin now, under the bound.                                     *)
FewUnderway(s) ==
    LET opening == {l \in links : l.heard # {l.from, l.to}}
        dials == UNION {{<<t, d>> : d \in proc[t].dials} : t \in Server}
        probing == {t \in Server \ {s} : proc[t].at # 0 \/ proc[t].phase = "binding"}
    IN  Cardinality(opening) + Cardinality(dials) + Cardinality(probing) < MaxUnderway

Start(s) ==
    /\ proc[s].phase = "off" /\ FewUnderway(s)
    /\ proc' = [proc EXCEPT ![s] =
                  IF options[s].port # 0 \/ ~Clustered(s)
                  THEN [Off EXCEPT !.phase = "binding",
                                   !.asked = IF options[s].port = 0 THEN 1 ELSE options[s].port]
                  ELSE [Off EXCEPT !.phase = "looking",
                                   !.at = IF options[s].seed = 0 THEN 1 ELSE Probed + 1]]
    /\ UNCHANGED <<options, links, before, met, misled>>

Allowed(s, id) == options[s].members = {} \/ id \in options[s].members

(* finalizeCliOptions: any free port when there is a server to follow.      *)
ChoosePort(s) ==
    /\ proc[s].phase = "looking" /\ proc[s].at = LastProbe(s) + 1
    /\ proc' = [proc EXCEPT ![s].phase = "binding", ![s].at = 0, ![s].found = {},
                   ![s].asked = IF \E t \in proc[s].found : Allowed(s, Ident(t)) THEN 0 ELSE 1]
    /\ UNCHANGED <<options, links, before, met, misled>>

RoundBegins(s, phase, port) ==
    /\ proc' = [proc EXCEPT ![s].phase = phase, ![s].port = port, ![s].found = {},
                            ![s].at = IF Clustered(s) THEN 1 ELSE 0]
    /\ before' = [before EXCEPT ![s] = {t \in Server : Listening(t)}]
    /\ UNCHANGED <<options, links, met, misled>>

(* start() of the transport server, then of the cluster manager.            *)
Bind(s) ==
    /\ proc[s].phase = "binding" /\ FewUnderway(s)
    /\ IF proc[s].asked # 0 /\ Listener(proc[s].asked) # {}
       THEN Fails(s)
       ELSE \E p \in IF proc[s].asked = 0 THEN {q \in 1..Ports : Listener(q) = {}} ELSE {proc[s].asked} :
               RoundBegins(s, IF Clustered(s) THEN "starting" ELSE "running", p)

DiscoveryTimer(s) ==
    /\ proc[s].phase = "running" /\ Clustered(s) /\ proc[s].at = 0
    /\ FewUnderway(s)
    /\ RoundBegins(s, "running", proc[s].port)

(* Two servers with one id, one of which may be s, or one with which s      *)
(* cannot agree on a quorum.                                                *)
Conflict(s) ==
    \E t \in proc[s].found :
       \/ Ident(t) = Ident(s) /\ ~IsSelf(s, t)
       \/ \E u \in proc[s].found : Ident(u) = Ident(t) /\ proc[u].port # proc[t].port
       \/ Eligible(s, Ident(t)) /\ ~IsSelf(s, t) /\ Membership(t) # Membership(s)

Joining(s) == {Peer(t) : t \in {u \in proc[s].found : ~IsSelf(s, u) /\ Eligible(s, Ident(u))}}

Ids(peers) == {p.id : p \in peers}

Upsert(peers, new) == {p \in peers : p.id \notin Ids(new)} \cup new

(* The id of the server is being dialed at an address it does not have, or  *)
(* counted for a connection to another server.                              *)
HasElsewhere(s, t) ==
    \/ \E d \in proc[s].dials : d.id = Ident(t) /\ d # Peer(t)
    \/ \E l \in links : l.from = s /\ CountedFor(l) = Ident(t) /\ l.to # t

(* refreshPeers, once every probe is answered.                              *)
RoundEnds(s) ==
    /\ Listening(s) /\ proc[s].at = LastProbe(s) + 1
    /\ LET peers == Upsert(proc[s].peers, Joining(s))
           busy == proc[s].outbound \cup Ids(proc[s].dials)
       IN  IF \/ Conflict(s)
              \/ proc[s].phase = "starting" /\ options[s].mode = "proxy-required" /\ peers = {}
           THEN Fails(s)
           ELSE /\ proc' = [proc EXCEPT ![s].phase = "running", ![s].at = 0, ![s].found = {},
                               ![s].peers = peers,
                               ![s].dials = @ \cup {p \in Joining(s) : p.id \notin busy}]
                /\ met' = [met EXCEPT ![s] = {t \in before[s] : ~HasElsewhere(s, t)}]
                /\ UNCHANGED <<options, links, before, misled>>

-----------------------------------------------------------------------------
(* openPeerConnection: whoever listens at the address by then answers; one  *)
(* that is not in cluster mode hangs up on the hello.                       *)
DialEnds(s, d) ==
    LET there == {t \in Listener(d.port) : Clustered(t)} IN
    /\ d \in proc[s].dials
    /\ proc' = [proc EXCEPT ![s].dials = @ \ {d},
                            ![s].outbound = IF there = {} THEN @ ELSE @ \cup {d.id}]
    /\ links' = links \cup {[from |-> s, to |-> t, dialed |-> d.id, heard |-> {}] : t \in there}
    /\ UNCHANGED <<options, before, met, misled>>

(* Mutant: whoever is of the cluster is let in.                             *)
RefusesOthersOnly(e, o) == ~SameCluster(e, o) \/ Ident(e) = Ident(o)

Refuses(e, o) ==
    \/ ~Eligible(e, Ident(o))
    \/ ~SameCluster(e, o)
    \/ Membership(e) # Membership(o)
    \/ Ident(e) = Ident(o)

(* e is at one end of the connection and has the hello of the other.        *)
HearHello(l, e) ==
    LET o == CHOOSE x \in {l.from, l.to} : x # e
        heard == [l EXCEPT !.heard = @ \cup {e}]
    IN  /\ l \in links /\ e \in {l.from, l.to} \ l.heard
        /\ IF Refuses(e, o)
           THEN /\ links' = links \ {l}
                /\ proc' = [proc EXCEPT ![l.from].outbound = OutboundWithout(l.from, {l})]
                /\ UNCHANGED <<met, misled>>
           ELSE /\ links' = (links \ {l}) \cup {heard}
                /\ proc' = [proc EXCEPT ![e].peers = Upsert(@, {Peer(o)})]
                /\ met' = [met EXCEPT ![e] = {t \in @ : t = o \/ Ident(t) # Ident(o)}]
                /\ misled' = IF e = l.from /\ Ident(o) # l.dialed
                             THEN [misled EXCEPT ![e] = @ \cup {l.dialed}] ELSE misled
        /\ UNCHANGED <<options, before>>

DiscoveryNext ==
    \/ \E s \in Server :
          \/ Start(s) \/ ChoosePort(s) \/ Bind(s) \/ Stop(s)
          \/ Probe(s) \/ RoundEnds(s) \/ DiscoveryTimer(s)
          \/ \E d \in proc[s].dials : DialEnds(s, d)
    \/ \E l \in links : \E e \in {l.from, l.to} : HearHello(l, e)

DiscoverySpec == DiscoveryInit /\ [][DiscoveryNext]_discoveryVars

-----------------------------------------------------------------------------
(* Properties.                                                              *)

Idents == {<<options[s].name>> : s \in Server} \cup (BOOLEAN \X Nat) \cup {<<s>> : s \in Server}

Address == [id : Idents, port : Nat]

Phase == {"off", "looking", "binding", "starting", "running", "stopped", "failed"}

DiscoveryTypeOK ==
    /\ options \in Deployments
    /\ proc \in [Server -> [phase : Phase, asked : Nat, port : Nat, at : 0 .. Probed + 2,
                            found : SUBSET Server, peers : SUBSET Address, outbound : SUBSET Idents,
                            dials : SUBSET Address]]
    /\ links \subseteq [from : Server, to : Server, dialed : Idents, heard : SUBSET Server]
    /\ before \in [Server -> SUBSET Server] /\ met \in [Server -> SUBSET Server]
    /\ misled \in [Server -> SUBSET Idents]

(* A port has one listener, and only those that listen look for others, know *)
(* peers and have connections.                                              *)
PortsAreHeld ==
    /\ \A s, t \in Server : Listening(s) /\ Listening(t) /\ proc[s].port = proc[t].port => s = t
    /\ \A s \in Server :
          /\ Listening(s) => proc[s].port # 0
          /\ proc[s].phase \in {"off", "looking", "binding"} => proc[s].port = 0
          /\ proc[s].phase \in {"off", "looking"} => proc[s].asked = 0
          /\ proc[s].at # 0 => proc[s].phase \in {"looking", "starting", "running"}
          /\ \A t \in before[s] \cup met[s] : Listening(s) /\ Listening(t)
          /\ ~Listening(s) => proc[s].peers = {} /\ proc[s].outbound = {} /\ proc[s].dials = {}
    /\ \A l \in links : l.from # l.to /\ Listening(l.from) /\ Listening(l.to)

(* What a round has found so far.                                           *)
FoundWhatIsThere ==
    \A s \in Server :
       /\ \A t \in proc[s].found : proc[t].port # 0 /\ SameCluster(s, t)
       /\ Listening(s) =>
             /\ \A t \in proc[s].found \ {s} : proc[t].port # proc[s].port
             /\ \A t \in before[s] : SameCluster(s, t) /\ proc[t].port < proc[s].at
                                     /\ proc[t].port <= Probed => t \in proc[s].found

(* An id is dialed at one address, never that of the server itself, and not *)
(* while it is flagged; it is flagged for a connection, or has been left so *)
(* when somebody else answered.                                             *)
FlagsHaveReasons ==
    \A s \in Server :
       /\ \A d \in proc[s].dials : /\ d.id \notin proc[s].outbound /\ d.port # proc[s].port
                                   /\ \A e \in proc[s].dials : e.id = d.id => e = d
       /\ \A id \in proc[s].outbound :
             id \in misled[s] \/ \E l \in links : l.from = s /\ CountedFor(l) = id

(* Nothing keeps two servers from being one cluster.                        *)
Compatible(s, t) ==
    /\ Clustered(s) /\ Clustered(t)
    /\ Ident(s) # Ident(t) /\ SameCluster(s, t) /\ SameVersion(s, t)
    /\ Membership(s) = Membership(t)
    /\ Eligible(s, Ident(t))

Linked(s, t) == \E l \in links : {l.from, l.to} = {s, t}

(* Whoever has listened on a probed port throughout a round is a peer and   *)
(* has a connection, unless the connection is being opened, or somebody     *)
(* else answered at the address of a peer with this id: its flag is left.   *)
RoundsMeetEverybody ==
    \A s \in Server : \A t \in met[s] :
       Compatible(s, t) /\ proc[t].port <= Probed =>
          /\ Peer(t) \in proc[s].peers
          /\ Linked(s, t) \/ Ident(t) \in misled[s] \/ Peer(t) \in proc[s].dials

(* ... and the server has the id nowhere else.                              *)
MetAtTheirAddress ==
    \A s \in Server : \A t \in met[s] :
       Compatible(s, t) /\ proc[t].port <= Probed => ~HasElsewhere(s, t)

(* A peer is a server of the same cluster that agrees on who is a member,   *)
(* whoever dialed, and whoever has the port by now.                         *)
PeersAreMembers ==
    \A s \in Server : \A p \in proc[s].peers :
       \E t \in Server : /\ p = Peer(t) /\ proc[t].port # 0 /\ SameCluster(s, t)
                         /\ Eligible(s, p.id) /\ Membership(s) = Membership(t)

HasListened(s) == proc[s].port # 0

(* A server that listens ends itself only over an answer of its own cluster *)
(* or of another version, for not knowing itself, for want of the peer it   *)
(* requires, or over another cluster at its upstream URL: other clusters on *)
(* its ports and with its names do not disturb it.                          *)
OthersDoNotDisturb ==
    \A s \in Server : proc[s].phase = "failed" /\ HasListened(s) =>
       \/ options[s].wildcard
       \/ options[s].mode = "proxy-required"
       \/ \E t \in Server \ {s} : HasListened(t) /\ ~SameVersion(s, t)
       \/ \E t \in Server : /\ HasListened(t) /\ ~SameCluster(s, t)
                            /\ options[s].seed # 0 /\ proc[t].port = options[s].seed
       \/ \E t, u \in {v \in Server : HasListened(v) /\ SameCluster(s, v)} :
             \/ Membership(t) # Membership(s)
             \/ t # u /\ Ident(t) = Ident(u)

(* The members a server counts a quorum of, and those it can reach.         *)
Members(s) == IF Membership(s) = {} THEN {Ident(s)} \cup Ids(proc[s].peers) ELSE Membership(s)

Reached(s) == {t \in Server : \E l \in links : s \in l.heard /\ {l.from, l.to} = {s, t}}

HasQuorum(s) == Cardinality({s} \cup Reached(s)) > Cardinality(Members(s)) \div 2

Running == {s \in Server : proc[s].phase = "running" /\ Clustered(s)}

(* Every server that runs has looked for all the others, and whatever was   *)
(* to be said is said.                                                      *)
AtRest ==
    /\ \A s \in Running : Running \subseteq met[s] /\ proc[s].dials = {}
    /\ \A l \in links : l.heard = {l.from, l.to}

(* Servers that are still the majority of all that any of them knows can    *)
(* elect a primary when the others are gone.                                *)
FailoverPossible ==
    (/\ AtRest /\ \A s, t \in Running : s # t => Compatible(s, t)
     /\ \A s \in Running : 2 * Cardinality(Running) > Cardinality(UNION {Members(t) : t \in Running}))
       => \A s \in Running : HasQuorum(s)

(* Of any two, one is on a port that the other probes, and has not met      *)
(* somebody else there.                                                     *)
Probes(s, t) == proc[t].port <= Probed /\ Ident(t) \notin misled[s]

ProbedCanFailOver ==
    (\A s, t \in Running : s # t => Probes(s, t) \/ Probes(t, s)) => FailoverPossible

(* All of this, for servers that are started together, stop and take over   *)
(* ids and ports of one another.  The second to the fifth part carry it.    *)
DiscoveryInvariant ==
    /\ DiscoveryTypeOK /\ PortsAreHeld /\ FoundWhatIsThere /\ FlagsHaveReasons /\ MetAtTheirAddress
    /\ RoundsMeetEverybody /\ PeersAreMembers /\ OthersDoNotDisturb /\ ProbedCanFailOver
=============================================================================
