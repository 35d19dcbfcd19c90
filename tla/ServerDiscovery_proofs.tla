----------------------- MODULE ServerDiscovery_proofs -----------------------
(* DiscoveryInvariant holds for every set of servers that may be started    *)
(* together: all its parts but the last are inductive, and servers that     *)
(* have probed one another and are at rest can replace their primary.       *)
EXTENDS ServerDiscovery, FiniteSetTheorems, TLAPS

ProcType == [phase : Phase, asked : Nat, port : Nat, at : 0 .. Probed + 2, found : SUBSET Server,
             peers : SUBSET Address, outbound : SUBSET Idents, dials : SUBSET Address]

LinkType == [from : Server, to : Server, dialed : Idents, heard : SUBSET Server]

(* Every part but the last, which follows from the others.                  *)
DiscoveryFits ==
    /\ DiscoveryTypeOK /\ PortsAreHeld /\ FoundWhatIsThere /\ FlagsHaveReasons /\ MetAtTheirAddress
    /\ RoundsMeetEverybody /\ PeersAreMembers /\ OthersDoNotDisturb

(* What the types say.                                                      *)
LEMMA DiscoveryTypes ==
    DiscoveryTypeOK <=>
      /\ options \in Deployments /\ proc \in [Server -> ProcType] /\ links \subseteq LinkType
      /\ before \in [Server -> SUBSET Server] /\ met \in [Server -> SUBSET Server]
      /\ misled \in [Server -> SUBSET Idents]
BY DEF DiscoveryTypeOK, ProcType, LinkType

(* ... after a step, none of which changes the options.                     *)
LEMMA DiscoveryTypesAfter ==
    ASSUME options' = options
    PROVE  /\ Server' = Server /\ Idents' = Idents /\ Address' = Address
           /\ DiscoveryTypeOK' <=>
                /\ options \in Deployments /\ proc' \in [Server -> ProcType] /\ links' \subseteq LinkType
                /\ before' \in [Server -> SUBSET Server] /\ met' \in [Server -> SUBSET Server]
                /\ misled' \in [Server -> SUBSET Idents]
<1>1. Server' = Server
  BY DEF Server
<1>2. Idents' = Idents
  BY <1>1 DEF Idents
<1>3. Address' = Address
  BY <1>2 DEF Address
<1> QED BY <1>1, <1>2, <1>3 DEF DiscoveryTypeOK, ProcType, LinkType

(* What the types say of one server.                                        *)
LEMMA ProcOf ==
    ASSUME DiscoveryTypeOK, NEW s \in Server
    PROVE  /\ proc[s] \in ProcType
           /\ proc[s].phase \in Phase /\ proc[s].asked \in Nat /\ proc[s].port \in Nat
           /\ proc[s].at \in 0 .. Probed + 2 /\ proc[s].found \subseteq Server
           /\ proc[s].peers \subseteq Address /\ proc[s].outbound \subseteq Idents
           /\ proc[s].dials \subseteq Address
           /\ before[s] \subseteq Server /\ met[s] \subseteq Server /\ misled[s] \subseteq Idents
           /\ options[s].port \in Nat /\ options[s].seed \in Nat /\ options[s].wildcard \in BOOLEAN
           /\ Ident(s) \in Idents /\ Peer(s) \in Address
           /\ Probed \in Nat /\ Ports \in Nat /\ IsFiniteSet(Server) /\ IsFiniteSet(options[s].members)
<1>1. /\ proc[s] \in ProcType /\ before[s] \subseteq Server /\ met[s] \subseteq Server
      /\ misled[s] \subseteq Idents /\ options \in Deployments
  BY DiscoveryTypes
<1>2. /\ options[s].port \in Nat /\ options[s].seed \in Nat /\ options[s].wildcard \in BOOLEAN
      /\ Probed \in Nat /\ Ports \in Nat /\ IsFiniteSet(Server) /\ IsFiniteSet(options[s].members)
  BY <1>1, DiscoveryConstants DEF Server
<1>3. /\ proc[s].phase \in Phase /\ proc[s].asked \in Nat /\ proc[s].port \in Nat
      /\ proc[s].at \in 0 .. Probed + 2 /\ proc[s].found \subseteq Server
      /\ proc[s].peers \subseteq Address /\ proc[s].outbound \subseteq Idents
      /\ proc[s].dials \subseteq Address
  BY <1>1 DEF ProcType
<1>4. Ident(s) \in Idents
  <2>1. <<options[s].wildcard, proc[s].asked>> \in BOOLEAN \X Nat
    BY <1>2, <1>3
  <2> QED BY <2>1 DEF Ident, Idents
<1> QED BY <1>1, <1>2, <1>3, <1>4 DEF Peer, Address

(* Who has listened keeps its port and its name.                            *)
WhoStays ==
    \A t \in Server : HasListened(t) => proc'[t].asked = proc[t].asked /\ proc'[t].port = proc[t].port

(* ... and so what others know of it stays true.                            *)
LEMMA NamesStay ==
    ASSUME options' = options, WhoStays
    PROVE  /\ \A t \in Server : HasListened(t) => /\ HasListened(t)' /\ Ident(t)' = Ident(t)
                                                  /\ Peer(t)' = Peer(t) /\ Membership(t)' = Membership(t)
                                                  /\ \A id : Eligible(t, id)' <=> Eligible(t, id)
           /\ \A s, t \in Server : /\ SameCluster(s, t)' <=> SameCluster(s, t)
                                   /\ SameVersion(s, t)' <=> SameVersion(s, t)
           /\ \A s, t \in Server : HasListened(s) /\ HasListened(t)
                => (Compatible(s, t)' <=> Compatible(s, t))
           /\ \A l : l.to \in Server /\ HasListened(l.to) => CountedFor(l)' = CountedFor(l)
<1>1. ASSUME NEW t \in Server, HasListened(t)
      PROVE  /\ HasListened(t)' /\ Ident(t)' = Ident(t) /\ Peer(t)' = Peer(t)
             /\ Membership(t)' = Membership(t) /\ \A id : Eligible(t, id)' <=> Eligible(t, id)
  <2>1. proc'[t].asked = proc[t].asked /\ proc'[t].port = proc[t].port
    BY <1>1 DEF WhoStays
  <2>2. HasListened(t)' /\ Ident(t)' = Ident(t)
    BY <1>1, <2>1 DEF HasListened, Ident
  <2>3. Membership(t)' = Membership(t)
    BY <2>2 DEF Membership
  <2> QED BY <2>1, <2>2, <2>3 DEF Peer, Eligible
<1>2. \A s, t \in Server : /\ SameCluster(s, t)' <=> SameCluster(s, t)
                           /\ SameVersion(s, t)' <=> SameVersion(s, t)
  BY DEF SameCluster, SameVersion
<1>3. \A s \in Server : Clustered(s)' <=> Clustered(s)
  BY DEF Clustered
<1>4. \A s, t \in Server : HasListened(s) /\ HasListened(t) => (Compatible(s, t)' <=> Compatible(s, t))
  BY <1>1, <1>2, <1>3 DEF Compatible
<1>5. \A l : l.to \in Server /\ HasListened(l.to) => CountedFor(l)' = CountedFor(l)
  BY <1>1 DEF CountedFor
<1> QED BY <1>1, <1>2, <1>4, <1>5

(* Those that are known to others, or know them, have listened.             *)
LEMMA KnownHaveListened ==
    ASSUME DiscoveryFits
    PROVE  /\ \A s \in Server : Listening(s) => HasListened(s)
           /\ \A s \in Server : \A t \in met[s] \cup before[s] :
                 t \in Server /\ Listening(s) /\ Listening(t) /\ HasListened(s) /\ HasListened(t)
           /\ \A l \in links : /\ l \in LinkType /\ l.from \in Server /\ l.to \in Server /\ l.from # l.to
                               /\ l.dialed \in Idents /\ l.heard \subseteq Server
                               /\ Listening(l.from) /\ Listening(l.to)
                               /\ HasListened(l.from) /\ HasListened(l.to)
           /\ \A s \in Server : \A t \in proc[s].found : t \in Server /\ HasListened(t) /\ SameCluster(s, t)
           /\ \A s \in Server : \A p \in proc[s].peers : Listening(s)
<1>1. DiscoveryTypeOK /\ PortsAreHeld /\ FoundWhatIsThere
  BY DEF DiscoveryFits
<1>2. \A s \in Server : Listening(s) => HasListened(s)
  BY <1>1 DEF PortsAreHeld, HasListened
<1>3. \A s \in Server : met[s] \subseteq Server /\ before[s] \subseteq Server /\ proc[s].found \subseteq Server
  BY <1>1, ProcOf
<1>4. \A s \in Server : \A t \in met[s] \cup before[s] : Listening(s) /\ Listening(t)
  BY <1>1 DEF PortsAreHeld
<1>5. \A l \in links : l \in LinkType
  BY <1>1, DiscoveryTypes
<1>6. \A l \in links : /\ l.from \in Server /\ l.to \in Server /\ l.dialed \in Idents
                       /\ l.heard \subseteq Server
  BY <1>5 DEF LinkType
<1>7. \A l \in links : l.from # l.to /\ Listening(l.from) /\ Listening(l.to)
  BY <1>1 DEF PortsAreHeld
<1>8. \A s \in Server : \A t \in proc[s].found : HasListened(t) /\ SameCluster(s, t)
  BY <1>1 DEF FoundWhatIsThere, HasListened
<1>9. \A s \in Server : \A p \in proc[s].peers : Listening(s)
  BY <1>1 DEF PortsAreHeld
<1> QED BY <1>2, <1>3, <1>4, <1>5, <1>6, <1>7, <1>8, <1>9

(* A member to s.                                                           *)
FellowOf(s, t) ==
    /\ HasListened(t) /\ SameCluster(s, t) /\ Eligible(s, Ident(t)) /\ Membership(s) = Membership(t)

(* New peers are members.                                                   *)
LEMMA PeersStay ==
    ASSUME DiscoveryFits, options' = options, WhoStays,
           \A s \in Server : \A p \in proc'[s].peers :
              p \in proc[s].peers \/ (HasListened(s) /\ \E t \in Server : p = Peer(t) /\ FellowOf(s, t))
    PROVE  PeersAreMembers'
<1>1. Server' = Server
  BY DiscoveryTypesAfter
<1>2. ASSUME NEW s \in Server, NEW p \in proc'[s].peers
      PROVE  \E t \in Server : /\ p = Peer(t)' /\ HasListened(t)' /\ SameCluster(s, t)'
                               /\ Eligible(s, p.id)' /\ Membership(s)' = Membership(t)'
  <2>1. HasListened(s)
    BY KnownHaveListened
  <2>2. PICK t \in Server : /\ p = Peer(t) /\ HasListened(t) /\ SameCluster(s, t)
                            /\ Eligible(s, p.id) /\ Membership(s) = Membership(t)
    <3>1. CASE p \in proc[s].peers
      BY <3>1 DEF DiscoveryFits, PeersAreMembers, HasListened
    <3>2. CASE \E t \in Server : p = Peer(t) /\ FellowOf(s, t)
      BY <3>2 DEF FellowOf, Peer
    <3> QED BY <3>1, <3>2
  <2>3. /\ Peer(t)' = Peer(t) /\ HasListened(t)' /\ Membership(t)' = Membership(t)
        /\ Membership(s)' = Membership(s) /\ Eligible(s, p.id)' <=> Eligible(s, p.id)
        /\ SameCluster(s, t)' <=> SameCluster(s, t)
    BY <2>1, <2>2, NamesStay
  <2> QED BY <2>2, <2>3
<1> QED BY <1>1, <1>2 DEF PeersAreMembers, HasListened

(* What a server that has listened may end itself for.                      *)
Disturbed(s) ==
    \/ options[s].wildcard
    \/ options[s].mode = "proxy-required"
    \/ \E t \in Server \ {s} : HasListened(t) /\ ~SameVersion(s, t)
    \/ \E t \in Server : /\ HasListened(t) /\ ~SameCluster(s, t)
                         /\ options[s].seed # 0 /\ proc[t].port = options[s].seed
    \/ \E t, u \in {v \in Server : HasListened(v) /\ SameCluster(s, v)} :
          \/ Membership(t) # Membership(s)
          \/ t # u /\ Ident(t) = Ident(u)

(* No server has ended for nothing.                                         *)
LEMMA OthersStay ==
    ASSUME DiscoveryFits, options' = options, WhoStays,
           \A s \in Server : proc'[s].phase = "failed" /\ HasListened(s)' =>
              HasListened(s) /\ (proc[s].phase = "failed" \/ Disturbed(s))
    PROVE  OthersDoNotDisturb'
<1>1. Server' = Server
  BY DiscoveryTypesAfter
<1>2. ASSUME NEW s \in Server, proc'[s].phase = "failed", HasListened(s)'
      PROVE  Disturbed(s)'
  <2>1. HasListened(s) /\ Disturbed(s)
    BY <1>2 DEF DiscoveryFits, OthersDoNotDisturb, Disturbed
  <2>2. Membership(s)' = Membership(s)
    BY <2>1, NamesStay
  <2>3. CASE options[s].wildcard \/ options[s].mode = "proxy-required"
    BY <2>3 DEF Disturbed
  <2>4. CASE \E t \in Server \ {s} : HasListened(t) /\ ~SameVersion(s, t)
    BY <1>1, <2>4, NamesStay DEF Disturbed
  <2>5. ASSUME NEW t \in Server, HasListened(t), ~SameCluster(s, t), options[s].seed # 0,
               proc[t].port = options[s].seed
        PROVE  Disturbed(s)'
    <3>1. HasListened(t)' /\ ~SameCluster(s, t)'
      BY <2>5, NamesStay
    <3>2. proc'[t].port = proc[t].port
      BY <2>5 DEF WhoStays
    <3> QED BY <1>1, <2>5, <3>1, <3>2 DEF Disturbed
  <2>6. ASSUME NEW t \in Server, NEW u \in Server, HasListened(t), SameCluster(s, t),
               HasListened(u), SameCluster(s, u),
               Membership(t) # Membership(s) \/ (t # u /\ Ident(t) = Ident(u))
        PROVE  Disturbed(s)'
    <3>1. /\ HasListened(t)' /\ SameCluster(s, t)' /\ HasListened(u)' /\ SameCluster(s, u)'
          /\ Membership(t)' = Membership(t) /\ Ident(t)' = Ident(t) /\ Ident(u)' = Ident(u)
      BY <2>6, NamesStay
    <3> QED BY <1>1, <2>2, <2>6, <3>1 DEF Disturbed
  <2> QED BY <2>1, <2>3, <2>4, <2>5, <2>6 DEF Disturbed
<1> QED BY <1>1, <1>2 DEF OthersDoNotDisturb, Disturbed

(* The id of a server that has been met is nowhere else.                    *)
LEMMA RoundsStay ==
    ASSUME DiscoveryFits, options' = options, WhoStays, links' \subseteq LinkType,
           \A l \in links' : HasListened(l.to),
           \A s \in Server : \A t \in met'[s] :
              /\ t \in Server /\ HasListened(s) /\ HasListened(t)
              /\ Compatible(s, t) /\ proc[t].port <= Probed =>
                    /\ Peer(t) \in proc'[s].peers
                    /\ Linked(s, t)' \/ Ident(t) \in misled'[s] \/ Peer(t) \in proc'[s].dials
                    /\ \A d \in proc'[s].dials : d.id = Ident(t) => d = Peer(t)
                    /\ \A l \in links' : l.from = s /\ CountedFor(l) = Ident(t) => l.to = t
    PROVE  RoundsMeetEverybody' /\ MetAtTheirAddress'
<1>1. Server' = Server
  BY DiscoveryTypesAfter
<1>2. \A l \in links' : CountedFor(l)' = CountedFor(l)
  BY NamesStay DEF LinkType
<1>3. ASSUME NEW s \in Server, NEW t \in met'[s], Compatible(s, t)', proc'[t].port <= Probed
      PROVE  /\ Peer(t)' \in proc'[s].peers
             /\ Linked(s, t)' \/ Ident(t)' \in misled'[s] \/ Peer(t)' \in proc'[s].dials
             /\ ~HasElsewhere(s, t)'
  <2>1. t \in Server /\ HasListened(s) /\ HasListened(t)
    OBVIOUS
  <2>2. /\ Compatible(s, t) /\ Peer(t)' = Peer(t) /\ Ident(t)' = Ident(t)
    BY <1>3, <2>1, NamesStay
  <2>3. proc[t].port <= Probed
    BY <1>3, <2>1 DEF WhoStays
  <2>4. ~HasElsewhere(s, t)'
    BY <1>2, <2>1, <2>2, <2>3 DEF HasElsewhere
  <2> QED BY <2>1, <2>2, <2>3, <2>4
<1> QED BY <1>1, <1>3 DEF RoundsMeetEverybody, MetAtTheirAddress

(* A server goes on as r, and what the others know is not touched: a start, *)
(* a port, a probe, the beginning of a round.                               *)
LEMMA ServerMoves ==
    ASSUME DiscoveryFits, NEW s \in Server, NEW r \in ProcType, proc' = [proc EXCEPT ![s] = r],
           UNCHANGED <<options, links, met, misled>>,
           before' \in [Server -> SUBSET Server], \A t \in Server \ {s} : before'[t] = before[t],
           r.peers = proc[s].peers, r.outbound = proc[s].outbound, r.dials = proc[s].dials,
           HasListened(s) => r.asked = proc[s].asked /\ r.port = proc[s].port,
           Listening(s) => r.phase \in {"starting", "running"},
           r.phase \in {"starting", "running"} =>
              r.port # 0 /\ \A t \in Server \ {s} : Listening(t) => proc[t].port # r.port,
           r.phase \in {"off", "looking", "binding"} => r.port = 0,
           r.phase \in {"off", "looking"} => r.asked = 0,
           r.at # 0 => r.phase \in {"looking", "starting", "running"},
           r.phase \notin {"failed", "stopped"},
           \A t \in before'[s] : r.phase \in {"starting", "running"} /\ (t = s \/ Listening(t)),
           \A t \in r.found : (t # s => HasListened(t)) /\ (t = s => r.port # 0) /\ SameCluster(s, t),
           r.phase \in {"starting", "running"} =>
              /\ \A t \in r.found \ {s} : proc[t].port # r.port
              /\ \A t \in before'[s] :
                    SameCluster(s, t) /\ proc'[t].port < r.at /\ proc'[t].port <= Probed => t \in r.found
    PROVE  DiscoveryFits'
<1>0. /\ DiscoveryTypeOK /\ proc \in [Server -> ProcType] /\ links \subseteq LinkType
      /\ options \in Deployments /\ met \in [Server -> SUBSET Server]
      /\ misled \in [Server -> SUBSET Idents]
  BY DiscoveryTypes DEF DiscoveryFits
<1>1. /\ proc' \in [Server -> ProcType] /\ proc'[s] = r
      /\ \A t \in Server \ {s} : proc'[t] = proc[t]
  BY <1>0
<1>2. Server' = Server /\ Idents' = Idents /\ DiscoveryTypeOK'
  BY <1>0, <1>1, DiscoveryTypesAfter
<1>3. WhoStays
  BY <1>1 DEF WhoStays
<1>4. \A t \in Server : Listening(t)' <=> IF t = s THEN r.phase \in {"starting", "running"} ELSE Listening(t)
  BY <1>1 DEF Listening
<1>5. \A t \in Server : Listening(t) => Listening(t)'
  BY <1>4
<1>6. PortsAreHeld'
  <2>1. \A t, u \in Server : Listening(t)' /\ Listening(u)' /\ proc'[t].port = proc'[u].port => t = u
    BY <1>1, <1>4 DEF DiscoveryFits, PortsAreHeld
  <2>2. ASSUME NEW t \in Server
        PROVE  /\ Listening(t)' => proc'[t].port # 0
               /\ proc'[t].phase \in {"off", "looking", "binding"} => proc'[t].port = 0
               /\ proc'[t].phase \in {"off", "looking"} => proc'[t].asked = 0
               /\ proc'[t].at # 0 => proc'[t].phase \in {"looking", "starting", "running"}
               /\ ~Listening(t)' => proc'[t].peers = {} /\ proc'[t].outbound = {} /\ proc'[t].dials = {}
    BY <1>1, <1>4 DEF DiscoveryFits, PortsAreHeld
  <2>3. ASSUME NEW t \in Server, NEW u \in before'[t] \cup met'[t]
        PROVE  Listening(t)' /\ Listening(u)'
    <3>1. CASE u \in met[t]
      BY <1>5, <3>1, KnownHaveListened
    <3>2. CASE t # s /\ u \in before[t]
      BY <1>5, <3>2, KnownHaveListened
    <3>3. CASE t = s /\ u \in before'[s]
      <4>1. u \in Server
        BY <3>3
      <4> QED BY <1>4, <3>3, <4>1
    <3> QED BY <3>1, <3>2, <3>3
  <2>4. \A l \in links : l.from # l.to /\ Listening(l.from)' /\ Listening(l.to)'
    BY <1>5, KnownHaveListened
  <2> QED BY <1>2, <2>1, <2>2, <2>3, <2>4 DEF PortsAreHeld
<1>7. FoundWhatIsThere'
  <2>1. \A t, u \in Server : SameCluster(t, u)' <=> SameCluster(t, u)
    BY <1>3, NamesStay
  <2>2. ASSUME NEW t \in Server \ {s}
        PROVE  /\ \A u \in proc'[t].found : proc'[u].port # 0 /\ SameCluster(t, u)'
               /\ Listening(t)' =>
                     /\ \A u \in proc'[t].found \ {t} : proc'[u].port # proc'[t].port
                     /\ \A u \in before'[t] : SameCluster(t, u)' /\ proc'[u].port < proc'[t].at
                                              /\ proc'[u].port <= Probed => u \in proc'[t].found
    <3>1. \A u \in proc[t].found : u \in Server /\ HasListened(u) /\ proc'[u].port = proc[u].port
                                   /\ SameCluster(t, u)
      BY <1>3, KnownHaveListened DEF WhoStays
    <3>2. \A u \in before[t] : u \in Server /\ proc'[u].port = proc[u].port
      BY <1>3, KnownHaveListened DEF WhoStays
    <3>3. /\ proc'[t] = proc[t] /\ before'[t] = before[t] /\ Listening(t)' <=> Listening(t)
      BY <1>1, <1>4
    <3> QED BY <2>1, <3>1, <3>2, <3>3 DEF DiscoveryFits, FoundWhatIsThere, HasListened
  <2>3. /\ \A u \in proc'[s].found : proc'[u].port # 0 /\ SameCluster(s, u)'
        /\ Listening(s)' =>
              /\ \A u \in proc'[s].found \ {s} : proc'[u].port # proc'[s].port
              /\ \A u \in before'[s] : SameCluster(s, u)' /\ proc'[u].port < proc'[s].at
                                       /\ proc'[u].port <= Probed => u \in proc'[s].found
    <3>1. r.found \subseteq Server /\ before'[s] \subseteq Server
      BY DEF ProcType
    <3>2. \A u \in r.found : proc'[u].port # 0 /\ (u # s => proc'[u].port = proc[u].port)
      BY <1>1, <3>1 DEF HasListened
    <3> QED BY <1>1, <1>4, <2>1, <3>1, <3>2
  <2> QED BY <1>2, <2>2, <2>3 DEF FoundWhatIsThere
<1>8. FlagsHaveReasons'
  <2>1. \A l \in links : CountedFor(l)' = CountedFor(l)
    BY <1>3, NamesStay, KnownHaveListened
  <2>2. \A t \in Server : proc'[t].dials = proc[t].dials /\ proc'[t].outbound = proc[t].outbound
    BY <1>1
  <2>3. \A t \in Server : \A d \in proc[t].dials : proc'[t].port = proc[t].port
    BY <1>1, <1>3 DEF DiscoveryFits, PortsAreHeld, WhoStays, HasListened
  <2> QED BY <1>2, <2>1, <2>2, <2>3 DEF DiscoveryFits, FlagsHaveReasons
<1>9. RoundsMeetEverybody' /\ MetAtTheirAddress'
  <2>1. \A t, u \in Server : Linked(t, u)' <=> Linked(t, u)
    BY DEF Linked
  <2>2. \A t \in Server : proc'[t].dials = proc[t].dials /\ proc'[t].peers = proc[t].peers
    BY <1>1
  <2>3. ASSUME NEW t \in Server, NEW u \in met'[t]
        PROVE  /\ u \in Server /\ HasListened(t) /\ HasListened(u)
               /\ Compatible(t, u) /\ proc[u].port <= Probed =>
                     /\ Peer(u) \in proc'[t].peers
                     /\ Linked(t, u)' \/ Ident(u) \in misled'[t] \/ Peer(u) \in proc'[t].dials
                     /\ \A d \in proc'[t].dials : d.id = Ident(u) => d = Peer(u)
                     /\ \A l \in links' : l.from = t /\ CountedFor(l) = Ident(u) => l.to = u
    <3>1. u \in met[t] /\ u \in Server /\ HasListened(t) /\ HasListened(u)
      BY KnownHaveListened
    <3> QED BY <2>1, <2>2, <3>1 DEF DiscoveryFits, RoundsMeetEverybody, MetAtTheirAddress, HasElsewhere
  <2>4. links' \subseteq LinkType /\ \A l \in links' : HasListened(l.to)
    BY <1>0, KnownHaveListened
  <2> QED BY <1>3, <2>3, <2>4, RoundsStay
<1>10. PeersAreMembers'
  BY <1>1, <1>3, PeersStay
<1>11. OthersDoNotDisturb'
  <2>1. ASSUME NEW t \in Server, proc'[t].phase = "failed", HasListened(t)'
        PROVE  HasListened(t) /\ proc[t].phase = "failed"
    BY <1>1, <2>1 DEF HasListened
  <2> QED BY <1>3, <2>1, OthersStay
<1> QED BY <1>2, <1>6, <1>7, <1>8, <1>9, <1>10, <1>11 DEF DiscoveryFits

(* The start of a process.                                                  *)
LEMMA StartKeeps ==
    ASSUME DiscoveryFits, NEW s \in Server, Start(s)
    PROVE  DiscoveryFits'
<1>0. DiscoveryTypeOK
  BY DEF DiscoveryFits
<1>1. /\ proc[s].phase = "off" /\ proc[s].port = 0 /\ proc[s].asked = 0 /\ ~Listening(s)
      /\ proc[s].peers = {} /\ proc[s].outbound = {} /\ proc[s].dials = {}
      /\ before[s] = {} /\ ~HasListened(s)
  <2>1. proc[s].phase = "off" /\ ~Listening(s)
    BY DEF Start, Listening
  <2> QED BY <2>1, KnownHaveListened DEF DiscoveryFits, PortsAreHeld, HasListened
<1>2. PICK r : r = IF options[s].port # 0 \/ ~Clustered(s)
                   THEN [Off EXCEPT !.phase = "binding",
                                    !.asked = IF options[s].port = 0 THEN 1 ELSE options[s].port]
                   ELSE [Off EXCEPT !.phase = "looking",
                                    !.at = IF options[s].seed = 0 THEN 1 ELSE Probed + 1]
  OBVIOUS
<1>3. /\ r \in ProcType /\ r.phase \in {"binding", "looking"} /\ r.port = 0 /\ r.found = {}
      /\ r.peers = {} /\ r.outbound = {} /\ r.dials = {}
      /\ r.phase = "looking" => r.asked = 0
      /\ r.at # 0 => r.phase = "looking"
  <2>1. options[s].port \in Nat /\ Probed \in Nat
    BY <1>0, ProcOf
  <2>2. (IF options[s].port = 0 THEN 1 ELSE options[s].port) \in Nat
    BY <2>1
  <2>3. (IF options[s].seed = 0 THEN 1 ELSE Probed + 1) \in 0 .. Probed + 2 /\ 0 \in 0 .. Probed + 2
    BY <2>1
  <2>4. "binding" \in Phase /\ "looking" \in Phase
    BY DEF Phase
  <2> QED BY <1>2, <2>2, <2>3, <2>4 DEF ProcType, Off
<1>4. proc' = [proc EXCEPT ![s] = r] /\ UNCHANGED <<options, links, met, misled, before>>
  BY <1>2 DEF Start
<1>5. before' \in [Server -> SUBSET Server] /\ \A t \in Server \ {s} : before'[t] = before[t]
  BY <1>0, <1>4, DiscoveryTypes
<1>6. /\ r.peers = proc[s].peers /\ r.outbound = proc[s].outbound /\ r.dials = proc[s].dials
      /\ before'[s] = {} /\ r.phase \notin {"starting", "running", "failed", "stopped"}
  BY <1>0, <1>1, <1>3, <1>4
<1> QED BY <1>1, <1>3, <1>4, <1>5, <1>6, ServerMoves

(* The choice of a port.                                                    *)
LEMMA ChoosePortKeeps ==
    ASSUME DiscoveryFits, NEW s \in Server, ChoosePort(s)
    PROVE  DiscoveryFits'
<1>0. DiscoveryTypeOK /\ proc[s] \in ProcType
  BY ProcOf DEF DiscoveryFits
<1>1. /\ proc[s].phase = "looking" /\ proc[s].port = 0 /\ ~Listening(s)
      /\ before[s] = {} /\ ~HasListened(s)
  <2>1. proc[s].phase = "looking" /\ ~Listening(s)
    BY DEF ChoosePort, Listening
  <2> QED BY <2>1, KnownHaveListened DEF DiscoveryFits, PortsAreHeld, HasListened
<1>2. PICK asked : asked = IF \E t \in proc[s].found : Allowed(s, Ident(t)) THEN 0 ELSE 1
  OBVIOUS
<1>3. PICK r : r = [proc[s] EXCEPT !.phase = "binding", !.at = 0, !.found = {}, !.asked = asked]
  OBVIOUS
<1>4. /\ r \in ProcType /\ r.phase = "binding" /\ r.port = 0 /\ r.found = {} /\ r.at = 0
      /\ r.peers = proc[s].peers /\ r.outbound = proc[s].outbound /\ r.dials = proc[s].dials
  <2>1. "binding" \in Phase /\ 0 \in 0 .. Probed + 2 /\ asked \in Nat
    BY <1>0, <1>2, ProcOf DEF Phase
  <2> QED BY <1>0, <1>1, <1>3, <2>1 DEF ProcType
<1>5. proc' = [proc EXCEPT ![s] = r] /\ UNCHANGED <<options, links, met, misled, before>>
  BY <1>0, <1>2, <1>3, DiscoveryTypes DEF ChoosePort
<1>6. before' \in [Server -> SUBSET Server] /\ \A t \in Server \ {s} : before'[t] = before[t]
  BY <1>0, <1>5, DiscoveryTypes
<1> QED BY <1>1, <1>4, <1>5, <1>6, ServerMoves

(* A probe that is answered, or not.                                        *)
LEMMA ProbeKeeps ==
    ASSUME DiscoveryFits, NEW s \in Server, proc[s].at \in 1 .. LastProbe(s),
           proc' = [proc EXCEPT ![s].at = @ + 1, ![s].found = @ \cup Answers(s)],
           UNCHANGED <<options, links, before, met, misled>>,
           proc[s].phase \in {"looking", "starting", "running"}
    PROVE  DiscoveryFits'
<1>0. DiscoveryTypeOK /\ proc[s] \in ProcType
  BY ProcOf DEF DiscoveryFits
<1>1. PICK r : r = [proc[s] EXCEPT !.at = proc[s].at + 1, !.found = proc[s].found \cup Answers(s)]
  OBVIOUS
<1>2. Answers(s) \subseteq Server /\ \A t \in Answers(s) : HasListened(t) /\ Listening(t) /\ SameCluster(s, t)
  BY KnownHaveListened DEF Answers, Listener
<1>3. /\ r \in ProcType /\ r.phase = proc[s].phase /\ r.port = proc[s].port /\ r.asked = proc[s].asked
      /\ r.peers = proc[s].peers /\ r.outbound = proc[s].outbound /\ r.dials = proc[s].dials
      /\ r.found = proc[s].found \cup Answers(s) /\ r.at = proc[s].at + 1
  <2>1. proc[s].at + 1 \in 0 .. Probed + 2
    BY <1>0, ProcOf DEF LastProbe
  <2>2. proc[s].found \cup Answers(s) \in SUBSET Server
    BY <1>0, <1>2, ProcOf
  <2> QED BY <1>0, <1>1, <2>1, <2>2 DEF ProcType
<1>4. proc' = [proc EXCEPT ![s] = r]
  BY <1>0, <1>1, DiscoveryTypes
<1>5. before' \in [Server -> SUBSET Server] /\ \A t \in Server : before'[t] = before[t]
  BY <1>0, DiscoveryTypes
<1>6. /\ Listening(s) => HasListened(s)
      /\ Listening(s) <=> r.phase \in {"starting", "running"}
      /\ \A t \in Server \ {s} : Listening(s) /\ Listening(t) => proc[t].port # r.port
  <2>1. Listening(s) <=> r.phase \in {"starting", "running"}
    BY <1>3 DEF Listening
  <2> QED BY <1>3, <2>1, KnownHaveListened DEF DiscoveryFits, PortsAreHeld
<1>7. /\ \A t \in r.found : /\ t # s => HasListened(t)
                            /\ t = s => r.port # 0
                            /\ SameCluster(s, t)
  BY <1>2, <1>3, KnownHaveListened DEF HasListened
<1>8. \A t \in r.found \ {s} : Listening(s) => proc[t].port # r.port
  BY <1>2, <1>3, <1>6 DEF DiscoveryFits, FoundWhatIsThere
<1>9. ASSUME NEW t \in before[s], Listening(s), SameCluster(s, t), proc[t].port < r.at, proc[t].port <= Probed
      PROVE  t \in r.found
  <2>1. t \in Server /\ Listening(t) /\ proc[t].port \in Nat /\ proc[s].at \in Nat
    BY <1>0, KnownHaveListened, ProcOf
  <2>2. CASE proc[t].port < proc[s].at
    BY <1>3, <1>9, <2>2 DEF DiscoveryFits, FoundWhatIsThere
  <2>3. CASE proc[t].port = proc[s].at
    <3>1. ProbedPort(s) = proc[t].port
      BY <1>9, <2>3 DEF ProbedPort
    <3>2. t \in Answers(s)
      BY <1>9, <2>1, <3>1 DEF Answers, Listener
    <3> QED BY <1>3, <3>2
  <2> QED BY <1>3, <1>9, <2>1, <2>2, <2>3
<1>10. \A t \in before[s] : proc'[t].port = proc[t].port /\ Listening(s) /\ Listening(t)
  BY <1>0, <1>3, <1>4, KnownHaveListened, DiscoveryTypes
<1>11. /\ r.phase \in {"off", "looking", "binding"} => r.port = 0
       /\ r.phase \in {"off", "looking"} => r.asked = 0
       /\ r.phase \notin {"failed", "stopped"}
       /\ Listening(s) => r.port # 0
  BY <1>3, <1>6 DEF DiscoveryFits, PortsAreHeld
<1> QED BY <1>3, <1>4, <1>5, <1>6, <1>7, <1>8, <1>9, <1>10, <1>11, ServerMoves

(* The beginning of a round, of a server that has its port now or has had   *)
(* it before.                                                               *)
LEMMA RoundBeginsKeeps ==
    ASSUME DiscoveryFits, NEW s \in Server, NEW phase \in {"starting", "running"},
           NEW port \in Nat \ {0}, RoundBegins(s, phase, port),
           HasListened(s) => port = proc[s].port,
           Listening(s) \/ proc[s].phase = "binding",
           \A t \in Server \ {s} : Listening(t) => proc[t].port # port
    PROVE  DiscoveryFits'
<1>0. DiscoveryTypeOK /\ proc[s] \in ProcType
  BY ProcOf DEF DiscoveryFits
<1>1. PICK at : at = IF Clustered(s) THEN 1 ELSE 0
  OBVIOUS
<1>2. PICK r : r = [proc[s] EXCEPT !.phase = phase, !.port = port, !.found = {}, !.at = at]
  OBVIOUS
<1>3. /\ r \in ProcType /\ r.phase = phase /\ r.port = port /\ r.found = {} /\ r.at = at
      /\ r.asked = proc[s].asked
      /\ r.peers = proc[s].peers /\ r.outbound = proc[s].outbound /\ r.dials = proc[s].dials
  <2>1. phase \in Phase /\ at \in 0 .. Probed + 2 /\ port \in Nat
    BY <1>0, <1>1, ProcOf DEF Phase
  <2> QED BY <1>0, <1>2, <2>1 DEF ProcType
<1>4. /\ proc' = [proc EXCEPT ![s] = r] /\ UNCHANGED <<options, links, met, misled>>
      /\ before' = [before EXCEPT ![s] = {t \in Server : Listening(t)}]
  BY <1>0, <1>1, <1>2, DiscoveryTypes DEF RoundBegins
<1>5. /\ before' \in [Server -> SUBSET Server] /\ \A t \in Server \ {s} : before'[t] = before[t]
      /\ \A t \in before'[s] : t \in Server /\ Listening(t)
  BY <1>0, <1>4, DiscoveryTypes
<1>6. \A t \in before'[s] : ~(proc'[t].port < r.at)
  <2>1. ASSUME NEW t \in before'[s]
        PROVE  proc'[t].port \in Nat \ {0}
    <3>1. CASE t = s
      BY <1>0, <1>3, <1>4, <3>1, DiscoveryTypes
    <3>2. CASE t # s
      <4>1. proc'[t] = proc[t] /\ proc[t].port \in Nat /\ HasListened(t)
        BY <1>0, <1>4, <1>5, <3>2, DiscoveryTypes, KnownHaveListened, ProcOf
      <4> QED BY <4>1 DEF HasListened
    <3> QED BY <3>1, <3>2
  <2>2. at \in {0, 1}
    BY <1>1
  <2> QED BY <1>3, <2>1, <2>2
<1> QED BY <1>3, <1>4, <1>5, <1>6, ServerMoves

(* The port is bound.                                                       *)
LEMMA BindKeeps ==
    ASSUME DiscoveryFits, NEW s \in Server, proc[s].phase = "binding",
           proc[s].asked = 0 \/ Listener(proc[s].asked) = {},
           NEW p \in IF proc[s].asked = 0 THEN {q \in 1..Ports : Listener(q) = {}} ELSE {proc[s].asked},
           RoundBegins(s, IF Clustered(s) THEN "starting" ELSE "running", p)
    PROVE  DiscoveryFits'
<1>1. PICK phase : phase = IF Clustered(s) THEN "starting" ELSE "running"
  OBVIOUS
<1>2. phase \in {"starting", "running"} /\ RoundBegins(s, phase, p)
  BY <1>1
<1>3. p \in Nat \ {0} /\ Listener(p) = {}
  <2>1. proc[s].asked \in Nat /\ Ports \in Nat
    BY ProcOf DEF DiscoveryFits
  <2> QED BY <2>1
<1>4. ~HasListened(s)
  BY DEF DiscoveryFits, PortsAreHeld, HasListened
<1>5. \A t \in Server \ {s} : Listening(t) => proc[t].port # p
  BY <1>3 DEF Listener
<1> QED BY <1>2, <1>3, <1>4, <1>5, RoundBeginsKeeps

(* The timer of the rounds.                                                 *)
LEMMA DiscoveryTimerKeeps ==
    ASSUME DiscoveryFits, NEW s \in Server, DiscoveryTimer(s)
    PROVE  DiscoveryFits'
<1>1. RoundBegins(s, "running", proc[s].port) /\ Listening(s)
  BY DEF DiscoveryTimer, Listening
<1>2. proc[s].port \in Nat \ {0}
  BY <1>1, ProcOf DEF DiscoveryFits, PortsAreHeld
<1>3. \A t \in Server \ {s} : Listening(t) => proc[t].port # proc[s].port
  BY <1>1 DEF DiscoveryFits, PortsAreHeld
<1> QED BY <1>1, <1>2, <1>3, RoundBeginsKeeps

(* The flags that are left when connections are closed.                     *)
LEMMA FlagsWithout ==
    ASSUME NEW s, NEW closed
    PROVE  \A id : id \in OutboundWithout(s, closed)
              <=> id \in proc[s].outbound /\ \A l \in closed : l.from = s => CountedFor(l) # id
BY DEF OutboundWithout

(* The end of a process that was disturbed, or stopped.                     *)
LEMMA EndsKeeps ==
    ASSUME DiscoveryFits, NEW s \in Server, NEW phase \in {"stopped", "failed"}, Ends(s, phase),
           phase = "failed" /\ HasListened(s) => Disturbed(s)
    PROVE  DiscoveryFits'
<1>0. /\ DiscoveryTypeOK /\ proc \in [Server -> ProcType] /\ links \subseteq LinkType
      /\ options \in Deployments /\ met \in [Server -> SUBSET Server]
      /\ before \in [Server -> SUBSET Server] /\ misled \in [Server -> SUBSET Idents]
  BY DiscoveryTypes DEF DiscoveryFits
<1>1. PICK closed : closed = {l \in links : s \in {l.from, l.to}}
  OBVIOUS
<1>2. /\ proc' = [t \in Server |->
                     IF t = s
                     THEN [proc[s] EXCEPT !.phase = phase, !.at = 0, !.found = {}, !.peers = {},
                                          !.outbound = {}, !.dials = {}]
                     ELSE [proc[t] EXCEPT !.outbound = OutboundWithout(t, closed)]]
      /\ links' = links \ closed
      /\ before' = [t \in Server |-> IF t = s THEN {} ELSE before[t] \ {s}]
      /\ met' = [t \in Server |-> IF t = s THEN {} ELSE met[t] \ {s}]
      /\ misled' = [misled EXCEPT ![s] = {}] /\ options' = options
  BY <1>1 DEF Ends
<1>3. \A l \in links' : l \in links /\ l.from # s /\ l.to # s
  BY <1>1, <1>2
<1>4. /\ proc'[s] \in ProcType /\ proc'[s].phase = phase /\ proc'[s].asked = proc[s].asked
      /\ proc'[s].at = 0
      /\ proc'[s].port = proc[s].port /\ proc'[s].found = {} /\ proc'[s].peers = {}
      /\ proc'[s].outbound = {} /\ proc'[s].dials = {}
  <2>1. phase \in Phase /\ 0 \in 0 .. Probed + 2 /\ proc[s] \in ProcType
    BY <1>0, ProcOf DEF Phase
  <2>2. proc'[s] = [proc[s] EXCEPT !.phase = phase, !.at = 0, !.found = {}, !.peers = {},
                                   !.outbound = {}, !.dials = {}]
    BY <1>2
  <2> QED BY <2>1, <2>2 DEF ProcType
<1>5. ASSUME NEW t \in Server \ {s}
      PROVE  /\ proc'[t] \in ProcType /\ proc'[t].phase = proc[t].phase /\ proc'[t].asked = proc[t].asked
             /\ proc'[t].port = proc[t].port /\ proc'[t].at = proc[t].at
             /\ proc'[t].found = proc[t].found
             /\ proc'[t].peers = proc[t].peers /\ proc'[t].dials = proc[t].dials
             /\ proc'[t].outbound = OutboundWithout(t, closed)
  <2>1. proc[t] \in ProcType /\ OutboundWithout(t, closed) \subseteq Idents
    BY <1>0, ProcOf DEF OutboundWithout
  <2>2. proc'[t] = [proc[t] EXCEPT !.outbound = OutboundWithout(t, closed)]
    BY <1>2
  <2> QED BY <2>1, <2>2 DEF ProcType
<1>6. proc' \in [Server -> ProcType]
  BY <1>2, <1>4, <1>5
<1>7. /\ Server' = Server /\ Idents' = Idents /\ DiscoveryTypeOK'
  <2>1. /\ before' \in [Server -> SUBSET Server] /\ met' \in [Server -> SUBSET Server]
        /\ misled' \in [Server -> SUBSET Idents] /\ links' \subseteq LinkType
    BY <1>0, <1>2
  <2> QED BY <1>0, <1>2, <1>6, <2>1, DiscoveryTypesAfter
<1>8. WhoStays
  BY <1>4, <1>5 DEF WhoStays
<1>9. \A t \in Server : Listening(t)' <=> t # s /\ Listening(t)
  BY <1>4, <1>5 DEF Listening
<1>10. PortsAreHeld'
  <2>1. \A t, u \in Server : Listening(t)' /\ Listening(u)' /\ proc'[t].port = proc'[u].port => t = u
    BY <1>5, <1>9 DEF DiscoveryFits, PortsAreHeld
  <2>2. ASSUME NEW t \in Server
        PROVE  /\ Listening(t)' => proc'[t].port # 0
               /\ proc'[t].phase \in {"off", "looking", "binding"} => proc'[t].port = 0
               /\ proc'[t].phase \in {"off", "looking"} => proc'[t].asked = 0
               /\ proc'[t].at # 0 => proc'[t].phase \in {"looking", "starting", "running"}
    BY <1>4, <1>5, <1>9 DEF DiscoveryFits, PortsAreHeld
  <2>3. ASSUME NEW t \in Server, ~Listening(t)'
        PROVE  proc'[t].peers = {} /\ proc'[t].outbound = {} /\ proc'[t].dials = {}
    <3>1. CASE t = s
      BY <1>4, <3>1
    <3>2. CASE t # s
      <4>1. proc[t].peers = {} /\ proc[t].outbound = {} /\ proc[t].dials = {}
        BY <1>9, <2>3, <3>2 DEF DiscoveryFits, PortsAreHeld
      <4> QED BY <1>5, <3>2, <4>1, FlagsWithout
    <3> QED BY <3>1, <3>2
  <2>4. ASSUME NEW t \in Server, NEW u \in before'[t] \cup met'[t]
        PROVE  Listening(t)' /\ Listening(u)'
    <3>1. t # s /\ u # s /\ u \in before[t] \cup met[t]
      BY <1>2, <2>4
    <3> QED BY <1>9, <3>1, KnownHaveListened
  <2>5. \A l \in links' : l.from # l.to /\ Listening(l.from)' /\ Listening(l.to)'
    BY <1>3, <1>9, KnownHaveListened
  <2> QED BY <1>7, <2>1, <2>2, <2>3, <2>4, <2>5 DEF PortsAreHeld
<1>11. FoundWhatIsThere'
  <2>1. \A t, u \in Server : SameCluster(t, u)' <=> SameCluster(t, u)
    BY <1>2, <1>8, NamesStay
  <2>2. \A t \in Server : proc'[t].port = proc[t].port
    BY <1>4, <1>5
  <2>3. ASSUME NEW t \in Server \ {s}
        PROVE  /\ \A u \in proc'[t].found : proc'[u].port # 0 /\ SameCluster(t, u)'
               /\ Listening(t)' =>
                     /\ \A u \in proc'[t].found \ {t} : proc'[u].port # proc'[t].port
                     /\ \A u \in before'[t] : SameCluster(t, u)' /\ proc'[u].port < proc'[t].at
                                              /\ proc'[u].port <= Probed => u \in proc'[t].found
    <3>1. \A u \in proc[t].found : u \in Server /\ HasListened(u) /\ SameCluster(t, u)
      BY KnownHaveListened
    <3>2. \A u \in before'[t] : u \in before[t] /\ u \in Server
      BY <1>2, KnownHaveListened
    <3> QED BY <1>5, <1>9, <2>1, <2>2, <3>1, <3>2 DEF DiscoveryFits, FoundWhatIsThere, HasListened
  <2> QED BY <1>4, <1>7, <1>9, <2>3 DEF FoundWhatIsThere
<1>12. \A l \in links' : CountedFor(l)' = CountedFor(l) /\ HasListened(l.to)
  BY <1>2, <1>3, <1>8, NamesStay, KnownHaveListened
<1>13. FlagsHaveReasons'
  <2>1. ASSUME NEW t \in Server \ {s}, NEW id \in proc'[t].outbound
        PROVE  id \in misled'[t] \/ \E l \in links' : l.from = t /\ CountedFor(l)' = id
    <3>1. id \in proc[t].outbound /\ \A l \in closed : l.from = t => CountedFor(l) # id
      BY <1>5, <2>1, FlagsWithout
    <3>2. CASE id \in misled[t]
      BY <1>0, <1>2, <3>2
    <3>3. CASE \E l \in links : l.from = t /\ CountedFor(l) = id
      BY <1>2, <1>12, <3>1, <3>3
    <3> QED BY <3>1, <3>2, <3>3 DEF DiscoveryFits, FlagsHaveReasons
  <2>2. ASSUME NEW t \in Server \ {s}, NEW d \in proc'[t].dials
        PROVE  /\ d.id \notin proc'[t].outbound /\ d.port # proc'[t].port
               /\ \A e \in proc'[t].dials : e.id = d.id => e = d
    BY <1>5, <2>2, FlagsWithout DEF DiscoveryFits, FlagsHaveReasons
  <2> QED BY <1>4, <1>7, <2>1, <2>2 DEF FlagsHaveReasons
<1>14. RoundsMeetEverybody' /\ MetAtTheirAddress'
  <2>1. ASSUME NEW t \in Server, NEW u \in met'[t]
        PROVE  /\ u \in Server /\ HasListened(t) /\ HasListened(u)
               /\ Compatible(t, u) /\ proc[u].port <= Probed =>
                     /\ Peer(u) \in proc'[t].peers
                     /\ Linked(t, u)' \/ Ident(u) \in misled'[t] \/ Peer(u) \in proc'[t].dials
                     /\ \A d \in proc'[t].dials : d.id = Ident(u) => d = Peer(u)
                     /\ \A l \in links' : l.from = t /\ CountedFor(l) = Ident(u) => l.to = u
    <3>1. t # s /\ u # s /\ u \in met[t] /\ u \in Server /\ HasListened(t) /\ HasListened(u)
      BY <1>2, KnownHaveListened
    <3>2. Linked(t, u) => Linked(t, u)'
      BY <1>1, <1>2, <3>1 DEF Linked
    <3>3. misled'[t] = misled[t] /\ proc'[t].dials = proc[t].dials /\ proc'[t].peers = proc[t].peers
      BY <1>0, <1>2, <1>5, <3>1
    <3> QED BY <1>3, <3>1, <3>2, <3>3
         DEF DiscoveryFits, RoundsMeetEverybody, MetAtTheirAddress, HasElsewhere
  <2>2. links' \subseteq LinkType
    BY <1>0, <1>2
  <2> QED BY <1>2, <1>8, <1>12, <2>1, <2>2, RoundsStay
<1>15. PeersAreMembers'
  <2>1. \A t \in Server : \A p \in proc'[t].peers : p \in proc[t].peers
    BY <1>4, <1>5
  <2> QED BY <1>2, <1>8, <2>1, PeersStay
<1>16. OthersDoNotDisturb'
  <2>1. ASSUME NEW t \in Server, proc'[t].phase = "failed", HasListened(t)'
        PROVE  HasListened(t) /\ (proc[t].phase = "failed" \/ Disturbed(t))
    BY <1>4, <1>5, <2>1 DEF HasListened
  <2> QED BY <1>2, <1>8, <2>1, OthersStay
<1> QED BY <1>7, <1>10, <1>11, <1>13, <1>14, <1>15, <1>16 DEF DiscoveryFits

(* A server is stopped.                                                     *)
LEMMA StopKeeps ==
    ASSUME DiscoveryFits, NEW s \in Server, Stop(s)
    PROVE  DiscoveryFits'
<1>1. PICK phase : phase = "stopped"
  OBVIOUS
<1>2. Ends(s, phase)
  BY <1>1 DEF Stop
<1> QED BY <1>1, <1>2, EndsKeeps

(* A server ends itself.                                                    *)
LEMMA FailsKeeps ==
    ASSUME DiscoveryFits, NEW s \in Server, Fails(s), HasListened(s) => Disturbed(s)
    PROVE  DiscoveryFits'
<1>1. PICK phase : phase = "failed"
  OBVIOUS
<1>2. Ends(s, phase)
  BY <1>1 DEF Fails
<1> QED BY <1>1, <1>2, EndsKeeps

(* Servers that are of the cluster of s: one that disagrees about who is a  *)
(* member, or two with one id, disturb it.                                  *)
LEMMA FellowsDisturb ==
    ASSUME NEW s \in Server, NEW t \in Server, HasListened(t), SameCluster(s, t)
    PROVE  /\ Membership(t) # Membership(s) => Disturbed(s)
           /\ \A u \in Server : HasListened(u) /\ SameCluster(s, u) /\ t # u /\ Ident(t) = Ident(u)
                => Disturbed(s)
BY DEF Disturbed

(* An answer that ends the round.                                           *)
LEMMA ThrowsDisturb ==
    ASSUME DiscoveryFits, NEW s \in Server, HasListened(s), proc[s].at \in 1 .. LastProbe(s),
           NEW t \in Listener(ProbedPort(s)), Throws(s, t)
    PROVE  Disturbed(s)
<1>1. /\ t \in Server /\ HasListened(t) /\ proc[t].port = ProbedPort(s)
      /\ Probed \in Nat /\ proc[s].at \in Nat /\ options[s].seed \in Nat
  BY KnownHaveListened, ProcOf DEF Listener, DiscoveryFits
<1>2. CASE ~SameVersion(s, t)
  BY <1>1, <1>2 DEF Disturbed, SameVersion
<1>3. CASE proc[s].at > Probed
  <2>1. options[s].seed # 0 /\ ProbedPort(s) = options[s].seed
    BY <1>1, <1>3 DEF LastProbe, ProbedPort
  <2>2. CASE ~SameCluster(s, t)
    BY <1>1, <2>1, <2>2 DEF Disturbed
  <2>3. CASE SameCluster(s, t) /\ ~Eligible(s, Ident(t))
    <3>1. Membership(t) # Membership(s)
      BY <2>3 DEF Eligible, Membership
    <3> QED BY <1>1, <2>3, <3>1, FellowsDisturb
  <2>4. proc[s].phase # "looking"
    BY DEF DiscoveryFits, PortsAreHeld, HasListened
  <2> QED BY <1>2, <1>3, <2>2, <2>3 DEF Throws
<1> QED BY <1>2, <1>3 DEF Throws

(* What a round finds that ends it.                                         *)
LEMMA ConflictDisturbs ==
    ASSUME DiscoveryFits, NEW s \in Server, Listening(s), Conflict(s)
    PROVE  Disturbed(s)
<1>1. HasListened(s) /\ SameCluster(s, s)
  BY KnownHaveListened DEF SameCluster
<1>2. PICK t \in proc[s].found :
         \/ Ident(t) = Ident(s) /\ ~IsSelf(s, t)
         \/ \E u \in proc[s].found : Ident(u) = Ident(t) /\ proc[u].port # proc[t].port
         \/ Eligible(s, Ident(t)) /\ ~IsSelf(s, t) /\ Membership(t) # Membership(s)
  BY DEF Conflict
<1>3. \A u \in proc[s].found : u \in Server /\ HasListened(u) /\ SameCluster(s, u)
  BY KnownHaveListened
<1>4. CASE Ident(t) = Ident(s) /\ ~IsSelf(s, t)
  <2>1. CASE t = s
    BY <1>4, <2>1 DEF IsSelf, Disturbed
  <2> QED BY <1>1, <1>3, <1>4, <2>1, FellowsDisturb
<1>5. CASE \E u \in proc[s].found : Ident(u) = Ident(t) /\ proc[u].port # proc[t].port
  BY <1>3, <1>5, FellowsDisturb
<1>6. CASE Membership(t) # Membership(s)
  BY <1>3, <1>6, FellowsDisturb
<1> QED BY <1>2, <1>4, <1>5, <1>6

(* Whom a round without a conflict lets join: others of the cluster, and    *)
(* none at two addresses.                                                   *)
LEMMA JoiningAreFellows ==
    ASSUME DiscoveryFits, NEW s \in Server, Listening(s), ~Conflict(s)
    PROVE  /\ Joining(s) \subseteq Address
           /\ \A p \in Joining(s) : /\ p.port # proc[s].port
                                    /\ \E t \in proc[s].found : p = Peer(t) /\ FellowOf(s, t)
           /\ \A p \in Joining(s) : \A t \in proc[s].found : p.id = Ident(t) => p = Peer(t)
           /\ \A p, q \in Joining(s) : p.id = q.id => p = q
           /\ \A t \in proc[s].found : ~IsSelf(s, t) /\ Eligible(s, Ident(t)) => Peer(t) \in Joining(s)
<1>1. \A t \in proc[s].found : t \in Server /\ HasListened(t) /\ SameCluster(s, t) /\ Peer(t) \in Address
  BY KnownHaveListened, ProcOf DEF DiscoveryFits
<1>2. ASSUME NEW p \in Joining(s)
      PROVE  \E t \in proc[s].found : p = Peer(t) /\ ~IsSelf(s, t) /\ Eligible(s, Ident(t))
  BY DEF Joining
<1>3. ASSUME NEW t \in proc[s].found, ~IsSelf(s, t), Eligible(s, Ident(t))
      PROVE  FellowOf(s, t) /\ proc[t].port # proc[s].port
  <2>1. t # s
    BY <1>3 DEF Conflict
  <2>2. Membership(t) = Membership(s)
    BY <1>3 DEF Conflict
  <2>3. proc[t].port # proc[s].port
    BY <2>1 DEF DiscoveryFits, FoundWhatIsThere
  <2> QED BY <1>1, <1>3, <2>2, <2>3 DEF FellowOf
<1>4. \A t, u \in proc[s].found : Ident(t) = Ident(u) => Peer(t) = Peer(u)
  BY DEF Conflict, Peer
<1>5. \A t : Peer(t).id = Ident(t) /\ Peer(t).port = proc[t].port
  BY DEF Peer
<1>6. \A p \in Joining(s) : /\ p \in Address /\ p.port # proc[s].port
                            /\ \E t \in proc[s].found : p = Peer(t) /\ FellowOf(s, t)
  BY <1>1, <1>2, <1>3, <1>5
<1>7. \A p \in Joining(s) : \A t \in proc[s].found : p.id = Ident(t) => p = Peer(t)
  BY <1>2, <1>4, <1>5
<1>8. \A p, q \in Joining(s) : p.id = q.id => p = q
  BY <1>2, <1>5, <1>7
<1>9. \A t \in proc[s].found : ~IsSelf(s, t) /\ Eligible(s, Ident(t)) => Peer(t) \in Joining(s)
  BY DEF Joining
<1> QED BY <1>6, <1>7, <1>8, <1>9

(* The end of a round.                                                      *)
LEMMA RoundEndsKeeps ==
    ASSUME DiscoveryFits, NEW s \in Server, RoundEnds(s), ~Conflict(s),
           ~/\ proc[s].phase = "starting" /\ options[s].mode = "proxy-required"
            /\ Upsert(proc[s].peers, Joining(s)) = {}
    PROVE  DiscoveryFits'
<1> PICK peers : peers = Upsert(proc[s].peers, Joining(s))
  OBVIOUS
<1> PICK busy : busy = proc[s].outbound \cup Ids(proc[s].dials)
  OBVIOUS
<1> PICK dials : dials = proc[s].dials \cup {p \in Joining(s) : p.id \notin busy}
  OBVIOUS
<1> PICK r : r = [proc[s] EXCEPT !.phase = "running", !.at = 0, !.found = {}, !.peers = peers,
                                 !.dials = dials]
  OBVIOUS
<1> /\ Listening(s) /\ proc[s].at = LastProbe(s) + 1 /\ proc' = [proc EXCEPT ![s] = r]
    /\ met' = [met EXCEPT ![s] = {t \in before[s] : ~HasElsewhere(s, t)}]
    /\ UNCHANGED <<options, links, before, misled>>
  BY DEF RoundEnds
<1>0. /\ DiscoveryTypeOK /\ proc \in [Server -> ProcType] /\ links \subseteq LinkType
      /\ options \in Deployments /\ met \in [Server -> SUBSET Server] /\ proc[s] \in ProcType
      /\ before \in [Server -> SUBSET Server] /\ misled \in [Server -> SUBSET Idents]
  BY DiscoveryTypes DEF DiscoveryFits
<1>3. /\ Joining(s) \subseteq Address
      /\ \A p \in Joining(s) : /\ p.port # proc[s].port
                               /\ \E t \in proc[s].found : p = Peer(t) /\ FellowOf(s, t)
      /\ \A p \in Joining(s) : \A t \in proc[s].found : p.id = Ident(t) => p = Peer(t)
      /\ \A p, q \in Joining(s) : p.id = q.id => p = q
      /\ \A t \in proc[s].found : ~IsSelf(s, t) /\ Eligible(s, Ident(t)) => Peer(t) \in Joining(s)
  BY JoiningAreFellows
<1>4. /\ peers \subseteq Address /\ \A p \in peers : p \in proc[s].peers \/ p \in Joining(s)
      /\ Joining(s) \subseteq peers
  BY <1>0, <1>3, ProcOf DEF Upsert
<1>5. /\ dials \subseteq Address /\ proc[s].dials \subseteq dials
      /\ \A d \in dials : d \in proc[s].dials \/ (d \in Joining(s) /\ d.id \notin busy)
      /\ \A d \in Joining(s) : d.id \notin busy => d \in dials
  BY <1>0, <1>3, ProcOf
<1>6. /\ r \in ProcType /\ r.phase = "running" /\ r.asked = proc[s].asked /\ r.port = proc[s].port
      /\ r.at = 0 /\ r.found = {} /\ r.peers = peers /\ r.outbound = proc[s].outbound
      /\ r.dials = dials
  <2>1. "running" \in Phase /\ 0 \in 0 .. Probed + 2
    BY <1>0, ProcOf DEF Phase
  <2> QED BY <1>0, <1>4, <1>5, <2>1 DEF ProcType
<1>8. /\ proc' \in [Server -> ProcType] /\ proc'[s] = r
      /\ \A t \in Server \ {s} : proc'[t] = proc[t]
  BY <1>0, <1>6
<1>9. /\ met' \in [Server -> SUBSET Server] /\ \A t \in Server \ {s} : met'[t] = met[t]
      /\ \A t \in met'[s] : t \in before[s] /\ ~HasElsewhere(s, t)
  BY <1>0
<1>10. Server' = Server /\ Idents' = Idents /\ DiscoveryTypeOK'
  BY <1>0, <1>8, <1>9, DiscoveryTypesAfter
<1>11. WhoStays
  BY <1>6, <1>8 DEF WhoStays
<1>12. \A t \in Server : Listening(t)' <=> Listening(t)
  BY <1>6, <1>8 DEF Listening
<1>13. PortsAreHeld'
  <2>1. \A t \in Server : proc'[t].port = proc[t].port /\ proc'[t].asked = proc[t].asked
    BY <1>6, <1>8
  <2>2. \A t \in Server \ {s} : proc'[t] = proc[t]
    BY <1>8
  <2>3. \A t \in Server : \A u \in before'[t] \cup met'[t] : Listening(t)' /\ Listening(u)'
    BY <1>9, <1>12, KnownHaveListened
  <2>4. \A l \in links : l.from # l.to /\ Listening(l.from)' /\ Listening(l.to)'
    BY <1>12, KnownHaveListened
  <2>5. \A t, u \in Server : Listening(t)' /\ Listening(u)' /\ proc'[t].port = proc'[u].port => t = u
    BY <1>12, <2>1 DEF DiscoveryFits, PortsAreHeld
  <2>6. ASSUME NEW t \in Server
        PROVE  /\ Listening(t)' => proc'[t].port # 0
               /\ proc'[t].phase \in {"off", "looking", "binding"} => proc'[t].port = 0
               /\ proc'[t].phase \in {"off", "looking"} => proc'[t].asked = 0
               /\ proc'[t].at # 0 => proc'[t].phase \in {"looking", "starting", "running"}
               /\ ~Listening(t)' => proc'[t].peers = {} /\ proc'[t].outbound = {} /\ proc'[t].dials = {}
    BY <1>6, <1>8, <1>12, <2>1, <2>2 DEF DiscoveryFits, PortsAreHeld
  <2> QED BY <1>10, <2>3, <2>4, <2>5, <2>6 DEF PortsAreHeld
<1>14. FoundWhatIsThere'
  <2>1. \A t, u \in Server : SameCluster(t, u)' <=> SameCluster(t, u)
    BY <1>11, NamesStay
  <2>2. \A t \in Server : proc'[t].port = proc[t].port
    BY <1>6, <1>8
  <2>3. \A t \in Server : \A u \in proc[t].found \cup before[t] : u \in Server
    BY KnownHaveListened
  <2>4. \A u \in before[s] : proc[u].port \in Nat
    BY <1>0, <2>3, ProcOf
  <2>5. \A t \in Server \ {s} : proc'[t] = proc[t]
    BY <1>8
  <2>6. /\ proc'[s].found = {} /\ \A u \in before[s] : ~(proc'[u].port < proc'[s].at)
    BY <1>6, <1>8, <2>2, <2>3, <2>4
  <2>7. ASSUME NEW t \in Server \ {s}
        PROVE  /\ \A u \in proc'[t].found : proc'[u].port # 0 /\ SameCluster(t, u)'
               /\ Listening(t)' =>
                     /\ \A u \in proc'[t].found \ {t} : proc'[u].port # proc'[t].port
                     /\ \A u \in before'[t] : SameCluster(t, u)' /\ proc'[u].port < proc'[t].at
                                              /\ proc'[u].port <= Probed => u \in proc'[t].found
    BY <1>12, <2>1, <2>2, <2>3, <2>5 DEF DiscoveryFits, FoundWhatIsThere
  <2> QED BY <1>10, <2>6, <2>7 DEF FoundWhatIsThere
<1>15. \A l \in links : CountedFor(l)' = CountedFor(l)
  BY <1>11, NamesStay, KnownHaveListened
<1>16. FlagsHaveReasons'
  <2>1. ASSUME NEW d \in dials
        PROVE  /\ d.id \notin proc[s].outbound /\ d.port # proc[s].port
               /\ \A e \in dials : e.id = d.id => e = d
    <3>1. d \in Joining(s) /\ d.id \notin busy
            => d.id \notin proc[s].outbound /\ \A e \in proc[s].dials : e.id # d.id
      BY DEF Ids
    <3>2. \A e \in Joining(s) : e.id \notin busy
            => e.id \notin proc[s].outbound /\ \A f \in proc[s].dials : f.id # e.id
      BY DEF Ids
    <3>3. d \in proc[s].dials => /\ d.id \notin proc[s].outbound /\ d.port # proc[s].port
                                 /\ \A e \in proc[s].dials : e.id = d.id => e = d
      BY DEF DiscoveryFits, FlagsHaveReasons
    <3> QED BY <1>3, <1>5, <3>1, <3>2, <3>3
  <2>2. \A t \in Server : proc'[t].outbound = proc[t].outbound /\ proc'[t].port = proc[t].port
    BY <1>6, <1>8
  <2>3. \A t \in Server \ {s} : proc'[t].dials = proc[t].dials
    BY <1>8
  <2>4. proc'[s].dials = dials
    BY <1>6, <1>8
  <2>5. \A t \in Server : \A id \in proc[t].outbound :
           id \in misled[t] \/ \E l \in links : l.from = t /\ CountedFor(l)' = id
    BY <1>15 DEF DiscoveryFits, FlagsHaveReasons
  <2>6. \A t \in Server \ {s} : \A d \in proc[t].dials :
           /\ d.id \notin proc[t].outbound /\ d.port # proc[t].port
           /\ \A e \in proc[t].dials : e.id = d.id => e = d
    BY DEF DiscoveryFits, FlagsHaveReasons
  <2>7. ASSUME NEW t \in Server, NEW d \in proc'[t].dials
        PROVE  /\ d.id \notin proc'[t].outbound /\ d.port # proc'[t].port
               /\ \A e \in proc'[t].dials : e.id = d.id => e = d
    <3>1. CASE t = s
      BY <2>1, <2>2, <2>4, <3>1
    <3>2. CASE t # s
      BY <2>2, <2>3, <2>6, <3>2
    <3> QED BY <3>1, <3>2
  <2> QED BY <1>10, <2>2, <2>5, <2>7 DEF FlagsHaveReasons
<1>17. RoundsMeetEverybody' /\ MetAtTheirAddress'
  <2>1. \A t, u \in Server : Linked(t, u)' <=> Linked(t, u)
    BY DEF Linked
  <2>2. ASSUME NEW t \in Server \ {s}, NEW u \in met'[t]
        PROVE  /\ u \in Server /\ HasListened(t) /\ HasListened(u)
               /\ Compatible(t, u) /\ proc[u].port <= Probed =>
                     /\ Peer(u) \in proc'[t].peers
                     /\ Linked(t, u)' \/ Ident(u) \in misled'[t] \/ Peer(u) \in proc'[t].dials
                     /\ \A d \in proc'[t].dials : d.id = Ident(u) => d = Peer(u)
                     /\ \A l \in links' : l.from = t /\ CountedFor(l) = Ident(u) => l.to = u
    <3>1. u \in met[t] /\ u \in Server /\ HasListened(t) /\ HasListened(u)
      BY <1>9, KnownHaveListened
    <3> QED BY <1>8, <2>1, <3>1 DEF DiscoveryFits, RoundsMeetEverybody, MetAtTheirAddress, HasElsewhere
  <2>3. ASSUME NEW u \in met'[s]
        PROVE  /\ u \in Server /\ HasListened(s) /\ HasListened(u)
               /\ Compatible(s, u) /\ proc[u].port <= Probed =>
                     /\ Peer(u) \in proc'[s].peers
                     /\ Linked(s, u)' \/ Ident(u) \in misled'[s] \/ Peer(u) \in proc'[s].dials
                     /\ \A d \in proc'[s].dials : d.id = Ident(u) => d = Peer(u)
                     /\ \A l \in links' : l.from = s /\ CountedFor(l) = Ident(u) => l.to = u
    <3>1. /\ u \in before[s] /\ u \in Server /\ HasListened(s) /\ HasListened(u)
          /\ \A d \in proc[s].dials : d.id = Ident(u) => d = Peer(u)
          /\ \A l \in links : l.from = s /\ CountedFor(l) = Ident(u) => l.to = u
      BY <1>9, KnownHaveListened DEF HasElsewhere
    <3>2. ASSUME Compatible(s, u), proc[u].port <= Probed
          PROVE  u \in proc[s].found /\ Peer(u) \in Joining(s)
      <4>1. proc[u].port < proc[s].at
        BY <1>0, <3>1, <3>2, ProcOf DEF LastProbe
      <4>2. u \in proc[s].found
        BY <3>1, <3>2, <4>1 DEF DiscoveryFits, FoundWhatIsThere, Compatible
      <4>3. ~IsSelf(s, u) /\ Eligible(s, Ident(u))
        BY <3>2 DEF IsSelf, Compatible
      <4> QED BY <1>3, <4>2, <4>3
    <3>3. ASSUME Compatible(s, u), proc[u].port <= Probed
          PROVE  Linked(s, u) \/ Ident(u) \in misled[s] \/ Peer(u) \in dials
      <4>1. Peer(u).id = Ident(u)
        BY DEF Peer
      <4>2. CASE Ident(u) \in proc[s].outbound
        <5>1. Ident(u) \in misled[s] \/ \E l \in links : l.from = s /\ CountedFor(l) = Ident(u)
          BY <4>2 DEF DiscoveryFits, FlagsHaveReasons
        <5> QED BY <3>1, <5>1 DEF Linked
      <4>3. CASE Ident(u) \in Ids(proc[s].dials)
        BY <1>5, <3>1, <4>3 DEF Ids
      <4>4. CASE Ident(u) \notin busy
        BY <1>5, <3>2, <3>3, <4>1, <4>4
      <4> QED BY <4>2, <4>3, <4>4
    <3>4. ASSUME Compatible(s, u), proc[u].port <= Probed
          PROVE  \A d \in dials : d.id = Ident(u) => d = Peer(u)
      BY <1>3, <1>5, <3>1, <3>2, <3>4
    <3>5. proc'[s].peers = peers /\ proc'[s].dials = dials
      BY <1>6, <1>8
    <3> QED BY <1>4, <2>1, <3>1, <3>2, <3>3, <3>4, <3>5
  <2>4. \A l \in links' : HasListened(l.to)
    BY KnownHaveListened
  <2> QED BY <1>0, <1>11, <2>2, <2>3, <2>4, RoundsStay
<1>18. PeersAreMembers'
  <2>1. \A p \in peers : p \in proc[s].peers \/ \E t \in Server : p = Peer(t) /\ FellowOf(s, t)
    BY <1>3, <1>4, KnownHaveListened
  <2>2. HasListened(s) /\ proc'[s].peers = peers
    BY <1>6, <1>8, KnownHaveListened
  <2>3. \A t \in Server : \A p \in proc'[t].peers :
           p \in proc[t].peers \/ (HasListened(t) /\ \E u \in Server : p = Peer(u) /\ FellowOf(t, u))
    BY <1>8, <2>1, <2>2
  <2> QED BY <1>11, <2>3, PeersStay
<1>19. OthersDoNotDisturb'
  <2>1. ASSUME NEW t \in Server, proc'[t].phase = "failed", HasListened(t)'
        PROVE  HasListened(t) /\ proc[t].phase = "failed"
    BY <1>6, <1>8, <2>1 DEF HasListened
  <2> QED BY <1>11, <2>1, OthersStay
<1> QED BY <1>10, <1>13, <1>14, <1>16, <1>17, <1>18, <1>19 DEF DiscoveryFits

(* A dial reaches whoever listens at the address, or nobody.                *)
LEMMA DialEndsKeeps ==
    ASSUME DiscoveryFits, NEW s \in Server, NEW d \in proc[s].dials, DialEnds(s, d)
    PROVE  DiscoveryFits'
<1> PICK there : there = {t \in Listener(d.port) : Clustered(t)}
  OBVIOUS
<1> PICK opened : opened = {[from |-> s, to |-> t, dialed |-> d.id, heard |-> {}] : t \in there}
  OBVIOUS
<1> PICK r : r = [proc[s] EXCEPT !.dials = @ \ {d},
                                 !.outbound = IF there = {} THEN @ ELSE @ \cup {d.id}]
  OBVIOUS
<1> /\ proc' = [proc EXCEPT ![s] = r] /\ links' = links \cup opened
    /\ UNCHANGED <<options, before, met, misled>>
  BY DEF DialEnds
<1>0. /\ DiscoveryTypeOK /\ proc \in [Server -> ProcType] /\ links \subseteq LinkType
      /\ options \in Deployments /\ met \in [Server -> SUBSET Server] /\ proc[s] \in ProcType
      /\ before \in [Server -> SUBSET Server] /\ misled \in [Server -> SUBSET Idents]
  BY DiscoveryTypes DEF DiscoveryFits
<1>1. /\ d \in Address /\ d.id \in Idents /\ d.id \notin proc[s].outbound /\ d.port # proc[s].port
      /\ \A e \in proc[s].dials : e.id = d.id => e = d
  BY <1>0, ProcOf DEF DiscoveryFits, FlagsHaveReasons, Address
<1>2. \A t \in there : /\ t \in Server /\ Listening(t) /\ HasListened(t) /\ Clustered(t)
                       /\ proc[t].port = d.port /\ t # s
  BY <1>1, KnownHaveListened DEF Listener
<1>3. /\ r \in ProcType /\ r.phase = proc[s].phase /\ r.asked = proc[s].asked /\ r.port = proc[s].port
      /\ r.at = proc[s].at /\ r.found = proc[s].found /\ r.peers = proc[s].peers
      /\ r.outbound = IF there = {} THEN proc[s].outbound ELSE proc[s].outbound \cup {d.id}
      /\ r.dials = proc[s].dials \ {d}
  BY <1>0, <1>1 DEF ProcType
<1>4. /\ proc' \in [Server -> ProcType] /\ proc'[s] = r
      /\ \A t \in Server \ {s} : proc'[t] = proc[t]
  BY <1>0, <1>3
<1>5. \A l \in opened : /\ l \in LinkType /\ l.from = s /\ l.to \in there /\ CountedFor(l) = d.id
  BY <1>1, <1>2 DEF LinkType, CountedFor
<1>6. links' \subseteq LinkType
  BY <1>0, <1>5
<1>7. Server' = Server /\ Idents' = Idents /\ DiscoveryTypeOK'
  BY <1>0, <1>4, <1>6, DiscoveryTypesAfter
<1>8. \A t \in Server : /\ proc'[t].asked = proc[t].asked /\ proc'[t].port = proc[t].port
                        /\ proc'[t].phase = proc[t].phase /\ proc'[t].at = proc[t].at
                        /\ proc'[t].found = proc[t].found /\ proc'[t].peers = proc[t].peers
  BY <1>3, <1>4
<1>9. WhoStays
  BY <1>8 DEF WhoStays
<1>10. \A t \in Server : Listening(t)' <=> Listening(t)
  BY <1>8 DEF Listening
<1>11. Listening(s) /\ HasListened(s)
  BY KnownHaveListened DEF DiscoveryFits, PortsAreHeld
<1>12. PortsAreHeld'
  <2>1. \A t \in Server \ {s} : proc'[t] = proc[t]
    BY <1>4
  <2>2. \A t \in Server : \A u \in before'[t] \cup met'[t] : Listening(t)' /\ Listening(u)'
    BY <1>10, KnownHaveListened
  <2>3. \A l \in links' : l.from # l.to /\ Listening(l.from)' /\ Listening(l.to)'
    BY <1>2, <1>5, <1>10, <1>11, KnownHaveListened
  <2>4. \A t, u \in Server : Listening(t)' /\ Listening(u)' /\ proc'[t].port = proc'[u].port => t = u
    BY <1>8, <1>10 DEF DiscoveryFits, PortsAreHeld
  <2>5. ASSUME NEW t \in Server
        PROVE  /\ Listening(t)' => proc'[t].port # 0
               /\ proc'[t].phase \in {"off", "looking", "binding"} => proc'[t].port = 0
               /\ proc'[t].phase \in {"off", "looking"} => proc'[t].asked = 0
               /\ proc'[t].at # 0 => proc'[t].phase \in {"looking", "starting", "running"}
               /\ ~Listening(t)' => proc'[t].peers = {} /\ proc'[t].outbound = {} /\ proc'[t].dials = {}
    BY <1>8, <1>10, <1>11, <2>1 DEF DiscoveryFits, PortsAreHeld
  <2> QED BY <1>7, <2>2, <2>3, <2>4, <2>5 DEF PortsAreHeld
<1>13. FoundWhatIsThere'
  <2>1. \A t, u \in Server : SameCluster(t, u)' <=> SameCluster(t, u)
    BY <1>9, NamesStay
  <2>2. \A t \in Server : \A u \in proc[t].found \cup before[t] : u \in Server
    BY KnownHaveListened
  <2> QED BY <1>7, <1>8, <1>10, <2>1, <2>2 DEF DiscoveryFits, FoundWhatIsThere
<1>14. /\ \A l \in links' : CountedFor(l)' = CountedFor(l) /\ HasListened(l.to)
  <2>1. \A l \in links' : l.to \in Server /\ HasListened(l.to)
    BY <1>2, <1>5, KnownHaveListened
  <2> QED BY <1>9, <2>1, NamesStay
<1>15. FlagsHaveReasons'
  <2>1. ASSUME NEW t \in Server \ {s}
        PROVE  /\ \A e \in proc'[t].dials : /\ e.id \notin proc'[t].outbound /\ e.port # proc'[t].port
                                            /\ \A f \in proc'[t].dials : f.id = e.id => f = e
               /\ \A id \in proc'[t].outbound :
                     id \in misled[t] \/ \E l \in links' : l.from = t /\ CountedFor(l)' = id
    <3>1. proc'[t] = proc[t]
      BY <1>4
    <3> QED BY <1>14, <3>1 DEF DiscoveryFits, FlagsHaveReasons
  <2>2. \A e \in proc'[s].dials : /\ e.id \notin proc'[s].outbound /\ e.port # proc'[s].port
                                  /\ \A f \in proc'[s].dials : f.id = e.id => f = e
    BY <1>1, <1>3, <1>4 DEF DiscoveryFits, FlagsHaveReasons
  <2>3. ASSUME NEW id \in proc'[s].outbound
        PROVE  id \in misled[s] \/ \E l \in links' : l.from = s /\ CountedFor(l)' = id
    <3>1. CASE id \in proc[s].outbound
      BY <1>14, <3>1 DEF DiscoveryFits, FlagsHaveReasons
    <3>2. CASE id \notin proc[s].outbound
      <4>1. id = d.id /\ there # {}
        BY <1>3, <1>4, <2>3, <3>2
      <4>2. \E l \in opened : TRUE
        BY <4>1
      <4> QED BY <1>5, <1>14, <4>1, <4>2
    <3> QED BY <3>1, <3>2
  <2> QED BY <1>7, <2>1, <2>2, <2>3 DEF FlagsHaveReasons
<1>16. RoundsMeetEverybody' /\ MetAtTheirAddress'
  <2>1. \A t, u \in Server : Linked(t, u) => Linked(t, u)'
    BY DEF Linked
  <2>2. ASSUME NEW t \in Server, NEW u \in met'[t]
        PROVE  /\ u \in Server /\ HasListened(t) /\ HasListened(u)
               /\ Compatible(t, u) /\ proc[u].port <= Probed =>
                     /\ Peer(u) \in proc'[t].peers
                     /\ Linked(t, u)' \/ Ident(u) \in misled'[t] \/ Peer(u) \in proc'[t].dials
                     /\ \A e \in proc'[t].dials : e.id = Ident(u) => e = Peer(u)
                     /\ \A l \in links' : l.from = t /\ CountedFor(l) = Ident(u) => l.to = u
    <3>1. u \in met[t] /\ u \in Server /\ HasListened(t) /\ HasListened(u) /\ Listening(u)
      BY KnownHaveListened
    <3> SUFFICES ASSUME Compatible(t, u), proc[u].port <= Probed
                 PROVE  /\ Peer(u) \in proc'[t].peers
                        /\ Linked(t, u)' \/ Ident(u) \in misled'[t] \/ Peer(u) \in proc'[t].dials
                        /\ \A e \in proc'[t].dials : e.id = Ident(u) => e = Peer(u)
                        /\ \A l \in links' : l.from = t /\ CountedFor(l) = Ident(u) => l.to = u
      BY <3>1
    <3>2. /\ Peer(u) \in proc[t].peers
          /\ Linked(t, u) \/ Ident(u) \in misled[t] \/ Peer(u) \in proc[t].dials
          /\ \A e \in proc[t].dials : e.id = Ident(u) => e = Peer(u)
          /\ \A l \in links : l.from = t /\ CountedFor(l) = Ident(u) => l.to = u
      BY <3>1 DEF DiscoveryFits, RoundsMeetEverybody, MetAtTheirAddress, HasElsewhere
    <3>3. /\ proc'[t].dials \subseteq proc[t].dials
          /\ \A e \in proc[t].dials : e \in proc'[t].dials \/ (t = s /\ e = d)
      BY <1>3, <1>4
    <3>4. ASSUME Peer(u) = d, t = s
          PROVE  Linked(t, u)'
      <4>1. u \in there
        BY <3>1, <3>4 DEF Listener, Peer, Compatible
      <4>2. [from |-> s, to |-> u, dialed |-> d.id, heard |-> {}] \in links'
        BY <4>1
      <4> QED BY <3>4, <4>2 DEF Linked
    <3>5. ASSUME NEW l \in opened, l.from = t, CountedFor(l) = Ident(u)
          PROVE  l.to = u
      <4>1. t = s /\ d.id = Ident(u) /\ l.to \in there
        BY <1>5, <3>5
      <4>2. d = Peer(u)
        BY <3>2, <4>1
      <4>3. proc[l.to].port = proc[u].port /\ Listening(l.to) /\ l.to \in Server
        BY <1>2, <4>1, <4>2 DEF Peer
      <4> QED BY <3>1, <4>3 DEF DiscoveryFits, PortsAreHeld
    <3>6. \A l \in links' : l.from = t /\ CountedFor(l) = Ident(u) => l.to = u
      BY <3>2, <3>5
    <3>7. Linked(t, u)' \/ Ident(u) \in misled'[t] \/ Peer(u) \in proc'[t].dials
      BY <2>1, <3>1, <3>2, <3>3, <3>4
    <3> QED BY <1>8, <3>2, <3>3, <3>6, <3>7
  <2> QED BY <1>6, <1>9, <1>14, <2>2, RoundsStay
<1>17. PeersAreMembers'
  BY <1>8, <1>9, PeersStay
<1>18. OthersDoNotDisturb'
  <2>1. ASSUME NEW t \in Server, proc'[t].phase = "failed", HasListened(t)'
        PROVE  HasListened(t) /\ proc[t].phase = "failed"
    BY <1>8, <2>1 DEF HasListened
  <2> QED BY <1>9, <2>1, OthersStay
<1> QED BY <1>7, <1>12, <1>13, <1>15, <1>16, <1>17, <1>18 DEF DiscoveryFits

(* Two servers that can be one cluster do not refuse each other.            *)
LEMMA CompatibleDoNotRefuse ==
    ASSUME NEW s, NEW t, Compatible(s, t)
    PROVE  ~Refuses(s, t) /\ ~Refuses(t, s)
<1>1. /\ Ident(s) # Ident(t) /\ SameCluster(s, t) /\ Membership(s) = Membership(t)
      /\ Eligible(s, Ident(t))
  BY DEF Compatible
<1>2. Membership(s) = {} \/ Ident(s) \in Membership(s)
  BY DEF Membership
<1>3. Eligible(t, Ident(s)) /\ SameCluster(t, s)
  BY <1>1, <1>2 DEF Eligible, SameCluster
<1> QED BY <1>1, <1>3 DEF Refuses

(* A hello that is refused ends the connection.                             *)
LEMMA RefusedKeeps ==
    ASSUME DiscoveryFits, NEW l \in links, NEW e, NEW o, {l.from, l.to} = {e, o}, Refuses(e, o),
           NEW s, s = l.from,
           NEW r, r = [proc[s] EXCEPT !.outbound = OutboundWithout(s, {l})],
           proc' = [proc EXCEPT ![s] = r], links' = links \ {l},
           UNCHANGED <<options, before, met, misled>>
    PROVE  DiscoveryFits'
<1>0. /\ DiscoveryTypeOK /\ proc \in [Server -> ProcType] /\ links \subseteq LinkType
      /\ options \in Deployments /\ met \in [Server -> SUBSET Server]
      /\ before \in [Server -> SUBSET Server] /\ misled \in [Server -> SUBSET Idents]
  BY DiscoveryTypes DEF DiscoveryFits
<1>1. s \in Server /\ proc[s] \in ProcType /\ Listening(s)
  BY <1>0, KnownHaveListened
<1>2. \A id : id \in OutboundWithout(s, {l}) <=> id \in proc[s].outbound /\ CountedFor(l) # id
  BY FlagsWithout
<1>3. OutboundWithout(s, {l}) \subseteq Idents
  BY <1>0, <1>1, <1>2, ProcOf
<1>4. /\ r \in ProcType /\ r.phase = proc[s].phase /\ r.asked = proc[s].asked /\ r.port = proc[s].port
      /\ r.at = proc[s].at /\ r.found = proc[s].found /\ r.peers = proc[s].peers
      /\ r.dials = proc[s].dials /\ r.outbound = OutboundWithout(s, {l})
  BY <1>1, <1>3 DEF ProcType
<1>5. /\ proc' \in [Server -> ProcType] /\ proc'[s] = r
      /\ \A t \in Server \ {s} : proc'[t] = proc[t]
  BY <1>0, <1>1, <1>4
<1>6. Server' = Server /\ Idents' = Idents /\ DiscoveryTypeOK'
  BY <1>0, <1>5, DiscoveryTypesAfter
<1>7. \A t \in Server : /\ proc'[t].asked = proc[t].asked /\ proc'[t].port = proc[t].port
                        /\ proc'[t].phase = proc[t].phase /\ proc'[t].at = proc[t].at
                        /\ proc'[t].found = proc[t].found /\ proc'[t].peers = proc[t].peers
                        /\ proc'[t].dials = proc[t].dials
                        /\ proc'[t].outbound \subseteq proc[t].outbound
  BY <1>2, <1>4, <1>5
<1>8. WhoStays
  BY <1>7 DEF WhoStays
<1>9. \A t \in Server : Listening(t)' <=> Listening(t)
  BY <1>7 DEF Listening
<1>10. PortsAreHeld'
  <2>1. \A t, u \in Server : Listening(t)' /\ Listening(u)' /\ proc'[t].port = proc'[u].port => t = u
    BY <1>7, <1>9 DEF DiscoveryFits, PortsAreHeld
  <2>2. \A t \in Server : \A u \in before'[t] \cup met'[t] : Listening(t)' /\ Listening(u)'
    BY <1>9, KnownHaveListened
  <2>3. \A k \in links' : k.from # k.to /\ Listening(k.from)' /\ Listening(k.to)'
    BY <1>9, KnownHaveListened
  <2>4. ASSUME NEW t \in Server
        PROVE  /\ Listening(t)' => proc'[t].port # 0
               /\ proc'[t].phase \in {"off", "looking", "binding"} => proc'[t].port = 0
               /\ proc'[t].phase \in {"off", "looking"} => proc'[t].asked = 0
               /\ proc'[t].at # 0 => proc'[t].phase \in {"looking", "starting", "running"}
               /\ ~Listening(t)' => proc'[t].peers = {} /\ proc'[t].outbound = {} /\ proc'[t].dials = {}
    <3>1. ~Listening(t) => proc[t].outbound = {}
      BY DEF DiscoveryFits, PortsAreHeld
    <3>2. ~Listening(t)' => proc'[t].outbound = {}
      BY <1>7, <1>9, <3>1
    <3> QED BY <1>7, <1>9, <3>2 DEF DiscoveryFits, PortsAreHeld
  <2> QED BY <1>6, <2>1, <2>2, <2>3, <2>4 DEF PortsAreHeld
<1>11. FoundWhatIsThere'
  <2>1. \A t, u \in Server : SameCluster(t, u)' <=> SameCluster(t, u)
    BY <1>8, NamesStay
  <2>2. \A t \in Server : \A u \in proc[t].found \cup before[t] : u \in Server
    BY KnownHaveListened
  <2> QED BY <1>6, <1>7, <1>9, <2>1, <2>2 DEF DiscoveryFits, FoundWhatIsThere
<1>12. \A k \in links' : CountedFor(k)' = CountedFor(k) /\ HasListened(k.to) /\ k \in links
  BY <1>8, NamesStay, KnownHaveListened
<1>13. FlagsHaveReasons'
  <2>1. ASSUME NEW t \in Server, NEW id \in proc'[t].outbound
        PROVE  id \in misled'[t] \/ \E k \in links' : k.from = t /\ CountedFor(k)' = id
    <3>1. id \in misled[t] \/ \E k \in links : k.from = t /\ CountedFor(k) = id
      <4>1. id \in proc[t].outbound
        BY <1>7
      <4> QED BY <4>1 DEF DiscoveryFits, FlagsHaveReasons
    <3>2. t = s => CountedFor(l) # id
      BY <1>2, <1>4, <1>5
    <3>3. ASSUME NEW k \in links, k.from = t, CountedFor(k) = id
          PROVE  k \in links' /\ CountedFor(k)' = id
      BY <1>12, <3>2, <3>3
    <3>4. misled' = misled
      OBVIOUS
    <3> QED BY <3>1, <3>3, <3>4
  <2>2. ASSUME NEW t \in Server, NEW d \in proc'[t].dials
        PROVE  /\ d.id \notin proc'[t].outbound /\ d.port # proc'[t].port
               /\ \A f \in proc'[t].dials : f.id = d.id => f = d
    <3>1. d \in proc[t].dials
      BY <1>7
    <3>2. /\ d.id \notin proc[t].outbound /\ d.port # proc[t].port
          /\ \A f \in proc[t].dials : f.id = d.id => f = d
      BY <3>1 DEF DiscoveryFits, FlagsHaveReasons
    <3> QED BY <1>7, <3>2
  <2> QED BY <1>6, <2>1, <2>2 DEF FlagsHaveReasons
<1>14. RoundsMeetEverybody' /\ MetAtTheirAddress'
  <2>1. ASSUME NEW t \in Server, NEW u \in met'[t]
        PROVE  /\ u \in Server /\ HasListened(t) /\ HasListened(u)
               /\ Compatible(t, u) /\ proc[u].port <= Probed =>
                     /\ Peer(u) \in proc'[t].peers
                     /\ Linked(t, u)' \/ Ident(u) \in misled'[t] \/ Peer(u) \in proc'[t].dials
                     /\ \A d \in proc'[t].dials : d.id = Ident(u) => d = Peer(u)
                     /\ \A k \in links' : k.from = t /\ CountedFor(k) = Ident(u) => k.to = u
    <3>1. u \in met[t] /\ u \in Server /\ HasListened(t) /\ HasListened(u)
      BY KnownHaveListened
    <3>2. ASSUME Compatible(t, u), Linked(t, u)
          PROVE  Linked(t, u)'
      <4>1. PICK k \in links : {k.from, k.to} = {t, u}
        BY <3>2 DEF Linked
      <4>2. ~Refuses(t, u) /\ ~Refuses(u, t) /\ t # u
        BY <3>2, CompatibleDoNotRefuse DEF Compatible
      <4>3. k # l
        BY <4>1, <4>2
      <4> QED BY <4>1, <4>3 DEF Linked
    <3> QED BY <1>7, <3>1, <3>2 DEF DiscoveryFits, RoundsMeetEverybody, MetAtTheirAddress, HasElsewhere
  <2>2. links' \subseteq LinkType
    BY <1>0
  <2> QED BY <1>8, <1>12, <2>1, <2>2, RoundsStay
<1>15. PeersAreMembers'
  BY <1>7, <1>8, PeersStay
<1>16. OthersDoNotDisturb'
  <2>1. ASSUME NEW t \in Server, proc'[t].phase = "failed", HasListened(t)'
        PROVE  HasListened(t) /\ proc[t].phase = "failed"
    BY <1>7, <2>1 DEF HasListened
  <2> QED BY <1>8, <2>1, OthersStay
<1> QED BY <1>6, <1>10, <1>11, <1>13, <1>14, <1>15, <1>16 DEF DiscoveryFits

(* A hello that is let in: o is a peer, and what was dialed may be another. *)
LEMMA LetInKeeps ==
    ASSUME DiscoveryFits, NEW l \in links, NEW e \in Server, NEW o \in Server,
           o = (CHOOSE x \in {l.from, l.to} : x # e),
           e # o, {l.from, l.to} = {e, o}, HearHello(l, e), ~Refuses(e, o)
    PROVE  DiscoveryFits'
<1> PICK heard : heard = [l EXCEPT !.heard = @ \cup {e}]
  OBVIOUS
<1> PICK peers : peers = Upsert(proc[e].peers, {Peer(o)})
  OBVIOUS
<1> PICK r : r = [proc[e] EXCEPT !.peers = peers]
  OBVIOUS
<1> /\ e \notin l.heard /\ links' = (links \ {l}) \cup {heard} /\ proc' = [proc EXCEPT ![e] = r]
    /\ met' = [met EXCEPT ![e] = {t \in @ : t = o \/ Ident(t) # Ident(o)}]
    /\ misled' = IF e = l.from /\ Ident(o) # l.dialed
                 THEN [misled EXCEPT ![e] = @ \cup {l.dialed}] ELSE misled
    /\ UNCHANGED <<options, before>>
  BY DEF HearHello
<1>0. /\ DiscoveryTypeOK /\ proc \in [Server -> ProcType] /\ links \subseteq LinkType
      /\ options \in Deployments /\ met \in [Server -> SUBSET Server]
      /\ before \in [Server -> SUBSET Server] /\ misled \in [Server -> SUBSET Idents]
  BY DiscoveryTypes DEF DiscoveryFits
<1>1. /\ l \in LinkType /\ l.dialed \in Idents /\ Listening(e) /\ Listening(o)
      /\ HasListened(e) /\ HasListened(o) /\ l.from \in Server /\ l.to \in Server
      /\ l.heard \subseteq Server
  <2>1. /\ l \in LinkType /\ l.dialed \in Idents /\ l.from \in Server /\ l.to \in Server
        /\ Listening(l.from) /\ Listening(l.to) /\ HasListened(l.from) /\ HasListened(l.to)
        /\ l.heard \subseteq Server
    BY KnownHaveListened
  <2> QED BY <2>1
<1>2. /\ heard \in LinkType /\ heard.from = l.from /\ heard.to = l.to /\ heard.dialed = l.dialed
      /\ heard.heard = l.heard \cup {e}
  BY <1>1 DEF LinkType
<1>3. links' \subseteq LinkType
  BY <1>0, <1>2
<1>4. peers = {p \in proc[e].peers : p.id # Ident(o)} \cup {Peer(o)}
  BY DEF Upsert, Ids, Peer
<1>5. proc[e] \in ProcType /\ proc[e].peers \subseteq Address /\ Peer(o) \in Address
  BY <1>0, ProcOf
<1>6. /\ r \in ProcType /\ r.phase = proc[e].phase /\ r.asked = proc[e].asked /\ r.port = proc[e].port
      /\ r.at = proc[e].at /\ r.found = proc[e].found /\ r.peers = peers
      /\ r.dials = proc[e].dials /\ r.outbound = proc[e].outbound
  <2>1. peers \subseteq Address
    BY <1>4, <1>5
  <2> QED BY <1>5, <2>1 DEF ProcType
<1>7. /\ proc' \in [Server -> ProcType] /\ proc'[e] = r
      /\ \A t \in Server \ {e} : proc'[t] = proc[t]
  BY <1>0, <1>6
<1>8. \A t \in Server : misled[t] \subseteq misled'[t]
  BY <1>0
<1>9. misled' \in [Server -> SUBSET Idents]
  <2>1. misled[e] \cup {l.dialed} \subseteq Idents
    BY <1>0, <1>1
  <2> QED BY <1>0, <2>1
<1>10. /\ met' \in [Server -> SUBSET Server]
       /\ met'[e] = {t \in met[e] : t = o \/ Ident(t) # Ident(o)}
       /\ \A t \in Server \ {e} : met'[t] = met[t]
       /\ \A t \in Server : met'[t] \subseteq met[t]
  BY <1>0
<1>11. Server' = Server /\ Idents' = Idents /\ DiscoveryTypeOK'
  BY <1>0, <1>3, <1>7, <1>9, <1>10, DiscoveryTypesAfter
<1>12. \A t \in Server : /\ proc'[t].asked = proc[t].asked /\ proc'[t].port = proc[t].port
                         /\ proc'[t].phase = proc[t].phase /\ proc'[t].at = proc[t].at
                         /\ proc'[t].found = proc[t].found /\ proc'[t].dials = proc[t].dials
                         /\ proc'[t].outbound = proc[t].outbound
  BY <1>6, <1>7
<1>13. WhoStays
  BY <1>12 DEF WhoStays
<1>14. \A t \in Server : Listening(t)' <=> Listening(t)
  BY <1>12 DEF Listening
<1>15. PortsAreHeld'
  <2>1. \A t, u \in Server : Listening(t)' /\ Listening(u)' /\ proc'[t].port = proc'[u].port => t = u
    BY <1>12, <1>14 DEF DiscoveryFits, PortsAreHeld
  <2>2. \A t \in Server : \A u \in before'[t] \cup met'[t] : Listening(t)' /\ Listening(u)'
    BY <1>10, <1>14, KnownHaveListened
  <2>3. \A k \in links' : k.from # k.to /\ Listening(k.from)' /\ Listening(k.to)'
    BY <1>2, <1>14, KnownHaveListened
  <2>4. ASSUME NEW t \in Server
        PROVE  /\ Listening(t)' => proc'[t].port # 0
               /\ proc'[t].phase \in {"off", "looking", "binding"} => proc'[t].port = 0
               /\ proc'[t].phase \in {"off", "looking"} => proc'[t].asked = 0
               /\ proc'[t].at # 0 => proc'[t].phase \in {"looking", "starting", "running"}
               /\ ~Listening(t)' => proc'[t].peers = {} /\ proc'[t].outbound = {} /\ proc'[t].dials = {}
    <3>1. t # e => proc'[t].peers = proc[t].peers
      BY <1>7
    <3> QED BY <1>1, <1>12, <1>14, <3>1 DEF DiscoveryFits, PortsAreHeld
  <2> QED BY <1>11, <2>1, <2>2, <2>3, <2>4 DEF PortsAreHeld
<1>16. FoundWhatIsThere'
  <2>1. \A t, u \in Server : SameCluster(t, u)' <=> SameCluster(t, u)
    BY <1>13, NamesStay
  <2>2. \A t \in Server : \A u \in proc[t].found \cup before[t] : u \in Server
    BY KnownHaveListened
  <2> QED BY <1>11, <1>12, <1>14, <2>1, <2>2 DEF DiscoveryFits, FoundWhatIsThere
<1>17. \A k \in links' : CountedFor(k)' = CountedFor(k) /\ HasListened(k.to)
  <2>1. \A k \in links' : k.to \in Server /\ HasListened(k.to)
    BY <1>2, KnownHaveListened
  <2> QED BY <1>13, <2>1, NamesStay
<1>18. CountedFor(heard) = IF e = l.from THEN Ident(o) ELSE CountedFor(l)
  BY <1>2 DEF CountedFor
<1>19. e = l.from /\ Ident(o) # CountedFor(l) => CountedFor(l) \in misled'[e]
  <2>1. e = l.from => CountedFor(l) = l.dialed
    BY DEF CountedFor
  <2> QED BY <1>0, <2>1
<1>20. FlagsHaveReasons'
  <2>1. ASSUME NEW t \in Server, NEW id \in proc[t].outbound
        PROVE  id \in misled'[t] \/ \E k \in links' : k.from = t /\ CountedFor(k)' = id
    <3>1. id \in misled[t] \/ \E k \in links : k.from = t /\ CountedFor(k) = id
      BY DEF DiscoveryFits, FlagsHaveReasons
    <3>2. ASSUME NEW k \in links, k.from = t, CountedFor(k) = id, k # l
          PROVE  k \in links' /\ CountedFor(k)' = id
      BY <1>17, <3>2
    <3>3. ASSUME l.from = t, CountedFor(l) = id
          PROVE  id \in misled'[t] \/ CountedFor(heard) = id
      BY <1>18, <1>19, <3>3
    <3>4. heard \in links' /\ heard.from = l.from /\ CountedFor(heard)' = CountedFor(heard)
      BY <1>2, <1>17
    <3>5. CASE id \in misled[t]
      BY <1>8, <3>5
    <3>6. CASE \E k \in links : k # l /\ k.from = t /\ CountedFor(k) = id
      BY <3>2, <3>6
    <3>7. CASE l.from = t /\ CountedFor(l) = id
      BY <3>3, <3>4, <3>7
    <3> QED BY <3>1, <3>5, <3>6, <3>7
  <2>2. \A t \in Server : \A d \in proc[t].dials :
           /\ d.id \notin proc[t].outbound /\ d.port # proc[t].port
           /\ \A f \in proc[t].dials : f.id = d.id => f = d
    BY DEF DiscoveryFits, FlagsHaveReasons
  <2>3. \A t \in Server : \A d \in proc'[t].dials :
           /\ d.id \notin proc'[t].outbound /\ d.port # proc'[t].port
           /\ \A f \in proc'[t].dials : f.id = d.id => f = d
    BY <1>12, <2>2
  <2>4. \A t \in Server : \A id \in proc'[t].outbound :
           id \in misled'[t] \/ \E k \in links' : k.from = t /\ CountedFor(k)' = id
    <3>1. \A t \in Server : proc'[t].outbound = proc[t].outbound
      BY <1>12
    <3>2. \A t \in Server : \A id \in proc[t].outbound :
             id \in misled'[t] \/ \E k \in links' : k.from = t /\ CountedFor(k)' = id
      BY <2>1
    <3> QED BY <3>1, <3>2
  <2> QED BY <1>11, <2>3, <2>4 DEF FlagsHaveReasons
<1>21. RoundsMeetEverybody' /\ MetAtTheirAddress'
  <2>1. \A t, u \in Server : Linked(t, u) => Linked(t, u)'
    BY <1>2 DEF Linked
  <2>2. ASSUME NEW t \in Server, NEW u \in met'[t]
        PROVE  /\ u \in Server /\ HasListened(t) /\ HasListened(u)
               /\ Compatible(t, u) /\ proc[u].port <= Probed =>
                     /\ Peer(u) \in proc'[t].peers
                     /\ Linked(t, u)' \/ Ident(u) \in misled'[t] \/ Peer(u) \in proc'[t].dials
                     /\ \A d \in proc'[t].dials : d.id = Ident(u) => d = Peer(u)
                     /\ \A k \in links' : k.from = t /\ CountedFor(k) = Ident(u) => k.to = u
    <3>1. u \in met[t] /\ u \in Server /\ HasListened(t) /\ HasListened(u)
      BY <1>10, KnownHaveListened
    <3> SUFFICES ASSUME Compatible(t, u), proc[u].port <= Probed
                 PROVE  /\ Peer(u) \in proc'[t].peers
                        /\ Linked(t, u)' \/ Ident(u) \in misled'[t] \/ Peer(u) \in proc'[t].dials
                        /\ \A d \in proc'[t].dials : d.id = Ident(u) => d = Peer(u)
                        /\ \A k \in links' : k.from = t /\ CountedFor(k) = Ident(u) => k.to = u
      BY <3>1
    <3>2. /\ Peer(u) \in proc[t].peers
          /\ Linked(t, u) \/ Ident(u) \in misled[t] \/ Peer(u) \in proc[t].dials
          /\ \A d \in proc[t].dials : d.id = Ident(u) => d = Peer(u)
          /\ \A k \in links : k.from = t /\ CountedFor(k) = Ident(u) => k.to = u
      BY <3>1 DEF DiscoveryFits, RoundsMeetEverybody, MetAtTheirAddress, HasElsewhere
    <3>3. Peer(u) \in proc'[t].peers
      <4>1. CASE t # e
        BY <1>7, <3>2, <4>1
      <4>2. CASE t = e
        <5>1. u = o \/ Ident(u) # Ident(o)
          BY <1>10, <4>2
        <5> QED BY <1>4, <1>6, <1>7, <3>2, <4>2, <5>1 DEF Peer
      <4> QED BY <4>1, <4>2
    <3>4. heard.from = t /\ CountedFor(heard) = Ident(u) => heard.to = u
      <4>1. CASE t # e
        BY <1>2, <1>18, <3>2, <4>1
      <4>2. CASE t = e
        <5>1. u = o \/ Ident(u) # Ident(o)
          BY <1>10, <4>2
        <5>2. heard.from = t => CountedFor(heard) = Ident(o) /\ heard.to = o
          BY <1>2, <1>18, <4>2
        <5> QED BY <5>1, <5>2
      <4> QED BY <4>1, <4>2
    <3>5. \A k \in links' : k.from = t /\ CountedFor(k) = Ident(u) => k.to = u
      BY <3>2, <3>4
    <3>6. Linked(t, u)' \/ Ident(u) \in misled'[t] \/ Peer(u) \in proc'[t].dials
      <4>1. misled[t] \subseteq misled'[t] /\ proc'[t].dials = proc[t].dials
        BY <1>8, <1>12
      <4>2. Linked(t, u) => Linked(t, u)'
        BY <2>1, <3>1
      <4> QED BY <3>2, <4>1, <4>2
    <3>7. \A d \in proc'[t].dials : d.id = Ident(u) => d = Peer(u)
      BY <1>12, <3>2
    <3> QED BY <3>3, <3>5, <3>6, <3>7
  <2> QED BY <1>3, <1>13, <1>17, <2>2, RoundsStay
<1>22. PeersAreMembers'
  <2>1. FellowOf(e, o)
    BY <1>1 DEF FellowOf, Refuses
  <2>2. \A t \in Server : \A p \in proc'[t].peers :
           p \in proc[t].peers \/ (HasListened(t) /\ \E u \in Server : p = Peer(u) /\ FellowOf(t, u))
    BY <1>1, <1>4, <1>6, <1>7, <2>1
  <2> QED BY <1>13, <2>2, PeersStay
<1>23. OthersDoNotDisturb'
  <2>1. ASSUME NEW t \in Server, proc'[t].phase = "failed", HasListened(t)'
        PROVE  HasListened(t) /\ proc[t].phase = "failed"
    BY <1>12, <2>1 DEF HasListened
  <2> QED BY <1>13, <2>1, OthersStay
<1> QED BY <1>11, <1>15, <1>16, <1>20, <1>21, <1>22, <1>23 DEF DiscoveryFits

(* A hello, whatever becomes of it.                                         *)
LEMMA HearHelloKeeps ==
    ASSUME DiscoveryFits, NEW l \in links, NEW e \in {l.from, l.to}, HearHello(l, e)
    PROVE  DiscoveryFits'
<1>1. PICK o : o = CHOOSE x \in {l.from, l.to} : x # e
  OBVIOUS
<1>2. l.from # l.to /\ l.from \in Server /\ l.to \in Server
  BY KnownHaveListened
<1>3. \E x \in {l.from, l.to} : x # e
  BY <1>2
<1>4. o \in {l.from, l.to} /\ o # e
  BY <1>1, <1>3
<1>5. e \in Server /\ o \in Server /\ {l.from, l.to} = {e, o}
  BY <1>2, <1>4
<1>6. CASE Refuses(e, o)
  <2>1. PICK s : s = l.from
    OBVIOUS
  <2>2. PICK r : r = [proc[s] EXCEPT !.outbound = OutboundWithout(s, {l})]
    OBVIOUS
  <2>3. /\ links' = links \ {l}
        /\ proc' = [proc EXCEPT ![l.from].outbound = OutboundWithout(l.from, {l})]
        /\ UNCHANGED <<options, before, met, misled>>
    BY <1>1, <1>6 DEF HearHello
  <2>4. proc' = [proc EXCEPT ![s] = r]
    BY <2>1, <2>2, <2>3
  <2> QED BY <1>5, <1>6, <2>1, <2>2, <2>3, <2>4, RefusedKeeps
<1>7. CASE ~Refuses(e, o)
  BY <1>1, <1>4, <1>5, <1>7, LetInKeeps
<1> QED BY <1>6, <1>7


(* A probe, answered or not.                                                *)
LEMMA ProbeStepKeeps ==
    ASSUME DiscoveryFits, NEW s \in Server, Probe(s)
    PROVE  DiscoveryFits'
<1>1. /\ DiscoveryTypeOK /\ proc[s].at \in 1 .. LastProbe(s)
      /\ proc[s].phase \in {"looking", "starting", "running"}
  <2>1. DiscoveryTypeOK /\ proc[s].at \in 1 .. LastProbe(s) /\ proc[s].at # 0
    BY DEF DiscoveryFits, Probe
  <2> QED BY <2>1 DEF DiscoveryFits, PortsAreHeld
<1>2. CASE \E t \in Listener(ProbedPort(s)) : Throws(s, t)
  <2>1. Fails(s)
    BY <1>2 DEF Probe
  <2>2. HasListened(s) => Disturbed(s)
    BY <1>1, <1>2, ThrowsDisturb
  <2> QED BY <2>1, <2>2, FailsKeeps
<1>3. CASE ~\E t \in Listener(ProbedPort(s)) : Throws(s, t)
  <2>1. /\ proc' = [proc EXCEPT ![s].at = @ + 1, ![s].found = @ \cup Answers(s)]
        /\ UNCHANGED <<options, links, before, met, misled>>
    BY <1>3 DEF Probe
  <2> QED BY <1>1, <2>1, ProbeKeeps
<1> QED BY <1>2, <1>3

(* A server gets its port, or finds it taken.                               *)
LEMMA BindStepKeeps ==
    ASSUME DiscoveryFits, NEW s \in Server, Bind(s)
    PROVE  DiscoveryFits'
<1>1. proc[s].phase = "binding" /\ ~HasListened(s)
  BY DEF Bind, DiscoveryFits, PortsAreHeld, HasListened
<1>2. CASE proc[s].asked # 0 /\ Listener(proc[s].asked) # {}
  <2>1. Fails(s)
    BY <1>2 DEF Bind
  <2> QED BY <1>1, <2>1, FailsKeeps
<1>3. CASE proc[s].asked = 0 \/ Listener(proc[s].asked) = {}
  <2>1. PICK p \in IF proc[s].asked = 0 THEN {q \in 1..Ports : Listener(q) = {}} ELSE {proc[s].asked} :
               RoundBegins(s, IF Clustered(s) THEN "starting" ELSE "running", p)
    BY <1>3 DEF Bind
  <2> QED BY <1>1, <1>3, <2>1, BindKeeps
<1> QED BY <1>2, <1>3


(* The end of a round, good or bad.                                         *)
LEMMA RoundStepKeeps ==
    ASSUME DiscoveryFits, NEW s \in Server, RoundEnds(s)
    PROVE  DiscoveryFits'
<1>1. Listening(s)
  BY DEF RoundEnds
<1>2. CASE Conflict(s)
  <2>1. Fails(s)
    BY <1>2 DEF RoundEnds
  <2> QED BY <1>1, <1>2, <2>1, ConflictDisturbs, FailsKeeps
<1>3. CASE /\ proc[s].phase = "starting" /\ options[s].mode = "proxy-required"
           /\ Upsert(proc[s].peers, Joining(s)) = {}
  <2>1. Fails(s)
    BY <1>3 DEF RoundEnds
  <2>2. Disturbed(s)
    BY <1>3 DEF Disturbed
  <2> QED BY <2>1, <2>2, FailsKeeps
<1> QED BY <1>2, <1>3, RoundEndsKeeps

(* Before anything is started nobody knows anything.                        *)
LEMMA DiscoveryInitFits ==
    ASSUME DiscoveryInit
    PROVE  DiscoveryFits
<1>1. /\ options \in Deployments /\ links = {} /\ Probed \in Nat
      /\ proc = [s \in Server |-> Off] /\ before = [s \in Server |-> {}]
      /\ met = [s \in Server |-> {}] /\ misled = [s \in Server |-> {}]
  BY DiscoveryConstants DEF DiscoveryInit
<1>2. Off \in ProcType
  BY <1>1 DEF Off, ProcType, Phase
<1>3. DiscoveryTypeOK
  BY <1>1, <1>2, DiscoveryTypes
<1>4. \A s \in Server : /\ proc[s] = Off /\ before[s] = {} /\ met[s] = {} /\ misled[s] = {}
                        /\ ~Listening(s)
  BY <1>1 DEF Listening, Off
<1>5. PortsAreHeld /\ FoundWhatIsThere /\ FlagsHaveReasons
  BY <1>1, <1>4 DEF PortsAreHeld, FoundWhatIsThere, FlagsHaveReasons, Off
<1>6. MetAtTheirAddress /\ RoundsMeetEverybody /\ PeersAreMembers /\ OthersDoNotDisturb
  BY <1>4 DEF MetAtTheirAddress, RoundsMeetEverybody, PeersAreMembers, OthersDoNotDisturb, Off
<1> QED BY <1>3, <1>5, <1>6 DEF DiscoveryFits

(* Every step keeps it.                                                     *)
LEMMA DiscoveryNextKeeps ==
    ASSUME DiscoveryFits, DiscoveryNext
    PROVE  DiscoveryFits'
<1>1. ASSUME NEW s \in Server,
             \/ Start(s) \/ ChoosePort(s) \/ Bind(s) \/ Stop(s)
             \/ Probe(s) \/ RoundEnds(s) \/ DiscoveryTimer(s)
      PROVE  DiscoveryFits'
  BY <1>1, StartKeeps, ChoosePortKeeps, BindStepKeeps, StopKeeps, ProbeStepKeeps, RoundStepKeeps,
     DiscoveryTimerKeeps
<1>2. ASSUME NEW s \in Server, NEW d \in proc[s].dials, DialEnds(s, d)
      PROVE  DiscoveryFits'
  BY <1>2, DialEndsKeeps
<1>3. ASSUME NEW l \in links, NEW e \in {l.from, l.to}, HearHello(l, e)
      PROVE  DiscoveryFits'
  BY <1>3, HearHelloKeeps
<1> QED BY <1>1, <1>2, <1>3 DEF DiscoveryNext

(* A step that changes nothing keeps it.                                    *)
LEMMA DiscoveryStutters ==
    ASSUME DiscoveryFits, UNCHANGED discoveryVars
    PROVE  DiscoveryFits'
<1>1. /\ options' = options /\ proc' = proc /\ links' = links /\ before' = before
      /\ met' = met /\ misled' = misled /\ WhoStays
  BY DEF discoveryVars, WhoStays
<1>2. DiscoveryTypeOK' /\ PortsAreHeld' /\ FoundWhatIsThere'
  BY <1>1 DEF DiscoveryFits, DiscoveryTypeOK, Idents, Address, Server, PortsAreHeld,
         FoundWhatIsThere, Listening, SameCluster
<1>3. Server' = Server /\ links \subseteq LinkType
  BY <1>1, DiscoveryTypesAfter, DiscoveryTypes DEF DiscoveryFits
<1>4. \A l \in links : CountedFor(l)' = CountedFor(l) /\ HasListened(l.to)
  BY <1>1, NamesStay, KnownHaveListened
<1>5. FlagsHaveReasons'
  BY <1>1, <1>3, <1>4 DEF DiscoveryFits, FlagsHaveReasons
<1>6. RoundsMeetEverybody' /\ MetAtTheirAddress'
  <2>1. ASSUME NEW s \in Server, NEW t \in met'[s]
        PROVE  /\ t \in Server /\ HasListened(s) /\ HasListened(t)
               /\ Compatible(s, t) /\ proc[t].port <= Probed =>
                     /\ Peer(t) \in proc'[s].peers
                     /\ Linked(s, t)' \/ Ident(t) \in misled'[s] \/ Peer(t) \in proc'[s].dials
                     /\ \A d \in proc'[s].dials : d.id = Ident(t) => d = Peer(t)
                     /\ \A l \in links' : l.from = s /\ CountedFor(l) = Ident(t) => l.to = t
    <3>1. t \in met[s] /\ t \in Server /\ HasListened(s) /\ HasListened(t)
      BY <1>1, KnownHaveListened
    <3>2. Linked(s, t)' <=> Linked(s, t)
      BY <1>1 DEF Linked
    <3> QED BY <1>1, <3>1, <3>2 DEF DiscoveryFits, RoundsMeetEverybody, MetAtTheirAddress, HasElsewhere
  <2> QED BY <1>1, <1>3, <1>4, <2>1, RoundsStay
<1>7. PeersAreMembers'
  BY <1>1, PeersStay
<1>8. OthersDoNotDisturb'
  <2>1. \A s \in Server : proc'[s].phase = "failed" /\ HasListened(s)' =>
           HasListened(s) /\ proc[s].phase = "failed"
    BY <1>1 DEF HasListened
  <2> QED BY <1>1, <2>1, OthersStay
<1> QED BY <1>2, <1>5, <1>6, <1>7, <1>8 DEF DiscoveryFits

(* The ids of the servers are finitely many.                                *)
LEMMA FewIdents ==
    ASSUME DiscoveryTypeOK
    PROVE  IsFiniteSet({Ident(s) : s \in Server})
<1>1. PICK named : named = [s \in Server |-> Ident(s)]
  OBVIOUS
<1>2. IsFiniteSet(Server)
  BY DiscoveryConstants DEF DiscoveryTypeOK, Server
<1>3. named \in Surjection(Server, {Ident(s) : s \in Server})
  BY <1>1 DEF Surjection
<1> QED BY <1>2, <1>3, FS_Surjection

(* At rest a server reaches every other that it can be one cluster with and *)
(* that has met it, or has been met.                                        *)
LEMMA RunningReach ==
    ASSUME DiscoveryFits, AtRest, NEW s \in Running, NEW t \in Running, s # t,
           Compatible(s, t), Compatible(t, s), Probes(s, t) \/ Probes(t, s)
    PROVE  t \in Reached(s)
<1>1. s \in Server /\ t \in Server
  BY DEF Running
<1>2. ASSUME NEW u \in Running, NEW v \in Running, Compatible(u, v), Probes(u, v)
      PROVE  Linked(u, v)
  <2>1. u \in Server /\ v \in met[u] /\ proc[u].dials = {}
    BY DEF AtRest, Running
  <2>2. proc[v].port <= Probed /\ Ident(v) \notin misled[u]
    BY <1>2 DEF Probes
  <2> QED BY <1>2, <2>1, <2>2 DEF DiscoveryFits, RoundsMeetEverybody
<1>3. Linked(s, t)
  <2>1. Linked(s, t) \/ Linked(t, s)
    BY <1>2
  <2> QED BY <2>1 DEF Linked
<1>4. PICK l \in links : {l.from, l.to} = {s, t}
  BY <1>3 DEF Linked
<1>5. s \in l.heard
  BY <1>4 DEF AtRest
<1> QED BY <1>1, <1>4, <1>5 DEF Reached

(* A majority is more than half.                                            *)
LEMMA MoreThanHalf ==
    ASSUME NEW n \in Nat, NEW m \in Nat, NEW k \in Nat, 2 * n > m, k >= n
    PROVE  k > m \div 2
<1>1. 2 * (m \div 2) <= m /\ m \div 2 \in Nat
  OBVIOUS
<1> QED BY <1>1

(* Those that run, and have all probed one another, can elect a primary.    *)
LEMMA ProbedFailOver ==
    ASSUME DiscoveryFits
    PROVE  ProbedCanFailOver
<1> DEFINE Known == UNION {Members(t) : t \in Running}
<1> SUFFICES ASSUME \A s, t \in Running : s # t => Probes(s, t) \/ Probes(t, s),
                    AtRest, \A s, t \in Running : s # t => Compatible(s, t),
                    \A s \in Running : 2 * Cardinality(Running) > Cardinality(Known),
                    NEW s \in Running
             PROVE  HasQuorum(s)
  BY DEF ProbedCanFailOver, FailoverPossible
<1>1. DiscoveryTypeOK /\ s \in Server /\ IsFiniteSet(Server) /\ Running \subseteq Server
  <2>1. DiscoveryTypeOK /\ s \in Server /\ Running \subseteq Server
    BY DEF DiscoveryFits, Running
  <2> QED BY <2>1, ProcOf
<1>2. Running \subseteq {s} \cup Reached(s)
  BY RunningReach
<1>3. {s} \cup Reached(s) \subseteq Server
  BY <1>1 DEF Reached
<1>4. /\ Cardinality({s} \cup Reached(s)) \in Nat /\ Cardinality(Running) \in Nat
      /\ Cardinality({s} \cup Reached(s)) >= Cardinality(Running)
  <2>1. IsFiniteSet({s} \cup Reached(s)) /\ IsFiniteSet(Running)
    BY <1>1, <1>3, FS_Subset
  <2>2. Cardinality({s} \cup Reached(s)) >= Cardinality(Running)
    BY <1>2, <2>1, FS_Subset
  <2> QED BY <2>1, <2>2, FS_CardinalityType
<1>5. \A t \in Running : Membership(t) = Membership(s)
  BY DEF Compatible
<1>6. Members(s) \subseteq Known /\ IsFiniteSet(Known)
  <2>1. Members(s) \subseteq Known
    OBVIOUS
  <2>2. CASE Membership(s) = {}
    <3>1. ASSUME NEW t \in Running
          PROVE  Members(t) \subseteq {Ident(u) : u \in Server}
      <4>1. t \in Server /\ Members(t) = {Ident(t)} \cup Ids(proc[t].peers)
        BY <1>1, <1>5, <2>2 DEF Members
      <4>2. \A p \in proc[t].peers : \E u \in Server : p.id = Ident(u)
        BY <4>1 DEF DiscoveryFits, PeersAreMembers, Peer
      <4> QED BY <4>1, <4>2 DEF Ids
    <3>2. Known \subseteq {Ident(u) : u \in Server}
      BY <3>1
    <3> QED BY <1>1, <2>1, <3>2, FewIdents, FS_Subset
  <2>3. CASE Membership(s) # {}
    <3>1. \A t \in Running : Members(t) = Membership(s)
      BY <1>5, <2>3 DEF Members
    <3>2. Known = Membership(s)
      BY <3>1
    <3>3. Membership(s) = options[s].members \cup {Ident(s)}
      BY <2>3 DEF Membership
    <3>4. IsFiniteSet(options[s].members)
      BY <1>1, ProcOf
    <3> QED BY <2>1, <3>2, <3>3, <3>4, FS_AddElement
  <2> QED BY <2>2, <2>3
<1>7. /\ Cardinality(Members(s)) \in Nat /\ Cardinality(Known) \in Nat
      /\ Cardinality(Members(s)) <= Cardinality(Known)
  <2>1. IsFiniteSet(Members(s)) /\ Cardinality(Members(s)) <= Cardinality(Known)
    BY <1>6, FS_Subset
  <2> QED BY <1>6, <2>1, FS_CardinalityType
<1>8. 2 * Cardinality(Running) > Cardinality(Known)
  OBVIOUS
<1> HIDE DEF Known
<1>9. 2 * Cardinality(Running) > Cardinality(Members(s))
  BY <1>4, <1>7, <1>8
<1> QED BY <1>4, <1>7, <1>9, MoreThanHalf DEF HasQuorum

(* What servers find of each other, for every set of servers that may be    *)
(* started together.                                                        *)
THEOREM ServersMeet == DiscoverySpec => []DiscoveryInvariant
<1>1. DiscoveryInit => DiscoveryFits
  BY DiscoveryInitFits
<1>2. DiscoveryFits /\ [DiscoveryNext]_discoveryVars => DiscoveryFits'
  BY DiscoveryNextKeeps, DiscoveryStutters
<1>3. DiscoveryFits => DiscoveryInvariant
  BY ProbedFailOver DEF DiscoveryFits, DiscoveryInvariant
<1> QED BY <1>1, <1>2, <1>3, PTL DEF DiscoverySpec
=============================================================================
