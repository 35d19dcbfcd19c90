# Formal model of the Model Drive Protocol servers, clients and applications

This directory holds TLA+ modules that model the parts of Model Drive Protocol
(MDP) whose behaviour depends on the order of events, the TLC configurations
that check them on small instances, and machine-checked proofs about them. The
source paths below are relative to the repository; `server/` and `client/` stand
for `packages/server/src/` and `packages/client/src/`.

## The system and its parts

MDP connects *clients* (browser pages, extensions, processes) that expose paths
to *hosts* that call them through an MCP bridge. A client registers with an MDP
*server* over a websocket or an HTTP long-poll loop, describes its paths, and
answers the invocations the server routes to it. Several servers form a
*cluster*: they elect a primary, secondaries mirror their clients to it, and
hosts ask the primary.

| Part | State it keeps | Operations | Talks to | What makes it correct |
|---|---|---|---|---|
| Cluster manager (`server/cluster-manager.ts`) | term, role, leader, vote, lease, votes, two timers, peers with links and last-seen times, member ids, pending RPCs | election and heartbeat timers, eight message handlers, discovery results, link open/close, start, close, RPC to the leader | other managers over websockets; discovery over HTTP; the CLI through `onStateChange` | one primary per term, nobody follows a server that never won, votes are final, a primary without quorum gives up, somebody always notices that there is no primary |
| Server runtime (`server/mdp-server.ts`, `client-session.ts`) | sessions by connection and by client id, descriptor and state of each session | attach, register, update catalog, unregister, result, ping, heartbeat timer, disconnect, close | transports, invocation router, CLI (mirror, state store) | a client id resolves to the session that registered it last; nothing of a replaced session survives |
| Invocation router (`server/invocation-router.ts`) | pending calls with their timers | invoke, resolve, timeout, reject of a client or of all | runtime, sessions | every call settles exactly once, and no call waits for a client that is gone |
| Upstream proxy and CLI reconciliation (`server/upstream-proxy.ts`, `cli.ts`) | mirrored clients with an operation queue each, the current proxy, the reconcile queue | sync, remove, routed call, leader change | runtime (listener), cluster manager (state), primary (websocket) | what a secondary serves is what the primary sees |
| MCP bridge (`server/bridge-requests.ts`, `cli.ts`, the RPCs of `cluster-manager.ts`) | pending RPCs with their timers, control links | callPath, callPaths, forwarding to the leader | runtime, cluster manager, other servers | a call is answered once, with what ran |
| HTTP loop (`server/transport-server.ts`, `client/transport/http-loop-client.ts`) | per session a queue, a parked poll, an expiry timer; the client's send queue, flush and poll loop | connect, send, poll, disconnect, expiry | runtime; `fetch` | no message is lost or reordered, a session ends once |
| Client runtime (`client/`) | connection flags, reconnect controller, websocket, procedure registry | connect, register, disconnect, retry, expose, sync, invoke | transports | a client that should be connected reconnects, one that should not does not |
| Capability index (`server/capability-index.ts`), path rules (`packages/protocol/src/path-utils.ts` and one copy per SDK) | none (computed from the sessions) | list, match, resolve a path | runtime, bridge, registries | the most specific path wins; server, client and listings agree |
| State store (`server/state-store.ts`) | write chain, snapshot files | write, close | runtime events, `cli.ts` | the files come to show the state of the server |
| SDKs in Go, Python, Rust, C#, Java (`sdks/`) | connection flags, transport session, reader task, registry | connect, register, disconnect, read, handle | server | the flags say what the sessions are; no reader outlives its session |
| Chrome extension (`apps/chrome-extension/src/background`, `page`) | configuration, one client per enabled entry, what was injected where, recordings and captures, telemetry | refresh, edit, save, inject, record, capture, clear | browser storage, pages, client runtime | the worker runs what is stored and remembers what is so |
| VS Code extension (`apps/vscode-extension/src`) | task queue, client, reconnect timer, status | connect, disconnect, apply settings, closing of a transport | client runtime, editor | one connection, and a status that is true |
| Discovery (`server/upstream-discovery.ts`, `cli-options/resolve.ts`, the connections of `cluster-manager.ts`) | what a round has found, peers and their addresses, open dials, control links | choose a port, probe, dial, hello | other servers over HTTP and websockets | servers that could be one cluster get connected, others leave each other alone |
| CLI parsing, setup, docs, market, sample clients, user interface | none that other parts rely on | parsing, generating, rendering | | not modelled, see the end |

The behaviour that is hard here: servers that campaign at the same time over
links that break and come back; messages of an old term; timers that fire into
a changed state; `await` between a look-up and its use; a client that comes back
under the id of a connection that is not gone yet; invocations whose answer,
timeout and disconnection race; a leader change during an upstream sync or under
a forwarded call; polls and sends that cross; readers of an old session that end
into a new one; documents that are replaced while they are injected into.

## The modules

| Module | Models | Abstract specification | Theorems |
|---|---|---|---|
| `ClusterElection` | the cluster manager | `TermLeadership` | the invariant, election safety, timers, votes, the refinement |
| `ServerRuntime` | runtime, sessions and router | `InvocationPromise` | the invariant, the registry, settling once, the refinement |
| `UpstreamMirror` | proxy and reconcile queue against a primary | the primary's copy equals the secondary's clients at rest | the invariant, what holds at rest, no reconcile is stuck |
| `BridgeCalls` | calls of the bridge and the cluster's RPCs | | the invariant, one answer |
| `HttpLoop` | long-poll loop, both ends | `FifoLink` | the invariant, the refinement, closing |
| `ClientConnection` | `MdpClient`, reconnect controller, websocket transport | | the invariant |
| `PathRules`, `CatalogSync` | path rules and registries in six languages, catalogs, index, resolution | a reference matcher and order in `CatalogSync` | `MeaningIsKept` |
| `StateStore` | write chain and the life of the process | | the invariant, the order of the files |
| `SdkSession` with `GoClient`, `PythonClient`, `RustClient`, `DotnetClient`, `JavaClient` | clients in the other languages | | `SessionsAreKnown` |
| `WireFormat`, `WireExchange` | the messages of six SDKs, the guards, and an exchange of them | | `MeaningIsKept`, `MessagesKeepMeaning` |
| `ExtensionRuntime` | background worker and options page | | the invariant |
| `PageInjection`, `PageSessions`, `InvocationTelemetry` | what the worker remembers of pages, recordings and invocations | | `PagesAreRemembered`, `CommandsAreHeard` |
| `EditorController` | the controller of the VS Code extension | | the invariant |
| `ServerDiscovery` | start, probes, dials and hellos of the servers of a host | | the invariant |

`MCClusterElection` (with `MCFormedElection` and `MCOrderedElection`),
`MCServerRuntime`, `MCUpstreamMirror`, `MCServerDiscovery` and `MCWireExchange` instantiate
one module each. `MCServers`, `MCClients`, `MCServices` and `MCBookkeeping` put
modules side by side that have no state in common and answer one kind of question
(what if it is told late, does it connect again, does a service follow the runtime,
is what is remembered so). There a variable `part` says whose behaviour it is. The
variables of the other parts stay as they are, in a state that fairness asks
nothing of, so that every part has its fair behaviours and none is vacuous.

The proofs about a module `M` are in `M_proofs`, but for three modules that hold those of
several components each: `Clients_proofs` (`ClientConnection`, `ExtensionRuntime`,
`EditorController`), `Services_proofs` (`StateStore`, `BridgeCalls`) and `Bookkeeping_proofs`
(catalogs, messages, the clients in other languages and what the extension remembers). The
last section says what is not proved.

## Cluster election

`ClusterElection.tla` follows `MdpClusterManager`. A manager is a record with
the fields of the object; private methods (`stepDown`, `observeLeader`,
`becomeLeader`, ...) are operators on that record, so a handler is the same
composition of calls as in the code, and one action is one turn of the event
loop:

| Actions | Code |
|---|---|
| `StartElection`, `HeartbeatTick` | the election timeout, the heartbeat interval |
| `ReceiveHello` ... `ReceiveRpcResponse` | the cases of `handleClusterMessage`, after `upsertPeerFromMessage` (`Heard`) |
| `Connect`, `Disconnect` | a socket of the pair opens or closes at both ends |
| `Probe`, `ApplyProbe` | `refreshPeers` before and after its `await` |
| `BeginRpc`, `SendRpc` | `requestLeaderRpc` before and after its `await` |
| `PeerTurnsStale`, `LeaseExpires` | the passing of `leaseDurationMs` for a peer, for the leader |
| `Start`, `Close`, `CloseLinks`, `Crash` | the life of a server |

Abstractions: time is what the code compares (expired or not), an armed timer
may fire at any moment; the sockets of a pair of servers are one link whose
messages may overtake one another (two sockets do not order theirs); a closed
link loses what it carried, and both ends notice at once. Peers that are
refused (another cluster, another membership, a duplicate id) and addresses are
in `ServerDiscovery`; logging and state-change notifications are left out; of an RPC this module keeps what can
disturb an election, the term it carries; the pending ones are in `BridgeCalls`.
A server is not restarted under its old id: term and vote are not persisted, so
a restarted server could vote twice, and nothing in the repository promises
otherwise.

`TermLeadership.tla` is the abstract promise: a term has at most one leader at
any moment, and who stopped leading in a term never leads in it again. It is
deliberately weaker than Raft's "one leader per term, ever", which the code does
not keep: `relinquishLeadership` clears `votedFor` without a new term, so the
ex-leader may vote for a candidate of the term it led, and a second server is
elected in it. The two never lead at the same time.

### What is checked

| Run | Question | Bounds |
|---|---|---|
| `election_formed` | votes and heartbeats of two terms in any order: is there one leader per term, are votes final, is the abstract promise kept, has whoever needs one a timer? | 3 servers, 2 terms; nobody fails: 4 messages in flight; or links of one server break and come back and it may fall silent: 2 messages |
| `election_dynamic` | two servers that find each other, from construction to close or crash, with breaking links, late probe answers and RPCs; under `WF(HeartbeatTick)`, a leader without quorum gives up | 2 servers, 2 terms, 2 messages in flight |
| `stuck_cluster` | the disagreement below | 3 servers, ordered links |

Three servers are the smallest cluster in which a majority excludes somebody,
two terms the smallest number in which a leader is outvoted by one of a later
term. `FewInFlight` stops the search at states with more messages than the
bound; a broadcast to two peers fits in it, and with 4 its answers too. A
behaviour of `election_formed` is either `calm`, with the larger bound, or has
faults, with the smaller one. The three-server runs start from the state in which
all servers have started, are joined and have handled every hello (`FormedInit`);
the two-server run starts from nothing, with dynamic membership: each server is
its own cluster until it hears of the other.
Deadlock is not checked: all servers may be down, or the last term used up.

Fairness: the only liveness property needs `WF(HeartbeatTick)`, that is, that a
`setInterval` of a live process keeps firing. That some server is eventually
elected is not claimed: it rests on randomised timeouts.

Properties: `OneLeaderPerTerm`; `FollowsElected` (no message, however old, makes
a server follow one that was not elected in the follower's term);
`TimersArmed` (whoever campaigns or trusts a leader has an election timer, a
leader a heartbeat timer); `VotesAreFinal`; `ClosedNeverCampaigns`;
`ImplementsTermLeadership`; `LostQuorumStepsDown`.

### Where the code departs from its documentation

* `stuck_cluster`: `stepDown` stops no election timer but arms none either. A
  leader has none, so a leader deposed by a hello (or a vote response, a
  resignation, an RPC) of a higher term has none afterwards. Two such servers
  whose deposer has died are a quorum that never elects anybody.

The run uses `MCOrderedElection`, in which a pair of servers has one socket
that delivers in order.

The model has another weakness of the code, for which no run is kept.
`handleClusterMessage` renews the lease after every heartbeat
(`cluster-manager.ts:596`), even one that `observeLeader` has just ignored
because its term is over. An outvoted leader that still reaches a follower keeps
that follower's lease on the *new* leader running, so it would not notice the new
leader's death. Its own step-down does not come either: the acknowledgement
carries the higher term, and `clusterHeartbeatAck` does not look at it.

### What is proved

`ClusterElection_proofs.tla` proves, for every set of servers, every bound and
every combination of faults:

* `ElectionIsInvariant`: `ElectionInvariant` is an invariant of `Spec`;
* `TypeCorrect` and `FollowersFollowElected`, parts of it;
* `ElectionSafety`: with a static membership, `OneLeaderPerTerm`.

The argument: `Backs(v, c, t)` says that v's vote for c in t is counted or on its
way. A vote for *another* server is what the voter remembers until its next term
(`BackersRemember`), so a server backs at most one other server per term
(`BacksOneOther`). It may in addition have backed itself, as a leader that
relinquished and then voted again; but whoever is candidate or leader remembers
its own vote (`KnowsItself`), so a server that backs another no longer leads in
that term. Two quorums meet in a server (`QuorumsMeet`), and either it backs
both leaders and is neither, which `BacksOneOther` excludes, or it is one of
them and backs the other, which it cannot. `ClaimsAreTrue` and
`ElectedNeverCampaignAgain` are needed to show that a refused vote that names
the candidate itself as leader never arrives (it would promote it).

Proof structure: nearly every action is a `Step` of one manager. `Lawful` says
what such a step may do, `StepPreserves` that a lawful step preserves the
invariant, and one lemma per action that the action is lawful.
`ElectionInvariant` itself is checked by TLC in `election_formed`.

The same lemmas, with those about timers and phases (`Ticks`), prove

* `TimersStayArmed`: `TimersArmed` is an invariant (it is inductive next to
  `ElectionInvariant`);
* `VotesStayFinal`, `ClosedStaysQuiet`: the action properties `VotesAreFinal` and
  `ClosedNeverCampaigns`;
* `ElectionImplementsTermLeadership`: with a static membership the manager implements
  `TermLeadership`. A lawful step makes its server a leader, ends its leadership or
  does neither (`MoveLeads`); the first is an election only if nobody leads the term,
  which is `OneLeaderPerTerm` after the step, and only if the server has not resigned
  from it, since who was elected in a term is no candidate of it again.

Assumptions: the set of servers is finite and not empty, `None` is no server.
Only model-checked: the liveness property.

## What servers find of each other

`ServerDiscovery.tla` is the way of a server into its cluster: the look for others that
decides its port (`finalizeCliOptions`), the binding of the port, the rounds of probes
(`refreshPeers`), the control connections (`ensurePeerConnection`, `openPeerConnection`)
and the hellos at both ends. A probe of one port, the outcome of a dial and the handling
of a hello are actions, since others start, stop and take over ports between them. A
server's command line is data (`options`): port, id, wildcard host, members, cluster,
version, mode, upstream URL. What `ClusterElection` calls a connected peer is the result.

Abstractions: an answer is that of the moment of the probe; a round of a server begins
when its previous one has ended (the interval does not wait for it); of the id, the host
is kept as wildcard or not; peers do not fall out of date; a process that ends takes its
connections with it at once. `MaxUnderway` limits how many starts, rounds, dials and
connections without hellos overlap, `MaxStops` how many servers are stopped.

What `DiscoveryInvariant` promises:

* `RoundsMeetEverybody`: whoever has listened on a probed port throughout a round, and
  could be in the same cluster, is a peer at its true address and connected or about to
  be. `met` is the history of this: the servers that listen since a round that is complete.
* `PeersAreMembers`: a peer is of the same cluster and agrees on the membership, whoever
  dialed.
* `OthersDoNotDisturb`: a server that listens ends itself only over its own cluster (or
  another version), not over one that shares its ports or names.
* `ProbedCanFailOver`: once everybody has looked for everybody and of any two one is on a
  port that the other probes, those who are the majority of all that any of them knows
  have a quorum. Without the condition on ports it is `FailoverPossible`, of which below.

The exceptions in these statements are behaviour of the code:

* When another server answers at the address of a peer, the connection is counted for
  that server from its hello on, and `outboundOpen` of the first stays set
  (`cluster-manager.ts:667`): the peer is never dialed again. `misled` holds such ids.
* A peer is dialed by id: while its id is dialed at the address another server had under
  it, or is counted for a connection to that server, the one that has been found is not
  dialed (`cluster-manager.ts:443`). Such a server does not count as met
  (`HasElsewhere`); it does from the first round in which its id is free.
* A server with `--host 0.0.0.0` in a cluster mode does not start: it finds itself under
  the address it was probed at, which is not the one it calls its own
  (`cluster-manager.ts:1179`, `upstream-discovery.ts:344`), and takes it for a duplicate.
* The timer of the rounds awaits nothing (`cluster-manager.ts:244`): two servers with one
  id, or with different members, end servers that have been running, also when one of
  them is the other started again on another port between two probes.
* The version is compared before the cluster id (`upstream-discovery.ts:136`), so a
  server of another version does so even from another cluster. A server of another
  cluster at the upstream URL ends whoever probes it (`upstream-discovery.ts:234`).

| Run | Question | Bounds |
|---|---|---|
| `servers` (with the runtime, next section) | does everybody meet whom it should and nobody else, whatever stops and moves meanwhile? | 14 sets of two to four servers (`MCServerDiscovery`), 2 probed ports and 1 other, 2 things under way, 1 stop |
| `edges_alone` | the disagreement below | the hub of the documentation and two edges, 2 probed ports and 2 others, 1 thing under way, 1 stop |

Two things under way let any two servers cross: two starts that race for the default
port, a stop during a round, a dial that reaches a server that has just taken over a
port (this needs the sets of four). Deadlock is not checked: all servers may have ended.
There is no liveness property: what a round achieves is stated of the round, and a live
process has rounds as long as its interval fires.

`edges_alone` shows where the code departs from its documentation. An edge without
`--port` takes any free port once the hub is found, hardly ever one of the probed ones,
and servers learn of each other only by probing: edges are connected to the hub and to
nobody else. When the hub is gone, each edge counts a quorum of two and reaches one, and
none promotes itself, against `docs/guide/architecture.md:55`.

`ServerDiscovery_proofs.tla` proves `ServersMeet`: `DiscoveryInvariant` holds for every set
of servers that may be started together, whatever their command lines, and any number
of ports, stops and things under way. Assumptions: a command line has finitely many
members, and ports are numbers. The inductive part is everything but
`ProbedCanFailOver`, and what carries it are four conjuncts of the invariant:

* `PortsAreHeld`: a port has one listener, and only those that listen have peers and
  connections. Everything a server has noted of another is about one that has listened;
  that one keeps its port and its id for good, so what is noted stays true (`NamesStay`).
* `FoundWhatIsThere`: who listens since the round began and was probed has been found.
* `FlagsHaveReasons`: an id is not flagged and dialed at a time, and it is flagged for a
  connection that is counted for it or because it is in `misled`. It makes the step from
  "flagged, so not dialed" at the end of a round to "connected".
* `MetAtTheirAddress`: a server that has met another has its id nowhere else, so what is
  being dialed, or is counted for it, reaches it.

Servers that can be one cluster do not refuse each other (`CompatibleDoNotRefuse`), so
their connection ends with one of them only. `ProbedCanFailOver` follows in every such
state: at rest each of those that run reaches all the others, and the members it counts
a quorum of are among those that all of them know, finitely many.

## Server runtime, sessions and invocations

`ServerRuntime.tla` follows `MdpServerRuntime` with `ClientSession` and
`InvocationRouter`, driven by the two kinds of connection of
`transport-server.ts`. Its variables are the code's tables:

| Variable | Code |
|---|---|
| `connected`, `registered` | `sessionsByConnectionId`, `sessionsByClientId` |
| `clientId`, `quiet` | the id of a session's descriptor; whether `lastSeenAt` is too long ago |
| `pending`, `outcome` | the router's table (an entry's timer runs as long as the entry exists) and the promises it settles |
| `callee` | which session was sent the `callClient` |
| `announced` | what listeners have made of `onClientRegistered` and `onClientRemoved`: the CLI mirrors exactly these clients to the primary |
| `socket` | the transport: `silent` is a peer that vanished without the server noticing, `closing` a transport the server has closed |

Every handler runs to completion, so one message, timer or socket event is one
action. `RegisterClient` is the whole of `registerClient`: giving up the former
id, closing and disconnecting the session it replaces, rejecting the calls of
both, and the listeners' events. `Disconnect(S)` is `disconnectSession` for all of
S, because the heartbeat disconnects all overdue sessions in one turn.

The case that makes this component hard is a message that is handled after the
server has closed its connection: a frame already read from a websocket that is
closing, or an HTTP send whose session was looked up before its body had been
read. `Lingering` is the set of connections that do this. What holds for any
`Lingering` and what only holds without is kept apart.

Abstractions: a path catalog is reduced to whether an invocation finds its path
(`RefuseInvocation` covers an unknown client, an unknown path, a lack of
permission and a transport that is no longer open), authorization to whether it
throws; transport and registered auth, and `onClientStateChanged`, change nothing
here. `connect` and requests to other paths of the HTTP server are not modelled.
A connection is opened once and an invocation made once, since their ids are
random.

| Run | Question | Bounds |
|---|---|---|
| `servers` | does the registry stay sound whatever arrives late? | 2 websockets, 1 HTTP loop, one of each kind lingering, 2 clients, 1 invocation |
| `runtime_orderly` | are registry, connections and listeners in step, and callers kept their promise, if nothing arrives late? do invocations end and dead clients go? | the same, none lingering |
| `zombie_client` | the disagreement below | 1 websocket, 1 HTTP loop, 1 client |

Three connections are what it takes for a client to be replaced twice, two
clients what a connection needs to change its identity. Invocations do not
interact but through the client they wait for.

Fairness: `WF` of an invocation's timer, of the passing of the heartbeat timeout
and of the heartbeat interval. Nothing is assumed of clients or of the network.
Deadlock is not checked: every connection may be gone and every call settled.

Properties: `RuntimeInvariant` with its parts `RoutesAgree` (a client is routed to
a session that still is that client), `WaitingIsPending` (whoever waits has an
entry with a timer) `RegisteredIsConnected` (only a lingering connection can
be registered beyond the heartbeat's reach) and `PendingIsRegistered` (nobody waits
for a client that is gone); `SettledOnce`; without lingering connections
`RegistryAgrees`, `CallsFollowRegistration` and `ImplementsInvocationPromise`;
under fairness `InvocationsEnd` and `DeadClientsAreRemoved`.

### Where the code departs from its documentation

* `zombie_client`: `registerClient` and `updateClientCatalog` do not look whether
  their session is still connected. A registration handled while the websocket is
  closing leaves the client in `sessionsByClientId`, and everything that could
  remove it (heartbeat, close event, disconnect request) looks the session up by
  connection and finds nothing. The client stays listed, and calls to it fail,
  until the same id registers again. Since `disconnectSession` does not clear the
  descriptor, a catalog update that arrives late passes the check for a registered
  session too, and may take the client from the session that has replaced its own.

### What is proved

`ServerRuntime_proofs.tla`, for all sets of connections, clients and
invocations:

* `RuntimeIsInvariant`: `RuntimeInvariant` (types, `OpenIsConnected`,
  `RoutesAgree`, `RegisteredIsConnected`, `WaitingIsPending`,
  `PendingIsRegistered`) is an invariant, for any set of lingering connections;
* `PromisesSettleOnce`: `SettledOnce`, from it;
* `RegistryStaysInStep`, `CallsStayWithRegistration`, `RuntimeKeepsPromise`: without
  lingering connections `RegistryAgrees` and `CallsFollowRegistration` are invariants
  and the runtime implements `InvocationPromise`.

The argument: `OpenIsConnected` is what makes a message of an open connection
harmless, since its session is still the runtime's; together with `RoutesAgree`
it shows that whatever a disconnection drops from one table it drops from the
other. The refinement then needs one fact, `RejectionReassigns`: the clients a
step rejects callers of are the clients that change hands in it. That is false
with lingering connections, where `updateClientCatalog` moves a client without
rejecting anybody. Liveness is only model-checked.

## Upstream mirror

`UpstreamMirror.tla` composes what a secondary does to be seen by the primary:
`MdpUpstreamProxy` with its mirrored clients, the CLI's listeners on the runtime
and its reconcile queue. The runtime and the cluster manager are its environment.
Of the runtime it takes that listeners hear of exactly the clients that are
registered, which is `RegistryAgrees` of `ServerRuntime`; of the cluster manager
the order in which `stepDown`, `observeLeader` and the rest call `onStateChange`.

| Variable | Code |
|---|---|
| `cluster`, `reconciles`, `phase`, `active` | the manager's state, the promise chain of `queueProxyReconcile`, where the running one awaits, `activeLeader` |
| `current`, `upstreamUrl`, `closed` | `upstreamProxy`, the proxies made so far, those whose `close()` was called |
| `tasks`, `mirror` | per proxy and client: the chain of `enqueue`; the mirrored client, its socket, and what its task awaits |
| `version`, `listed`, `holder` | what the runtime lists; which mirror a primary has under a mirrored id |
| `serving`, `orphaned` | forwarded invocations under way whose mirror has, or has lost, its socket |
| `crash` | the unhandled rejection that ended the process (Node's default) |

An action is one event (a socket event, a message, a runtime or cluster event) or
one promise reaction. Reactions run before the next event: every event requires
`Quiet`, that no task and no reconcile can go on. So an `await` on a socket is a
place where other events come in, and an `await` on something settled is not.

Abstractions: a descriptor is a version number; a primary is its registry and has
one url; the socket library is modelled from its use (a frame that arrives while a
socket is closing is delivered; a socket that opens may also fail to). Changes of
role without a change of leader queue reconciles that do nothing and are left
out. Start-up and shutdown of the process are left out. Three history variables
say when something was disturbed: `missed`, `overtaken` and `unreported`.

| Run | Question | Bounds |
|---|---|---|
| `mirror_converges` | does everything settle as it should, but for the disturbances the model names? | 2 clients, one of which updates its catalog, leaves, comes back and is called; 2 primaries, 2 terms, 2 proxies, 1 failing socket |
| `mirror_lost` | the disagreement below | 1 client, no failing socket |

Chains of different clients meet only in a reconcile that waits for all of them,
for which two clients suffice; two proxies are what it takes for an old mirror
to meet a new one at the same primary. Deadlock is not checked: the bounds run
out and a crash ends everything.

Properties: `MirrorsAgree` (at rest the primary's copy is the runtime's version,
for every client that was not disturbed), `FollowsCluster` (at rest the CLI
mirrors to the leader the manager knows), `ClosedProxiesLetGo` (at rest a closed
proxy has no mirror but one that was being replaced when it was closed),
`ReconcileWaitsForSocket` (a reconcile held up waits for a socket event still to
come), `MirrorInvariant` (sockets, chains, calls and registries fit together).

The model also shows that a proxy is never replaced while it is in use: a change
of leader always passes through `stepDown`, whose report of no leader closes the
old proxy first. `await previousProxy?.close()` in `cli.ts` never has a proxy to
close.

### Where the code departs from its documentation

* `mirror_lost`: when a secondary hears its primary in a higher term without
  having heard of the election in between, `stepDown` reports that there is no
  leader, and the proxy is closed; `observeLeader` compares with the state before
  `stepDown`, finds the same leader and role, and the reconcile that would
  follow it again is not queued. In `ClusterElection` it takes a link that was
  down when the primary campaigned again: the follower's first message of the new
  term is then the heartbeat.

The model has three more such outcomes. History variables name them, the
properties hold but for them, and no run of their own is kept:

* `missed`: the new proxy becomes `upstreamProxy` only after the clients listed at
  the beginning have been synced (`cli.ts:190`). A client that leaves in between
  stays registered at the primary, one that registers is unknown to it, until the
  next event of that client or the next change of leader.
* `crash`: an answer to a message that arrives after `disconnect()` has cleared
  the socket is an unhandled rejection (`upstream-proxy.ts:211`). So is the answer
  of an invocation whose mirror was replaced or lost while it ran, and a
  `syncClient` that the listener calls while the primary cannot be reached
  (`crash = "sync"`).
* `overtaken`: `closed` is not read again after the old mirror was disconnected,
  so a proxy that is closed meanwhile connects one more mirror, and nobody
  removes it.

### What is proved

`UpstreamMirror_proofs.tla`, for all sets of clients and primaries and all bounds:

* `MirrorIsInvariant`: `MirrorInvariant` is an invariant;
* `CopiesAgree`, `CliFollowsCluster`, `ProxiesLetGo`, `ReconcileIsNotStuck`: so are the
  four properties above, which follow from it in every state.

What holds at rest needs an invariant that says at every moment what the rest will be.
`Outcome` is the version a mirror has when its chain is done, and `Agrees` says that in
the tracked proxy (the one that syncs, or else the current one) this is what the
runtime lists, and that no other proxy to the same primary registers the client again
(`Inert`). `LetsGo` says that a removal is queued behind every socket of a closed
proxy. `FinalState` is the state the CLI ends with: the last one queued leads to the
leader the manager knows. A step of one mirror is a lemma about the pair of the mirror
and its chain (`CellConnects`, `CellOpens`, ...), and `CellStepKeeps` lifts it to the
whole; steps of clients, manager and CLI have lemmas of their own. `RoomIsKept` shows
that the bound on proxies is never in the way of a reconcile.

Assumptions: the bounds are numbers, `None` is no primary, and a client may register at
least once.

## Calls of the MCP bridge

`BridgeCalls.tla` takes a call of a host from `handleBridgeRequest` (`cli.ts`) to
its answer: it is run here (`RunsHere`), refused (`NoPeerToAsk`), or given to
`requestLeaderRpc`, where `ensurePeerConnection` (`cluster-manager.ts:443`) decides. A
call that finds no outbound link and no dial under way dials and waits
(`ForwardsWhenConnected`), even if the leader has opened a link of its own. Every other
call goes on at once (`Forwards`): while another call or a refresh of the peers
(`Discovers`) dials, while the outbound link is open or closing, and while the manager
closes. When the socket opens or fails the call that dialled goes on (`Opened`,
`DidNotOpen`). To go on is to be sent over a link that `findOpenLink` sees, or to
be refused (`Sends`). A link is seen only after the first message of its peer has
been handled (`Hears`, `upsertPeerFromMessage`): a call that waited for its
own dial is refused if it is the first to look at the link, unless the hello came in the
packet of the open event or another link of the peer is there. Both are behaviours of
`Opened`.

At the leader a call is refused or run (`ReceiveRequest`), one invocation for each client
it goes to (`InvocationEnds`), and the answer settles the pending RPC if there still is
one (`ReceiveResponse`), which its timer (`TimesOut`), the loss of the link
(`LinkGoes`) or `close()` may have settled before. `close()` is taken apart where it
awaits (`stage`): it rejects what is pending (`Closes`), shuts the links at once or
after the 50 ms of a resigning leader (`ClosesLinks`), and forgets links and peers when
those have closed (`ForgetsPeers`). Calls still come in meanwhile. `held` says that
the manager still has a link in `this.links`; one that opens after the end is
forgotten by nobody and one that was forgotten rejects nothing. Who leads is decided in
`ClusterElection` and how an invocation ends in `ServerRuntime`; here `LeaderTurns`,
`PeerTurns` and `InvocationEnds` may happen at any time.

Properties: `RefusedNeverRuns` (a call that was refused reaches no client, so that
repeating it is safe), `ResultsAreWhole` (a result is of one execution at the server
that was asked, one entry per client), `WaitsForItsOwn` (a call waits only for a
connection that it dialled itself and that is still under way), `AnsweredOnce` (which
also says that the calls on a link to the leader do not wait for their timers once
the link is gone, unless `close()` has forgotten it), `CallsSettle`. Fairness: a
socket opens or fails, timers fire, and an invocation of this server ends, which is
`InvocationsEnd` of `ServerRuntime`. Nothing is asked of other servers. The dial has no
timer in the code (`cluster-manager.ts:456`); that it ends is left to the timeouts of TCP.

What the model shows besides: a call that dials the leader may be refused although the
connection stands, and calls that come while it is dialled are refused when no other link
is there; the 15 seconds of an RPC do not include the time of the dial; a call on a
link whose peer no longer leads waits for its timer even when the link goes; a
`callPaths` of which one invocation rejects is answered with an error while the others
have run (`bridge-requests.ts:97`).

`Services_proofs.tla` proves, for all sets of calls, peers and clients and all bounds,
`BridgeIsInvariant` (`BridgeInvariant`, with `RefusedNeverRuns`, `ResultsAreWhole` and
`WaitsForItsOwn`) and `CallsAreAnsweredOnce` (`AnsweredOnce`). The argument: there is one
message about a call at a time (`OneMessageACall`), a request or a refusal before
anything runs and an answer when all of it is over, so no answer is about another
execution; a call is on a link to the leader it was meant for (`SentToItsLeader`), and
runs here while it waits or there (`RunsWhereAsked`). That a call waits for its own
connection relates two calls: it is proved of the whole step (`WaitSteps`), the rest call
by call (`CallFits`). Assumptions: a server is not its own peer, and there is a client to
call. `CallsSettle`, liveness, is only model-checked.

## State store

`StateStore.tla` is `MdpFilesystemStateStore` in the life of `runCli()`: start-up
with the services it reports, the events that queue a write, the queue of
reconciles, the shutdown. A change is made at once and adds a turn to the
chain; a turn writes the state of *its* moment to every file (`TakeTurn`), the
writes end in any order (`FinishWrite`), and when one fails the chain goes on
while the others are still under way (`WriteFails`, `FinishStray`).

Properties: `FilesFollowState` (no file goes back in time, and all of them come to
show the last state, as long as no write fails), `StoppedAfterShutdown` (nothing
that is queued late makes the files of a server that has exited say it runs, which is
what `docs/server/state-store.md` says of them; the status of the proxy is left out,
since a reconcile that is not waited for may set it after `markStopped()`),
`AwaitedTurnsCome`. Fairness: the file system answers. A crash is an
end of the behaviour at any point: with the files of several moments on the
disk, as the same document says.

`Services_proofs.tla` proves, for all sets of files and all bounds, `StoreIsInvariant`
(`StoreInvariant`, with `StoppedAfterShutdown` and `AwaitedTurnsCome`) and
`FilesKeepOrder` (`NeverShowsEarlier`, the safety part of `FilesFollowState`). The
argument: a turn writes one state that no file is ahead of, and is over before the next
one begins unless a write fails (`TurnsAreInOrder`); nothing sets what `markStopped()`
has set (`StopIsFinal`), and while the turn that `shutdown()` awaits is written, each
file shows this already or is still to be written (`LastTurnShowsStop`). Assumption: there
is a file. Its other part, that the files come to show the last state, is liveness and
stays with TLC.

`BridgeCalls` and `StateStore` share the run `services`:

| Part | Bounds of `services` |
|---|---|
| store | 2 files that stand for all (they are written alike), 1 event at any moment besides those of start-up and shutdown, 1 failing write |
| bridge | 1 peer, 2 control links (one that breaks or is only half known, and the one beside or after it), 2 calls of which one is a fan-out, 2 clients, 1 change of leader |

## What connects to a server

Four modules share the run `clients`.

### The HTTP loop

`HttpLoop.tla` has both ends: the four handlers of `transport-server.ts` with
`HttpLoopSessionTransport`, and `HttpLoopClientTransport` with its queue, its flush
and its poll loop. A request is a record that is sent, parked, answered; it may fail
for the client (`RequestFails`) whether or not the server has handled it or
will. A handler that awaits a body, a `finally` that runs a microtask after its loop
and a poll that times out are actions of their own, for something may come between.

`FifoLink.tla` is what a session promises: messages arrive in order, each once, none
left out in between; a session may end with messages under way.

Properties: `ImplementsFifoLink` (the refinement for each session on the way down,
and the order of what the runtime is given on the way up, across sessions);
`LoopInvariant` (a message never waits while a poll is parked, a client that is on a
session has exactly one poll of it, what is queued is being posted);
`CloseFlushesFirst`; `MessagesArrive`, under fairness of what the server answers.
`late` names the one gap: a message sent between the end of a flush and its
`finally` stays in the queue until the next one is sent.

A request of an old session that fails late ends the session connected after it
(`http-loop-client.ts:220`); the model takes that step.

`HttpLoop_proofs.tla` proves, for any number of sessions, messages, polls and failures,
`LoopIsInvariant`, `LoopImplementsFifoLink` and `LoopCloseFlushesFirst`. What the
refinement rests on are `DownFits` (what the client has not received of its session is
in the queue, or the first of it in the answer to its poll) and `UpFits` (a message
under way is the successor of the last one that was handled on its session, and on no
other session). There is one lemma per step of the server and of the client.
Assumption: `NoSession` is no session number. `MessagesArrive` is only
model-checked.

### The websocket client and its reconnects

`ClientConnection.tla` is `MdpClient` with `MdpClientReconnectController` and
`WebSocketClientTransport`: calls of `connect()`, `register()` and `disconnect()`
that wait for authentication, for a socket or for the pending reconnect, the timer
and its attempts, and sockets whose close event comes later. Heeding only
the current socket is the listeners' own check.

Properties: `NothingAfterDisconnect` (not even a disconnect during an attempt leaves
a timer or a promise), `PromiseIsKept` (a pending reconnect has its timer armed or its
attempt running), `RegistrationIsHeard` (a client that believes to be registered is
so on its current socket), and `ConnectionsComeToAnEnd`: calls of `connect()` settle,
sockets are let go of after a disconnect, a client that was registered registers
again unless it is told to stop or has used up its attempts. Fairness: requests and
sockets end one way or the other and timers fire; nothing has to succeed.

`overlapped` excepts `connect()` on a client that is not idle. Called during an
attempt it replaces the attempt's socket, whose promise then never settles, so that
`reconnecting` stays set. `unhandled` records two rejections nobody handles: attempts
that are used up while nobody waits, and an invocation that is answered after the
transport has gone (`mdp-client.ts:186`).

`Clients_proofs.tla` proves `ConnectionIsInvariant` (`ConnectionInvariant`, with
`NothingAfterDisconnect` for every behaviour, and `PromiseIsKept` and
`RegistrationIsHeard` while nothing has overlapped), for any number of sockets, calls,
runs and attempts. The inductive part is `OneOpener`: one `connect()` or run at a time
opens the transport, while the client is not connected and no timer is armed, and a
run that was not told to stop is the one that was promised. Assumptions: calls and
runs are different things, and so are sockets and what else a call may await.

### The worker of the Chrome extension

`ExtensionRuntime.tla` is the background worker: a refresh reads the configuration,
registers content scripts, closes what is no longer enabled and connects what is
(`ReadsConfig` to `Connects`). A call of `refresh()` meanwhile joins the one that
runs. Edits of the worker (`WorkerEdits`) and saves of the options page
(`PageSaves`) write the whole configuration; a write is done later, and the change of
the storage calls for a refresh. `WorkerStops` is the browser's stopping of the worker.

Properties: `RunsWhatIsStored` (when nothing is under way the worker runs what is
stored, and what could not connect is waiting for the timer), `NoConnectionIsLeft`,
`ConnectsAgain`. Fairness: the browser answers, timers fire and a connection is made or
is not. `missed` excepts a refresh that failed or that was asked for while one ran
that had read an older configuration.

The model has further behaviour that no property excludes: a connection that
breaks is not noticed, since `createMdpClient` replaces the handler of the close event
(`clients.ts:90`); an edit based on the configuration of the last refresh, or a save of
an old draft, overwrites what the other has stored; the page says that the runtime
was refreshed although it may have joined an older refresh.

`Clients_proofs.tla` proves `ExtensionIsInvariant` for any set of clients and any
bounds. `RunsWhatIsStored` is about moments when nothing is under way; what carries it is
what a running refresh has read, how much of it the worker already runs (`RefreshFits`),
and that a newer configuration has a call of `refresh()` on its way, or counts as missed
(`NothingOverlooked`). Assumption: some client is required (`Required`), none of the
constants is mistaken for a configuration.

### The controller of the VS Code extension

`EditorController.tla` is `extension-controller.ts`: commands, changed settings and
closings of a transport are tasks of one queue (`TaskStep`), each in steps between its
awaits, next to the reconnect timer and a server that goes down and comes back.

Properties: `OneConnection`, `StatusIsTrue` (the status waits exactly when the timer
runs, it is connected exactly when there is a client with an open connection, and no
closing is expected that does not come), `LossIsTriedAgain`. Fairness: tasks go on,
timers fire, closed sockets are reported and the server comes back.
`LossIsTriedAgain` excepts the status `error`: an automatic attempt that fails is not
repeated (`extension-controller.ts:179`), although the setting is described as
"Reconnect automatically after an unexpected transport close."

`Clients_proofs.tla` proves `EditorIsInvariant` (`EditorInvariant`, with
`OneConnection` and `StatusIsTrue`) for any bounds, one of which is that a client can be
made. `StatusIsTrue` is about an empty queue; what carries it through the tasks is which
of them own the client (`ClientFits`), the status and the timer (`StateFits`), and that
a closing is told about once (`TasksFit`).

| Part | Bounds of `clients` |
|---|---|
| loop | 2 sessions (what an old one leaves behind meets a new one), 2 messages, 1 failing request |
| connection | 2 sockets, 1 call of `connect()`, 1 run of attempts, 2 attempts |
| worker | 2 clients, one of them required; 1 edit, 1 save, 2 troubles (connections that fail or break, failing registrations, stops of the worker) |
| editor | 5 clients, 2 commands or changed settings, 2 times that the server goes down |

## What is remembered of something else

Six groups of modules share the run `bookkeeping`. They have no liveness: each asks
whether what one side has noted of another is so whenever the code can know.

### Catalogs and path rules

`PathRules.tla` has the path rules of the protocol package and of the five other
implementations in the SDKs: how a path is split, what is a pattern or a concrete
path, what matches, what is more specific. A path is the sequence of the parts
between its slashes, so that an empty part (`//a`, `/a/`) and a part with a newline
behind it are members of small sets. `CatalogSync.tla` is the registry of an SDK
with `expose` and `unexpose`, the catalogs on their way to the server, the capability
index that resolves and lists by the last one, and a call that the server resolves and
the client resolves again.

Properties, in `CatalogInvariant` (a part of `MeaningInvariant`): `KeysAreUnique`;
`ServerResolvesBest` (what the index resolves is, by a reference definition over all matches, a most specific one,
and the first of those); `ListingsAgree` (what is listed, what is allowed and what resolves are the
same); `CallsReachTheirEntry` (as long as the server's catalog is the client's
registry, the client handles a call by the very entry the server resolved, with the same
parameters, whatever its language).

A call that was resolved in an older catalog meets a changed registry and may be
handled by another entry or be refused; `current` names it. The languages differ in what
they accept: Java takes `/a/`, C# `//a`, Python and C# a newline at the end. A catalog
with such a path is refused by the server and ends the connection (`ReceiveCatalog`).
Go and C# remove an entry of any method when `unexpose` is given none.

`Bookkeeping_proofs.tla` proves `CatalogInvariant` (in `MeaningIsKept`) for any paths, registries,
changes and calls, from one assumption on paths: the empty part is no segment and no
parameter. The argument:

* A walk is a recursive function over the entries. Induction over their number, from the
  library's well-foundedness of the naturals (`LeastOf`, `AllNumbers`), gives that it is
  defined (`WalkFinds`) and that what it has found after every entry is the first of the
  most specific so far (`WalkFindsFirstBest`).
* One step of that needs that what is more specific than the best so far is more specific
  than whatever the best is not less specific than (`MoreSpecificThanLess`): true of
  matches of one path, which have equally many segments, by the first place where they
  differ.
* A path that the server takes is split, validated and matched alike in every language
  (`SplitsAlike`, `MatchesAlike`), and a path that was resolved is one that the server takes;
  so the client resolves a call as the server did (`ClientResolvesAlike`). Of the call on
  its way `CallsWereResolved` says from which catalog, all of whose paths were accepted.

### Clients in other languages

`SdkSession.tla` has what the five clients share (flags, the session the transport
holds, a reader for each session, the call of the application that is under way), and
`GoClient`, `PythonClient`, `RustClient`, `DotnetClient` and `JavaClient` how each of
them connects, disconnects and learns of the end of a session, on both transports.
The steps of a reader and of a call interleave as the language lets them: goroutines and
tasks anywhere, Python's coroutines between two awaits.

Properties, in `SdkInvariant` (a part of `LanguagesInvariant`), when nothing is under
way: `FlagsFollowSession` (connected exactly while the transport's session is read, registered only on that
session) and `NoReaderIsLeft`. `astray` excepts what the code does not order: the end of
a session that crosses a call of the application, and a call that fails half-way. By
language:

* Go: the notification of an old reader may reset the flags of a new session; the HTTP
  reader goes on after a 404.
* Python: a disconnect that fails over HTTP leaves `connected` set
  (`http_loop.py:80`); a transport that owned its HTTP client cannot connect again.
* Rust: `connect()` replaces a session without ending its tasks; `disconnect()`
  returns early when the message cannot be sent.
* C#: the close of an old loop may be reported as that of the new connection.
* Java: a late `onClose` takes the new socket; the first close shuts down the executor
  of the HTTP loop for good; a close before the flag is set is overwritten by it.

`Bookkeeping_proofs.tla` proves `SessionsAreKnown` (`LanguagesInvariant`) for any number
of sessions. What is asked speaks of a client at rest, so the inductive part says what
holds on the way, and each language needs another one, which stands at the end of its
module (`GoFits` ... `JavaFits`) and in `LanguagesInvariant`:

* Go and Python detach a session before they stop its reader, so that the session that is
  read is always the one that is held; Python sets its flags in the same turn, Go
  may be connected without a session as long as the end of one is still to be notified.
* Rust holds on to a session that is over, so that connected means: its tasks go on.
* C# and Java have at most one session that goes on while they connect or are connected;
  in C# once the close is reported none is read, and in Java one that has opened
  already counts before the transport holds it.

### The messages

Six languages write the same messages by hand and the guards of the protocol package
refuse what they do not know, `null` included. `WireFormat.tla` has the guards of the
messages between client and server, member by member, and for each language how a
path, a client and an authentication are written, what a handler is given of a call,
and how the end of a handler becomes an answer. A member is what the guards and the languages tell
apart: absent, null, an empty or other text, an empty object, one of texts, another.
`WireExchange.tla` sends them: a registration, calls, answers that wait in a queue,
refusals and timers; `MCWireExchange.tla` says what applications and callers give.

Properties, in `WireInvariant` (the other part of `MeaningInvariant`):
`RegistrationsPass` (whatever an API lets an application leave out or leave blank, the
guards let the registration pass; the exceptions are a method that is no method, which
Go and Python take, and a Java skill whose content type is null), `SaysWhatWasGiven`
and `HandlersGetTheCall` (in either direction nothing is lost or made up, blanks
aside), `AnswersReachTheServer` (a handler that ends has its answer on the way or
taken).

`Silent` names the endings after which the caller hears nothing, although
`docs/server/api/websocket-connection.md` lets `callClientResult` close every routed invocation:

* Go drops the error of a `Send` whose data has no JSON form (`client.go:160`);
* Java loses it in a stage nobody looks at, and what a handler throws before it has
  a stage passes through the reader (`MdpClient.java:106`); an exception without a message
  makes an error with a null message, which the server refuses together with the connection;
* the HTTP loop of the TypeScript client writes JSON when the answer leaves the queue:
  the failure ends the transport, with every answer behind it (`http-loop-client.ts:141`).

`Bookkeeping_proofs.tla` proves `WireInvariant` (in `MeaningIsKept`, and as `MessagesKeepMeaning` of
`WireSpec`, which has none of the limits of the run). `WireConstants` says which values an
application or a caller can give at all; the theorem lets them vary all at once, the run
one part at a time. What is made of a path, a client, an authentication and a call is a
lemma each, by language (`PathsAreMeant`, `ClientsAreMeant`, `AuthIsMeant`, `RequestsAreMeant`).
The inductive part says that what is on its way was made so (`RegistrationIsMade`, `CallsAreMade`,
`AnswersAreMade`) and that a session ends, or a call is rejected, only after a silent ending
or before any call (`SilenceEndsSessions`): an ending that is not silent has exactly one
answer, which the guards let pass (`AnswersAreHeard`), so a queue without silent endings
loses nothing.

### What the Chrome extension remembers

* `PageInjection.tla`: what is in the document of a tab, and `tabInjectionState`, an
  object shared by those who have taken it. Commands and injections are tasks whose
  every injection awaits the browser, while the document is replaced (`Loads`). A command
  is sent (`Dispatches`), and is then with the page (`heard`) or with nobody (`lost`). A
  page that has it answers it (`PageAnswers`), or answers that it has failed, takes too
  long or goes away: `page-commands.ts:87` does not tell these from a command that nobody
  heard, forgets what it knows of the tab, injects again and sends the command a second
  time (`TriesAgain`), after which any failure is the caller's (`GivesUp`). So a page may
  run a command twice, and a slow page both at a time; nothing promises otherwise. A path
  script that takes longer than ten seconds is given up and goes on (`ScriptIsSlow`,
  `SlowScriptEnds`).
  `RemembersTheDocument` says that what is remembered is so unless a document was
  replaced while somebody held the object (`crossed`); `CommandsHeal` says that even
  then a command that meets nobody else is rejected by its page or not at all, once its
  scripts are injected: the second round never sends it where nobody hears it. Two tasks
  at once may run the path script twice.
* `PageSessions.tla`: the recorders and armed pages of the tabs, the one recording and
  the one capture that the worker knows, the calls of the popup. `SavedOnce`: however
  many stops are asked for, a recording is saved once. `SessionsAreOfPages`: a session
  the worker shows goes on in its page. The other direction does not hold: a recording
  that is started in a second tab orphans the first one, and a stop in one tab clears
  the session of another (`route-sessions.ts:196`); a page that is armed while an
  earlier capture is being saved is refused (`route-sessions.ts:251`).
* `InvocationTelemetry.tla`: the telemetry in memory and in storage, the timer that
  stores it, requests to clear it, removals of a client, stops of the worker.
  `RecordsAreStored` (nothing is lost on the way) and `ClearedIsGone` (what has been
  cleared stays away), but for telemetry that is cleared while it is loaded, which comes
  back (`telemetry-storage.ts:26`).

`Bookkeeping_proofs.tla` proves `PagesAreRemembered` (`PagesInvariant`) and `CommandsAreHeard`
(`CommandsHeal`), for any number of tabs, pages, commands, recordings and invocations,
each module by itself and both theorems from the three:

* What is remembered of a tab is one object among those that tasks hold, so the
  invariant says of all of them what `RemembersTheDocument` says of one
  (`ObjectsAreSo`), and of each task what its browser call has just done
  (`StagesAreSo`). A task takes an object nobody has; there is one as long as there are
  more objects than tasks, which is the assumption of the module: the code makes a new
  one each time. `SecondRoundsFit` carries `CommandsHeal`: a command that is alone begins
  its second round with nothing remembered, so it is sent with everything injected and
  is not lost.
* A recording is at one place: it runs in one page, or one call has its steps, or it is
  saved (`RecordingsFit`). A page has one answer on its way at most (`OneAnswer`), which
  is so of the page when it arrives (`AnswersAreTrue`, `RecordingGoesOn`).
* What the storage will hold when its writes are done is what the worker knows, and has
  nothing that was cleared (`StoredInTheEnd`); an invocation that is not recorded yet is
  known nowhere (`RecordedOnce`).

| Part | Bounds of `bookkeeping` |
|---|---|
| catalog | 7 patterns (two that differ in a name, a static one, a skill, and the three forms the languages treat differently), 3 called paths, 2 entries, 3 changes |
| SDK | 3 sessions (an old reader, a current one and a next one), 5 languages, 2 transports |
| messages | one part of a registration or a call is varied at a time (its other parts give everything), 2 calls, so that one answer may take another one with it |
| page | 2 tasks, 2 addresses (alike, so that the first document has one of them), 1 new document, 1 injection or script that fails or is slow |
| sessions | 2 tabs, 2 calls of the popup, 2 recordings, 2 captures |
| telemetry | 3 invocations, two of them of one client; 2 requests to clear, 2 removals or stops |

Deadlock is not checked in `services`, `clients` and `bookkeeping`: the bounds run out,
and servers, sessions and workers may have ended for good.

## Proved, checked, not modelled

Proved for all values of the constants, from the assumptions the modules state (`ASSUME`):

| Module of proofs | Theorems | Property |
|---|---|---|
| `ClusterElection_proofs` | `TypeCorrect`, `ElectionIsInvariant`, `FollowersFollowElected`, `TimersStayArmed` | `TypeOK`, `ElectionInvariant`, `FollowsElected`, `TimersArmed` |
| | `VotesStayFinal`, `ClosedStaysQuiet` | `VotesAreFinal`, `ClosedNeverCampaigns` |
| | `ElectionSafety`, `ElectionImplementsTermLeadership` (static membership) | `OneLeaderPerTerm`, `ImplementsTermLeadership` |
| `ServerRuntime_proofs` | `RuntimeIsInvariant`, `PromisesSettleOnce` | `RuntimeInvariant`, `SettledOnce` |
| | `RegistryStaysInStep`, `CallsStayWithRegistration`, `RuntimeKeepsPromise` (nothing lingers) | `RegistryAgrees`, `CallsFollowRegistration`, `ImplementsInvocationPromise` |
| `UpstreamMirror_proofs` | `MirrorIsInvariant`, `CopiesAgree`, `CliFollowsCluster`, `ProxiesLetGo`, `ReconcileIsNotStuck` | `MirrorInvariant`, `MirrorsAgree`, `FollowsCluster`, `ClosedProxiesLetGo`, `ReconcileWaitsForSocket` |
| `HttpLoop_proofs` | `LoopIsInvariant`, `LoopImplementsFifoLink`, `LoopCloseFlushesFirst` | `LoopInvariant`, `ImplementsFifoLink`, `CloseFlushesFirst` |
| `ServerDiscovery_proofs` | `ServersMeet` | `DiscoveryInvariant` |
| `Clients_proofs` | `ConnectionIsInvariant`, `ExtensionIsInvariant`, `EditorIsInvariant` | `ConnectionInvariant`, `ExtensionInvariant`, `EditorInvariant` |
| `Bookkeeping_proofs` | `MeaningIsKept`, `MessagesKeepMeaning` | `MeaningInvariant`, part of it without the limits of the run |
| | `SessionsAreKnown`, `PagesAreRemembered`, `CommandsAreHeard` | `LanguagesInvariant`, `PagesInvariant`, `CommandsHeal` |
| `Services_proofs` | `StoreIsInvariant`, `FilesKeepOrder`, `BridgeIsInvariant`, `CallsAreAnsweredOnce` | `StoreInvariant`, part of `FilesFollowState`, `BridgeInvariant`, `AnsweredOnce` |

Each invariant is inductive as the module states it: the parts that only make it so are
named conjuncts of it, so that TLC checks them too in the runs above. The clauses that
name a disturbance (`missed`, `overtaken`, `overlapped`, `late`, `unreported`) are
hypotheses of the properties, with the code that makes them necessary; they are not
assumed away in any theorem.

Only model-checked, on the bounds of the tables: every liveness property, and the
liveness part of `FilesFollowState`; fairness and `ENABLED` are beyond the prover. Every
invariant and every safety property that a run finds to hold is proved.

`[]<>Q` is written where `~Q ~> Q` is meant: the two are the same.

Not modelled:

* *Authentication, meta and skill endpoints* of the transport server: they answer from
  the state and change none; a skill request is one more invocation. Its cluster
  sockets are the links of `ClusterElection` and `BridgeCalls`.
* *Market and package updates of the extension, commands inside a page, what the
  capabilities of VS Code do*: they call the browser's or the editor's interfaces and
  wait for them; nothing of the protocol depends on their order.
* *CLI parsing, setup, generated runtime docs, text search in listings*: pure
  functions on text.
* *User interfaces, the documentation site, sample clients, configuration, translations
  and assets*: the larger part of the repository's lines. They render state or
  register capabilities with the client runtime, which is modelled.
* *The Kotlin wrapper*: it passes calls on to the Java client.
