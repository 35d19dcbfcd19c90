--------------------------- MODULE UpstreamMirror ---------------------------
(* How a secondary shows its clients to the primary: MdpUpstreamProxy and   *)
(* its mirrored clients (upstream-proxy.ts), and the reconciliation that    *)
(* replaces the proxy when the cluster state changes (cli.ts).  The runtime *)
(* and the cluster manager are the environment: the first reports clients   *)
(* that register and leave, the second a primary for its term.  A           *)
(* descriptor is a version number, a primary's registry the mirror that     *)
(* holds each mirrored id.                                                  *)
EXTENDS Naturals, Sequences, FiniteSets

CONSTANTS
    Client,      \* client ids of the secondary
    Primary,     \* servers that can be primary, the secondary not among them
    None,        \* undefined
    MaxTerm,     \* bound: terms the secondary lives to see
    MaxProxies,  \* bound: proxies the reconciliation makes
    MaxVersion,  \* bound: registrations and catalog updates of a busy client
    Busy,        \* bound: the other clients register once, stay, and are not called
    MaxDrops     \* bound: mirror sockets that do not open or get lost

ASSUME ConstantsAssumption ==
    /\ MaxTerm \in Nat /\ MaxProxies \in Nat /\ MaxVersion \in Nat \ {0} /\ MaxDrops \in Nat
    /\ None \notin Primary
    /\ Busy \subseteq Client

Proxy == 1 .. MaxProxies     \* in the order in which they are made
NoProxy == 0

VARIABLES
    cluster,     \* clusterManager.state: its term, and its leader if that is another server
    reconciles,  \* states handed to queueProxyReconcile; the first is being worked on
    started,     \* the CLI has queued its initial reconcile
    active,      \* activeLeader
    phase,       \* what the running reconcile awaits
    current,     \* upstreamProxy of the CLI
    upstreamUrl, \* the primaries that the proxies made so far mirror to
    closed,      \* proxies whose close() was called
    version,     \* version[c]: of the last descriptor client c registered with
    listed,      \* clients the runtime lists
    tasks,       \* tasks[x][c]: the promise chain of pendingByClientId
    mirror,      \* mirror[x][c]: the mirrored client and its socket
    holder,      \* holder[p][c]: the mirror registered at primary p, by its proxy
    serving,     \* mirrors, as <<x, c>>, with an invocation under way
    orphaned,    \* clients with an invocation under way whose mirror has no socket
    crash,       \* the unhandled rejection that ended the process
    drops,       \* sockets that did not open or got lost so far
    unreported,  \* history: the leader was observed in a new term without a reconcile
    missed,      \* history: clients of which the current mirror missed something
    overtaken    \* history: mirrors, as <<x, c>>, being replaced when x was closed

clusterVars == <<cluster, reconciles, started, unreported>>
cliVars == <<active, phase, current, upstreamUrl, closed>>
runtimeVars == <<version, listed>>
callVars == <<serving, orphaned, crash>>
vars == <<clusterVars, cliVars, runtimeVars, tasks, mirror, holder, callVars,
          drops, missed, overtaken>>

State == [term : 0 .. MaxTerm, leader : Primary \cup {None}]

(* "snapshot" is a sync the reconcile awaits, "sync" one nobody awaits,     *)
(* "close" a removal that close() awaits.                                  *)
Task == [kind : {"snapshot", "sync", "remove", "close"}, version : 0 .. MaxVersion]

Syncs(t) == t.kind \in {"snapshot", "sync"}

Mirror ==
    [kept  : BOOLEAN,        \* it is in mirroredClients
     link  : {"none", "opening", "open", "closing"},
     heard : BOOLEAN,        \* the primary has handled its registerClient
     version : 0 .. MaxVersion,
     stage : {"ready", "disconnecting", "connecting"}]  \* what its chain awaits

NoMirror == [kept |-> FALSE, link |-> "none", heard |-> FALSE, version |-> 0,
             stage |-> "ready"]

Init ==
    /\ cluster = [term |-> 0, leader |-> None]
    /\ reconciles = <<>>
    /\ started = FALSE
    /\ unreported = FALSE
    /\ active = None
    /\ phase = "idle"
    /\ current = NoProxy
    /\ upstreamUrl = <<>>
    /\ closed = {}
    /\ version = [c \in Client |-> 0]
    /\ listed = {}
    /\ tasks = [x \in Proxy |-> [c \in Client |-> <<>>]]
    /\ mirror = [x \in Proxy |-> [c \in Client |-> NoMirror]]
    /\ holder = [p \in Primary |-> [c \in Client |-> NoProxy]]
    /\ serving = {}
    /\ orphaned = {}
    /\ crash = "none"
    /\ drops = 0
    /\ missed = {}
    /\ overtaken = {}

-----------------------------------------------------------------------------
(* The event loop: promise reactions run before the next event.            *)

Newest == Len(upstreamUrl)           \* the proxy made last

Drained(x) == \A c \in Client : tasks[x][c] = <<>>

CloseAwaited == \E x \in Proxy, c \in Client : \E i \in DOMAIN tasks[x][c] :
    tasks[x][c][i].kind = "close"

WaitsForMirrors ==           \* mutant: a client that could not be mirrored blocks the swap
    /\ reconciles # <<>>
    /\ CASE phase = "idle" -> TRUE
         [] phase = "syncing" -> /\ Drained(Newest)
                                 /\ \A c \in listed : mirror[Newest][c].link = "open"
         [] OTHER -> ~ CloseAwaited

(* The first queued reconcile can go on with what it has awaited.          *)
ReconcileReady ==
    /\ reconciles # <<>>
    /\ CASE phase = "idle" -> TRUE
         [] phase = "syncing" -> Drained(Newest)
         [] OTHER -> ~ CloseAwaited

TaskReady(x, c) == tasks[x][c] # <<>> /\ mirror[x][c].stage = "ready"

Quiet ==
    /\ crash = "none"
    /\ ~ ReconcileReady
    /\ \A x \in Proxy, c \in Client : ~ TaskReady(x, c)

Done(x, c) == tasks' = [tasks EXCEPT ![x][c] = Tail(@)]

RemembersMirror(x, c) == UNCHANGED holder    \* mutant: the id stays registered

(* The primary forgets the mirror whose connection ends.                   *)
ForgetMirror(x, c) ==
    holder' = [holder EXCEPT ![upstreamUrl[x]][c] = IF @ = x THEN NoProxy ELSE @]

(* The mirror has no socket any more to answer the invocations under way.  *)
LosesSocket(x, c) ==
    /\ serving' = serving \ {<<x, c>>}
    /\ orphaned' = IF <<x, c>> \in serving THEN orphaned \cup {c} ELSE orphaned

-----------------------------------------------------------------------------
(* upstream-proxy.ts: the chain of tasks of one client.                    *)

(* What follows `await this.disconnectMirroredClient`: a sync connects a    *)
(* new mirrored client, without asking again whether the proxy is closed.  *)
AfterDisconnect(x, c) ==
    LET t == Head(tasks[x][c]) IN
    IF Syncs(t)
    THEN /\ mirror' = [mirror EXCEPT ![x][c] =
                [kept |-> TRUE, link |-> "opening", heard |-> FALSE,
                 version |-> t.version, stage |-> "connecting"]]
         /\ UNCHANGED tasks
    ELSE mirror' = [mirror EXCEPT ![x][c] = NoMirror] /\ Done(x, c)

(* A task begins.  A sync does nothing in a closed proxy; a mirrored client *)
(* that is connected is disconnected first, and loses its socket at once.  *)
StartTask(x, c) ==
    /\ crash = "none"
    /\ TaskReady(x, c)
    /\ \/ /\ Syncs(Head(tasks[x][c])) /\ x \in closed
          /\ Done(x, c)
          /\ UNCHANGED <<mirror, serving, orphaned>>
       \/ /\ ~ (Syncs(Head(tasks[x][c])) /\ x \in closed)
          /\ mirror[x][c].link # "open"
          /\ AfterDisconnect(x, c)
          /\ UNCHANGED <<serving, orphaned>>
       \/ /\ ~ (Syncs(Head(tasks[x][c])) /\ x \in closed)
          /\ mirror[x][c].link = "open"
          /\ mirror' = [mirror EXCEPT ![x][c].kept = FALSE, ![x][c].link = "closing",
                                      ![x][c].stage = "disconnecting"]
          /\ LosesSocket(x, c)
          /\ UNCHANGED tasks
    /\ UNCHANGED <<clusterVars, cliVars, runtimeVars, holder, crash, drops, missed,
                   overtaken>>

(* The socket that was closed reports its end, its frames handled.         *)
Closes(x, c) ==
    /\ Quiet
    /\ mirror[x][c].link = "closing" /\ mirror[x][c].heard
    /\ AfterDisconnect(x, c)
    /\ ForgetMirror(x, c)
    /\ UNCHANGED <<clusterVars, cliVars, runtimeVars, callVars, drops, missed, overtaken>>

(* The socket opens, registerClient is sent, the sync is done.             *)
Opens(x, c) ==
    /\ Quiet
    /\ mirror[x][c].link = "opening"
    /\ mirror' = [mirror EXCEPT ![x][c].link = "open", ![x][c].stage = "ready"]
    /\ Done(x, c)
    /\ UNCHANGED <<clusterVars, cliVars, runtimeVars, holder, callVars, drops, missed,
                   overtaken>>

(* The socket does not open: the sync rejects.  The reconcile settles with  *)
(* it, the next task of the chain catches it; else it is unhandled.        *)
Fails(x, c) ==
    /\ Quiet
    /\ mirror[x][c].link = "opening" /\ drops < MaxDrops
    /\ drops' = drops + 1
    /\ mirror' = [mirror EXCEPT ![x][c].link = "none", ![x][c].stage = "ready"]
    /\ Done(x, c)
    /\ crash' = IF Head(tasks[x][c]).kind = "sync" /\ Len(tasks[x][c]) = 1
                THEN "sync" ELSE crash
    /\ missed' = missed \cup {c}
    /\ UNCHANGED <<clusterVars, cliVars, runtimeVars, holder, serving, orphaned, overtaken>>

(* The primary handles registerClient; a mirror that held the id before is  *)
(* replaced.                                                               *)
Registers(x, c) ==
    /\ Quiet
    /\ mirror[x][c].link \in {"open", "closing"} /\ ~ mirror[x][c].heard
    /\ mirror' = [mirror EXCEPT ![x][c].heard = TRUE]
    /\ holder' = [holder EXCEPT ![upstreamUrl[x]][c] = x]
    /\ UNCHANGED <<clusterVars, cliVars, runtimeVars, tasks, callVars, drops, missed,
                   overtaken>>

Replaced(x, c) == mirror[x][c].heard /\ holder[upstreamUrl[x]][c] # x

(* A socket closes that the secondary did not close: the primary replaced   *)
(* the mirror, or the connection is lost.  Nobody connects it again.       *)
Drops(x, c) ==
    /\ Quiet
    /\ mirror[x][c].link = "open"
    /\ \/ Replaced(x, c) /\ UNCHANGED <<drops, missed>>
       \/ /\ ~ Replaced(x, c) /\ drops < MaxDrops
          /\ drops' = drops + 1
          /\ missed' = missed \cup {c}
    /\ mirror' = [mirror EXCEPT ![x][c].link = "none"]
    /\ ForgetMirror(x, c)
    /\ LosesSocket(x, c)
    /\ UNCHANGED <<clusterVars, cliVars, runtimeVars, tasks, crash, overtaken>>

-----------------------------------------------------------------------------
(* upstream-proxy.ts: messages of the primary.                             *)

(* callClient reaches a mirror, and the runtime sends it on to the client.  *)
Call(x, c) ==
    /\ Quiet
    /\ c \in Busy
    /\ mirror[x][c].link \in {"open", "closing"}
    /\ holder[upstreamUrl[x]][c] = x
    /\ c \in listed
    /\ IF mirror[x][c].link = "open"
       THEN serving' = serving \cup {<<x, c>>} /\ UNCHANGED orphaned
       ELSE orphaned' = orphaned \cup {c} /\ UNCHANGED serving
    /\ UNCHANGED <<clusterVars, cliVars, runtimeVars, tasks, mirror, holder, crash,
                   drops, missed, overtaken>>

(* A ping, or a call the runtime refuses, reaches a mirror that is being    *)
(* disconnected: the answer has no socket and the rejection no handler.    *)
AnswerWithoutSocket(x, c) ==
    /\ Quiet
    /\ c \in Busy
    /\ mirror[x][c].link = "closing"
    /\ holder[upstreamUrl[x]][c] = x
    /\ crash' = "send"
    /\ UNCHANGED <<clusterVars, cliVars, runtimeVars, tasks, mirror, holder, serving,
                   orphaned, drops, missed, overtaken>>

(* The runtime settles what was invoked on a client; the result goes out    *)
(* on the mirror's socket, and sending without one rejects unhandled.      *)
SettleCalls(c) ==
    /\ serving' = {m \in serving : m[2] # c}
    /\ orphaned' = orphaned \ {c}
    /\ crash' = IF c \in orphaned THEN "send" ELSE crash

CallSettles(c) ==
    /\ Quiet
    /\ c \in orphaned \/ \E x \in Proxy : <<x, c>> \in serving
    /\ SettleCalls(c)
    /\ UNCHANGED <<clusterVars, cliVars, runtimeVars, tasks, mirror, holder, drops,
                   missed, overtaken>>

-----------------------------------------------------------------------------
(* cli.ts: the listeners of the runtime.                                   *)

EnqueueOnce(x, c, ts) ==     \* mutant: a task is dropped while another is under way
    tasks' = IF x = NoProxy \/ tasks[x][c] # <<>> THEN tasks
             ELSE [tasks EXCEPT ![x][c] = @ \o ts]

Enqueue(x, c, ts) ==
    tasks' = IF x = NoProxy THEN tasks ELSE [tasks EXCEPT ![x][c] = @ \o ts]

SyncTask(v) == [kind |-> "sync", version |-> v]
RemoveTask == [kind |-> "remove", version |-> 0]
CloseTask == [kind |-> "close", version |-> 0]

(* Nothing of a client is under way in this proxy, or in any.              *)
SettledIn(x, c) ==
    tasks[x][c] = <<>> /\ (mirror[x][c].link = "open" => mirror[x][c].heard)

Settled(c) == \A x \in Proxy : SettledIn(x, c)

(* A client registers or updates its catalog; a newer session of the same   *)
(* client removes the older one first.                                     *)
ClientRegistered(c) ==
    /\ Quiet
    /\ version[c] < IF c \in Busy THEN MaxVersion ELSE 1
    /\ version' = [version EXCEPT ![c] = @ + 1]
    /\ listed' = listed \cup {c}
    /\ \/ /\ Enqueue(current, c, <<SyncTask(version'[c])>>)
          /\ UNCHANGED callVars
       \/ /\ c \in listed
          /\ Enqueue(current, c, <<RemoveTask, SyncTask(version'[c])>>)
          /\ SettleCalls(c)
    /\ missed' = IF phase = "syncing" THEN missed \cup {c}
                 ELSE IF Settled(c) THEN missed \ {c} ELSE missed
    /\ UNCHANGED <<clusterVars, cliVars, mirror, holder, drops, overtaken>>

ClientRemoved(c) ==
    /\ Quiet
    /\ c \in listed \cap Busy
    /\ listed' = listed \ {c}
    /\ Enqueue(current, c, <<RemoveTask>>)
    /\ SettleCalls(c)
    /\ missed' = IF phase = "syncing" THEN missed \cup {c} ELSE missed
    /\ UNCHANGED <<clusterVars, cliVars, version, mirror, holder, drops, overtaken>>

-----------------------------------------------------------------------------
(* cli.ts: queueProxyReconcile.                                            *)

(* The queued reconciles that may still make a proxy.                      *)
MayMakeProxy == {i \in DOMAIN reconciles :
    reconciles[i].leader # None /\ ~ (i = 1 /\ phase # "idle")}

(* There are proxies left for one reconcile more.                          *)
RoomForProxy == Len(upstreamUrl) + Cardinality(MayMakeProxy) < MaxProxies

LosesLeaderInTerm ==         \* mutant: a leader that resigns is not reported
    /\ Quiet
    /\ \E t \in cluster.term .. MaxTerm : cluster' = [term |-> t, leader |-> None]
    /\ cluster' # cluster
    /\ reconciles' = IF cluster'.term = cluster.term THEN reconciles
                     ELSE Append(reconciles, cluster')
    /\ unreported' = FALSE
    /\ UNCHANGED <<started, cliVars, runtimeVars, tasks, mirror, holder, callVars, drops,
                   missed, overtaken>>

(* stepDown, startElection or a resignation: there is no leader, or this    *)
(* server is it.  onStateChange queues a reconcile if there was one.       *)
LosesLeader ==
    /\ Quiet
    /\ \E t \in cluster.term .. MaxTerm : cluster' = [term |-> t, leader |-> None]
    /\ cluster' # cluster
    /\ reconciles' = IF cluster.leader = None THEN reconciles ELSE Append(reconciles, cluster')
    /\ unreported' = FALSE
    /\ UNCHANGED <<started, cliVars, runtimeVars, tasks, mirror, holder, callVars, drops,
                   missed, overtaken>>

(* The reconciles observeLeader queues: stepDown to a higher term reports   *)
(* that there is no leader, observeLeader reports the new one unless it is  *)
(* the one it knew before stepDown.                                        *)
QueueObserved(p, t) ==
    reconciles' =
        (IF t > cluster.term /\ cluster.leader # None
         THEN Append(reconciles, [term |-> t, leader |-> None]) ELSE reconciles)
        \o (IF p # cluster.leader THEN <<[term |-> t, leader |-> p]>> ELSE <<>>)

(* observeLeader, called for a primary in its term or a later one.         *)
ObservesLeader ==
    /\ Quiet
    /\ RoomForProxy
    /\ \E p \in Primary, t \in 1 .. MaxTerm :
        /\ t > cluster.term \/ (t = cluster.term /\ cluster.leader = None)
        /\ cluster' = [term |-> t, leader |-> p]
        /\ QueueObserved(p, t)
        /\ unreported' = (p = cluster.leader)
    /\ UNCHANGED <<started, cliVars, runtimeVars, tasks, mirror, holder, callVars, drops,
                   missed, overtaken>>

(* runCli has started the cluster manager and queues the first reconcile.  *)
Startup ==
    /\ Quiet
    /\ ~ started
    /\ cluster.leader # None => RoomForProxy
    /\ started' = TRUE
    /\ reconciles' = Append(reconciles, cluster)
    /\ unreported' = FALSE
    /\ UNCHANGED <<cluster, cliVars, runtimeVars, tasks, mirror, holder, callVars, drops,
                   missed, overtaken>>

CloseConnected(x) ==         \* mutant: a mirror that is still connecting is forgotten
    /\ closed' = closed \cup {x}
    /\ tasks' = [tasks EXCEPT ![x] = [c \in Client |->
            IF mirror[x][c].link = "open" THEN Append(@[c], CloseTask) ELSE @[c]]]
    /\ overtaken' = overtaken \cup {<<x, c>> : c \in {d \in Client :
            /\ mirror[x][d].stage = "disconnecting"
            /\ Syncs(Head(tasks[x][d]))}}

(* close() of a proxy: every client in mirroredClients is removed; one that *)
(* is being replaced is not in the map.                                    *)
CloseProxy(x) ==
    /\ closed' = closed \cup {x}
    /\ tasks' = [tasks EXCEPT ![x] = [c \in Client |->
            IF mirror[x][c].kept THEN Append(@[c], CloseTask) ELSE @[c]]]
    /\ overtaken' = overtaken \cup {<<x, c>> : c \in {d \in Client :
            /\ mirror[x][d].stage = "disconnecting"
            /\ Syncs(Head(tasks[x][d]))}}

(* The comparisons of activeLeader with the state always hold, since it was *)
(* assigned before; what is left is the comparison of the keys.            *)
AlreadyFollowing(state) == current # NoProxy /\ active = state

ReconcileDone == phase' = "idle" /\ reconciles' = Tail(reconciles)

(* A reconcile for a state without a primary to follow closes the proxy.   *)
ReconcileLeaderless ==
    /\ phase = "idle"
    /\ Head(reconciles).leader = None
    /\ active' = Head(reconciles)
    /\ IF current = NoProxy
       THEN ReconcileDone /\ UNCHANGED <<closed, tasks, overtaken>>
       ELSE phase' = "leaving" /\ CloseProxy(current) /\ UNCHANGED reconciles
    /\ UNCHANGED <<current, upstreamUrl, missed>>

ReconcileSame ==
    /\ phase = "idle"
    /\ Head(reconciles).leader # None
    /\ AlreadyFollowing(Head(reconciles))
    /\ ReconcileDone
    /\ UNCHANGED <<active, current, upstreamUrl, closed, tasks, missed, overtaken>>

(* A new proxy is made and syncs the clients listed at that moment.        *)
ReconcileNewPrimary ==
    /\ phase = "idle"
    /\ Head(reconciles).leader # None
    /\ ~ AlreadyFollowing(Head(reconciles))
    /\ active' = Head(reconciles)
    /\ phase' = "syncing"
    /\ upstreamUrl' = Append(upstreamUrl, Head(reconciles).leader)
    /\ tasks' = [tasks EXCEPT ![Newest + 1] = [c \in Client |->
            IF c \in listed THEN <<[kind |-> "snapshot", version |-> version[c]]>>
            ELSE <<>>]]
    /\ missed' = {c \in Client : \E x \in DOMAIN upstreamUrl :
            upstreamUrl[x] = Head(reconciles).leader /\ ~ SettledIn(x, c)}
    /\ UNCHANGED <<reconciles, current, closed, overtaken>>

(* Every sync of the new proxy has settled: it takes over.                 *)
SwapProxy ==
    /\ phase = "syncing"
    /\ current' = Newest
    /\ IF current = NoProxy
       THEN ReconcileDone /\ UNCHANGED <<closed, tasks, overtaken>>
       ELSE phase' = "closing" /\ CloseProxy(current) /\ UNCHANGED reconciles
    /\ UNCHANGED <<active, upstreamUrl, missed>>

(* The proxy that was closed has removed its clients.                      *)
ProxyClosed ==
    /\ phase \in {"closing", "leaving"}
    /\ current' = IF phase = "leaving" THEN NoProxy ELSE current
    /\ ReconcileDone
    /\ UNCHANGED <<active, upstreamUrl, closed, tasks, missed, overtaken>>

Reconcile ==
    /\ crash = "none"
    /\ ReconcileReady
    /\ \/ ReconcileLeaderless
       \/ ReconcileSame
       \/ ReconcileNewPrimary
       \/ SwapProxy
       \/ ProxyClosed
    /\ UNCHANGED <<cluster, started, unreported, runtimeVars, mirror, holder, callVars, drops>>

-----------------------------------------------------------------------------
Next ==
    \/ \E x \in Proxy, c \in Client :
        \/ StartTask(x, c) \/ Closes(x, c) \/ Opens(x, c) \/ Fails(x, c)
        \/ Registers(x, c) \/ Drops(x, c) \/ Call(x, c) \/ AnswerWithoutSocket(x, c)
    \/ \E c \in Client : CallSettles(c) \/ ClientRegistered(c) \/ ClientRemoved(c)
    \/ LosesLeader \/ ObservesLeader
    \/ Startup
    \/ Reconcile

Spec == Init /\ [][Next]_vars

-----------------------------------------------------------------------------
TypeOK ==
    /\ cluster \in State /\ reconciles \in Seq(State) /\ started \in BOOLEAN
    /\ unreported \in BOOLEAN
    /\ active \in State \cup {None}
    /\ phase \in {"idle", "syncing", "closing", "leaving"}
    /\ current \in 0 .. Len(upstreamUrl)
    /\ upstreamUrl \in Seq(Primary) /\ Len(upstreamUrl) <= MaxProxies
    /\ closed \subseteq Proxy
    /\ version \in [Client -> 0 .. MaxVersion]
    /\ listed \subseteq Client
    /\ tasks \in [Proxy -> [Client -> Seq(Task)]]
    /\ mirror \in [Proxy -> [Client -> Mirror]]
    /\ holder \in [Primary -> [Client -> Proxy \cup {NoProxy}]]
    /\ serving \subseteq Proxy \X Client
    /\ orphaned \subseteq Client
    /\ crash \in {"none", "sync", "send"}
    /\ drops \in 0 .. MaxDrops
    /\ missed \subseteq Client
    /\ overtaken \subseteq Proxy \X Client

(* A mirror and its chain: the chain waits exactly while its socket opens   *)
(* or closes, only a mirror in the map is connected, and one that connects  *)
(* is for the task at the head of the chain.                               *)
Fits(m, t) ==
    /\ m.stage = "disconnecting" <=> m.link = "closing"
    /\ m.stage = "connecting" <=> m.link = "opening"
    /\ m.stage # "ready" => t # <<>>
    /\ m.link \in {"opening", "open"} => m.kept
    /\ m.link = "opening" =>
          Syncs(Head(t)) /\ m.version = Head(t).version /\ ~ m.heard

(* An invocation counts as served while the client and the socket it came   *)
(* from are there, and a proxy that is not made has nothing.               *)
CellsFit == \A x \in Proxy, c \in Client :
    /\ Fits(mirror[x][c], tasks[x][c])
    /\ <<x, c>> \in serving => mirror[x][c].link = "open" /\ c \in listed
    /\ x \notin DOMAIN upstreamUrl => mirror[x][c] = NoMirror /\ tasks[x][c] = <<>>

(* A primary knows mirrors that told it about themselves.                  *)
HoldersAreHeard == \A p \in Primary, c \in Client : holder[p][c] # NoProxy =>
    /\ holder[p][c] \in DOMAIN upstreamUrl
    /\ upstreamUrl[holder[p][c]] = p
    /\ mirror[holder[p][c]][c].heard
    /\ mirror[holder[p][c]][c].link \in {"open", "closing"}

(* Every proxy was made, is the current one or syncs, or was closed.       *)
ProxiesInOrder ==
    /\ closed \subseteq DOMAIN upstreamUrl
    /\ current \in closed <=> phase = "leaving"
    /\ phase # "idle" => reconciles # <<>>
    /\ IF phase = "syncing"
       THEN /\ Newest \in Proxy /\ Newest \notin closed
            /\ current # Newest
       ELSE current \in {NoProxy, Newest}
    /\ phase \in {"closing", "leaving"} => current # NoProxy
    /\ \A y \in DOMAIN upstreamUrl :
          y \in closed \/ y = current \/ (phase = "syncing" /\ y = Newest)

RoomIsKept == Len(upstreamUrl) + Cardinality(MayMakeProxy) <= MaxProxies

(* The state that the CLI ends with if nothing more is reported.           *)
FinalState == IF reconciles = <<>> THEN active ELSE reconciles[Len(reconciles)]

(* What is queued leads to the leader the cluster manager knows, and the    *)
(* proxy at hand is for the state the CLI works on.                        *)
StatesAreFollowed ==
    /\ started => FinalState \in State
    /\ started /\ ~ unreported => FinalState.leader = cluster.leader
    /\ unreported => cluster.leader # None
    /\ phase # "idle" => active = Head(reconciles)
    /\ phase = "idle" =>
          IF current = NoProxy
          THEN (active = None /\ (started => reconciles # <<>>)) \/ active.leader = None
          ELSE active \in State /\ upstreamUrl[current] = active.leader
    /\ phase \in {"syncing", "closing"} => upstreamUrl[Newest] = active.leader
    /\ phase = "leaving" => active.leader = None

(* A removal is queued, or is queued behind the task at the head.          *)
Removes(t) == \E i \in 1 .. Len(t) : ~ Syncs(t[i])
RemovesLater(t) == \E i \in 2 .. Len(t) : ~ Syncs(t[i])

(* The mirror will be removed, whatever happens to its socket.             *)
LetsGo(m, t) ==
    /\ m.link = "open" => Removes(t)
    /\ m.link = "opening" => RemovesLater(t)
    /\ m.link = "closing" => ~ Syncs(Head(t)) \/ RemovesLater(t)

ClosedLetGo == \A x \in closed, c \in Client :
    <<x, c>> \notin overtaken => LetsGo(mirror[x][c], tasks[x][c])

(* The proxy that is to have the clients the runtime lists.                *)
Tracked == CASE phase = "syncing" -> Newest
             [] phase = "leaving" -> NoProxy
             [] OTHER -> current

(* The version the mirror has when its chain is done, 0 without a socket.  *)
Outcome(m, t) ==
    IF t = <<>> THEN IF m.link = "open" THEN m.version ELSE 0
    ELSE IF Syncs(t[Len(t)]) THEN t[Len(t)].version ELSE 0

(* The mirror will not register at its primary again.                      *)
Inert(m, t, gone) ==
    /\ m.link # "opening"
    /\ m.link \in {"open", "closing"} => m.heard
    /\ m.link = "closing" => ~ Syncs(Head(t))
    /\ gone \/ \A i \in 1 .. Len(t) : ~ Syncs(t[i])

(* The tracked proxy ends with what the runtime has of a client, and no     *)
(* other proxy takes the id from it.                                       *)
Agrees(x, c) ==
    /\ Outcome(mirror[x][c], tasks[x][c]) = IF c \in listed THEN version[c] ELSE 0
    /\ tasks[x][c] = <<>> /\ mirror[x][c].link = "open" /\ mirror[x][c].heard
          => holder[upstreamUrl[x]][c] = x
    /\ \A y \in DOMAIN upstreamUrl : y # x /\ upstreamUrl[y] = upstreamUrl[x]
          => Inert(mirror[y][c], tasks[y][c], y \in closed)

TrackedAgrees ==
    /\ \A c \in listed : version[c] > 0
    /\ Tracked # NoProxy => \A c \in Client \ missed : Agrees(Tracked, c)

(* Sockets, chains, invocations and the primaries' registries fit together: *)
(* a chain waits exactly while its socket opens or closes, a primary knows  *)
(* mirrors that told it about themselves, every proxy but the one at hand   *)
(* was closed and will let its mirrors go, and what is queued leads to the  *)
(* leader and the clients there are (upstream-proxy.ts:41-115, 140-245,     *)
(* cli.ts:123-202).                                                        *)
MirrorInvariant ==
    /\ TypeOK
    /\ CellsFit
    /\ HoldersAreHeard
    /\ ProxiesInOrder
    /\ RoomIsKept
    /\ StatesAreFollowed
    /\ ClosedLetGo
    /\ TrackedAgrees

(* Nothing is under way.                                                   *)
AtRest ==
    /\ started /\ crash = "none" /\ reconciles = <<>>
    /\ \A c \in Client : Settled(c)

UpstreamIsLeader ==
    IF current = NoProxy THEN cluster.leader = None
    ELSE upstreamUrl[current] = cluster.leader /\ current \notin closed

(* The version of client c the current primary has, 0 if it has none.      *)
Copy(c) ==
    LET x == holder[upstreamUrl[current]][c] IN
    IF x = NoProxy THEN 0 ELSE mirror[x][c].version

(* Clients whose mirror at the current primary a closed proxy may hold.    *)
Contested == {c \in Client : \E x \in Proxy :
    <<x, c>> \in overtaken /\ upstreamUrl[x] = upstreamUrl[current]}

UpToDate(c) == Copy(c) = IF c \in listed THEN version[c] ELSE 0

(* At rest the primary's copy of every client is the one the runtime has,   *)
(* but for the clients of which an event fell into the time in which a new  *)
(* proxy was syncing, whose socket failed or was lost, or whose old mirror  *)
(* came back (cli.ts:178-192, upstream-proxy.ts:46-64, 196-203).           *)
MirrorsAgree ==
    AtRest /\ current # NoProxy =>
        \A c \in Client \ (missed \cup Contested) : UpToDate(c)

(* At rest the CLI mirrors to the leader its cluster manager knows, and to  *)
(* nobody when it knows none (cli.ts:127-190), unless the leader was        *)
(* observed in a new term of its own.                                      *)
FollowsCluster ==
    AtRest /\ ~ unreported => UpstreamIsLeader

(* At rest a closed proxy has no mirror left but one whose replacement was  *)
(* under way when it was closed (upstream-proxy.ts:43-49, 74-80).          *)
ClosedProxiesLetGo ==
    AtRest => \A x \in closed, c \in Client :
        mirror[x][c].link = "open" => <<x, c>> \in overtaken

(* A reconcile that is held up waits for a socket that is still opening or  *)
(* closing, whatever failed before: later leaders are not kept waiting for  *)
(* an event that never comes (cli.ts:184-192, upstream-proxy.ts:148-214).  *)
ReconcileWaitsForSocket ==
    Quiet /\ reconciles # <<>> =>
        \E x \in Proxy, c \in Client : mirror[x][c].link \in {"opening", "closing"}

(* At rest a secondary that knows a primary mirrors to it                  *)
(* (docs/server/deployment.md:28).                                         *)
FollowsPrimary == AtRest => UpstreamIsLeader
=============================================================================
