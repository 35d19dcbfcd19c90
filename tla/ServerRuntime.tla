--------------------------- MODULE ServerRuntime ---------------------------
(* The server's side of its clients: MdpServerRuntime (mdp-server.ts), the  *)
(* sessions it keeps (client-session.ts), the invocation router             *)
(* (invocation-router.ts) and the way websocket and HTTP-loop connections   *)
(* drive them (transport-server.ts).  Path catalogs are abstracted to       *)
(* whether an invocation finds its path, authorization to whether it        *)
(* throws, the clock to the sessions not seen for a heartbeat timeout.      *)
EXTENDS Naturals

CONSTANTS
    Session,    \* connections; each is opened at most once (randomUUID)
    Client,     \* client ids
    Request,    \* invocations; each is made at most once (randomUUID)
    None,       \* undefined
    HttpLoop,   \* the connections made over the HTTP loop; the others are websockets
    Lingering   \* the connections that still deliver what was on its way when
                \* the server closed them: frames read while the websocket is
                \* closing, HTTP sends whose body is being read

ASSUME ConstantsAssumption ==
    /\ HttpLoop \subseteq Session
    /\ Lingering \subseteq Session
    /\ None \notin Session \cup Client

VARIABLES
    socket,     \* socket[s]: the transport; "silent" has lost its peer without
                \* the server noticing, "closing" has been closed by the server
    connected,  \* sessionsByConnectionId
    clientId,   \* clientId[s]: id of the descriptor the session holds, or None
    quiet,      \* sessions whose lastSeenAt is older than heartbeatTimeoutMs
    registered, \* sessionsByClientId
    pending,    \* pending[r]: clientId of the router's entry, whose timer runs, or None
    callee,     \* callee[r]: the session that was sent callClient for r, or None
    outcome,    \* outcome[r]: the promise of the invocation
    announced,  \* clients the listeners know, from onClientRegistered and onClientRemoved
    closed      \* close() has run

sessionVars == <<socket, connected, clientId, quiet>>
callVars == <<pending, callee, outcome>>
vars == <<sessionVars, registered, callVars, announced, closed>>

IsOpen(s) == socket[s] \in {"open", "silent"}

(* The server can be handed a message of this connection.                  *)
Speaks(s) == socket[s] = "open" \/ (socket[s] = "closing" /\ s \in Lingering)

-----------------------------------------------------------------------------
(* Steps that the handlers are made of.                                    *)

CloseSockets(S) ==
    socket' = [s \in Session |-> IF s \in S /\ IsOpen(s) THEN "closing" ELSE socket[s]]

(* Every invocation that waits for one of these clients fails.             *)
RejectClient(C) ==
    /\ pending' = [r \in Request |-> IF pending[r] \in C THEN None ELSE pending[r]]
    /\ outcome' = [r \in Request |-> IF pending[r] \in C THEN "rejected" ELSE outcome[r]]
    /\ UNCHANGED callee

(* The clients these sessions are registered for.                          *)
Held(S) == {c \in Client : registered[c] \in S /\ clientId[registered[c]] = c}

SeesAll(S) == quiet' = quiet \ S

DisconnectQuietly(S) ==      \* mutant: the waiting invocations are left to their timers
    /\ registered' = [c \in Client |-> IF c \in Held(S) THEN None ELSE registered[c]]
    /\ announced' = announced \ {clientId[s] : s \in S}
    /\ connected' = connected \ S
    /\ UNCHANGED callVars

(* disconnectSession for each of these sessions.  The descriptor stays on  *)
(* the session, and the listeners hear of its removal in any case.         *)
Disconnect(S) ==
    /\ registered' = [c \in Client |-> IF c \in Held(S) THEN None ELSE registered[c]]
    /\ RejectClient(Held(S))
    /\ announced' = announced \ {clientId[s] : s \in S}
    /\ connected' = connected \ S

-----------------------------------------------------------------------------
Init ==
    /\ socket = [s \in Session |-> "none"]
    /\ connected = {}
    /\ clientId = [s \in Session |-> None]
    /\ quiet = {}
    /\ registered = [c \in Client |-> None]
    /\ pending = [r \in Request |-> None]
    /\ callee = [r \in Request |-> None]
    /\ outcome = [r \in Request |-> "idle"]
    /\ announced = {}
    /\ closed = FALSE

(* An upgrade, or a connect of the HTTP loop, which may have been awaiting *)
(* its body when the server closed.                                        *)
Open(s) ==
    /\ socket[s] = "none"
    /\ closed => s \in HttpLoop
    /\ socket' = [socket EXCEPT ![s] = "open"]
    /\ connected' = connected \cup {s}
    /\ UNCHANGED <<clientId, quiet, registered, callVars, announced, closed>>

RegisterOver(s, c) ==        \* mutant: the replaced session is not disconnected
    /\ Speaks(s)
    /\ LET left == {clientId[s]} \ {c}
           freed == {d \in left : d \in Client /\ registered[d] = s}
       IN  /\ registered' = [d \in Client |->
                 IF d = c THEN s ELSE IF d \in freed THEN None ELSE registered[d]]
           /\ RejectClient(freed)
           /\ announced' = (announced \ left) \cup {c}
           /\ CloseSockets({registered[c]} \ {s})
    /\ clientId' = [clientId EXCEPT ![s] = c]
    /\ SeesAll({s})
    /\ UNCHANGED <<connected, closed>>

(* registerClient: the session gives up the client it was before, and the  *)
(* session that was registered for this one is closed and, unless it has   *)
(* been before, disconnected.                                              *)
RegisterClient(s, c) ==
    /\ Speaks(s)
    /\ LET left == {clientId[s]} \ {c}
           freed == {d \in left : d \in Client /\ registered[d] = s}
           rival == {registered[c]} \ {s}
           ended == rival \cap connected
           lost == freed \cup Held(ended)
       IN  /\ registered' = [d \in Client |->
                 IF d = c THEN s ELSE IF d \in lost THEN None ELSE registered[d]]
           /\ RejectClient(lost)
           /\ announced' = (announced \ (left \cup {clientId[t] : t \in ended})) \cup {c}
           /\ connected' = connected \ ended
           /\ CloseSockets(rival)
    /\ clientId' = [clientId EXCEPT ![s] = c]
    /\ SeesAll({s})
    /\ UNCHANGED closed

UnregisterSilently(s) ==     \* mutant: the invocations waiting for it are not rejected
    /\ Speaks(s)
    /\ clientId[s] # None
    /\ registered' = [c \in Client |-> IF c \in Held({s}) THEN None ELSE registered[c]]
    /\ announced' = announced \ {clientId[s]}
    /\ clientId' = [clientId EXCEPT ![s] = None]
    /\ SeesAll({s})
    /\ UNCHANGED <<socket, connected, callVars, closed>>

UnregisterUnheard(s) ==      \* mutant: the listeners are not told
    /\ Speaks(s)
    /\ clientId[s] # None
    /\ registered' = [c \in Client |-> IF c \in Held({s}) THEN None ELSE registered[c]]
    /\ RejectClient(Held({s}))
    /\ clientId' = [clientId EXCEPT ![s] = None]
    /\ SeesAll({s})
    /\ UNCHANGED <<socket, connected, announced, closed>>

(* unregisterClient, for the client the session holds.                     *)
UnregisterClient(s) ==
    /\ Speaks(s)
    /\ clientId[s] # None
    /\ registered' = [c \in Client |-> IF c \in Held({s}) THEN None ELSE registered[c]]
    /\ RejectClient(Held({s}))
    /\ announced' = announced \ {clientId[s]}
    /\ clientId' = [clientId EXCEPT ![s] = None]
    /\ SeesAll({s})
    /\ UNCHANGED <<socket, connected, closed>>

UpdateUnregistered(s) ==     \* mutant: the session need not hold a client
    /\ Speaks(s)
    /\ registered' = [registered EXCEPT ![clientId[s]] = s]
    /\ announced' = announced \cup {clientId[s]}
    /\ SeesAll({s})
    /\ UNCHANGED <<socket, connected, clientId, callVars, closed>>

(* updateClientCatalog registers the session again for the client it holds,*)
(* whoever is registered for it by now.                                    *)
UpdateClientCatalog(s) ==
    /\ Speaks(s)
    /\ clientId[s] # None
    /\ registered' = [registered EXCEPT ![clientId[s]] = s]
    /\ announced' = announced \cup {clientId[s]}
    /\ SeesAll({s})
    /\ UNCHANGED <<socket, connected, clientId, callVars, closed>>

(* A registration that is not authorized, a catalog of another client: the *)
(* handler throws.  A websocket is closed, and disconnected when its close *)
(* event comes; an HTTP loop is disconnected at once.                      *)
RefuseMessage(s) ==
    /\ Speaks(s)
    /\ SeesAll({s})
    /\ CloseSockets({s})
    /\ Disconnect({s} \cap connected \cap HttpLoop)
    /\ UNCHANGED <<clientId, closed>>

(* A frame that is not a client message closes a websocket; the same body  *)
(* of an HTTP send is only answered with an error.                         *)
MalformedFrame(s) ==
    /\ socket[s] = "open" /\ s \notin HttpLoop
    /\ CloseSockets({s})
    /\ UNCHANGED <<connected, clientId, quiet, registered, callVars, announced, closed>>

(* ping, pong, an unregister for another client, a poll.  The pong of a    *)
(* ping on a closed transport throws, which closes it again.               *)
Touch(s) ==
    /\ Speaks(s)
    /\ SeesAll({s})
    /\ UNCHANGED <<socket, connected, clientId, registered, callVars, announced, closed>>

-----------------------------------------------------------------------------
(* Invocations.                                                            *)

(* invoke finds no session, no path or no permission, or the transport is  *)
(* no longer open.                                                         *)
RefuseInvocation(r) ==
    /\ outcome[r] = "idle"
    /\ outcome' = [outcome EXCEPT ![r] = "rejected"]
    /\ UNCHANGED <<sessionVars, registered, pending, callee, announced, closed>>

Invoke(r, c) ==
    /\ outcome[r] = "idle"
    /\ registered[c] # None
    /\ IsOpen(registered[c])
    /\ pending' = [pending EXCEPT ![r] = c]
    /\ callee' = [callee EXCEPT ![r] = registered[c]]
    /\ outcome' = [outcome EXCEPT ![r] = "waiting"]
    /\ UNCHANGED <<sessionVars, registered, announced, closed>>

SettleAgain(s, r) ==         \* mutant: an answer is taken without looking for its entry
    /\ Speaks(s)
    /\ callee[r] = s
    /\ pending' = [pending EXCEPT ![r] = None]
    /\ outcome' = [outcome EXCEPT ![r] = "result"]
    /\ SeesAll({s})
    /\ UNCHANGED <<socket, connected, clientId, registered, callee, announced, closed>>

(* callClientResult; the answer to an invocation that has been settled is  *)
(* dropped.                                                                *)
CallClientResult(s, r) ==
    /\ Speaks(s)
    /\ callee[r] = s
    /\ pending' = [pending EXCEPT ![r] = None]
    /\ outcome' = IF pending[r] = None THEN outcome ELSE [outcome EXCEPT ![r] = "result"]
    /\ SeesAll({s})
    /\ UNCHANGED <<socket, connected, clientId, registered, callee, announced, closed>>

TimeOutOpenOnly(r) ==        \* mutant: only an invocation sent to a live peer times out
    /\ pending[r] # None
    /\ socket[callee[r]] = "open"
    /\ pending' = [pending EXCEPT ![r] = None]
    /\ outcome' = [outcome EXCEPT ![r] = "rejected"]
    /\ UNCHANGED <<sessionVars, registered, callee, announced, closed>>

(* The timer of the entry fires.                                           *)
TimeOutInvocation(r) ==
    /\ pending[r] # None
    /\ pending' = [pending EXCEPT ![r] = None]
    /\ outcome' = [outcome EXCEPT ![r] = "rejected"]
    /\ UNCHANGED <<sessionVars, registered, callee, announced, closed>>

-----------------------------------------------------------------------------
(* Time, connections and the end of the server.                            *)

(* heartbeatTimeoutMs has passed since the session was last seen.          *)
TurnQuiet(s) ==
    /\ s \in connected \ quiet
    /\ quiet' = quiet \cup {s}
    /\ UNCHANGED <<socket, connected, clientId, registered, callVars, announced, closed>>

Overdue == {s \in connected : s \in quiet \/ ~IsOpen(s)}

HeartbeatPingsOnly ==        \* mutant: a session that can be sent a ping is not overdue
    LET failing == {s \in connected : ~IsOpen(s)}
    IN  /\ ~closed
        /\ failing # {}
        /\ Disconnect(failing)
        /\ CloseSockets(failing)
        /\ UNCHANGED <<clientId, quiet, closed>>

(* The heartbeat timer: sessions not seen for too long, and those that     *)
(* cannot be sent a ping, are disconnected.                                *)
Heartbeat ==
    /\ ~closed
    /\ Overdue # {}
    /\ Disconnect(Overdue)
    /\ CloseSockets(Overdue)
    /\ UNCHANGED <<clientId, quiet, closed>>

(* The peer is gone and the server does not notice.                        *)
Vanish(s) ==
    /\ socket[s] = "open"
    /\ socket' = [socket EXCEPT ![s] = "silent"]
    /\ UNCHANGED <<connected, clientId, quiet, registered, callVars, announced, closed>>

(* The close or error event of a websocket; for an HTTP loop that has been *)
(* closed, the end of its last request.                                    *)
LoseConnection(s) ==
    /\ socket[s] = "closing" \/ (s \notin HttpLoop /\ IsOpen(s))
    /\ socket' = [socket EXCEPT ![s] = "gone"]
    /\ Disconnect({s} \cap connected)
    /\ UNCHANGED <<clientId, quiet, closed>>

(* The disconnect request of the HTTP loop.                                *)
DisconnectHttpLoop(s) ==
    /\ s \in HttpLoop /\ socket[s] = "open"
    /\ Disconnect({s} \cap connected)
    /\ CloseSockets({s})
    /\ UNCHANGED <<clientId, quiet, closed>>

(* close(): the listeners are not told, and a session is taken to be       *)
(* registered for the client it holds.                                     *)
Close ==
    /\ ~closed
    /\ closed' = TRUE
    /\ RejectClient({clientId[s] : s \in connected} \ {None})
    /\ CloseSockets(connected)
    /\ connected' = {}
    /\ registered' = [c \in Client |-> None]
    /\ UNCHANGED <<clientId, quiet, announced>>

Next ==
    \/ \E s \in Session :
        \/ Open(s) \/ UnregisterClient(s) \/ UpdateClientCatalog(s)
        \/ RefuseMessage(s) \/ MalformedFrame(s) \/ Touch(s)
        \/ TurnQuiet(s) \/ Vanish(s) \/ LoseConnection(s) \/ DisconnectHttpLoop(s)
        \/ \E c \in Client : RegisterClient(s, c)
        \/ \E r \in Request : CallClientResult(s, r)
    \/ \E r \in Request :
        \/ RefuseInvocation(r) \/ TimeOutInvocation(r)
        \/ \E c \in Client : Invoke(r, c)
    \/ Heartbeat
    \/ Close

Spec == Init /\ [][Next]_vars

(* Timers fire and time passes; nothing is assumed of clients, nor of the  *)
(* network.                                                                *)
Fairness ==
    /\ \A r \in Request : WF_vars(TimeOutInvocation(r))
    /\ \A s \in Session : WF_vars(TurnQuiet(s))
    /\ WF_vars(Heartbeat)

FairSpec == Spec /\ Fairness

-----------------------------------------------------------------------------
(* Properties.                                                             *)

TypeOK ==
    /\ socket \in [Session -> {"none", "open", "silent", "closing", "gone"}]
    /\ connected \subseteq Session
    /\ clientId \in [Session -> Client \cup {None}]
    /\ quiet \subseteq Session
    /\ registered \in [Client -> Session \cup {None}]
    /\ pending \in [Request -> Client \cup {None}]
    /\ callee \in [Request -> Session \cup {None}]
    /\ outcome \in [Request -> {"idle", "waiting", "result", "rejected"}]
    /\ announced \subseteq Client
    /\ closed \in BOOLEAN

(* A client is routed to a session that has registered for it and has not  *)
(* moved on to another client since: no invocation reaches the wrong one,  *)
(* however late registrations, updates and closes come.                    *)
RoutesAgree ==
    \A c \in Client : registered[c] # None => clientId[registered[c]] = c

(* Whoever waits for an answer has an entry, with a timer, in the router,  *)
(* and was sent to a session; nobody else has an entry.                    *)
WaitingIsPending ==
    \A r \in Request : /\ outcome[r] = "waiting" <=> pending[r] # None
                       /\ outcome[r] = "waiting" => callee[r] # None

(* As long as the server runs, no invocation waits for a client that is    *)
(* not registered: every way in which a client goes rejects its callers.   *)
PendingIsRegistered ==
    ~ closed => \A r \in Request : pending[r] # None => registered[pending[r]] # None

(* A promise is settled once: a late answer, a timer and a disconnect      *)
(* that race for an invocation do not settle it twice.                     *)
SettledOnce ==
    [][\A r \in Request : outcome[r] \in {"result", "rejected"}
                            => outcome'[r] = outcome[r]]_vars

(* Only a connection that still delivers after it was closed can be        *)
(* registered without being connected, out of the heartbeat's reach.       *)
RegisteredIsConnected ==
    \A c \in Client : registered[c] \notin Lingering \cup {None}
                        => registered[c] \in connected

(* If connections fall silent when they are closed: the registered         *)
(* clients, those the connected sessions hold and those the listeners have *)
(* been told of are the same.                                              *)
RegistryAgrees ==
    Lingering = {} =>
        /\ \A s \in connected : clientId[s] # None => registered[clientId[s]] = s
        /\ ~ closed => announced = {c \in Client : registered[c] # None}

(* If connections fall silent when they are closed, an invocation waits    *)
(* for the very session it was sent to, and that one is still registered.  *)
CallsFollowRegistration ==
    Lingering = {} =>
        \A r \in Request : pending[r] # None => registered[pending[r]] = callee[r]

(* Every invocation ends, whatever its client does.                        *)
InvocationsEnd ==
    \A r \in Request : outcome[r] = "waiting" ~> outcome[r] # "waiting"

(* "heartbeat-driven disconnect cleanup": a client whose connection has    *)
(* lost its peer or was closed does not stay registered.                   *)
DeadClientsAreRemoved ==
    \A c \in Client, s \in Session :
        registered[c] = s /\ socket[s] \in {"silent", "closing", "gone"}
            ~> registered[c] # s \/ closed

(* A transport that is open belongs to a session that is connected, and a  *)
(* session that has not been created yet holds no client.                  *)
OpenIsConnected ==
    \A s \in Session : /\ IsOpen(s) => s \in connected
                       /\ socket[s] = "none" => clientId[s] = None

(* Registrations, connections and invocations fit together.                *)
RuntimeInvariant ==
    /\ TypeOK /\ OpenIsConnected /\ RoutesAgree /\ RegisteredIsConnected
    /\ WaitingIsPending /\ PendingIsRegistered

(* What callers are promised: their call fails at once when its client     *)
(* goes or changes hands.                                                  *)
IP == INSTANCE InvocationPromise
        WITH owner <- registered, waiting <- pending
ImplementsInvocationPromise == IP!Init /\ [][IP!Next]_(IP!vars)
=============================================================================
