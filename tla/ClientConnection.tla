-------------------------- MODULE ClientConnection --------------------------
(* How a client of the JavaScript SDK stays connected: the calls connect(), *)
(* register() and disconnect() of MdpClient, the reconnect controller with  *)
(* its timer and its pending promise, and WebSocketClientTransport, whose   *)
(* listeners heed the current socket only.  The network and the server are  *)
(* the environment: a socket opens or fails, and is closed by the server at *)
(* any time, its close event coming later.                                 *)
EXTENDS Naturals, FiniteSets

CONSTANTS
    Socket,       \* bound: sockets that are not closed, at a time
    ConnectCall,  \* bound: calls of connect() that are not settled
    Run,          \* bound: runs of runReconnectAttempt() that are not over
    MaxAttempts,  \* reconnect.maxAttempts
    NoSocket      \* undefined

ASSUME ConnectionConstants ==
    /\ MaxAttempts \in Nat
    /\ NoSocket \notin Socket
    /\ ConnectCall \cap Run = {}
    /\ Socket \cap {"none", "auth", "reconnect"} = {}

VARIABLES
    mdp,          \* the flags of MdpClient
    controller,   \* MdpClientReconnectController
    sockets,      \* sockets[s]: what has become of a socket
    current,      \* the socket of the transport
    awaits,       \* awaits[f]: what a call of connect() or a run awaits
    serving,      \* an invocation is under way
    heard,        \* history: the socket that got the last registerClient
    unhandled,    \* history: rejections that nobody handles
    overlapped    \* history: connect() was called on a client that was not idle

connectionVars == <<mdp, controller, sockets, current, awaits, serving, heard, unhandled,
                    overlapped>>

Mdp == [connected : BOOLEAN, registered : BOOLEAN, restore : BOOLEAN]

(* timer is the attempt the armed timer will make, 0 without a timer.       *)
Controller ==
    [attempt : 0 .. MaxAttempts, timer : 0 .. MaxAttempts, reconnecting : BOOLEAN,
     stopped : BOOLEAN,    \* disconnectRequested
     pending : BOOLEAN]    \* pendingReconnect

Opener == ConnectCall \cup Run

(* authenticateTransport(), the open event of a socket, or pendingReconnect. *)
Awaited == {"none", "auth", "reconnect"} \cup Socket

ConnectionTypeOK ==
    /\ mdp \in Mdp
    /\ controller \in Controller
    /\ sockets \in [Socket -> {"connecting", "open", "closing", "closed"}]
    /\ current \in Socket \cup {NoSocket}
    /\ awaits \in [Opener -> Awaited]
    /\ serving \in BOOLEAN
    /\ heard \in Socket \cup {NoSocket}
    /\ unhandled \subseteq {"answer", "exhausted"}
    /\ overlapped \in BOOLEAN

ConnectionInit ==
    /\ mdp = [connected |-> FALSE, registered |-> FALSE, restore |-> FALSE]
    /\ controller = [attempt |-> 0, timer |-> 0, reconnecting |-> FALSE, stopped |-> FALSE,
                     pending |-> FALSE]
    /\ sockets = [s \in Socket |-> "closed"]
    /\ current = NoSocket
    /\ awaits = [f \in Opener |-> "none"]
    /\ serving = FALSE
    /\ heard = NoSocket
    /\ unhandled = {}
    /\ overlapped = FALSE

-----------------------------------------------------------------------------
IsOpen == current # NoSocket /\ sockets[current] = "open"

(* Mutant: nobody resolves pendingReconnect.                                *)
NeverSettled(aw) == aw

(* The connect() calls that await pendingReconnect, once it is settled.     *)
Settled(aw) == [f \in Opener |-> IF aw[f] = "reconnect" THEN "none" ELSE aw[f]]

(* Mutant: an attempt that fails after disconnect() is followed by another. *)
MayScheduleStopped(c) == ~c.reconnecting /\ c.timer = 0

(* scheduleReconnect() of a controller c; without an attempt left it        *)
(* rejects the pending promise.                                             *)
MaySchedule(c) == ~c.stopped /\ ~c.reconnecting /\ c.timer = 0

Scheduled(c) ==
    IF ~MaySchedule(c) THEN c
    ELSE IF c.attempt + 1 > MaxAttempts THEN [c EXCEPT !.pending = FALSE]
    ELSE [c EXCEPT !.timer = c.attempt + 1]

(* Mutant: the promise is made and no timer armed.                          *)
PromiseOnly(c) == [c EXCEPT !.pending = TRUE]

(* ensureReconnectScheduled() makes the promise before it schedules.  When  *)
(* that rejected it, it fails to read it.                                   *)
EnsureScheduled(c) == Scheduled([c EXCEPT !.pending = TRUE])

(* Mutant: an open socket is left alone.                                    *)
CloseConnecting(ss, s) ==
    [x \in Socket |-> IF x = s /\ ss[x] = "connecting" THEN "closing" ELSE ss[x]]

(* close() of a socket s of ss.                                             *)
CloseSocket(ss, s) ==
    [x \in Socket |-> IF x = s /\ ss[x] \in {"connecting", "open"} THEN "closing" ELSE ss[x]]

-----------------------------------------------------------------------------
(* The end of openTransport() and reconnectTransport() for f, with ss the   *)
(* sockets and s, open, the current one.                                    *)
Opened(f, ss, s) ==
    LET restores == ~controller.stopped /\ mdp.restore
        over == [controller EXCEPT !.reconnecting = FALSE]
    IN
    /\ mdp' = [mdp EXCEPT !.connected = TRUE, !.registered = @ \/ restores]
    /\ heard' = IF restores THEN s ELSE heard
    /\ sockets' = IF controller.stopped THEN CloseSocket(ss, s) ELSE ss
    /\ current' = s
    /\ \/ /\ f \in ConnectCall
          /\ awaits' = [awaits EXCEPT ![f] = "none"]
          /\ UNCHANGED controller
       \/ /\ f \in Run /\ controller.stopped
          /\ awaits' = [awaits EXCEPT ![f] = "none"]
          /\ controller' = over
       \/ /\ f \in Run /\ ~controller.stopped
          /\ awaits' = Settled([awaits EXCEPT ![f] = "none"])
          /\ controller' = [over EXCEPT !.attempt = 0, !.pending = FALSE]

(* The transport did not come up for f: connect() falls back to             *)
(* reconnecting and a run to the next attempt.                              *)
DidNotOpen(f) ==
    LET next == EnsureScheduled(controller)
        after == Scheduled([controller EXCEPT !.reconnecting = FALSE])
        over == [awaits EXCEPT ![f] = "none"]
    IN
    \/ /\ f \in ConnectCall /\ controller.stopped
       /\ awaits' = over
       /\ UNCHANGED <<controller, unhandled>>
    \/ /\ f \in ConnectCall /\ ~controller.stopped
       /\ controller' = next
       /\ awaits' = IF next.pending THEN [awaits EXCEPT ![f] = "reconnect"] ELSE Settled(over)
       /\ unhandled' = IF next.pending \/ controller.pending THEN unhandled
                                                             ELSE unhandled \cup {"exhausted"}
    \/ /\ f \in Run
       /\ controller' = after
       /\ awaits' = IF after.pending THEN over ELSE Settled(over)
       /\ UNCHANGED unhandled

Idle ==
    /\ ~mdp.connected /\ ~controller.pending
    /\ \A f \in Opener : awaits[f] = "none"

Connect(k) ==
    /\ awaits[k] = "none"
    /\ controller' = [controller EXCEPT !.stopped = FALSE, !.timer = 0]
    /\ awaits' = [awaits EXCEPT ![k] = "auth"]
    /\ overlapped' = (overlapped \/ ~Idle)
    /\ UNCHANGED <<mdp, sockets, current, serving, heard, unhandled>>

(* authenticateTransport() is done: transport.connect() keeps an open       *)
(* socket and puts a new one into the place of any other.                   *)
Authenticated(f) ==
    /\ awaits[f] = "auth"
    /\ \/ IsOpen /\ Opened(f, sockets, current)
       \/ \E s \in Socket :
          /\ ~IsOpen
          /\ sockets[s] = "closed" /\ \A g \in Opener : awaits[g] # s
          /\ sockets' = [sockets EXCEPT ![s] = "connecting"]
          /\ current' = s
          /\ awaits' = [awaits EXCEPT ![f] = s]
          /\ UNCHANGED <<mdp, controller, heard>>
    /\ UNCHANGED <<serving, unhandled, overlapped>>

AuthenticationFails(f) ==
    /\ awaits[f] = "auth"
    /\ DidNotOpen(f)
    /\ UNCHANGED <<mdp, sockets, current, serving, heard, overlapped>>

(* The open event.  That of a socket that was replaced is not heeded, and   *)
(* whoever awaits it goes on waiting.                                       *)
SocketOpens(s) ==
    /\ sockets[s] = "connecting"
    /\ \/ s = current /\ \E f \in Opener : awaits[f] = s /\ Opened(f, [sockets EXCEPT ![s] = "open"], s)
       \/ /\ s # current
          /\ sockets' = [sockets EXCEPT ![s] = "open"]
          /\ UNCHANGED <<mdp, controller, current, awaits, heard>>
    /\ UNCHANGED <<serving, unhandled, overlapped>>

(* The error event of a socket that does not open, or was closed before.    *)
SocketFails(s) ==
    /\ sockets[s] \in {"connecting", "closing"}
    /\ sockets' = [sockets EXCEPT ![s] = "closing"]
    /\ \/ s = current /\ \E f \in Opener : awaits[f] = s /\ DidNotOpen(f)
       \/ /\ s # current /\ sockets[s] = "connecting"
          /\ UNCHANGED <<controller, awaits, unhandled>>
    /\ UNCHANGED <<mdp, current, serving, heard, overlapped>>

(* The server, or the network, closes a socket; its close event follows.    *)
ServerCloses(s) ==
    /\ sockets[s] = "open"
    /\ sockets' = [sockets EXCEPT ![s] = "closing"]
    /\ UNCHANGED <<mdp, controller, current, awaits, serving, heard, unhandled, overlapped>>

(* The close event, after the error event if there is one:                  *)
(* handleTransportClose() and handleUnexpectedClose().                      *)
SocketClosed(s) ==
    LET next == IF mdp.connected /\ ~controller.stopped THEN EnsureScheduled(controller)
                                                        ELSE controller
        failed == mdp.connected /\ ~controller.stopped /\ ~next.pending
    IN
    /\ sockets[s] = "closing"
    /\ sockets' = [sockets EXCEPT ![s] = "closed"]
    /\ heard' = IF heard = s THEN NoSocket ELSE heard
    /\ \/ /\ s = current /\ \A f \in Opener : awaits[f] # s
          /\ current' = NoSocket
          /\ mdp' = [connected |-> FALSE, registered |-> FALSE,
                     restore |-> mdp.restore \/ (mdp.connected /\ mdp.registered)]
          /\ controller' = next
          /\ awaits' = IF failed THEN Settled(awaits) ELSE awaits
          /\ unhandled' = IF failed THEN unhandled \cup {"exhausted"} ELSE unhandled
       \/ /\ s # current
          /\ UNCHANGED <<current, mdp, controller, awaits, unhandled>>
    /\ UNCHANGED <<serving, overlapped>>

(* The timer of scheduleReconnect() and the start of runReconnectAttempt(). *)
TimerFires ==
    /\ controller.timer # 0
    /\ \/ /\ controller.reconnecting
          /\ controller' = [controller EXCEPT !.timer = 0]
          /\ UNCHANGED awaits
       \/ /\ ~controller.reconnecting
          /\ controller' = [controller EXCEPT !.timer = 0, !.reconnecting = TRUE,
                                              !.attempt = controller.timer]
          /\ \E r \in Run : awaits[r] = "none" /\ awaits' = [awaits EXCEPT ![r] = "auth"]
    /\ UNCHANGED <<mdp, sockets, current, serving, heard, unhandled, overlapped>>

Register ==
    /\ mdp.connected /\ IsOpen
    /\ mdp' = [mdp EXCEPT !.registered = TRUE]
    /\ heard' = current
    /\ UNCHANGED <<controller, sockets, current, awaits, serving, unhandled, overlapped>>

(* disconnect().  It gives up half-way when its unregister message finds    *)
(* the socket closing.                                                      *)
Disconnect ==
    /\ controller' = [controller EXCEPT !.stopped = TRUE, !.reconnecting = FALSE, !.timer = 0,
                                        !.pending = FALSE]
    /\ awaits' = Settled(awaits)
    /\ \/ /\ mdp.connected /\ mdp.registered /\ ~IsOpen
          /\ mdp' = [mdp EXCEPT !.restore = FALSE]
          /\ UNCHANGED sockets
       \/ /\ ~(mdp.connected /\ mdp.registered /\ ~IsOpen)
          /\ mdp' = [connected |-> FALSE, registered |-> FALSE, restore |-> FALSE]
          /\ sockets' = CloseSocket(sockets, current)
    /\ UNCHANGED <<current, serving, heard, unhandled, overlapped>>

(* handleInvocation(): the answer needs an open socket.                     *)
Invoked ==
    /\ IsOpen /\ heard = current /\ ~serving
    /\ serving' = TRUE
    /\ UNCHANGED <<mdp, controller, sockets, current, awaits, heard, unhandled, overlapped>>

Answers ==
    /\ serving
    /\ serving' = FALSE
    /\ unhandled' = IF IsOpen THEN unhandled ELSE unhandled \cup {"answer"}
    /\ UNCHANGED <<mdp, controller, sockets, current, awaits, heard, overlapped>>

-----------------------------------------------------------------------------
ConnectionNext ==
    \/ \E k \in ConnectCall : Connect(k)
    \/ \E f \in Opener : Authenticated(f) \/ AuthenticationFails(f)
    \/ \E s \in Socket : SocketOpens(s) \/ SocketFails(s) \/ ServerCloses(s) \/ SocketClosed(s)
    \/ TimerFires \/ Register \/ Disconnect \/ Invoked \/ Answers

(* Requests and sockets come to an end one way or the other, timers fire.   *)
(* Nothing ever has to succeed.                                             *)
ConnectionFairness ==
    /\ \A f \in Opener : WF_connectionVars(Authenticated(f) \/ AuthenticationFails(f))
    /\ \A s \in Socket : WF_connectionVars(SocketOpens(s) \/ SocketFails(s) \/ SocketClosed(s))
    /\ WF_connectionVars(TimerFires)

ConnectionSpec == ConnectionInit /\ [][ConnectionNext]_connectionVars

ConnectionFairSpec == ConnectionSpec /\ ConnectionFairness

-----------------------------------------------------------------------------
(* Properties.                                                              *)

Running == \E r \in Run : awaits[r] # "none"

(* disconnect() leaves nothing behind that would connect again, not even    *)
(* one that was called while an attempt was under way.                      *)
NothingAfterDisconnect ==
    controller.stopped => controller.timer = 0 /\ ~controller.pending /\ ~controller.reconnecting

(* A promised reconnect is under way: its timer is armed or its attempt     *)
(* runs.                                                                    *)
PromiseIsKept ==
    /\ controller.pending => controller.timer # 0 \/ controller.reconnecting
    /\ controller.timer # 0 => controller.pending /\ ~controller.reconnecting
    /\ controller.reconnecting => Running

(* The client believes to be registered on the socket it registered on.     *)
RegistrationIsHeard ==
    /\ mdp.registered => mdp.connected
    /\ mdp.connected => current # NoSocket
    /\ mdp.registered /\ IsOpen => heard = current

Opening(f) == awaits[f] \notin {"none", "reconnect"}

(* One connect() or run at most opens the transport, while the client is    *)
(* not connected and no timer armed; a run that was not told to stop is the *)
(* one that was promised.                                                   *)
OneOpener ==
    /\ \A f, g \in Opener : Opening(f) /\ Opening(g) => f = g
    /\ \A f \in Opener : Opening(f) => ~mdp.connected /\ controller.timer = 0
    /\ \A k \in ConnectCall : Opening(k) => ~controller.pending
    /\ \A r \in Run : Opening(r) => controller.stopped \/ (controller.reconnecting /\ controller.pending)
    /\ controller.pending => ~mdp.connected

RunsDoNotWait == \A r \in Run : awaits[r] # "reconnect"

(* The last two parts make it inductive.                                    *)
ConnectionInvariant ==
    /\ ConnectionTypeOK
    /\ NothingAfterDisconnect
    /\ ~overlapped => PromiseIsKept /\ RegistrationIsHeard /\ OneOpener
    /\ RunsDoNotWait

(* connect() comes to an end.                                               *)
ConnectSettles ==
    \A k \in ConnectCall : []<>(awaits[k] = "none" \/ overlapped)

(* disconnect() lets go of every socket, also of one that a pending attempt *)
(* opens after it.                                                          *)
SocketsAreLetGo ==
    []<>(~controller.stopped \/ overlapped \/ \A s \in Socket : sockets[s] = "closed")

(* A client that lost its connection registers again, unless it is told to  *)
(* stop or has used up its attempts.                                        *)
RegistersAgain ==
    (controller.pending /\ mdp.restore)
        ~> (mdp.registered \/ controller.stopped \/ overlapped \/ controller.attempt = MaxAttempts)

(* The three of them.                                                       *)
ConnectionsComeToAnEnd == ConnectSettles /\ SocketsAreLetGo /\ RegistersAgain
=============================================================================
