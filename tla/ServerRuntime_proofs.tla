------------------------ MODULE ServerRuntime_proofs ------------------------
(* Theorems about ServerRuntime, for every set of connections, clients and  *)
(* invocations, whichever of the connections linger.                       *)
EXTENDS ServerRuntime, TLAPS

USE ConstantsAssumption

(* The invariant holds when the runtime is constructed.                    *)
LEMMA InitEstablishes == Init => RuntimeInvariant
BY DEF Init, RuntimeInvariant, TypeOK, OpenIsConnected, IsOpen, RoutesAgree,
       RegisteredIsConnected, WaitingIsPending, PendingIsRegistered

(* The two tables of the router change together when clients are rejected. *)
LEMMA RejectionSettles ==
    ASSUME RuntimeInvariant, NEW C, RejectClient(C)
    PROVE  /\ pending' \in [Request -> Client \cup {None}]
           /\ callee' \in [Request -> Session \cup {None}]
           /\ outcome' \in [Request -> {"idle", "waiting", "result", "rejected"}]
           /\ WaitingIsPending'
           /\ \A r \in Request : pending'[r] # None => pending'[r] = pending[r] /\ pending[r] \notin C
BY DEF RuntimeInvariant, TypeOK, WaitingIsPending, RejectClient

(* disconnectSession drops a session from both tables, and its callers with it. *)
LEMMA DisconnectPreserves ==
    ASSUME RuntimeInvariant, NEW S \in SUBSET connected,
           Disconnect(S), UNCHANGED <<clientId, closed>>, quiet' \in SUBSET Session,
           socket' \in [Session -> {"none", "open", "silent", "closing", "gone"}],
           \A s \in Session : /\ IsOpen(s)' => IsOpen(s) /\ s \notin S
                              /\ socket'[s] = "none" => socket[s] = "none"
    PROVE  RuntimeInvariant'
<1>1. /\ pending' \in [Request -> Client \cup {None}]
      /\ callee' \in [Request -> Session \cup {None}]
      /\ outcome' \in [Request -> {"idle", "waiting", "result", "rejected"}]
      /\ WaitingIsPending'
      /\ \A r \in Request : pending'[r] # None
              => pending'[r] = pending[r] /\ pending[r] \notin Held(S)
  BY RejectionSettles DEF Disconnect
<1>2. TypeOK'
  BY <1>1 DEF RuntimeInvariant, TypeOK, Disconnect
<1>3. OpenIsConnected'
  BY DEF RuntimeInvariant, OpenIsConnected, Disconnect
<1>4. RoutesAgree'
  BY DEF RuntimeInvariant, TypeOK, RoutesAgree, Disconnect
<1>5. RegisteredIsConnected'
  BY DEF RuntimeInvariant, TypeOK, RoutesAgree, RegisteredIsConnected, Disconnect, Held
<1>6. PendingIsRegistered'
  BY <1>1 DEF RuntimeInvariant, TypeOK, PendingIsRegistered, Disconnect
<1> QED
  BY <1>1, <1>2, <1>3, <1>4, <1>5, <1>6 DEF RuntimeInvariant

(* A new session is connected and holds no client.                         *)
LEMMA OpenPreserves ==
    ASSUME RuntimeInvariant, NEW s \in Session, Open(s)
    PROVE  RuntimeInvariant'
BY DEF RuntimeInvariant, TypeOK, OpenIsConnected, IsOpen, RoutesAgree,
       RegisteredIsConnected, WaitingIsPending, PendingIsRegistered, Open, callVars

(* registerClient keeps one session per client and no caller of a former one. *)
LEMMA RegisterClientPreserves ==
    ASSUME RuntimeInvariant, NEW s \in Session, NEW c \in Client, RegisterClient(s, c)
    PROVE  RuntimeInvariant'
<1> DEFINE left == {clientId[s]} \ {c}
           freed == {d \in left : d \in Client /\ registered[d] = s}
           rival == {registered[c]} \ {s}
           ended == rival \cap connected
           lost == freed \cup Held(ended)
<1>1. /\ registered' = [d \in Client |->
             IF d = c THEN s ELSE IF d \in lost THEN None ELSE registered[d]]
      /\ RejectClient(lost)
      /\ announced' = (announced \ (left \cup {clientId[t] : t \in ended})) \cup {c}
      /\ connected' = connected \ ended
      /\ CloseSockets(rival)
      /\ clientId' = [clientId EXCEPT ![s] = c]
      /\ SeesAll({s})
      /\ closed' = closed
      /\ Speaks(s)
  BY DEF RegisterClient
<1>2. /\ pending' \in [Request -> Client \cup {None}]
      /\ callee' \in [Request -> Session \cup {None}]
      /\ outcome' \in [Request -> {"idle", "waiting", "result", "rejected"}]
      /\ WaitingIsPending'
      /\ \A r \in Request : pending'[r] # None
              => pending'[r] = pending[r] /\ pending[r] \notin lost
  BY <1>1, RejectionSettles
<1>3. TypeOK'
  <2> HIDE DEF lost, left, ended, rival
  <2> QED BY <1>1, <1>2 DEF RuntimeInvariant, TypeOK, CloseSockets, IsOpen, SeesAll
<1>4. OpenIsConnected'
  BY <1>1 DEF RuntimeInvariant, TypeOK, OpenIsConnected, IsOpen, CloseSockets, Speaks
<1>5. RoutesAgree'
  BY <1>1 DEF RuntimeInvariant, TypeOK, RoutesAgree
<1>6. RegisteredIsConnected'
  BY <1>1 DEF RuntimeInvariant, TypeOK, RoutesAgree, RegisteredIsConnected, Held,
              OpenIsConnected, IsOpen, Speaks
<1>7. PendingIsRegistered'
  <2> HIDE DEF lost, left, ended, rival
  <2> QED BY <1>1, <1>2 DEF RuntimeInvariant, TypeOK, PendingIsRegistered
<1> QED
  BY <1>2, <1>3, <1>4, <1>5, <1>6, <1>7 DEF RuntimeInvariant

(* unregisterClient rejects those who wait for the client it removes.      *)
LEMMA UnregisterClientPreserves ==
    ASSUME RuntimeInvariant, NEW s \in Session, UnregisterClient(s)
    PROVE  RuntimeInvariant'
<1>1. /\ pending' \in [Request -> Client \cup {None}]
      /\ callee' \in [Request -> Session \cup {None}]
      /\ outcome' \in [Request -> {"idle", "waiting", "result", "rejected"}]
      /\ WaitingIsPending'
      /\ \A r \in Request : pending'[r] # None
              => pending'[r] = pending[r] /\ pending[r] \notin Held({s})
  BY RejectionSettles DEF UnregisterClient
<1>2. TypeOK'
  BY <1>1 DEF RuntimeInvariant, TypeOK, UnregisterClient, SeesAll
<1>3. OpenIsConnected'
  BY DEF RuntimeInvariant, TypeOK, OpenIsConnected, IsOpen, UnregisterClient
<1>4. RoutesAgree' /\ RegisteredIsConnected'
  BY DEF RuntimeInvariant, TypeOK, RoutesAgree, RegisteredIsConnected, UnregisterClient, Held
<1>5. PendingIsRegistered'
  BY <1>1 DEF RuntimeInvariant, TypeOK, PendingIsRegistered, UnregisterClient
<1> QED
  BY <1>1, <1>2, <1>3, <1>4, <1>5 DEF RuntimeInvariant

(* A catalog update routes the client to a session that holds it.          *)
LEMMA UpdateClientCatalogPreserves ==
    ASSUME RuntimeInvariant, NEW s \in Session, UpdateClientCatalog(s)
    PROVE  RuntimeInvariant'
BY DEF RuntimeInvariant, TypeOK, OpenIsConnected, IsOpen, RoutesAgree,
       RegisteredIsConnected, WaitingIsPending, PendingIsRegistered,
       UpdateClientCatalog, Speaks, SeesAll, callVars

(* A handler that throws closes or disconnects only its own session.       *)
LEMMA RefuseMessagePreserves ==
    ASSUME RuntimeInvariant, NEW s \in Session, RefuseMessage(s)
    PROVE  RuntimeInvariant'
<1>1. socket' \in [Session -> {"none", "open", "silent", "closing", "gone"}]
  BY DEF RuntimeInvariant, TypeOK, RefuseMessage, CloseSockets
<1>2. \A t \in Session : /\ IsOpen(t)' => IsOpen(t) /\ t \notin {s}
                         /\ socket'[t] = "none" => socket[t] = "none"
  BY DEF RefuseMessage, CloseSockets, IsOpen
<1>3. quiet' \in SUBSET Session
  BY DEF RuntimeInvariant, TypeOK, RefuseMessage, SeesAll
<1> QED
  BY <1>1, <1>2, <1>3, DisconnectPreserves DEF RefuseMessage

(* The heartbeat disconnects connected sessions and closes their transports. *)
LEMMA HeartbeatPreserves ==
    ASSUME RuntimeInvariant, Heartbeat
    PROVE  RuntimeInvariant'
<1>1. /\ Overdue \in SUBSET connected
      /\ socket' \in [Session -> {"none", "open", "silent", "closing", "gone"}]
      /\ quiet' \in SUBSET Session
  BY DEF RuntimeInvariant, TypeOK, Heartbeat, CloseSockets, Overdue
<1>2. \A t \in Session : /\ IsOpen(t)' => IsOpen(t) /\ t \notin Overdue
                         /\ socket'[t] = "none" => socket[t] = "none"
  BY DEF Heartbeat, CloseSockets, IsOpen
<1> QED
  BY <1>1, <1>2, DisconnectPreserves DEF Heartbeat

(* The end of a connection disconnects its session, if it still is one.    *)
LEMMA LoseConnectionPreserves ==
    ASSUME RuntimeInvariant, NEW s \in Session, LoseConnection(s)
    PROVE  RuntimeInvariant'
<1>1. /\ socket' \in [Session -> {"none", "open", "silent", "closing", "gone"}]
      /\ quiet' \in SUBSET Session
  BY DEF RuntimeInvariant, TypeOK, LoseConnection
<1>2. \A t \in Session : /\ IsOpen(t)' => IsOpen(t) /\ t \notin {s}
                         /\ socket'[t] = "none" => socket[t] = "none"
  BY DEF RuntimeInvariant, TypeOK, LoseConnection, IsOpen
<1> QED
  BY <1>1, <1>2, DisconnectPreserves DEF LoseConnection

(* So does the disconnect request of an HTTP loop.                         *)
LEMMA DisconnectHttpLoopPreserves ==
    ASSUME RuntimeInvariant, NEW s \in Session, DisconnectHttpLoop(s)
    PROVE  RuntimeInvariant'
<1>1. /\ socket' \in [Session -> {"none", "open", "silent", "closing", "gone"}]
      /\ quiet' \in SUBSET Session
  BY DEF RuntimeInvariant, TypeOK, DisconnectHttpLoop, CloseSockets
<1>2. \A t \in Session : /\ IsOpen(t)' => IsOpen(t) /\ t \notin {s}
                         /\ socket'[t] = "none" => socket[t] = "none"
  BY DEF DisconnectHttpLoop, CloseSockets, IsOpen
<1> QED
  BY <1>1, <1>2, DisconnectPreserves DEF DisconnectHttpLoop

(* Steps that touch nothing but a transport or a last-seen time.           *)
LEMMA SocketStepPreserves ==
    ASSUME RuntimeInvariant, NEW s \in Session,
           MalformedFrame(s) \/ Touch(s) \/ TurnQuiet(s) \/ Vanish(s)
    PROVE  RuntimeInvariant'
BY DEF RuntimeInvariant, TypeOK, OpenIsConnected, IsOpen, RoutesAgree,
       RegisteredIsConnected, WaitingIsPending, PendingIsRegistered, MalformedFrame,
       CloseSockets, Touch, SeesAll, TurnQuiet, Vanish, callVars

(* Steps of one invocation change its entry and its promise together.      *)
LEMMA InvocationStepPreserves ==
    ASSUME RuntimeInvariant, NEW r \in Request,
           \/ RefuseInvocation(r) \/ TimeOutInvocation(r)
           \/ \E c \in Client : Invoke(r, c)
           \/ \E s \in Session : CallClientResult(s, r)
    PROVE  RuntimeInvariant'
<1>1. TypeOK'
  BY DEF RuntimeInvariant, TypeOK, RefuseInvocation, TimeOutInvocation, Invoke,
         CallClientResult, SeesAll, sessionVars
<1>2. OpenIsConnected' /\ RoutesAgree' /\ RegisteredIsConnected'
  BY DEF RuntimeInvariant, OpenIsConnected, IsOpen, RoutesAgree, RegisteredIsConnected,
         RefuseInvocation, TimeOutInvocation, Invoke, CallClientResult, sessionVars
<1>3. WaitingIsPending'
  <2> USE DEF RuntimeInvariant, TypeOK, WaitingIsPending
  <2>1. CASE RefuseInvocation(r)
    BY <2>1 DEF RefuseInvocation
  <2>2. CASE TimeOutInvocation(r)
    BY <2>2 DEF TimeOutInvocation
  <2>3. ASSUME NEW c \in Client, Invoke(r, c) PROVE WaitingIsPending'
    BY <2>3 DEF Invoke
  <2>4. ASSUME NEW s \in Session, CallClientResult(s, r) PROVE WaitingIsPending'
    BY <2>4 DEF CallClientResult
  <2> QED
    BY <2>1, <2>2, <2>3, <2>4
<1>4. PendingIsRegistered'
  BY DEF RuntimeInvariant, TypeOK, PendingIsRegistered,
         RefuseInvocation, TimeOutInvocation, Invoke, CallClientResult
<1> QED
  BY <1>1, <1>2, <1>3, <1>4 DEF RuntimeInvariant

(* close() leaves nobody registered.                                       *)
LEMMA ClosePreserves ==
    ASSUME RuntimeInvariant, Close
    PROVE  RuntimeInvariant'
<1>1. /\ pending' \in [Request -> Client \cup {None}]
      /\ callee' \in [Request -> Session \cup {None}]
      /\ outcome' \in [Request -> {"idle", "waiting", "result", "rejected"}]
      /\ WaitingIsPending'
  BY RejectionSettles DEF Close
<1>2. TypeOK'
  BY <1>1 DEF RuntimeInvariant, TypeOK, Close, CloseSockets
<1>3. OpenIsConnected' /\ RoutesAgree' /\ RegisteredIsConnected' /\ PendingIsRegistered'
  BY DEF RuntimeInvariant, TypeOK, OpenIsConnected, IsOpen, RoutesAgree,
         RegisteredIsConnected, PendingIsRegistered, Close, CloseSockets
<1> QED
  BY <1>1, <1>2, <1>3 DEF RuntimeInvariant

(* Every step preserves the invariant.                                     *)
LEMMA NextPreserves ==
    ASSUME RuntimeInvariant, [Next]_vars
    PROVE  RuntimeInvariant'
<1>1. CASE UNCHANGED vars
  BY <1>1 DEF vars, sessionVars, callVars, RuntimeInvariant, TypeOK, OpenIsConnected,
              IsOpen, RoutesAgree, RegisteredIsConnected, WaitingIsPending,
              PendingIsRegistered
<1>2. CASE Next
  BY <1>2, OpenPreserves, RegisterClientPreserves, UnregisterClientPreserves,
     UpdateClientCatalogPreserves, RefuseMessagePreserves, HeartbeatPreserves,
     LoseConnectionPreserves, DisconnectHttpLoopPreserves, SocketStepPreserves,
     InvocationStepPreserves, ClosePreserves DEF Next
<1> QED
  BY <1>1, <1>2

(* Types, routes, connections and waiting invocations fit together in     *)
(* every reachable state, late messages of closed connections included.   *)
THEOREM RuntimeIsInvariant == Spec => []RuntimeInvariant
<1>1. Init => RuntimeInvariant
  BY InitEstablishes
<1>2. RuntimeInvariant /\ [Next]_vars => RuntimeInvariant'
  BY NextPreserves
<1> QED
  BY <1>1, <1>2, PTL DEF Spec

-----------------------------------------------------------------------------
(* Promises.                                                               *)

(* Rejecting clients settles waiting invocations only.                     *)
LEMMA RejectionIsFinal ==
    ASSUME RuntimeInvariant, NEW C \in SUBSET Client, RejectClient(C),
           NEW r \in Request, outcome[r] \in {"result", "rejected"}
    PROVE  outcome'[r] = outcome[r]
BY DEF RuntimeInvariant, TypeOK, WaitingIsPending, RejectClient

(* No step changes the outcome of a settled invocation.                    *)
LEMMA NextIsFinal ==
    ASSUME RuntimeInvariant, [Next]_vars,
           NEW r \in Request, outcome[r] \in {"result", "rejected"}
    PROVE  outcome'[r] = outcome[r]
<1>1. CASE UNCHANGED <<outcome>>
  BY <1>1
<1>2. ASSUME NEW C \in SUBSET Client, RejectClient(C) PROVE outcome'[r] = outcome[r]
  BY <1>2, RejectionIsFinal
<1>3. ASSUME NEW S, Disconnect(S) PROVE outcome'[r] = outcome[r]
  <2>1. Held(S) \in SUBSET Client
    BY DEF Held
  <2> QED
    BY <1>3, <2>1, <1>2 DEF Disconnect
<1>4. ASSUME NEW s \in Session, NEW c \in Client, RegisterClient(s, c)
      PROVE  outcome'[r] = outcome[r]
  <2> DEFINE lost == {d \in {clientId[s]} \ {c} : d \in Client /\ registered[d] = s}
                       \cup Held(({registered[c]} \ {s}) \cap connected)
  <2>1. lost \in SUBSET Client
    BY DEF Held
  <2>2. RejectClient(lost)
    BY <1>4 DEF RegisterClient
  <2> QED
    BY <2>1, <2>2, <1>2
<1>5. ASSUME NEW s \in Session, UnregisterClient(s) PROVE outcome'[r] = outcome[r]
  <2>1. Held({s}) \in SUBSET Client
    BY DEF Held
  <2> QED
    BY <1>5, <2>1, <1>2 DEF UnregisterClient
<1>6. ASSUME Close PROVE outcome'[r] = outcome[r]
  <2>1. {clientId[s] : s \in connected} \ {None} \in SUBSET Client
    BY DEF RuntimeInvariant, TypeOK
  <2> QED
    BY <1>6, <2>1, <1>2 DEF Close
<1>7. ASSUME NEW q \in Request,
             \/ RefuseInvocation(q) \/ TimeOutInvocation(q)
             \/ \E c \in Client : Invoke(q, c)
             \/ \E s \in Session : CallClientResult(s, q)
      PROVE  outcome'[r] = outcome[r]
  BY <1>7 DEF RuntimeInvariant, TypeOK, WaitingIsPending, RefuseInvocation,
              TimeOutInvocation, Invoke, CallClientResult
<1> QED
  BY <1>1, <1>3, <1>4, <1>5, <1>6, <1>7 DEF Next, vars, callVars, Open,
     UpdateClientCatalog, RefuseMessage, MalformedFrame, Touch, TurnQuiet, Vanish,
     LoseConnection, DisconnectHttpLoop, Heartbeat

(* A late answer, a timer and a disconnect that race for an invocation     *)
(* settle it once.                                                         *)
THEOREM PromisesSettleOnce == Spec => SettledOnce
<1>1. RuntimeInvariant /\ [Next]_vars
        => [\A r \in Request : outcome[r] \in {"result", "rejected"}
                                 => outcome'[r] = outcome[r]]_vars
  BY NextIsFinal
<1> QED
  BY <1>1, RuntimeIsInvariant, PTL DEF Spec, SettledOnce

-----------------------------------------------------------------------------
(* Connections that fall silent when the server closes them.               *)

Orderly == RuntimeInvariant /\ RegistryAgrees /\ CallsFollowRegistration

(* A step that only rejects the callers of the clients that change hands,  *)
(* and all of those, is a step of the promise.                             *)
LEMMA RejectionReassigns ==
    ASSUME Orderly, NEW C \in SUBSET Client, RejectClient(C),
           registered' \in [Client -> Session \cup {None}],
           \A r \in Request : pending[r] # None
               => (pending[r] \in C <=> registered'[pending[r]] # registered[pending[r]])
    PROVE  IP!Reassign
<1> DEFINE Dropped(r) == \E c \in Client : pending[r] = c /\ registered'[c] # registered[c]
<1>1. \A r \in Request : Dropped(r) <=> pending[r] \in C
  BY DEF Orderly, RuntimeInvariant, TypeOK
<1>2. /\ pending' = [r \in Request |-> IF Dropped(r) THEN None ELSE pending[r]]
      /\ outcome' = [r \in Request |-> IF Dropped(r) THEN "rejected" ELSE outcome[r]]
  <2> HIDE DEF Dropped
  <2> QED BY <1>1 DEF RejectClient
<1> QED
  BY <1>2 DEF IP!Reassign

(* disconnectSession takes a client from registry and listeners alike.     *)
LEMMA DisconnectOrderly ==
    ASSUME Lingering = {}, Orderly, RuntimeInvariant', NEW S \in SUBSET connected,
           Disconnect(S), UNCHANGED <<clientId, closed>>
    PROVE  Orderly' /\ IP!Reassign
<1> USE DEF Orderly, RuntimeInvariant, TypeOK
<1>1. \A c \in Client : registered'[c] = IF c \in Held(S) THEN None ELSE registered[c]
  BY DEF Disconnect
<1>2. \A c \in Client : c \in Held(S) <=> c \in {clientId[s] : s \in S}
  <2>1. \A c \in Held(S) : c \in {clientId[s] : s \in S}
    BY DEF Held
  <2>2. ASSUME NEW s \in S, clientId[s] \in Client PROVE clientId[s] \in Held(S)
    BY <2>2 DEF Held, RegistryAgrees
  <2> QED
    BY <2>1, <2>2
<1>3. RegistryAgrees'
  <2>1. ASSUME NEW s \in connected', clientId'[s] # None
        PROVE  registered'[clientId'[s]] = s
    <3>1. s \in connected /\ s \notin S /\ clientId[s] \in Client
      BY <2>1 DEF Disconnect
    <3>2. registered[clientId[s]] = s
      BY <2>1, <3>1 DEF RegistryAgrees
    <3> QED
      BY <1>1, <3>1, <3>2 DEF Held
  <2>2. ~ closed' => announced' = {c \in Client : registered'[c] # None}
    BY <1>1, <1>2 DEF RegistryAgrees, Disconnect
  <2> QED
    BY <2>1, <2>2 DEF RegistryAgrees
<1>4. CallsFollowRegistration'
  BY <1>1 DEF CallsFollowRegistration, Disconnect, RejectClient
<1>5. IP!Reassign
  <2>1. Held(S) \in SUBSET Client /\ RejectClient(Held(S))
    BY DEF Held, Disconnect
  <2>2. \A c \in Client : c \in Held(S) <=> registered'[c] # registered[c]
    BY <1>1 DEF Held
  <2> QED
    BY <2>1, <2>2, RejectionReassigns
<1> QED
  BY <1>3, <1>4, <1>5

(* registerClient moves a client in registry and listeners alike.          *)
LEMMA RegisterClientOrderly ==
    ASSUME Lingering = {}, Orderly, RuntimeInvariant',
           NEW s \in Session, NEW c \in Client, RegisterClient(s, c)
    PROVE  Orderly' /\ IP!Reassign
<1> DEFINE left == {clientId[s]} \ {c}
           freed == {d \in left : d \in Client /\ registered[d] = s}
           rival == {registered[c]} \ {s}
           ended == rival \cap connected
           lost == freed \cup Held(ended)
<1> USE DEF Orderly, RuntimeInvariant, TypeOK
<1>1. /\ \A d \in Client : registered'[d] =
             IF d = c THEN s ELSE IF d \in lost THEN None ELSE registered[d]
      /\ RejectClient(lost)
      /\ announced' = (announced \ (left \cup {clientId[t] : t \in ended})) \cup {c}
      /\ connected' = connected \ ended
      /\ clientId' = [clientId EXCEPT ![s] = c]
      /\ closed' = closed
  BY DEF RegisterClient
<1>2. /\ s \in connected
      /\ clientId[s] # None => registered[clientId[s]] = s
  BY DEF RegisterClient, Speaks, OpenIsConnected, IsOpen, RegistryAgrees
<1>3. /\ freed = left \ {None}
      /\ \A t \in ended : clientId[t] = c
      /\ \A d \in Held(ended) : d = c
      /\ registered[c] \notin {s, None} => c \in Held(ended)
  BY <1>2 DEF RoutesAgree, RegisteredIsConnected, Held
<1>4. RegistryAgrees'
  <2>1. ASSUME NEW t \in connected', clientId'[t] # None
        PROVE  registered'[clientId'[t]] = t
    <3>1. CASE t = s
      BY <1>1, <3>1
    <3>2. CASE t # s
      <4>1. /\ t \in connected /\ t \notin ended
            /\ clientId'[t] = clientId[t] /\ clientId[t] \in Client
        BY <1>1, <2>1, <3>2
      <4>2. registered[clientId[t]] = t
        BY <2>1, <4>1 DEF RegistryAgrees
      <4>3. clientId[t] # c
        BY <3>2, <4>1, <4>2
      <4> QED
        BY <1>1, <1>3, <3>2, <4>1, <4>2, <4>3
    <3> QED
      BY <3>1, <3>2
  <2>2. ASSUME ~ closed' PROVE announced' = {d \in Client : registered'[d] # None}
    <3>1. announced = {d \in Client : registered[d] # None}
      BY <1>1, <2>2 DEF RegistryAgrees
    <3>2. \A d \in Client \ {c} : registered'[d] # None <=> registered[d] # None /\ d \notin left
      <4>1. \A d \in Client \ {c} : d \in lost <=> d \in left
        BY <1>2, <1>3
      <4> HIDE DEF left, lost
      <4> QED
        BY <1>1, <4>1
    <3>3. announced' = ({d \in Client : registered[d] # None} \ left) \cup {c}
      BY <1>1, <1>3, <3>1
    <3>4. registered'[c] # None
      BY <1>1
    <3> HIDE DEF left
    <3> QED
      BY <3>2, <3>3, <3>4
  <2> QED
    BY <2>1, <2>2 DEF RegistryAgrees
<1>5. \A r \in Request : pending[r] # None
          => (pending[r] \in lost <=> registered'[pending[r]] # registered[pending[r]])
  <2>1. \A r \in Request : pending[r] # None
            => pending[r] \in Client /\ registered[pending[r]] # None
    BY DEF CallsFollowRegistration, WaitingIsPending
  <2>2. \A d \in Client : registered[d] # None
            => (d \in lost <=> registered'[d] # registered[d])
    BY <1>1, <1>3 DEF Held
  <2> QED
    BY <2>1, <2>2
<1>6. lost \in SUBSET Client
  BY DEF Held
<1>7. CallsFollowRegistration'
  <2> HIDE DEF lost, left
  <2> QED BY <1>1, <1>5 DEF CallsFollowRegistration, RejectClient
<1>8. IP!Reassign
  <2>1. Orderly /\ registered' \in [Client -> Session \cup {None}]
    OBVIOUS
  <2> HIDE DEF lost, Orderly
  <2> QED BY <2>1, <1>1, <1>5, <1>6, RejectionReassigns
<1> QED
  BY <1>4, <1>7, <1>8

(* unregisterClient removes the client its session is registered for.      *)
LEMMA UnregisterClientOrderly ==
    ASSUME Lingering = {}, Orderly, RuntimeInvariant',
           NEW s \in Session, UnregisterClient(s)
    PROVE  Orderly' /\ IP!Reassign
<1> USE DEF Orderly, RuntimeInvariant, TypeOK
<1>1. s \in connected /\ clientId[s] \in Client /\ registered[clientId[s]] = s
  BY DEF UnregisterClient, Speaks, OpenIsConnected, IsOpen, RegistryAgrees
<1>2. Held({s}) = {clientId[s]}
  BY <1>1 DEF Held
<1>3. \A c \in Client : registered'[c] = IF c = clientId[s] THEN None ELSE registered[c]
  BY <1>2 DEF UnregisterClient
<1>4. RegistryAgrees'
  BY <1>1, <1>3 DEF RegistryAgrees, UnregisterClient
<1>5. CallsFollowRegistration'
  BY <1>2, <1>3 DEF CallsFollowRegistration, UnregisterClient, RejectClient
<1>6. IP!Reassign
  <2>1. RejectClient({clientId[s]})
    BY <1>2 DEF UnregisterClient
  <2>2. registered' \in [Client -> Session \cup {None}]
    BY DEF RuntimeInvariant, TypeOK
  <2>3. \A r \in Request : pending[r] # None
          => (pending[r] \in {clientId[s]} <=> registered'[pending[r]] # registered[pending[r]])
    BY <1>1, <1>3
  <2> QED BY <1>1, <2>1, <2>2, <2>3, RejectionReassigns
<1> QED
  BY <1>4, <1>5, <1>6

(* A catalog update of an open session changes no route.                   *)
LEMMA UpdateClientCatalogOrderly ==
    ASSUME Lingering = {}, Orderly, RuntimeInvariant',
           NEW s \in Session, UpdateClientCatalog(s)
    PROVE  Orderly' /\ UNCHANGED IP!vars
<1> USE DEF Orderly, RuntimeInvariant, TypeOK
<1>1. s \in connected /\ clientId[s] \in Client /\ registered[clientId[s]] = s
  BY DEF UpdateClientCatalog, Speaks, OpenIsConnected, IsOpen, RegistryAgrees
<1>2. registered' = registered
  BY <1>1 DEF UpdateClientCatalog
<1> QED
  BY <1>1, <1>2 DEF UpdateClientCatalog, RegistryAgrees, CallsFollowRegistration,
                    callVars, IP!vars

(* close() rejects every waiting call.                                     *)
LEMMA CloseOrderly ==
    ASSUME Lingering = {}, Orderly, RuntimeInvariant', Close
    PROVE  Orderly' /\ IP!Reassign
<1> USE DEF Orderly, RuntimeInvariant, TypeOK
<1> DEFINE C == {clientId[s] : s \in connected} \ {None}
<1>1. \A r \in Request : pending[r] # None
          => /\ pending[r] \in C
             /\ registered'[pending[r]] # registered[pending[r]]
  BY DEF CallsFollowRegistration, WaitingIsPending, RoutesAgree, RegisteredIsConnected,
         Close
<1>2. RegistryAgrees'
  BY DEF RegistryAgrees, Close
<1>3. CallsFollowRegistration'
  BY <1>1 DEF CallsFollowRegistration, Close, RejectClient
<1>4. C \in SUBSET Client /\ RejectClient(C)
  BY DEF Close
<1>5. IP!Reassign
  BY <1>1, <1>4, RejectionReassigns DEF Close
<1> QED
  BY <1>2, <1>3, <1>5

(* Steps that change no route and no invocation.                           *)
LEMMA SessionStepOrderly ==
    ASSUME Lingering = {}, Orderly, RuntimeInvariant', NEW s \in Session,
           Open(s) \/ MalformedFrame(s) \/ Touch(s) \/ TurnQuiet(s) \/ Vanish(s)
    PROVE  Orderly' /\ UNCHANGED IP!vars
<1>1. UNCHANGED <<clientId, registered, callVars, announced, closed>>
  BY DEF Open, MalformedFrame, Touch, TurnQuiet, Vanish
<1>2. connected' = connected \/ (Open(s) /\ connected' = connected \cup {s})
  BY DEF Open, MalformedFrame, Touch, TurnQuiet, Vanish
<1>3. Open(s) => clientId[s] = None
  BY DEF Open, Orderly, RuntimeInvariant, OpenIsConnected
<1>4. RegistryAgrees' /\ CallsFollowRegistration'
  BY <1>1, <1>2, <1>3 DEF Orderly, RegistryAgrees, CallsFollowRegistration, callVars
<1> QED
  BY <1>1, <1>4 DEF Orderly, callVars, IP!vars

(* An invocation starts at the registered session and is settled alone.    *)
LEMMA InvocationStepOrderly ==
    ASSUME Lingering = {}, Orderly, RuntimeInvariant', NEW r \in Request,
           \/ RefuseInvocation(r) \/ TimeOutInvocation(r)
           \/ \E c \in Client : Invoke(r, c)
           \/ \E s \in Session : CallClientResult(s, r)
    PROVE  Orderly' /\ [IP!Next]_(IP!vars)
<1> USE DEF Orderly, RuntimeInvariant, TypeOK
<1>1. RegistryAgrees'
  <2>1. UNCHANGED <<connected, clientId, registered, announced, closed>>
    BY DEF RefuseInvocation, TimeOutInvocation, Invoke, CallClientResult, sessionVars
  <2> QED
    BY <2>1 DEF RegistryAgrees
<1>2. CallsFollowRegistration'
  <2> USE DEF CallsFollowRegistration
  <2>1. CASE RefuseInvocation(r)
    BY <2>1 DEF RefuseInvocation
  <2>2. CASE TimeOutInvocation(r)
    BY <2>2 DEF TimeOutInvocation
  <2>3. ASSUME NEW c \in Client, Invoke(r, c) PROVE CallsFollowRegistration'
    BY <2>3 DEF Invoke
  <2>4. ASSUME NEW s \in Session, CallClientResult(s, r) PROVE CallsFollowRegistration'
    BY <2>4 DEF CallClientResult
  <2> QED
    BY <2>1, <2>2, <2>3, <2>4
<1>3. CASE RefuseInvocation(r)
  BY <1>1, <1>2, <1>3 DEF RefuseInvocation, IP!Refuse, IP!Next
<1>4. CASE TimeOutInvocation(r)
  BY <1>1, <1>2, <1>4 DEF TimeOutInvocation, WaitingIsPending, IP!Settle, IP!Next
<1>5. ASSUME NEW c \in Client, Invoke(r, c) PROVE IP!Next
  BY <1>5 DEF Invoke, IP!Invoke, IP!Next
<1>6. ASSUME NEW s \in Session, CallClientResult(s, r) PROVE [IP!Next]_(IP!vars)
  <2>1. CASE pending[r] = None
    BY <1>6, <2>1 DEF CallClientResult, IP!vars
  <2>2. CASE pending[r] # None
    BY <1>6, <2>2 DEF CallClientResult, WaitingIsPending, IP!Settle, IP!Next
  <2> QED
    BY <2>1, <2>2
<1> QED
  BY <1>1, <1>2, <1>3, <1>4, <1>5, <1>6

(* Every step keeps the tables in step and is a step of the promise.       *)
LEMMA NextOrderly ==
    ASSUME Lingering = {}, Orderly, [Next]_vars
    PROVE  Orderly' /\ [IP!Next]_(IP!vars)
<1>1. RuntimeInvariant'
  BY NextPreserves DEF Orderly
<1>2. CASE UNCHANGED vars
  BY <1>1, <1>2 DEF vars, sessionVars, callVars, Orderly, RegistryAgrees,
                    CallsFollowRegistration, IP!vars
<1>3. ASSUME NEW s \in Session,
             RefuseMessage(s) \/ LoseConnection(s) \/ DisconnectHttpLoop(s)
      PROVE  Orderly' /\ IP!Reassign
  BY <1>1, <1>3, DisconnectOrderly DEF RefuseMessage, LoseConnection, DisconnectHttpLoop
<1>4. ASSUME Heartbeat PROVE Orderly' /\ IP!Reassign
  <2>1. Overdue \in SUBSET connected
    BY DEF Overdue
  <2> QED
    BY <1>1, <1>4, <2>1, DisconnectOrderly DEF Heartbeat
<1>5. CASE Next
  BY <1>1, <1>3, <1>4, <1>5, RegisterClientOrderly, UnregisterClientOrderly,
     UpdateClientCatalogOrderly, CloseOrderly, SessionStepOrderly, InvocationStepOrderly
     DEF Next, IP!Next
<1> QED
  BY <1>2, <1>5

(* The runtime starts as the promise does.                                 *)
LEMMA InitOrderly == Init => Orderly /\ IP!Init
BY InitEstablishes DEF Init, Orderly, RegistryAgrees, CallsFollowRegistration, IP!Init

(* Registry, connections and listeners agree when no connection speaks     *)
(* after the server has closed it.                                         *)
THEOREM RegistryStaysInStep ==
    ASSUME Lingering = {}
    PROVE  Spec => [](RegistryAgrees /\ CallsFollowRegistration)
<1>1. Orderly /\ [Next]_vars => Orderly'
  BY NextOrderly
<1>2. Orderly => RegistryAgrees /\ CallsFollowRegistration
  BY DEF Orderly
<1> QED
  BY InitOrderly, <1>1, <1>2, PTL DEF Spec

(* A call waits for the session its client is registered with, when no      *)
(* connection speaks after the server has closed it.                       *)
THEOREM CallsStayWithRegistration ==
    ASSUME Lingering = {}
    PROVE  Spec => []CallsFollowRegistration
<1>1. RegistryAgrees /\ CallsFollowRegistration => CallsFollowRegistration
  OBVIOUS
<1> QED
  BY <1>1, RegistryStaysInStep, PTL

(* The runtime implements what callers are promised, when no connection    *)
(* speaks after the server has closed it.                                  *)
THEOREM RuntimeKeepsPromise ==
    ASSUME Lingering = {}
    PROVE  Spec => ImplementsInvocationPromise
<1>1. Orderly /\ [Next]_vars => Orderly' /\ [IP!Next]_(IP!vars)
  BY NextOrderly
<1> QED
  BY InitOrderly, <1>1, PTL DEF Spec, ImplementsInvocationPromise
=============================================================================
