---------------------------- MODULE PythonClient ----------------------------
(* The Python client (client.py) on its two transports.  Everything runs in *)
(* one event loop: what lies between two awaits is one step.                *)
EXTENDS SdkSession

Python == language = "python"

(* connect() returns at once if the transport is connected.                 *)
PythonConnectsAgain ==
    /\ Idle /\ current # NoClientSession
    /\ connected' = TRUE
    /\ UNCHANGED <<registeredOn, current, made, reader, underWay, emitted, spent, astray>>

PythonMakesSession ==
    /\ Idle /\ current = NoClientSession
    /\ MakesSession("reads") /\ current' = made + 1
    /\ connected' = TRUE
    /\ astray' = (astray /\ Registered)
    /\ UNCHANGED <<registeredOn, underWay, emitted, spent>>

(* With its own HTTP client closed the transport cannot connect.            *)
PythonHttpConnects == carrier = "http" /\ ~spent /\ PythonMakesSession

PythonWebSocketConnects == carrier = "websocket" /\ PythonMakesSession

PythonRegister == StartsRegister(current) \/ RegisterFails \/ RegisterSucceeds

(* disconnect() goes on to close() once the unregister message, if there is *)
(* one to send, has been accepted; if that fails it ends there.  close() of *)
(* a transport that is closed does nothing.                                 *)
PythonDisconnectsClosed ==
    /\ Idle /\ current = NoClientSession /\ ~(connected /\ Registered)
    /\ ResetFlags /\ astray' = FALSE
    /\ UNCHANGED <<current, made, reader, underWay, emitted, spent>>

PythonDetaches(state) ==
    /\ Idle /\ current # NoClientSession
    /\ underWay' = [op |-> "closing", session |-> current]
    /\ current' = NoClientSession /\ ReaderTurns(current, state)
    /\ UNCHANGED <<connected, registeredOn, made, emitted, spent, astray>>

(* The poll task is cancelled and awaited, the websocket is closed and the  *)
(* task that reads it awaited, with the handler it runs.                    *)
PythonHttpCloses == carrier = "http" /\ PythonDetaches("over")

PythonWebSocketCloses == carrier = "websocket" /\ PythonDetaches("stopping")

(* The disconnect request fails: neither transport nor client say so.       *)
PythonHttpCloseFails ==
    /\ carrier = "http" /\ CallReturns("closing")
    /\ astray' = TRUE
    /\ UNCHANGED <<connected, registeredOn, current, made, reader, emitted, spent>>

PythonDisconnects ==
    /\ CallReturns("closing") /\ reader[underWay.session] = "over"
    /\ ResetFlags /\ astray' = FALSE
    /\ spent' \in IF carrier = "http" THEN BOOLEAN ELSE {spent}
    /\ UNCHANGED <<current, made, reader, emitted>>

PythonHandles(s) == Handles(s) \/ Answered(s)

(* Mutant: the flags are left as they are when the session ends by itself.  *)
PythonExitsQuietly(s) ==
    /\ Reads(s) \/ reader[s] = "stopping"
    /\ ReaderTurns(s, "over")
    /\ current' = IF Reads(s) THEN NoClientSession ELSE current
    /\ UNCHANGED <<connected, registeredOn, made, underWay, emitted, spent, astray>>

(* The reader ends, and so it does when the answer of a handler cannot be   *)
(* sent.  A transport that is closing reports nothing.                      *)
PythonExits(s) ==
    /\ Reads(s) \/ reader[s] = "stopping"
    /\ ReaderTurns(s, "over")
    /\ IF Reads(s) THEN current' = NoClientSession /\ ResetFlags
       ELSE UNCHANGED <<current, connected, registeredOn>>
    /\ UNCHANGED <<made, underWay, emitted, spent, astray>>

PythonHttpReaderEnds(s) == carrier = "http" /\ PythonExits(s)

PythonWebSocketReaderEnds(s) == carrier = "websocket" /\ PythonExits(s)

PythonNext ==
    /\ Python /\ UNCHANGED <<language, carrier>>
    /\ \/ PythonConnectsAgain \/ PythonHttpConnects \/ PythonWebSocketConnects \/ PythonRegister
       \/ PythonDisconnectsClosed \/ PythonHttpCloses \/ PythonWebSocketCloses
       \/ PythonHttpCloseFails \/ PythonDisconnects
       \/ \E s \in ClientSession : \/ PythonHandles(s) \/ PythonHttpReaderEnds(s)
                                   \/ PythonWebSocketReaderEnds(s)

-----------------------------------------------------------------------------
(* The session that is held is the one that is read, and the flags say the  *)
(* same but while the client disconnects.                                   *)
PythonFits == Python =>
    /\ underWay.op \in {"none", "registering", "closing"}
    /\ \A s \in ClientSession : reader[s] # "notifies" /\ (Reads(s) <=> s = current)
    /\ In("closing") => current = NoClientSession
    /\ In("registering") => current \in {NoClientSession, underWay.session}
    /\ ~astray /\ ~In("closing") =>
          /\ connected <=> current # NoClientSession
          /\ Registered => registeredOn = current
=============================================================================
