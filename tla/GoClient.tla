------------------------------ MODULE GoClient ------------------------------
(* The Go client (client.go) on its two transports.  A goroutine reads each *)
(* session and runs its handlers; the transport's lock is held while it     *)
(* connects.                                                                *)
EXTENDS SdkSession

Go == language = "go"

(* Connect() of the transport; one that is connected refuses.               *)
GoMakesSession ==
    /\ Idle /\ current = NoClientSession
    /\ MakesSession("reads") /\ current' = made + 1
    /\ underWay' = [op |-> "connected", session |-> made + 1]
    /\ astray' = (astray \/ Notifying # {})
    /\ UNCHANGED <<connected, registeredOn, emitted, spent>>

GoHttpConnects == carrier = "http" /\ GoMakesSession

GoWebSocketConnects == carrier = "websocket" /\ GoMakesSession

(* Connect() of the client; the session may be over already.                *)
GoConnects ==
    /\ CallReturns("connected") /\ connected' = TRUE
    /\ astray' = (astray \/ reader[underWay.session] = "over")
    /\ UNCHANGED <<registeredOn, current, made, reader, emitted, spent>>

GoRegister == StartsRegister(current) \/ RegisterFails \/ RegisterSucceeds

(* Disconnect(): whatever becomes of the unregister message, the session is *)
(* detached and its reader is told to stop.                                 *)
GoDetaches ==
    /\ Idle
    /\ underWay' = [op |-> "closing", session |-> current]
    /\ current' = NoClientSession
    /\ reader' = [s \in ClientSession |-> IF s = current /\ Reads(s) THEN "stopping" ELSE reader[s]]
    /\ UNCHANGED <<connected, registeredOn, made, emitted, spent, astray>>

GoDisconnects ==
    /\ CallReturns("closing") /\ ResetFlags
    /\ astray' = FALSE
    /\ UNCHANGED <<current, made, reader, emitted, spent>>

GoHandles(s) == Handles(s) \/ Answered(s)

(* Mutant: a reader that ends takes the session of the transport with it,   *)
(* whichever it is.                                                         *)
GoExitsAnyway(s) ==
    /\ reader[s] \in {"reads", "stopping"}
    /\ current' = NoClientSession /\ ReaderTurns(s, "notifies")
    /\ UNCHANGED <<connected, registeredOn, made, underWay, emitted, spent, astray>>

(* The reader ends, handleSessionExit(): only the session that is still     *)
(* held is reported, after the lock has been given up.                      *)
GoExits(s) ==
    /\ reader[s] \in {"reads", "stopping"}
    /\ IF current = s
       THEN current' = NoClientSession /\ ReaderTurns(s, "notifies")
       ELSE UNCHANGED current /\ ReaderTurns(s, "over")
    /\ UNCHANGED <<connected, registeredOn, made, underWay, emitted, spent, astray>>

GoHttpReaderEnds(s) == carrier = "http" /\ GoExits(s)

GoWebSocketReaderEnds(s) == carrier = "websocket" /\ GoExits(s)

(* handleTransportClose().                                                  *)
GoNotifies(s) ==
    /\ reader[s] = "notifies" /\ ReaderTurns(s, "over")
    /\ ResetFlags
    /\ UNCHANGED <<current, made, underWay, emitted, spent, astray>>

GoNext ==
    /\ Go /\ UNCHANGED <<language, carrier>>
    /\ \/ GoHttpConnects \/ GoWebSocketConnects \/ GoConnects \/ GoRegister
       \/ GoDetaches \/ GoDisconnects
       \/ \E s \in ClientSession : \/ GoHandles(s) \/ GoHttpReaderEnds(s)
                                   \/ GoWebSocketReaderEnds(s) \/ GoNotifies(s)

-----------------------------------------------------------------------------
(* The session that is held is the one that is read.  Its end is about to   *)
(* be notified before anything is said of the next; until then a client     *)
(* that holds no session may be connected and registered.                   *)
GoFits == Go =>
    /\ underWay.op \in {"none", "connected", "registering", "closing"}
    /\ \A s \in ClientSession : Reads(s) <=> s = current
    /\ In("closing") => current = NoClientSession
    /\ In("registering") => current \in {NoClientSession, underWay.session}
    /\ In("connected") => /\ underWay.session \in ClientSession
                          /\ \/ underWay.session = current
                             \/ reader[underWay.session] \in {"notifies", "over"}
    /\ ~astray /\ current # NoClientSession =>
          Notifying = {} /\ (connected \/ In("connected")) /\ (Registered => registeredOn = current)
    /\ ~astray /\ current = NoClientSession /\ (connected \/ Registered) =>
          Notifying # {} \/ In("closing")
=============================================================================
