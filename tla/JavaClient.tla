----------------------------- MODULE JavaClient -----------------------------
(* The Java client (MdpClient.java) on its two transports.  A websocket     *)
(* calls its listener; the loop of an HTTP session runs on the one thread   *)
(* of an executor, which the first close shuts down for good.               *)
EXTENDS SdkSession

Java == language = "java"

(* connect() of the websocket: the listener is at work before the transport *)
(* gets to know the socket, and before the flag is set.                     *)
JavaWebSocketOpens ==
    /\ carrier = "websocket" /\ Idle
    /\ MakesSession("reads")
    /\ underWay' = [op |-> "connecting", session |-> made + 1]
    /\ astray' = (astray \/ Unfinished # {})
    /\ UNCHANGED <<connected, registeredOn, current, emitted, spent>>

JavaWebSocketConnects ==
    /\ In("connecting")
    /\ underWay' = [underWay EXCEPT !.op = "connected"]
    /\ current' = underWay.session
    /\ astray' = (astray \/ reader[underWay.session] # "reads")
    /\ UNCHANGED <<connected, registeredOn, made, reader, emitted, spent>>

(* connect() of HTTP: the loop waits for the thread.                        *)
JavaHttpConnects ==
    /\ carrier = "http" /\ Idle /\ ~spent
    /\ MakesSession("queued") /\ current' = made + 1
    /\ underWay' = [op |-> "connected", session |-> made + 1]
    /\ astray' = (astray \/ Unfinished # {})
    /\ UNCHANGED <<connected, registeredOn, emitted, spent>>

(* The executor takes no more loops: connect() fails, and the session is    *)
(* left without a reader.                                                   *)
JavaHttpConnectIsRejected ==
    /\ carrier = "http" /\ Idle /\ spent
    /\ MakesSession("over") /\ current' = made + 1
    /\ UNCHANGED <<connected, registeredOn, underWay, emitted, spent, astray>>

JavaConnects ==
    /\ CallReturns("connected") /\ connected' = TRUE
    /\ astray' = (astray \/ reader[underWay.session] = "over")
    /\ UNCHANGED <<registeredOn, current, made, reader, emitted, spent>>

(* The status of the answer is not looked at.                               *)
JavaRegister == StartsRegister(current) \/ RegisterFails \/ RegisterSucceeds

(* disconnect(), whatever becomes of the unregister message.                *)
JavaDetaches ==
    /\ Idle
    /\ underWay' = [op |-> "closing", session |-> current]
    /\ current' = NoClientSession
    /\ reader' = [s \in ClientSession |-> IF s = current /\ reader[s] = "reads" THEN "stopping"
                                                                                ELSE reader[s]]
    /\ UNCHANGED <<connected, registeredOn, made, emitted, spent, astray>>

JavaWebSocketDisconnects ==
    /\ carrier = "websocket" /\ CallReturns("closing") /\ ResetFlags
    /\ astray' = \E s \in ClientSession : Reads(s)
    /\ UNCHANGED <<current, made, reader, emitted, spent>>

(* The close cannot be sent: the flags stay.                                *)
JavaWebSocketCloseFails ==
    /\ carrier = "websocket" /\ CallReturns("closing") /\ underWay.session # NoClientSession
    /\ astray' = TRUE
    /\ UNCHANGED <<connected, registeredOn, current, made, reader, emitted, spent>>

(* The executor is shut down: a loop that waits never runs.                 *)
JavaHttpDisconnects ==
    /\ carrier = "http" /\ CallReturns("closing") /\ ResetFlags
    /\ spent' = TRUE
    /\ reader' = [s \in ClientSession |-> IF reader[s] = "queued" THEN "over" ELSE reader[s]]
    /\ astray' = \E s \in ClientSession : reader[s] = "reads"
    /\ UNCHANGED <<current, made, emitted>>

JavaHttpReaderStarts(s) ==
    /\ reader[s] = "queued" /\ Unfinished \cap 1 .. s = {s}
    /\ ReaderTurns(s, "reads")
    /\ UNCHANGED <<connected, registeredOn, current, made, underWay, emitted, spent, astray>>

(* Mutant: the end of a session is reported, and the session kept.          *)
JavaEndsWithoutForgetting(s) ==
    /\ reader[s] \in {"reads", "stopping"} /\ ReaderTurns(s, "over")
    /\ UNCHANGED <<connected, registeredOn, current, made, underWay, emitted, spent, astray>>

(* onClose(), onError(), the end of pollLoop(): whatever the transport      *)
(* holds is given up, and then the end reported.                            *)
JavaEnds(s) ==
    /\ reader[s] \in {"reads", "stopping"} /\ ReaderTurns(s, "notifies")
    /\ current' = NoClientSession
    /\ UNCHANGED <<connected, registeredOn, made, underWay, emitted, spent, astray>>

JavaHttpReaderEnds(s) == carrier = "http" /\ JavaEnds(s)

JavaWebSocketReaderEnds(s) == carrier = "websocket" /\ JavaEnds(s)

(* handleTransportClose().                                                  *)
JavaNotifies(s) ==
    /\ reader[s] = "notifies" /\ ReaderTurns(s, "over")
    /\ ResetFlags
    /\ UNCHANGED <<current, made, underWay, emitted, spent, astray>>

JavaNext ==
    /\ Java /\ UNCHANGED <<language, carrier>>
    /\ \/ JavaWebSocketOpens \/ JavaWebSocketConnects \/ JavaHttpConnects
       \/ JavaHttpConnectIsRejected \/ JavaConnects \/ JavaRegister \/ JavaDetaches
       \/ JavaWebSocketDisconnects \/ JavaWebSocketCloseFails \/ JavaHttpDisconnects
       \/ \E s \in ClientSession : \/ JavaHttpReaderStarts(s) \/ JavaHttpReaderEnds(s)
                                   \/ JavaWebSocketReaderEnds(s) \/ JavaNotifies(s)

-----------------------------------------------------------------------------
(* Only one session goes on while the client is connected or connects, and  *)
(* it is the one that is held, or will be.                                  *)
JavaFits == Java =>
    /\ \A s \in ClientSession : reader[s] # "handles"
    /\ In("closing") => current = NoClientSession
    /\ In("registering") => current \in {NoClientSession, underWay.session}
    /\ In("connecting") \/ In("connected") =>
          /\ underWay.session \in ClientSession
          /\ reader[underWay.session] \in {"queued", "reads", "notifies", "over"}
    /\ spent => /\ carrier = "http" /\ underWay.op \in {"none", "closing"}
                /\ ~connected /\ ~Registered
    /\ ~astray =>
          /\ connected \/ In("connecting") \/ In("connected") => \A s, t \in Unfinished : s = t
          /\ In("connecting") \/ In("connected") => ~connected
          /\ ~In("closing") =>
                /\ \A s \in ClientSession : Reads(s) =>
                      /\ s = current \/ (In("connecting") /\ s = underWay.session)
                      /\ connected \/ In("connecting") \/ In("connected")
                /\ connected => \E s \in ClientSession : Reads(s) \/ s \in Notifying
          /\ Registered =>
                connected /\ (registeredOn = current \/ Notifying # {} \/ In("closing"))
=============================================================================
