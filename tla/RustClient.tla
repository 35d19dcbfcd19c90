----------------------------- MODULE RustClient -----------------------------
(* The Rust client (client.rs) on its two transports (transport.rs).  A     *)
(* task reads each session into a channel, and another handles what comes   *)
(* out of it, one message after the other; when the channel ends it resets  *)
(* the flags.  A reader notifies as long as that task goes on without it.   *)
EXTENDS SdkSession

Rust == language = "rust"

(* connect() replaces a session that is still there; nothing stops its      *)
(* tasks.                                                                   *)
RustMakesSession ==
    /\ Idle
    /\ MakesSession("reads") /\ current' = made + 1
    /\ connected' = TRUE
    /\ astray' = (astray \/ Unfinished # {} \/ Registered)
    /\ UNCHANGED <<registeredOn, underWay, emitted, spent>>

RustHttpConnects == carrier = "http" /\ RustMakesSession

RustWebSocketConnects == carrier = "websocket" /\ RustMakesSession

RustRegister == StartsRegister(current) \/ RegisterFails \/ RegisterSucceeds

(* disconnect(), unless the unregister message cannot be sent: then nothing *)
(* has changed.                                                             *)
RustStartsDisconnect ==
    /\ Idle /\ ResetFlags
    /\ underWay' = [op |-> "closing", session |-> current]
    /\ UNCHANGED <<current, made, reader, emitted, spent, astray>>

(* close() aborts the reader, and disconnect() the task behind it, which    *)
(* may have got past its last await.                                        *)
RustDisconnects ==
    /\ CallReturns("closing")
    /\ current' = NoClientSession
    /\ LET s == underWay.session IN
       IF s = NoClientSession THEN UNCHANGED reader
       ELSE IF reader[s] = "over" THEN UNCHANGED reader
       ELSE \E state \in {"notifies", "over"} : ReaderTurns(s, state)
    /\ astray' = \E s \in Unfinished \ {underWay.session} : reader[s] # "notifies"
    /\ UNCHANGED <<connected, registeredOn, made, emitted, spent>>

RustHttpDisconnects == carrier = "http" /\ RustDisconnects

RustWebSocketDisconnects == carrier = "websocket" /\ RustDisconnects

(* The websocket cannot be closed: the transport keeps it.                  *)
RustWebSocketCloseFails ==
    /\ carrier = "websocket" /\ CallReturns("closing") /\ underWay.session # NoClientSession
    /\ astray' = TRUE
    /\ UNCHANGED <<connected, registeredOn, current, made, reader, emitted, spent>>

RustReaderEnds(s) ==
    /\ reader[s] = "reads" /\ ReaderTurns(s, "notifies")
    /\ UNCHANGED <<connected, registeredOn, current, made, underWay, emitted, spent, astray>>

RustHttpReaderEnds(s) == carrier = "http" /\ RustReaderEnds(s)

RustWebSocketReaderEnds(s) == carrier = "websocket" /\ RustReaderEnds(s)

(* The end of process_messages().                                           *)
RustNotifies(s) ==
    /\ reader[s] = "notifies" /\ ReaderTurns(s, "over")
    /\ ResetFlags
    /\ UNCHANGED <<current, made, underWay, emitted, spent, astray>>

RustNext ==
    /\ Rust /\ UNCHANGED <<language, carrier>>
    /\ \/ RustHttpConnects \/ RustWebSocketConnects \/ RustRegister
       \/ RustStartsDisconnect \/ RustHttpDisconnects \/ RustWebSocketDisconnects
       \/ RustWebSocketCloseFails
       \/ \E s \in ClientSession : \/ RustHttpReaderEnds(s) \/ RustWebSocketReaderEnds(s)
                                   \/ RustNotifies(s)

-----------------------------------------------------------------------------
(* The session that is held is the one whose tasks go on, and the client is *)
(* connected as long as one of them does.                                   *)
RustFits == Rust =>
    /\ underWay.op \in {"none", "registering", "closing"}
    /\ \A s \in ClientSession : reader[s] \in {"none", "reads", "notifies", "over"}
    /\ ~Idle => underWay.session = current
    /\ In("closing") => ~connected /\ ~Registered
    /\ ~astray =>
          /\ Registered => connected /\ registeredOn = current
          /\ current = NoClientSession => ~connected /\ \A s \in ClientSession : ~Reads(s)
          /\ current # NoClientSession =>
                /\ Unfinished \subseteq {current}
                /\ ~In("closing") => (connected <=> current \in Unfinished)
=============================================================================
