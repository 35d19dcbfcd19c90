---------------------------- MODULE DotnetClient ----------------------------
(* The C# client (MdpClient.cs) on its two transports.  A task reads each   *)
(* session; it does not wait for the handlers it starts.  The end of a      *)
(* connection is reported once, by whoever comes first.                     *)
EXTENDS SdkSession

Dotnet == language = "dotnet"

(* ConnectAsync() of the HTTP transport, up to the request for a session.   *)
DotnetHttpAsks ==
    /\ carrier = "http" /\ Idle
    /\ underWay' = [op |-> "connecting", session |-> NoClientSession]
    /\ emitted' = FALSE
    /\ astray' = (astray \/ Unfinished # {})
    /\ UNCHANGED <<connected, registeredOn, current, made, reader, spent>>

DotnetHttpAnswerIsLost ==
    /\ CallReturns("connecting")
    /\ UNCHANGED <<connected, registeredOn, current, made, reader, emitted, spent, astray>>

DotnetMakesSession ==
    /\ MakesSession("reads") /\ current' = made + 1
    /\ underWay' = [op |-> "connected", session |-> made + 1]
    /\ astray' = (astray \/ Unfinished # {})
    /\ UNCHANGED <<connected, registeredOn, spent>>

(* A session that is there already is replaced; nothing stops its reader.   *)
DotnetHttpConnects == In("connecting") /\ DotnetMakesSession /\ UNCHANGED emitted

DotnetWebSocketConnects ==
    carrier = "websocket" /\ Idle /\ DotnetMakesSession /\ emitted' = FALSE

(* ConnectAsync() of the client; the close may have been reported already.  *)
DotnetConnects ==
    /\ CallReturns("connected") /\ connected' = TRUE
    /\ astray' = (astray \/ reader[underWay.session] = "over")
    /\ UNCHANGED <<registeredOn, current, made, reader, emitted, spent>>

DotnetRegister == StartsRegister(current) \/ RegisterFails \/ RegisterSucceeds

(* DisconnectAsync(): whatever becomes of the unregister message, the       *)
(* session is detached and its reader is told to stop.                      *)
DotnetDetaches ==
    /\ Idle
    /\ underWay' = [op |-> "closing", session |-> current]
    /\ current' = NoClientSession
    /\ reader' = [s \in ClientSession |-> IF s = current /\ Reads(s) THEN "stopping" ELSE reader[s]]
    /\ UNCHANGED <<connected, registeredOn, made, emitted, spent, astray>>

DotnetDisconnects ==
    /\ CallReturns("closing") /\ ResetFlags /\ emitted' = TRUE
    /\ astray' = \E s \in ClientSession : Reads(s)
    /\ UNCHANGED <<current, made, reader, spent>>

(* EmitClose() and handleTransportClose(): the flags are reset by the first *)
(* that reports the close.                                                  *)
DotnetEmitsClose ==
    /\ emitted' = TRUE
    /\ IF emitted THEN UNCHANGED <<connected, registeredOn>> ELSE ResetFlags

(* The closing handshake of a websocket throws: only the close is reported. *)
DotnetWebSocketCloseFails ==
    /\ carrier = "websocket" /\ underWay.session # NoClientSession
    /\ CallReturns("closing") /\ DotnetEmitsClose
    /\ UNCHANGED <<current, made, reader, spent, astray>>

(* The reader of an HTTP session leaves the session as it is.               *)
DotnetHttpReaderEnds(s) ==
    /\ carrier = "http" /\ reader[s] \in {"reads", "stopping"}
    /\ ReaderTurns(s, "notifies")
    /\ UNCHANGED <<connected, registeredOn, current, made, underWay, emitted, spent, astray>>

DotnetWebSocketReaderEnds(s) ==
    /\ carrier = "websocket" /\ reader[s] \in {"reads", "stopping"}
    /\ ReaderTurns(s, "notifies")
    /\ current' = IF current = s THEN NoClientSession ELSE current
    /\ UNCHANGED <<connected, registeredOn, made, underWay, emitted, spent, astray>>

DotnetNotifies(s) ==
    /\ reader[s] = "notifies" /\ ReaderTurns(s, "over") /\ DotnetEmitsClose
    /\ UNCHANGED <<current, made, underWay, spent, astray>>

DotnetNext ==
    /\ Dotnet /\ UNCHANGED <<language, carrier>>
    /\ \/ DotnetHttpAsks \/ DotnetHttpAnswerIsLost \/ DotnetHttpConnects
       \/ DotnetWebSocketConnects \/ DotnetConnects \/ DotnetRegister
       \/ DotnetDetaches \/ DotnetDisconnects \/ DotnetWebSocketCloseFails
       \/ \E s \in ClientSession : \/ DotnetHttpReaderEnds(s) \/ DotnetWebSocketReaderEnds(s)
                                   \/ DotnetNotifies(s)

-----------------------------------------------------------------------------
(* As long as the close of a session has not been reported there is no      *)
(* other that goes on; afterwards none is read and no flag is set.          *)
DotnetFits == Dotnet =>
    /\ \A s \in ClientSession : reader[s] \in {"none", "reads", "stopping", "notifies", "over"}
    /\ In("closing") => current = NoClientSession
    /\ In("registering") => current \in {NoClientSession, underWay.session}
    /\ In("connected") => /\ underWay.session \in ClientSession
                          /\ reader[underWay.session] \in {"reads", "notifies", "over"}
    /\ ~astray =>
          /\ emitted => ~connected /\ \A s \in ClientSession : ~Reads(s)
          /\ ~emitted => \A s, t \in Unfinished : s = t
          /\ In("connecting") => ~emitted /\ Unfinished = {}
          /\ In("connected") /\ emitted => reader[underWay.session] = "over"
          /\ \A s \in ClientSession : Reads(s) => s = current /\ (connected \/ In("connected"))
          /\ connected /\ ~In("closing") => \E s \in ClientSession : Reads(s) \/ s \in Notifying
          /\ Registered =>
                connected /\ (registeredOn = current \/ Notifying # {} \/ In("closing"))
=============================================================================
