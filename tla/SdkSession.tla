----------------------------- MODULE SdkSession -----------------------------
(* What the clients in Go, Python, Rust, C# and Java have in common: the    *)
(* flags of the client, the session its transport holds, the task that      *)
(* reads each session, and the calls of an application that makes one at a  *)
(* time.  How they go on is told in GoClient, PythonClient, RustClient,     *)
(* DotnetClient and JavaClient.                                             *)
EXTENDS Naturals

CONSTANT MaxSessions  \* bound: sessions that are made

ASSUME SdkConstants == MaxSessions \in Nat

Language == {"go", "python", "rust", "dotnet", "java"}

Carrier == {"websocket", "http"}

NoClientSession == 0

ClientSession == 1 .. MaxSessions

VARIABLES
    language, carrier,
    connected,
    registeredOn, \* registered, and the session for which the flag was set
    current,      \* the session the transport holds
    made,         \* sessions so far
    reader,       \* the task that reads a session
    underWay,     \* the call of the application that is not over
    emitted,      \* C#: the close has been reported
    spent,        \* Python, Java: the transport has given up what it connects with
    astray        \* history: the end of a session crossed a call, or a call failed
                  \* half-way, so that nothing is said of the flags

sdkVars == <<language, carrier, connected, registeredOn, current, made, reader, underWay, emitted,
             spent, astray>>

(* "queued" waits for its thread, "handles" runs a handler, "stopping" has  *)
(* been told to end, "notifies" has ended and is about to say so.           *)
Reader == {"none", "queued", "reads", "handles", "stopping", "notifies", "over"}

Op == {"none", "connecting", "connected", "registering", "closing"}

SdkTypeOK ==
    /\ language \in Language /\ carrier \in Carrier
    /\ connected \in BOOLEAN /\ registeredOn \in ClientSession \cup {NoClientSession}
    /\ current \in ClientSession \cup {NoClientSession} /\ made \in 0 .. MaxSessions
    /\ reader \in [ClientSession -> Reader]
    /\ underWay \in [op : Op, session : ClientSession \cup {NoClientSession}]
    /\ emitted \in BOOLEAN /\ spent \in BOOLEAN /\ astray \in BOOLEAN

NoCall == [op |-> "none", session |-> NoClientSession]

SdkInit ==
    /\ language \in Language /\ carrier \in Carrier
    /\ connected = FALSE /\ registeredOn = NoClientSession
    /\ current = NoClientSession /\ made = 0
    /\ reader = [s \in ClientSession |-> "none"]
    /\ underWay = NoCall
    /\ emitted = FALSE /\ spent = FALSE /\ astray = FALSE

-----------------------------------------------------------------------------
Idle == underWay.op = "none"

In(op) == underWay.op = op

CallReturns(op) == In(op) /\ underWay' = NoCall

Registered == registeredOn # NoClientSession

ResetFlags == connected' = FALSE /\ registeredOn' = NoClientSession

Reads(s) == reader[s] \in {"queued", "reads", "handles"}

ReaderTurns(s, state) == reader' = [reader EXCEPT ![s] = state]

(* The next session, with its reader.                                       *)
MakesSession(state) ==
    /\ made < MaxSessions /\ made' = made + 1
    /\ reader' = [reader EXCEPT ![made + 1] = state]

Unfinished == {s \in ClientSession : reader[s] \notin {"none", "over"}}

Notifying == {s \in ClientSession : reader[s] = "notifies"}

(* register() with its message on its way, and what follows the answer; it  *)
(* may come after the session is over.                                      *)
StartsRegister(s) ==
    /\ Idle /\ connected /\ s # NoClientSession
    /\ underWay' = [op |-> "registering", session |-> s]
    /\ UNCHANGED <<connected, registeredOn, current, made, reader, emitted, spent, astray>>

RegisterFails ==
    /\ CallReturns("registering")
    /\ UNCHANGED <<connected, registeredOn, current, made, reader, emitted, spent, astray>>

RegisterSucceeds ==
    /\ CallReturns("registering")
    /\ registeredOn' = underWay.session
    /\ astray' = (astray \/ ~connected)
    /\ UNCHANGED <<connected, current, made, reader, emitted, spent>>

(* A handler runs, and its answer is sent over the session of that moment.  *)
Handles(s) ==
    /\ reader[s] = "reads" /\ ReaderTurns(s, "handles")
    /\ UNCHANGED <<connected, registeredOn, current, made, underWay, emitted, spent, astray>>

Answered(s) ==
    /\ reader[s] = "handles" /\ ReaderTurns(s, "reads")
    /\ UNCHANGED <<connected, registeredOn, current, made, underWay, emitted, spent, astray>>

-----------------------------------------------------------------------------
(* Properties.                                                              *)

Quiet == Idle /\ Notifying = {}

(* When nothing is under way, a client is connected as long as the session  *)
(* its transport holds is read, and registered only on this session: unless *)
(* the end of a session crossed a call.                                      *)
FlagsFollowSession ==
    Quiet /\ ~astray =>
       /\ connected <=> current # NoClientSession /\ Reads(current)
       /\ Registered => registeredOn = current

(* No session is read that the transport does not hold.                     *)
NoReaderIsLeft ==
    Quiet /\ ~astray => \A s \in ClientSession \ {current} : ~Reads(s)

SdkInvariant == SdkTypeOK /\ FlagsFollowSession /\ NoReaderIsLeft
=============================================================================
