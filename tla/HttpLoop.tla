------------------------------ MODULE HttpLoop ------------------------------
(* The HTTP loop: sessions of the server that a client reaches by requests  *)
(* only.  The server half is the four handlers of MdpTransportServer and    *)
(* HttpLoopSessionTransport with its queue and its parked poll; the client  *)
(* half is HttpLoopClientTransport with its send queue, its flush and its   *)
(* poll loop.  Messages are numbered as they are sent, per session on the   *)
(* way down and per client on the way up.  A request can fail for the       *)
(* client whether or not the server has handled it, or still will.          *)
EXTENDS Naturals, FiniteSets, SequencesExt

CONSTANTS
    MaxSessions,  \* bound: sessions the client asks for
    MaxDown,      \* bound: messages the runtime sends on a session
    MaxUp,        \* bound: messages the client sends
    MaxMessages,  \* bound: messages of both
    MaxFailures,  \* bound: requests that fail
    NoSession     \* undefined

ASSUME LoopConstants ==
    /\ MaxSessions \in Nat /\ MaxDown \in Nat /\ MaxUp \in Nat /\ MaxMessages \in Nat /\ MaxFailures \in Nat
    /\ NoSession \notin Nat

Session == 1 .. MaxSessions
Kind == {"connect", "send", "poll", "disconnect"}

VARIABLES
    server,     \* server[s]: HttpLoopSessionTransport of session s
    client,     \* HttpLoopClientTransport
    requests,   \* requests that are not answered, or whose answer is under way
    received,   \* received[s]: the last message the client got on session s
    handled,    \* handled[s]: the last message the runtime was given on session s
    accepted,   \* messages send() took from the client
    failures,   \* requests that failed
    late        \* history: one of them came between the end of a flush and its finally

loopVars == <<server, client, requests, received, handled, accepted, failures, late>>

ServerSession ==
    [state : {"unused", "open", "closed"},
     queue : Seq(1 .. MaxDown),
     poll  : BOOLEAN,    \* pendingPoll
     sent  : 0 .. MaxDown]

(* flush is flushPromise: running while a request of it is answered,        *)
(* ending when its loop is over and its finally has not run.  closing is    *)
(* what a call of close() awaits.                                          *)
ClientState ==
    [session : Session \cup {NoSession},
     closed  : BOOLEAN,
     queue   : Seq(1 .. MaxUp),
     flush   : {"none", "running", "ending"},
     closing : {"no", "flush", "flushed", "answer"}]

Request ==
    [kind    : Kind,
     session : Session \cup {NoSession},
     message : 0 .. MaxUp + MaxDown,
     at      : {"sent", "body", "parked", "answered"},
     ok      : BOOLEAN,
     awaited : BOOLEAN]   \* the client still waits for the answer

LoopTypeOK ==
    /\ server \in [Session -> ServerSession]
    /\ client \in ClientState
    /\ requests \subseteq Request
    /\ received \in [Session -> 0 .. MaxDown]
    /\ handled \in [Session -> 0 .. MaxUp]
    /\ accepted \in 0 .. MaxUp
    /\ failures \in 0 .. MaxFailures
    /\ late \in BOOLEAN

LoopInit ==
    /\ server = [s \in Session |->
                    [state |-> "unused", queue |-> <<>>, poll |-> FALSE, sent |-> 0]]
    /\ client = [session |-> NoSession, closed |-> FALSE, queue |-> <<>>, flush |-> "none",
                 closing |-> "no"]
    /\ requests = {}
    /\ received = [s \in Session |-> 0]
    /\ handled = [s \in Session |-> 0]
    /\ accepted = 0
    /\ failures = 0
    /\ late = FALSE

-----------------------------------------------------------------------------
(* Requests.                                                                *)

NewRequest(kind, s, m) ==
    [kind |-> kind, session |-> s, message |-> m, at |-> "sent",
     ok |-> TRUE, awaited |-> TRUE]

(* An answer that nobody awaits is written to a closed connection.          *)
Answer(r, ok, m) ==
    IF r.awaited THEN {[r EXCEPT !.at = "answered", !.ok = ok, !.message = m]} ELSE {}

Answered(r, ok, m) == requests' = (requests \ {r}) \cup Answer(r, ok, m)

Parked(s) == {r \in requests : r.at = "parked" /\ r.session = s}

-----------------------------------------------------------------------------
(* The server's transport.                                                  *)

Messages == accepted + FoldFunction(+, 0, [s \in Session |-> server[s].sent])

(* send(): a parked poll takes the message, otherwise it is queued.         *)
RuntimeSends(s) ==
    LET m == server[s].sent + 1 IN
    /\ server[s].state = "open" /\ m <= MaxDown /\ Messages < MaxMessages
    /\ IF server[s].poll
       THEN /\ server' = [server EXCEPT ![s].sent = m, ![s].poll = FALSE]
            /\ requests' = (requests \ Parked(s))
                             \cup UNION {Answer(r, TRUE, m) : r \in Parked(s)}
       ELSE /\ server' = [server EXCEPT ![s].sent = m, ![s].queue = Append(@, m)]
            /\ UNCHANGED requests
    /\ UNCHANGED <<client, received, handled, accepted, failures, late>>

(* close() and its handler: the parked poll returns empty and the session   *)
(* is no longer found.                                                      *)
Closed(t) == [t EXCEPT !.state = "closed", !.poll = FALSE]

ReleasedBy(s, rs) == (rs \ Parked(s)) \cup UNION {Answer(r, TRUE, 0) : r \in Parked(s)}

(* The runtime gives the session up: a heartbeat, a second client of the    *)
(* same id.                                                                 *)
RuntimeCloses(s) ==
    /\ server[s].state = "open"
    /\ server' = [server EXCEPT ![s] = Closed(@)]
    /\ requests' = ReleasedBy(s, requests)
    /\ UNCHANGED <<client, received, handled, accepted, failures, late>>

HandleConnect(r) ==
    /\ r.kind = "connect" /\ r.at = "sent"
    /\ \E s \in Session :
          /\ server[s].state = "unused"
          /\ \A t \in Session : t < s => server[t].state # "unused"
          /\ server' = [server EXCEPT ![s].state = "open"]
          /\ requests' = (requests \ {r})
                           \cup {[a EXCEPT !.session = s] : a \in Answer(r, TRUE, 0)}
    /\ UNCHANGED <<client, received, handled, accepted, failures, late>>

(* Mutant: a poll takes the newest message.                                 *)
HandlePollNewest(r) ==
    LET s == r.session IN
    /\ r.kind = "poll" /\ r.at = "sent"
    /\ server[s].state = "open" /\ server[s].queue # <<>>
    /\ server' = [server EXCEPT ![s].queue = Front(@)]
    /\ Answered(r, TRUE, Last(server[s].queue))
    /\ UNCHANGED <<client, received, handled, accepted, failures, late>>

(* A poll returns what is queued or takes the place of the parked one,      *)
(* which returns empty.                                                     *)
HandlePoll(r) ==
    LET s == r.session IN
    /\ r.kind = "poll" /\ r.at = "sent"
    /\ \/ /\ server[s].state # "open"
          /\ Answered(r, FALSE, 0)
          /\ UNCHANGED server
       \/ /\ server[s].state = "open" /\ server[s].queue # <<>>
          /\ server' = [server EXCEPT ![s].queue = Tail(@)]
          /\ Answered(r, TRUE, Head(server[s].queue))
       \/ /\ server[s].state = "open" /\ server[s].queue = <<>>
          /\ server' = [server EXCEPT ![s].poll = TRUE]
          /\ requests' = ReleasedBy(s, requests \ {r}) \cup {[r EXCEPT !.at = "parked"]}
    /\ UNCHANGED <<client, received, handled, accepted, failures, late>>

PollTimesOut(r) ==
    /\ r.at = "parked"
    /\ server' = [server EXCEPT ![r.session].poll = FALSE]
    /\ Answered(r, TRUE, 0)
    /\ UNCHANGED <<client, received, handled, accepted, failures, late>>

(* The session is looked up before the body of the request is read ...      *)
HandleSend(r) ==
    /\ r.kind = "send" /\ r.at = "sent"
    /\ IF server[r.session].state = "open"
       THEN requests' = (requests \ {r}) \cup {[r EXCEPT !.at = "body"]}
       ELSE Answered(r, FALSE, 0)
    /\ UNCHANGED <<server, client, received, handled, accepted, failures, late>>

(* ... and handed to the runtime after it, whatever became of the session.  *)
(* A message the runtime refuses ends the session.                          *)
HandleSendBody(r) ==
    /\ r.at = "body"
    /\ handled' = [handled EXCEPT ![r.session] = r.message]
    /\ \/ /\ Answered(r, TRUE, 0)
          /\ UNCHANGED server
       \/ /\ requests' = (ReleasedBy(r.session, requests) \ {r}) \cup Answer(r, FALSE, 0)
          /\ server' = [server EXCEPT ![r.session] = Closed(@)]
    /\ UNCHANGED <<client, received, accepted, failures, late>>

HandleDisconnect(r) ==
    /\ r.kind = "disconnect" /\ r.at = "sent"
    /\ server' = [server EXCEPT ![r.session] = IF @.state = "open" THEN Closed(@) ELSE @]
    /\ requests' = (ReleasedBy(r.session, requests) \ {r}) \cup Answer(r, TRUE, 0)
    /\ UNCHANGED <<client, received, handled, accepted, failures, late>>

-----------------------------------------------------------------------------
(* The client's transport.                                                  *)

(* Mutant: the poll under way is not aborted.                               *)
NotAborted(rs) == rs

(* Nobody waits any longer for the polls among rs: pollAbortController.     *)
Aborted(rs) ==
    {r \in rs : r.kind # "poll"}
      \cup {[r EXCEPT !.awaited = FALSE] : r \in {p \in rs : p.kind = "poll" /\ p.at # "answered"}}

(* The transport after its session is over.                                 *)
Over(c) == [c EXCEPT !.closed = TRUE, !.session = NoSession, !.queue = <<>>]

(* failTransport(), with c the client and rs the requests it is left with.  *)
FailTransport(c, rs) ==
    IF client.closed
    THEN client' = c /\ requests' = rs
    ELSE client' = Over(c) /\ requests' = Aborted(rs)

(* connect() is not called again before it has settled.                     *)
LoopConnect ==
    /\ client.session = NoSession \/ client.closed
    /\ \A r \in requests : r.kind = "connect" => ~r.awaited
    /\ Cardinality({s \in Session : server[s].state # "unused"})
         + Cardinality({r \in requests : r.kind = "connect"}) < MaxSessions
    /\ requests' = requests \cup {NewRequest("connect", NoSession, 0)}
    /\ UNCHANGED <<server, client, received, handled, accepted, failures, late>>

(* The session starts with the first poll of its loop.                      *)
ConnectAnswered(r) ==
    /\ r.kind = "connect" /\ r.at = "answered"
    /\ client' = [client EXCEPT !.session = r.session, !.closed = FALSE]
    /\ requests' = (requests \ {r})
                     \cup {NewRequest("poll", r.session, 0)}
    /\ UNCHANGED <<server, received, handled, accepted, failures, late>>

(* flushQueue() posts the message at the head of q; a message taken while   *)
(* it runs waits in the queue.                                              *)
Post(c, q, rs) ==
    /\ client' = [c EXCEPT !.queue = Tail(q), !.flush = "running"]
    /\ requests' = rs \cup {NewRequest("send", c.session, Head(q))}

(* Mutant: a message is posted beside a flush that runs.                    *)
SendAtOnce ==
    /\ client.session # NoSession /\ ~client.closed
    /\ accepted < MaxUp /\ Messages < MaxMessages
    /\ accepted' = accepted + 1
    /\ Post(client, <<accepted + 1>>, requests)
    /\ UNCHANGED <<server, received, handled, failures, late>>

Send ==
    LET q == Append(client.queue, accepted + 1) IN
    /\ client.session # NoSession /\ ~client.closed
    /\ accepted < MaxUp /\ Messages < MaxMessages
    /\ accepted' = accepted + 1
    /\ late' = (late \/ client.flush = "ending" \/ client.closing = "flushed")
    /\ \/ /\ client.flush # "none"
          /\ client' = [client EXCEPT !.queue = q]
          /\ UNCHANGED requests
       \/ /\ client.flush = "none"
          /\ Post(client, q, requests)
    /\ UNCHANGED <<server, received, handled, failures>>

(* The answer to a message: the next one is posted, or the loop is over.    *)
SendAnswered(r) ==
    /\ r.kind = "send" /\ r.at = "answered"
    /\ \/ /\ r.ok /\ client.queue # <<>>
          /\ Post(client, client.queue, requests \ {r})
       \/ /\ r.ok /\ client.queue = <<>>
          /\ client' = [client EXCEPT !.flush = "ending"]
          /\ requests' = requests \ {r}
       \/ /\ ~r.ok
          /\ FailTransport([client EXCEPT !.flush = "ending"], requests \ {r})
    /\ UNCHANGED <<server, received, handled, accepted, failures, late>>

(* The finally of flushPromise, and the close() that awaited it.            *)
FlushEnds ==
    /\ client.flush = "ending"
    /\ client' = [client EXCEPT !.flush = "none",
                                !.closing = IF @ = "flush" THEN "flushed" ELSE @]
    /\ UNCHANGED <<server, requests, received, handled, accepted, failures, late>>

(* Mutant: the loop ends with an empty poll.                                *)
PollAnsweredOnce(r) ==
    /\ r.kind = "poll" /\ r.at = "answered" /\ r.ok
    /\ received' = IF r.message = 0 THEN received ELSE [received EXCEPT ![r.session] = r.message]
    /\ requests' = (requests \ {r})
                     \cup (IF r.message = 0 THEN {} ELSE {NewRequest("poll", client.session, 0)})
    /\ UNCHANGED <<client, server, handled, accepted, failures, late>>

(* pollLoop(): a message goes to the handler and the next poll follows.     *)
PollAnswered(r) ==
    /\ r.kind = "poll" /\ r.at = "answered"
    /\ \/ /\ r.ok
          /\ received' = IF r.message = 0 THEN received
                                          ELSE [received EXCEPT ![r.session] = r.message]
          /\ requests' = (requests \ {r})
                           \cup {NewRequest("poll", client.session, 0)}
          /\ UNCHANGED client
       \/ /\ ~r.ok
          /\ FailTransport(client, requests \ {r})
          /\ UNCHANGED received
    /\ UNCHANGED <<server, handled, accepted, failures, late>>

(* Mutant: close() does not wait for the flush.                             *)
CloseAtOnce ==
    /\ ~client.closed /\ client.closing = "no"
    /\ client' = [client EXCEPT !.closing = "flushed"]
    /\ UNCHANGED <<server, requests, received, handled, accepted, failures, late>>

(* close() lets a flush end first ...                                       *)
CloseTransport ==
    /\ ~client.closed /\ client.closing = "no"
    /\ client' = [client EXCEPT !.closing = IF client.flush = "none" THEN "flushed" ELSE "flush"]
    /\ UNCHANGED <<server, requests, received, handled, accepted, failures, late>>

(* ... then it drops the queue and tells the server.                        *)
CloseSession ==
    /\ client.closing = "flushed"
    /\ \/ /\ client.session = NoSession
          /\ client' = [Over(client) EXCEPT !.closing = "no"]
          /\ requests' = Aborted(requests)
       \/ /\ client.session # NoSession
          /\ client' = [Over(client) EXCEPT !.closing = "answer"]
          /\ requests' = Aborted(requests) \cup {NewRequest("disconnect", client.session, 0)}
    /\ UNCHANGED <<server, received, handled, accepted, failures, late>>

DisconnectAnswered(r) ==
    /\ r.kind = "disconnect" /\ r.at = "answered"
    /\ client' = [client EXCEPT !.closing = "no"]
    /\ requests' = requests \ {r}
    /\ UNCHANGED <<server, received, handled, accepted, failures, late>>

(* fetch() rejects: the request never reaches the server, or the server     *)
(* handles it and the answer is lost.                                       *)
RequestFails(r) ==
    LET rest == (requests \ {r})
                  \cup (IF r.at = "answered" THEN {} ELSE {[r EXCEPT !.awaited = FALSE]})
    IN
    /\ r.awaited /\ failures < MaxFailures
    /\ failures' = failures + 1
    /\ \E rs \in {rest} \cup (IF r.at = "sent" THEN {requests \ {r}} ELSE {}) :
          \/ /\ r.kind = "connect"
             /\ requests' = rs
             /\ UNCHANGED client
          \/ /\ r.kind = "disconnect"
             /\ client' = [client EXCEPT !.closing = "no"]
             /\ requests' = rs
          \/ /\ r.kind = "send"
             /\ FailTransport([client EXCEPT !.flush = "ending"], rs)
          \/ /\ r.kind = "poll"
             /\ FailTransport(client, rs)
    /\ UNCHANGED <<server, received, handled, accepted, late>>

-----------------------------------------------------------------------------
ServerHandles(r) ==
    HandleConnect(r) \/ HandlePoll(r) \/ HandleSend(r) \/ HandleSendBody(r) \/ HandleDisconnect(r)

ClientHandles(r) ==
    ConnectAnswered(r) \/ SendAnswered(r) \/ PollAnswered(r) \/ DisconnectAnswered(r)

LoopNext ==
    \/ \E s \in Session : RuntimeSends(s) \/ RuntimeCloses(s)
    \/ \E r \in requests : ServerHandles(r) \/ ClientHandles(r) \/ PollTimesOut(r) \/ RequestFails(r)
    \/ LoopConnect \/ Send \/ FlushEnds \/ CloseTransport \/ CloseSession

(* Requests that reach a running server are handled and their answers       *)
(* arrive, unless they fail; microtasks run.  Nothing has to be sent, no    *)
(* session has to end and no poll has to time out.                          *)
LoopFairness ==
    /\ \A k \in Kind :
          /\ WF_loopVars(\E r \in requests : r.kind = k /\ ServerHandles(r))
          /\ WF_loopVars(\E r \in requests : r.kind = k /\ ClientHandles(r))
    /\ WF_loopVars(FlushEnds)
    /\ WF_loopVars(CloseSession)

LoopSpec == LoopInit /\ [][LoopNext]_loopVars

LoopFairSpec == LoopSpec /\ LoopFairness

-----------------------------------------------------------------------------
(* Properties.                                                              *)

OnSession(s) == client.session = s /\ ~client.closed

Polls(s) == {r \in requests : r.kind = "poll" /\ r.awaited /\ r.session = s}

(* No message of a session waits while a poll is parked, and what waits is  *)
(* what was sent last, in order.                                            *)
QueueFits(s) ==
    /\ server[s].poll => server[s].queue = <<>> /\ server[s].state = "open"
    /\ server[s].poll <=> Parked(s) # {}
    /\ \A k \in 1 .. Len(server[s].queue) :
          server[s].queue[k] = server[s].sent - Len(server[s].queue) + k

(* A client that is on a session has one poll of it under way, and none of  *)
(* any other.                                                               *)
OnePoll(s) ==
    /\ Cardinality(Polls(s)) <= 1
    /\ Polls(s) # {} <=> OnSession(s)

(* What the client queued is being posted, one message at a time.           *)
QueueIsPosted ==
    /\ client.flush = "running" <=> \E r \in requests : r.kind = "send" /\ r.awaited
    /\ client.queue # <<>> /\ ~late => client.flush = "running"

(* A session that no client has used, so that nothing is missing from it.   *)
Fresh(s) ==
    /\ \A r \in requests : r.session = s => r.kind = "connect"
    /\ client.session # s
    /\ received[s] = 0 /\ handled[s] = 0 /\ Len(server[s].queue) = server[s].sent

(* Of each kind the client awaits one request at most, and of the polls of  *)
(* a session one at most is parked.                                         *)
OneOfEach ==
    \A p, q \in requests :
       \/ p.kind = q.kind /\ p.awaited /\ q.awaited
       \/ p.session = q.session /\ p.at = "parked" /\ q.at = "parked"
       => p = q

(* A request is of a session the server has made, but for a connect, which  *)
(* gets one with its answer, a fresh one.                                   *)
RequestsFit ==
    \A r \in requests :
       /\ r.session = NoSession <=> r.kind = "connect" /\ r.at # "answered"
       /\ r.session # NoSession => server[r.session].state # "unused"
       /\ IF r.at = "answered" THEN r.awaited ELSE r.ok
       /\ r.at = "parked" => r.kind = "poll"
       /\ r.at = "body" => r.kind = "send"
       /\ r.kind = "connect" => /\ r.awaited => client.session = NoSession
                                /\ r.at = "answered" => Fresh(r.session)
       /\ r.kind = "disconnect" /\ r.awaited => client.closing = "answer"

(* A client without a session has nothing to post, and no session is taken  *)
(* before the server has made it.                                           *)
SessionsFit ==
    /\ client.closed => client.session = NoSession
    /\ client.session = NoSession => client.queue = <<>>
    /\ client.session # NoSession => server[client.session].state # "unused"
    /\ \A s \in Session : server[s].state = "unused" => Fresh(s)

(* The way down: what the client has not received of its session is in the  *)
(* queue, or the first of it in the answer to its poll.                     *)
DownFits ==
    /\ \A s \in Session : received[s] + Len(server[s].queue) <= server[s].sent
    /\ \A r \in requests : r.kind = "poll" =>
          LET taken == server[r.session].sent - Len(server[r.session].queue) IN
          /\ r.awaited <=> client.session = r.session
          /\ r.awaited /\ r.ok =>
                taken = received[r.session] + (IF r.at = "answered" /\ r.message # 0 THEN 1 ELSE 0)
          /\ r.at = "answered" /\ r.message # 0 => r.ok /\ r.message = taken

(* What was posted last, or dropped.                                        *)
Posted == accepted - Len(client.queue)

(* A message the runtime may still be given.                                *)
Pending == {r \in requests : r.kind = "send" /\ r.at # "answered"}

(* The way up: what the client has not posted is in its queue, a message    *)
(* under way follows the last one that was handled on its session, and the  *)
(* next one will.                                                           *)
UpFits ==
    /\ \A k \in 1 .. Len(client.queue) : client.queue[k] = Posted + k
    /\ \A s \in Session : handled[s] <= Posted
    /\ \A r \in Pending :
          /\ r.message \in 1 .. Posted
          /\ \A s \in Session : handled[s] # r.message
          /\ handled[r.session] \in {0, r.message - 1}
          /\ \A p \in Pending : p.session = r.session \/ p.message = r.message => p = r
    /\ \A r \in requests : r.kind = "send" /\ r.session = client.session =>
          /\ r.awaited
          /\ r \in Pending => r.message = Posted
    /\ client.session # NoSession =>
          \/ handled[client.session] \in {0, Posted}
          \/ \E r \in requests : r.kind = "send" /\ r.session = client.session /\ (r \in Pending \/ ~r.ok)

(* close() has waited for the flush, unless a message was late.             *)
CloseFits ==
    client.closing = "flushed" /\ ~late => client.queue = <<>> /\ client.flush # "running"

(* HttpLoopSessionTransport and HttpLoopClientTransport: a parked poll is   *)
(* never passed over by a queued message, exactly a client that is on a     *)
(* session polls it, once at a time, and a queued message is being posted   *)
(* (but for one that came while a flush was ending).  The other parts are   *)
(* what makes it inductive.                                                 *)
LoopInvariant ==
    /\ LoopTypeOK
    /\ \A s \in Session : QueueFits(s) /\ OnePoll(s)
    /\ QueueIsPosted
    /\ OneOfEach /\ RequestsFit /\ SessionsFit /\ DownFits /\ UpFits /\ CloseFits

(* The session on the way down: whatever polls time out, replace each other *)
(* or fail, the client gets the messages of a session in order, each once,  *)
(* none left out.                                                           *)
Down == INSTANCE FifoLink WITH sent <- [s \in Session |-> server[s].sent]

(* The way up: the messages handled on a session follow each other without  *)
(* a gap, and none is handled again on a later session.                     *)
UpInOrder ==
    [][\A s \in Session : handled'[s] # handled[s] =>
          IF handled[s] # 0 THEN handled'[s] = handled[s] + 1
                            ELSE \A t \in Session : handled'[s] # handled[t]]_loopVars

(* HttpLoopSessionTransport and HttpLoopClientTransport make a FIFO link of *)
(* single requests, both ways.                                              *)
ImplementsFifoLink == Down!LinkSpec /\ UpInOrder

(* close() of the client posts what was sent before it, so the unregister   *)
(* message of a client that disconnects precedes the end of its session.    *)
CloseFlushesFirst ==
    [][client.closing = "flushed" /\ client'.closing # "flushed" /\ ~late
          => client.queue = <<>> /\ client.flush # "running"]_loopVars

ToPost(n) ==
    \/ n \in Range(client.queue)
    \/ \E r \in requests : r.kind = "send" /\ r.awaited /\ r.message = n

(* A message of either side arrives unless the session ends for the client. *)
MessagesArrive ==
    /\ \A s \in Session : []<>(received[s] = server[s].sent \/ ~OnSession(s))
    /\ \A n \in 1 .. MaxUp : []<>(~ToPost(n) \/ late)
=============================================================================
