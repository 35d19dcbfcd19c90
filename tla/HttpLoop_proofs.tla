--------------------------- MODULE HttpLoop_proofs ---------------------------
(* LoopInvariant is inductive, and the HTTP loop implements FifoLink, for   *)
(* any bounds.  First what the parts of the invariant say of a request and  *)
(* what an answer does to the set of them; then, one lemma per action, that *)
(* the steps of the server and those of the client preserve the invariant.  *)
(* Most steps of the server move a request on and leave the client alone    *)
(* (Moves, QuietMoves); most failures leave the client without a session    *)
(* and without polls (OverPreserves).                                       *)
EXTENDS HttpLoop, FiniteSetTheorems, TLAPS

(* What the type invariant says of the fields.                              *)
LEMMA Fields ==
    ASSUME LoopTypeOK
    PROVE  /\ NoSession \notin Session
           /\ \A s \in Session :
                 /\ server[s].state \in {"unused", "open", "closed"} /\ server[s].queue \in Seq(1 .. MaxDown)
                 /\ Len(server[s].queue) \in Nat /\ server[s].poll \in BOOLEAN
                 /\ server[s].sent \in Nat /\ server[s].sent <= MaxDown
                 /\ received[s] \in Nat /\ handled[s] \in Nat
           /\ \A r \in requests :
                 /\ r \in Request /\ r.kind \in Kind /\ r.session \in Session \cup {NoSession}
                 /\ r.message \in Nat /\ r.ok \in BOOLEAN /\ r.awaited \in BOOLEAN
                 /\ r.at \in {"sent", "body", "parked", "answered"}
           /\ client.session \in Session \cup {NoSession} /\ client.closed \in BOOLEAN
           /\ client.queue \in Seq(1 .. MaxUp) /\ Len(client.queue) \in Nat
           /\ client.flush \in {"none", "running", "ending"}
           /\ client.closing \in {"no", "flush", "flushed", "answer"}
           /\ accepted \in Nat /\ accepted <= MaxUp /\ failures \in Nat /\ failures <= MaxFailures
<1> USE LoopConstants DEF LoopTypeOK
<1>1. NoSession \notin Session
  BY DEF Session
<1>2. \A s \in Session :
         /\ server[s].state \in {"unused", "open", "closed"} /\ server[s].queue \in Seq(1 .. MaxDown)
         /\ Len(server[s].queue) \in Nat /\ server[s].poll \in BOOLEAN
         /\ server[s].sent \in Nat /\ server[s].sent <= MaxDown
         /\ received[s] \in Nat /\ handled[s] \in Nat
  BY DEF ServerSession
<1>3. \A r \in requests :
         /\ r \in Request /\ r.kind \in Kind /\ r.session \in Session \cup {NoSession}
         /\ r.message \in Nat /\ r.ok \in BOOLEAN /\ r.awaited \in BOOLEAN
         /\ r.at \in {"sent", "body", "parked", "answered"}
  BY DEF Request
<1>4. /\ client.session \in Session \cup {NoSession} /\ client.closed \in BOOLEAN
      /\ client.queue \in Seq(1 .. MaxUp) /\ Len(client.queue) \in Nat
      /\ client.flush \in {"none", "running", "ending"}
      /\ client.closing \in {"no", "flush", "flushed", "answer"}
  BY DEF ClientState
<1> QED BY <1>1, <1>2, <1>3, <1>4

(* The head and the tail of a queue.                                        *)
LEMMA QueueTail ==
    ASSUME NEW M \in Nat, NEW q \in Seq(1 .. M), q # <<>>
    PROVE  /\ Tail(q) \in Seq(1 .. M) /\ Len(Tail(q)) \in Nat /\ Len(q) \in Nat
           /\ Len(q) = Len(Tail(q)) + 1
           /\ Head(q) = q[1] /\ Head(q) \in 1 .. M
           /\ \A k \in 1 .. Len(Tail(q)) : k + 1 \in 1 .. Len(q) /\ Tail(q)[k] = q[k + 1]
  OBVIOUS

(* Any request but a connect is of a session the server has made, and only  *)
(* an answer can be a refusal.                                              *)
LEMMA SessionTaken ==
    ASSUME LoopInvariant, NEW r \in requests, r.kind # "connect"
    PROVE  r.session \in Session /\ server[r.session].state # "unused" /\ (r.at # "answered" => r.ok)
  BY Fields DEF LoopInvariant, RequestsFit

(* A poll is of a session.                                                  *)
LEMMA PollTaken ==
    ASSUME LoopInvariant, NEW r \in requests, r.kind = "poll"
    PROVE  r.session \in Session
  BY Fields DEF LoopInvariant, RequestsFit

(* An answer reaches a client that waits for it, and nobody else.           *)
LEMMA AnswerIs ==
    ASSUME NEW r \in Request, NEW ok \in BOOLEAN, NEW m \in 0 .. MaxUp + MaxDown
    PROVE  /\ r.awaited => \E q \in Answer(r, ok, m) : TRUE
           /\ \A q \in Answer(r, ok, m) :
                 /\ q \in Request /\ r.awaited /\ q.awaited
                 /\ q.kind = r.kind /\ q.session = r.session /\ q.at = "answered" /\ q.ok = ok /\ q.message = m
           /\ \A p, q \in Answer(r, ok, m) : p = q
  BY DEF Answer, Request


-----------------------------------------------------------------------------
(* What a step of the server makes of a request.                            *)
Advances(p, q) ==
    /\ q \in Request /\ q.kind = p.kind /\ q.awaited = p.awaited /\ q.session = p.session
    /\ \/ q = p
       \/ /\ p.kind # "connect" /\ p.at # "answered" /\ q.at # "sent"
          /\ IF q.at = "answered" THEN q.awaited ELSE q.ok
          /\ q.at = "parked" => q.kind = "poll"
          /\ q.at = "body" => q.kind = "send"

(* p becomes the one element of Q, or nobody waits for it.                  *)
Moves(p, Q) ==
    /\ \A q \in Q : Advances(p, q)
    /\ \A q1, q2 \in Q : q1 = q2
    /\ p.awaited => Q # {}

(* A step of the server moves one request, or two.                          *)
ServerMoves(p, P, r, Q) ==
    /\ p \in requests /\ r \in requests
    /\ requests' = (requests \ {p, r}) \cup P \cup Q
    /\ Moves(p, P) /\ Moves(r, Q)
    /\ p = r => P = Q
    /\ \A q \in P : q.at # "parked" \/ q \in Q
    /\ \A q \in Q : q.at = "parked" => \A o \in requests \ {p} : ~(o.at = "parked" /\ o.session = q.session)

(* Such a step, with nothing in the answer to a poll.                       *)
QuietMoves ==
    \E p, P, r, Q :
       /\ ServerMoves(p, P, r, Q)
       /\ \A q \in P \cup Q : q.kind = "poll" /\ q.at = "answered" => q.message = 0

(* An answer moves a request.                                               *)
GivesAnswer(p, ok, m, Q) ==
    /\ Moves(p, Q)
    /\ \A q \in Q :
          /\ q.kind = p.kind /\ q.session = p.session /\ q.awaited /\ p.awaited
          /\ q.at = "answered" /\ q.ok = ok /\ q.message = m

(* The answer to a request moves it on, and keeps everything but its        *)
(* answer.                                                                  *)
LEMMA AnswerMoves ==
    ASSUME LoopTypeOK, NEW p \in requests, p.kind # "connect", p.at # "answered",
           NEW ok \in BOOLEAN, NEW m \in 0 .. MaxUp + MaxDown
    PROVE  GivesAnswer(p, ok, m, Answer(p, ok, m))
<1>1. p \in Request /\ p.awaited \in BOOLEAN
  BY Fields
<1>2. /\ p.awaited => Answer(p, ok, m) # {}
      /\ \A q \in Answer(p, ok, m) :
            /\ q \in Request /\ q.kind = p.kind /\ q.session = p.session /\ q.awaited /\ p.awaited
            /\ q.at = "answered" /\ q.ok = ok /\ q.message = m
      /\ \A q1, q2 \in Answer(p, ok, m) : q1 = q2
  BY <1>1, AnswerIs
<1> QED BY <1>1, <1>2 DEF Moves, Advances, GivesAnswer

(* A step that moves a single request on is one that moves two, the other   *)
(* one being none.                                                          *)
LEMMA OneMoves ==
    ASSUME NEW r \in requests, NEW Q, Moves(r, Q), requests' = (requests \ {r}) \cup Q,
           \A q \in Q : q.at # "parked" /\ (q.kind = "poll" /\ q.at = "answered" => q.message = 0)
    PROVE  QuietMoves
<1>1. ServerMoves(r, Q, r, Q)
  BY DEF ServerMoves
<1>2. \A q \in Q \cup Q : q.kind = "poll" /\ q.at = "answered" => q.message = 0
  OBVIOUS
<1> QED BY <1>1, <1>2 DEF QuietMoves

(* Requests that move on are requests, and every one that is awaited stays. *)
LEMMA MovesKeepType ==
    ASSUME LoopInvariant, NEW p, NEW P, NEW r, NEW Q, ServerMoves(p, P, r, Q)
    PROVE  /\ requests' \subseteq Request
           /\ \A q \in requests' : \E o \in requests : Advances(o, q)
           /\ \A o \in requests : o.awaited => \E q \in requests' : Advances(o, q)
<1>1. \A o \in requests : Advances(o, o)
  BY Fields DEF LoopInvariant, Advances
<1>2. \A q \in requests' : \E o \in requests : Advances(o, q)
  BY <1>1 DEF ServerMoves, Moves
<1>3. \A o \in requests : o.awaited => \E q \in requests' : Advances(o, q)
  <2> SUFFICES ASSUME NEW o \in requests, o.awaited PROVE \E q \in requests' : Advances(o, q)
    OBVIOUS
  <2>1. CASE o = p
    BY <2>1 DEF ServerMoves, Moves
  <2>2. CASE o = r
    BY <2>2 DEF ServerMoves, Moves
  <2>3. CASE o # p /\ o # r
    BY <2>3, <1>1 DEF ServerMoves
  <2> QED BY <2>1, <2>2, <2>3
<1>4. requests' \subseteq Request
  BY <1>2 DEF Advances
<1> QED BY <1>2, <1>3, <1>4

(* Requests that move on stay the only ones of their kind that are awaited, *)
(* or parked on their session.                                              *)
LEMMA MovesKeepOneOfEach ==
    ASSUME LoopInvariant, NEW p, NEW P, NEW r, NEW Q, ServerMoves(p, P, r, Q)
    PROVE  OneOfEach'
<1> SUFFICES ASSUME NEW q1 \in requests', NEW q2 \in requests',
                    \/ q1.kind = q2.kind /\ q1.awaited /\ q2.awaited
                    \/ q1.session = q2.session /\ q1.at = "parked" /\ q2.at = "parked"
             PROVE  q1 = q2
  BY DEF OneOfEach
<1>1. \A q \in P : q.kind = p.kind /\ q.awaited = p.awaited /\ (q.at # "parked" \/ q \in Q)
  BY DEF ServerMoves, Moves, Advances
<1>2. \A q \in Q : q.kind = r.kind /\ q.awaited = r.awaited
  BY DEF ServerMoves, Moves, Advances
<1>3. \A a, b \in P : a = b
  BY DEF ServerMoves, Moves
<1>4. \A a, b \in Q : a = b
  BY DEF ServerMoves, Moves
<1>5. CASE q1.kind = q2.kind /\ q1.awaited /\ q2.awaited
  BY <1>1, <1>2, <1>3, <1>4, <1>5 DEF ServerMoves, LoopInvariant, OneOfEach
<1>6. CASE q1.session = q2.session /\ q1.at = "parked" /\ q2.at = "parked"
  BY <1>1, <1>4, <1>6 DEF ServerMoves, LoopInvariant, OneOfEach
<1> QED BY <1>5, <1>6

(* One awaited request of each kind makes at most one awaited poll.         *)
LEMMA AtMostOnePoll ==
    ASSUME LoopTypeOK, OneOfEach, NEW s \in Session
    PROVE  Cardinality(Polls(s)) <= 1
<1>1. CASE Polls(s) = {}
  BY <1>1, FS_EmptySet
<1>2. CASE Polls(s) # {}
  <2>1. PICK p : p \in Polls(s)
    BY <1>2
  <2>2. Polls(s) = {p}
    BY <2>1 DEF Polls, OneOfEach
  <2> QED BY <2>2, FS_Singleton
<1> QED BY <1>1, <1>2

(* What a step of the server leaves alone of a session.                     *)
SessionKept(s) ==
    /\ server'[s].state = "unused" <=> server[s].state = "unused"
    /\ Fresh(s) => handled'[s] = handled[s] /\ Len(server'[s].queue) = server'[s].sent

(* A step of the server leaves every request the client waits for under     *)
(* way, and a fresh session fresh, whatever else it does.                   *)
LEMMA ServerStepKeeps ==
    ASSUME LoopInvariant, UNCHANGED <<client, received, late>>, LoopTypeOK', OneOfEach',
           \A q \in requests' : \E p \in requests : Advances(p, q),
           \A p \in requests : p.awaited => \E q \in requests' : Advances(p, q),
           \A s \in Session : SessionKept(s)
    PROVE  /\ QueueIsPosted' /\ CloseFits' /\ (\A s \in Session : OnePoll(s))'
           /\ RequestsFit' /\ SessionsFit'
<1>1. QueueIsPosted'
  BY DEF LoopInvariant, QueueIsPosted, Advances
<1>2. CloseFits'
  BY DEF LoopInvariant, CloseFits
<1>3. ASSUME NEW s \in Session PROVE OnePoll(s)'
  <2>1. (Cardinality(Polls(s)) <= 1)'
    BY AtMostOnePoll, PTL
  <2>2. (Polls(s) # {})' <=> Polls(s) # {}
    BY DEF Polls, Advances
  <2> QED BY <2>1, <2>2 DEF LoopInvariant, OnePoll, OnSession
<1>4. ASSUME NEW s \in Session, Fresh(s) PROVE Fresh(s)'
  <2>1. \A q \in requests' : q.session = s => q.kind = "connect"
    BY <1>4 DEF Fresh, Advances
  <2> QED BY <1>4, <2>1 DEF Fresh, SessionKept
<1>5. SessionsFit'
  BY <1>4, Fields DEF LoopInvariant, SessionsFit, SessionKept
<1>6. RequestsFit'
  <2> SUFFICES ASSUME NEW q \in requests'
               PROVE  /\ q.session = NoSession <=> q.kind = "connect" /\ q.at # "answered"
                      /\ q.session # NoSession => server'[q.session].state # "unused"
                      /\ IF q.at = "answered" THEN q.awaited ELSE q.ok
                      /\ q.at = "parked" => q.kind = "poll"
                      /\ q.at = "body" => q.kind = "send"
                      /\ q.kind = "connect" => /\ q.awaited => client'.session = NoSession
                                               /\ q.at = "answered" => Fresh(q.session)'
                      /\ q.kind = "disconnect" /\ q.awaited => client'.closing = "answer"
    BY DEF RequestsFit
  <2>1. PICK p \in requests : Advances(p, q)
    OBVIOUS
  <2>2. p.session \in Session \cup {NoSession}
    BY Fields DEF LoopInvariant
  <2>3. CASE q = p
    BY <2>2, <2>3, <1>4 DEF LoopInvariant, RequestsFit, SessionKept
  <2>4. CASE q # p
    BY <2>1, <2>2, <2>4 DEF LoopInvariant, RequestsFit, SessionKept, Advances
  <2> QED BY <2>3, <2>4
<1> QED BY <1>1, <1>2, <1>3, <1>5, <1>6

(* A step that leaves the messages of the client alone.                     *)
LEMMA UpFitsKept ==
    ASSUME LoopInvariant, UNCHANGED <<client, handled, accepted>>,
           \A r : r.kind = "send" => (r \in requests' <=> r \in requests)
    PROVE  UpFits'
<1>1. Pending' = Pending
  BY DEF Pending
<1> QED BY <1>1 DEF LoopInvariant, UpFits, Posted

(* A step that leaves the polls alone.                                      *)
LEMMA DownFitsKept ==
    ASSUME LoopInvariant, UNCHANGED <<client, received>>,
           \A s \in Session : server'[s].sent = server[s].sent /\ server'[s].queue = server[s].queue,
           \A r : r.kind = "poll" => (r \in requests' <=> r \in requests)
    PROVE  DownFits'
  BY PollTaken DEF LoopInvariant, DownFits

(* What the poll of a session was given is empty, or the session is over.   *)
LEMMA DownFitsMoves ==
    ASSUME LoopInvariant, UNCHANGED <<client, received>>,
           \A s \in Session : server'[s].sent = server[s].sent /\ server'[s].queue = server[s].queue,
           \A q \in requests' : q.kind = "poll" =>
              \E p \in requests :
                 /\ p.kind = "poll" /\ p.session = q.session /\ p.awaited = q.awaited
                 /\ q = p \/ (p.at # "answered" /\ (q.at = "answered" => q.message = 0))
    PROVE  DownFits'
<1>1. \A s \in Session : (received[s] + Len(server[s].queue) <= server[s].sent)'
  BY DEF LoopInvariant, DownFits
<1> SUFFICES ASSUME NEW q \in requests', q.kind = "poll"
             PROVE  LET taken == server'[q.session].sent - Len(server'[q.session].queue) IN
                    /\ q.awaited <=> client'.session = q.session
                    /\ q.awaited /\ q.ok =>
                         taken = received'[q.session] + (IF q.at = "answered" /\ q.message # 0 THEN 1 ELSE 0)
                    /\ q.at = "answered" /\ q.message # 0 => q.ok /\ q.message = taken
  BY <1>1 DEF DownFits
<1>2. PICK p \in requests :
         /\ p.kind = "poll" /\ p.session = q.session /\ p.awaited = q.awaited
         /\ q = p \/ (p.at # "answered" /\ (q.at = "answered" => q.message = 0))
  OBVIOUS
<1>3. p.session \in Session
  BY <1>2, PollTaken
<1>4. CASE q = p
  BY <1>2, <1>3, <1>4 DEF LoopInvariant, DownFits
<1>5. CASE q # p
  <2>1. p.at # "answered" /\ p.ok
    BY <1>2, <1>5 DEF LoopInvariant, RequestsFit
  <2>2. LET taken == server[p.session].sent - Len(server[p.session].queue) IN
        /\ p.awaited <=> client.session = p.session
        /\ p.awaited /\ p.ok => taken = received[p.session] + 0
    BY <1>2, <2>1 DEF LoopInvariant, DownFits
  <2> QED BY <1>2, <1>3, <1>5, <2>1, <2>2
<1> QED BY <1>4, <1>5

(* Q is the empty answer to the one parked poll p of a session.             *)
EmptyAnswer(s, p, Q) ==
    /\ p \in requests /\ Parked(s) = {p} /\ p.at = "parked" /\ p.session = s /\ p.kind = "poll"
    /\ Moves(p, Q)
    /\ \A q \in Q : q.kind = "poll" /\ q.session = s /\ q.at = "answered" /\ q.message = 0

(* Releasing a parked poll answers the one poll that is parked, if one is.  *)
LEMMA ReleasedIs ==
    ASSUME LoopInvariant, NEW s \in Session, NEW rs, Parked(s) \subseteq rs
    PROVE  \/ Parked(s) = {} /\ ReleasedBy(s, rs) = rs
           \/ \E p, Q : EmptyAnswer(s, p, Q) /\ ReleasedBy(s, rs) = (rs \ {p}) \cup Q
<1>1. CASE Parked(s) = {}
  BY <1>1 DEF ReleasedBy
<1>2. CASE Parked(s) # {}
  <2>1. PICK p \in requests : p \in Parked(s)
    BY <1>2 DEF Parked
  <2>2. Parked(s) = {p} /\ p.at = "parked" /\ p.session = s /\ p.kind = "poll"
    BY <2>1 DEF LoopInvariant, OneOfEach, Parked, RequestsFit
  <2>3. ReleasedBy(s, rs) = (rs \ {p}) \cup Answer(p, TRUE, 0)
    BY <2>2 DEF ReleasedBy
  <2>4. PICK m : m = 0
    OBVIOUS
  <2>5. LoopTypeOK /\ m \in Nat /\ m \in 0 .. MaxUp + MaxDown /\ p.kind # "connect" /\ p.at # "answered"
    BY <2>2, <2>4, LoopConstants DEF LoopInvariant
  <2>6. GivesAnswer(p, TRUE, m, Answer(p, TRUE, m))
    BY <2>5, AnswerMoves
  <2>7. EmptyAnswer(s, p, Answer(p, TRUE, m))
    BY <2>2, <2>4, <2>6 DEF EmptyAnswer, GivesAnswer
  <2> QED BY <2>3, <2>4, <2>7
<1> QED BY <1>1, <1>2

(* A queue that a step leaves alone still fits, if no poll is parked beside *)
(* it.                                                                      *)
LEMMA QueueFitsKept ==
    ASSUME LoopInvariant, NEW t \in Session,
           server'[t].queue = server[t].queue, server'[t].sent = server[t].sent,
           server'[t].poll => server[t].queue = <<>> /\ server'[t].state = "open",
           server'[t].poll <=> Parked(t)' # {}
    PROVE  QueueFits(t)'
<1>1. QueueFits(t)
  BY DEF LoopInvariant
<1> QED BY <1>1 DEF QueueFits

(* A step of the server that leaves the queues alone: a request is answered *)
(* or parked, a session ends.                                               *)
LEMMA QuietStepPreserves ==
    ASSUME LoopInvariant, UNCHANGED <<client, received, accepted, failures, late>>,
           server' \in [Session -> ServerSession], handled' \in [Session -> 0 .. MaxUp],
           \A t \in Session :
              /\ server'[t].sent = server[t].sent /\ server'[t].queue = server[t].queue
              /\ server'[t].state = "unused" <=> server[t].state = "unused"
              /\ server'[t].poll => server[t].queue = <<>> /\ server'[t].state = "open"
              /\ server'[t].poll <=> Parked(t)' # {}
              /\ Fresh(t) => handled'[t] = handled[t],
           \/ UNCHANGED requests
           \/ QuietMoves,
           UpFits'
    PROVE  LoopInvariant'
<1>0. LoopTypeOK
  BY DEF LoopInvariant
<1>1. /\ requests' \subseteq Request /\ OneOfEach'
      /\ \A q \in requests' : \E o \in requests : Advances(o, q)
      /\ \A o \in requests : o.awaited => \E q \in requests' : Advances(o, q)
  <2>1. CASE UNCHANGED requests
    <3>1. \A q \in requests : Advances(q, q)
      BY <1>0, Fields DEF Advances
    <3>2. requests' \subseteq Request /\ OneOfEach'
      BY <2>1, <1>0 DEF LoopTypeOK, LoopInvariant, OneOfEach
    <3> QED BY <2>1, <3>1, <3>2
  <2>2. CASE QuietMoves
    BY <2>2, MovesKeepType, MovesKeepOneOfEach DEF QuietMoves
  <2> QED BY <2>1, <2>2
<1>2. LoopTypeOK'
  BY <1>0, <1>1 DEF LoopTypeOK
<1>3. \A t \in Session : SessionKept(t)
  BY DEF SessionKept, Fresh
<1>4. /\ QueueIsPosted' /\ CloseFits' /\ (\A t \in Session : OnePoll(t))'
      /\ RequestsFit' /\ SessionsFit'
  BY <1>1, <1>2, <1>3, ServerStepKeeps
<1>5. DownFits'
  <2>1. CASE UNCHANGED requests
    BY <2>1, DownFitsKept
  <2>2. CASE QuietMoves
    <3>1. ASSUME NEW q \in requests', q.kind = "poll"
          PROVE  \E p \in requests :
                    /\ p.kind = "poll" /\ p.session = q.session /\ p.awaited = q.awaited
                    /\ q = p \/ (p.at # "answered" /\ (q.at = "answered" => q.message = 0))
      BY <2>2, <3>1 DEF QuietMoves, ServerMoves, Moves, Advances
    <3> QED BY <3>1, DownFitsMoves
  <2> QED BY <2>1, <2>2
<1>6. (\A t \in Session : QueueFits(t))'
  BY QueueFitsKept
<1> QED BY <1>2, <1>1, <1>4, <1>5, <1>6 DEF LoopInvariant

(* What closing a session makes of it.                                      *)
LEMMA ClosedIs ==
    ASSUME LoopInvariant, NEW s \in Session, server' = [server EXCEPT ![s] = Closed(@)]
    PROVE  /\ server' \in [Session -> ServerSession]
           /\ \A t \in Session : /\ server'[t].sent = server[t].sent /\ server'[t].queue = server[t].queue
                                 /\ t # s => server'[t] = server[t]
           /\ server'[s].state = "closed" /\ server'[s].poll = FALSE
<1>1. server \in [Session -> ServerSession]
  BY DEF LoopInvariant, LoopTypeOK
<1> QED BY <1>1 DEF ServerSession, Closed

(* The poll of a session is released, and nothing else happens to requests. *)
LEMMA ReleaseMoves ==
    ASSUME LoopInvariant, NEW s \in Session, requests' = ReleasedBy(s, requests)
    PROVE  /\ \/ UNCHANGED requests
              \/ QuietMoves
           /\ Parked(s)' = {} /\ \A t \in Session \ {s} : Parked(t)' = Parked(t)
           /\ \A q : q.kind = "send" => (q \in requests' <=> q \in requests)
<1>1. Parked(s) \subseteq requests
  BY DEF Parked
<1>2. CASE Parked(s) = {} /\ requests' = requests
  BY <1>2 DEF Parked
<1>3. CASE \E p, Q : EmptyAnswer(s, p, Q) /\ requests' = (requests \ {p}) \cup Q
  <2>1. PICK p, Q : EmptyAnswer(s, p, Q) /\ requests' = (requests \ {p}) \cup Q
    BY <1>3
  <2>2. ServerMoves(p, Q, p, Q)
    BY <2>1 DEF ServerMoves, EmptyAnswer
  <2>3. Parked(s)' = {} /\ \A t \in Session \ {s} : Parked(t)' = Parked(t)
    BY <2>1 DEF Parked, EmptyAnswer
  <2>4. \A q : q.kind = "send" => (q \in requests' <=> q \in requests)
    BY <2>1 DEF EmptyAnswer
  <2>5. \A q \in Q \cup Q : q.kind = "poll" /\ q.at = "answered" => q.message = 0
    BY <2>1 DEF EmptyAnswer
  <2> QED BY <2>2, <2>3, <2>4, <2>5 DEF QuietMoves
<1> QED BY <1>1, <1>2, <1>3, ReleasedIs

(* The same, and another request moves to Q.                                *)
LEMMA ReleaseAndMove ==
    ASSUME LoopInvariant, NEW s \in Session,
           NEW r \in requests, r.at \notin {"parked", "answered"}, NEW Q, Moves(r, Q),
           \A q \in Q : q.at # "parked" \/ q.session = s,
           \A q \in Q : q.kind = "poll" /\ q.at = "answered" => q.message = 0,
           requests' = ReleasedBy(s, requests \ {r}) \cup Q
    PROVE  /\ QuietMoves
           /\ Parked(s)' = {q \in Q : q.at = "parked"}
           /\ \A t \in Session \ {s} : Parked(t)' = Parked(t)
           /\ \A q : q.kind = "send" =>
                 (q \in requests' <=> (q \in requests /\ q # r) \/ q \in Q)
<1>1. Parked(s) \subseteq requests \ {r}
  BY DEF Parked
<1>2. CASE Parked(s) = {} /\ requests' = (requests \ {r}) \cup Q
  <2>1. ServerMoves(r, Q, r, Q)
    BY <1>2 DEF ServerMoves, Parked
  <2>2. \A q \in Q \cup Q : q.kind = "poll" /\ q.at = "answered" => q.message = 0
    OBVIOUS
  <2>3. Parked(s)' = {q \in Q : q.at = "parked"}
    BY <1>2 DEF Parked
  <2>4. \A t \in Session \ {s} : Parked(t)' = Parked(t)
    BY <1>2 DEF Parked
  <2>5. \A q : q.kind = "send" => (q \in requests' <=> (q \in requests /\ q # r) \/ q \in Q)
    BY <1>2
  <2>6. QuietMoves
    BY <2>1, <2>2 DEF QuietMoves
  <2> QED BY <2>3, <2>4, <2>5, <2>6
<1>3. CASE \E p, P : EmptyAnswer(s, p, P) /\ requests' = ((requests \ {r}) \ {p}) \cup P \cup Q
  <2>1. PICK p, P : EmptyAnswer(s, p, P) /\ requests' = ((requests \ {r}) \ {p}) \cup P \cup Q
    BY <1>3
  <2>2. ServerMoves(p, P, r, Q)
    BY <2>1 DEF ServerMoves, EmptyAnswer, Parked
  <2>3. \A q \in P \cup Q : q.kind = "poll" /\ q.at = "answered" => q.message = 0
    BY <2>1 DEF EmptyAnswer
  <2>4. Parked(s)' = {q \in Q : q.at = "parked"}
    BY <2>1 DEF Parked, EmptyAnswer
  <2>5. \A t \in Session \ {s} : Parked(t)' = Parked(t)
    BY <2>1 DEF Parked, EmptyAnswer
  <2>6. \A q : q.kind = "send" => (q \in requests' <=> (q \in requests /\ q # r) \/ q \in Q)
    BY <2>1 DEF EmptyAnswer
  <2>7. QuietMoves
    BY <2>2, <2>3 DEF QuietMoves
  <2> QED BY <2>4, <2>5, <2>6, <2>7
<1>4. \/ Parked(s) = {} /\ ReleasedBy(s, requests \ {r}) = requests \ {r}
      \/ \E p, P : EmptyAnswer(s, p, P) /\ ReleasedBy(s, requests \ {r}) = ((requests \ {r}) \ {p}) \cup P
  BY <1>1, ReleasedIs
<1> QED BY <1>2, <1>3, <1>4

(* A request that is not parked can be removed before the release as well   *)
(* as after it.                                                             *)
LEMMA ReleaseFirst ==
    ASSUME LoopInvariant, NEW s \in Session, NEW r \in requests, r.at \notin {"parked", "answered"}
    PROVE  ReleasedBy(s, requests) \ {r} = ReleasedBy(s, requests \ {r})
<1>1. Parked(s) \subseteq requests /\ r \notin Parked(s)
  BY DEF Parked
<1>2. \A p \in Parked(s) : r \notin Answer(p, TRUE, 0)
  BY <1>1, Fields DEF LoopInvariant, Answer, Request
<1> QED BY <1>1, <1>2 DEF ReleasedBy

(* The parts of UpFits, for the sessions and messages of one state.         *)
LEMMA UpFitsParts ==
    ASSUME LoopInvariant
    PROVE  /\ LoopTypeOK /\ UpFits
           /\ \A r \in Pending :
                 /\ r \in requests /\ r.kind = "send" /\ r.session \in Session
                 /\ r.message \in Nat /\ r.message >= 1 /\ r.message <= Posted
                 /\ \A s \in Session : handled[s] # r.message
                 /\ handled[r.session] \in {0, r.message - 1}
                 /\ \A p \in Pending : p.session = r.session \/ p.message = r.message => p = r
           /\ Posted \in Int /\ \A s \in Session : handled[s] \in Nat /\ handled[s] <= Posted
<1>1. LoopTypeOK /\ UpFits /\ Posted \in Int
  BY Fields DEF LoopInvariant, Posted
<1>2. \A r \in Pending : r \in requests /\ r.kind = "send"
  BY DEF Pending
<1>3. \A r \in Pending : r.session \in Session /\ r.message \in Nat
  BY <1>1, <1>2, SessionTaken, Fields
<1>4. \A r \in Pending : r.message >= 1 /\ r.message <= Posted
  BY <1>1, <1>3 DEF UpFits
<1>5. \A s \in Session : handled[s] \in Nat /\ handled[s] <= Posted
  BY <1>1, Fields DEF UpFits
<1> QED BY <1>1, <1>2, <1>3, <1>4, <1>5 DEF UpFits

(* A message waits for its body, or is refused.                             *)
LEMMA UpFitsMoved ==
    ASSUME LoopInvariant, UNCHANGED <<client, handled, accepted>>,
           NEW r \in requests, r.kind = "send", r.at = "sent", NEW Q, Moves(r, Q),
           \A q \in Q : \/ q.at = "body" /\ q.message = r.message
                        \/ q.at = "answered" /\ ~q.ok,
           requests' = (requests \ {r}) \cup Q
    PROVE  UpFits'
<1>0. Posted' = Posted
  BY DEF Posted
<1>1. r \in Pending
  BY DEF Pending
<1>2. \A q \in Q : q.kind = "send" /\ q.session = r.session /\ q.awaited = r.awaited
  BY DEF Moves, Advances
<1>3. \A q \in Pending' : \/ q \in Pending /\ q # r
                          \/ q \in Q /\ q.session = r.session /\ q.message = r.message
  BY <1>2 DEF Pending
<1>4. \A a, b \in Q : a = b
  BY DEF Moves
<1>5. ASSUME NEW q \in Pending'
      PROVE  /\ q.message \in 1 .. Posted
             /\ \A s \in Session : handled[s] # q.message
             /\ handled[q.session] \in {0, q.message - 1}
             /\ \A p \in Pending' : p.session = q.session \/ p.message = q.message => p = q
  <2>1. /\ q.message \in 1 .. Posted
        /\ \A s \in Session : handled[s] # q.message
        /\ handled[q.session] \in {0, q.message - 1}
    BY <1>1, <1>3, <1>5, UpFitsParts DEF UpFits
  <2>2. \A p \in Pending' : p.session = q.session \/ p.message = q.message => p = q
    BY <1>1, <1>3, <1>4, <1>5, UpFitsParts
  <2> QED BY <2>1, <2>2
<1>6. \A q \in requests' : q.kind = "send" /\ q.session = client.session =>
          /\ q.awaited
          /\ q \in Pending' => q.message = Posted
  BY <1>1, <1>2, <1>3, UpFitsParts DEF UpFits
<1>7. client.session # NoSession =>
          \/ handled[client.session] \in {0, Posted}
          \/ \E q \in requests' : q.kind = "send" /\ q.session = client.session /\ (q \in Pending' \/ ~q.ok)
  <2> SUFFICES ASSUME client.session # NoSession, handled[client.session] \notin {0, Posted}
               PROVE  \E q \in requests' : q.kind = "send" /\ q.session = client.session /\ (q \in Pending' \/ ~q.ok)
    OBVIOUS
  <2>1. PICK q \in requests : q.kind = "send" /\ q.session = client.session /\ (q \in Pending \/ ~q.ok)
    BY UpFitsParts DEF UpFits
  <2>2. CASE q # r
    BY <2>1, <2>2 DEF Pending
  <2>3. CASE q = r
    <3>1. r.awaited
      BY <2>1, <2>3, UpFitsParts DEF UpFits
    <3>2. PICK a \in Q : TRUE
      BY <3>1 DEF Moves
    <3>3. a \in requests' /\ a.kind = "send" /\ a.session = client.session /\ (a.at = "body" \/ ~a.ok)
      BY <3>2, <2>1, <2>3, <1>2
    <3> QED BY <3>3 DEF Pending
  <2> QED BY <2>2, <2>3
<1>8. (\A k \in 1 .. Len(client.queue) : client.queue[k] = Posted + k)'
  BY <1>0, UpFitsParts DEF UpFits
<1>9. (\A s \in Session : handled[s] <= Posted)'
  BY <1>0, UpFitsParts
<1>10. client'.session = client.session /\ handled' = handled
  OBVIOUS
<1> QED BY <1>0, <1>5, <1>6, <1>7, <1>8, <1>9, <1>10 DEF UpFits

(* A message is handed to the runtime.                                      *)
LEMMA UpFitsHandled ==
    ASSUME LoopInvariant, UNCHANGED <<client, accepted>>,
           NEW r \in requests, r.at = "body", NEW Q, Moves(r, Q), \A q \in Q : q.at = "answered",
           handled' = [handled EXCEPT ![r.session] = r.message],
           \A q : q.kind = "send" => (q \in requests' <=> (q \in requests /\ q # r) \/ q \in Q)
    PROVE  UpFits' /\ handled' \in [Session -> 0 .. MaxUp]
<1>0. Posted' = Posted
  BY DEF Posted
<1>1. r.kind = "send" /\ r \in Pending
  BY DEF LoopInvariant, RequestsFit, Pending
<1>2. \A q \in Q : q.kind = "send" /\ q.session = r.session /\ q.awaited = r.awaited
  BY <1>1 DEF Moves, Advances
<1>3. \A q : q \in Pending' <=> q \in Pending /\ q # r
  BY <1>1, <1>2 DEF Pending
<1>4. /\ r.session \in Session /\ r.message \in Nat /\ r.message <= Posted /\ Posted \in Int
      /\ \A q \in Pending' : q.session # r.session /\ q.message # r.message
  BY <1>1, <1>3, UpFitsParts
<1>5. handled'[r.session] = r.message /\ \A s \in Session \ {r.session} : handled'[s] = handled[s]
  BY <1>4 DEF LoopInvariant, LoopTypeOK
<1>6. ASSUME NEW q \in Pending'
      PROVE  /\ q.message \in 1 .. Posted
             /\ \A s \in Session : handled'[s] # q.message
             /\ handled'[q.session] \in {0, q.message - 1}
             /\ \A p \in Pending' : p.session = q.session \/ p.message = q.message => p = q
  BY <1>3, <1>4, <1>5, <1>6, UpFitsParts DEF UpFits
<1>7. \A q \in requests' : q.kind = "send" /\ q.session = client.session =>
          /\ q.awaited
          /\ q \in Pending' => q.message = Posted
  BY <1>1, <1>2, <1>3, UpFitsParts DEF UpFits
<1>8. client.session # NoSession =>
          \/ handled'[client.session] \in {0, Posted}
          \/ \E q \in requests' : q.kind = "send" /\ q.session = client.session /\ (q \in Pending' \/ ~q.ok)
  <2>1. CASE client.session = r.session
    BY <2>1, <1>1, <1>5, UpFitsParts DEF UpFits
  <2>2. CASE client.session # r.session /\ client.session # NoSession
    <3>1. handled'[client.session] = handled[client.session]
      BY <2>2, <1>5, UpFitsParts, Fields
    <3> QED BY <2>2, <3>1, <1>3, UpFitsParts DEF UpFits
  <2> QED BY <2>1, <2>2
<1>9. (\A k \in 1 .. Len(client.queue) : client.queue[k] = Posted + k)'
  BY <1>0, UpFitsParts DEF UpFits
<1>10. (\A s \in Session : handled[s] <= Posted)'
  BY <1>0, <1>4, <1>5, UpFitsParts
<1>11. handled' \in [Session -> 0 .. MaxUp]
  <2>1. r.message \in 0 .. MaxUp
    BY <1>4, UpFitsParts, Fields, LoopConstants DEF Posted
  <2> QED BY <2>1, <1>4 DEF LoopInvariant, LoopTypeOK
<1>12. client'.session = client.session
  OBVIOUS
<1> QED BY <1>0, <1>6, <1>7, <1>8, <1>9, <1>10, <1>11, <1>12 DEF UpFits

-----------------------------------------------------------------------------
(* The steps of the server.                                                 *)

(* send() of HttpLoopSessionTransport.                                      *)
LEMMA RuntimeSendsPreserves ==
    ASSUME LoopInvariant, NEW s \in Session, RuntimeSends(s)
    PROVE  LoopInvariant'
<1>m. PICK m : m = server[s].sent + 1
  OBVIOUS
<1>0. LoopTypeOK /\ server \in [Session -> ServerSession]
  BY DEF LoopInvariant, LoopTypeOK
<1>s. server[s].sent \in Nat /\ m <= MaxDown /\ server[s].state = "open"
  BY <1>m, <1>0, Fields DEF RuntimeSends
<1>t. m \in Nat /\ m \in 0 .. MaxDown /\ m \in 1 .. MaxDown /\ m \in 0 .. MaxUp + MaxDown
  BY <1>m, <1>s, LoopConstants
<1>. UNCHANGED <<client, received, handled, accepted, failures, late>>
  BY DEF RuntimeSends
<1>1. CASE ~server[s].poll
  <2>p. PICK o : o = Append(server[s].queue, m)
    OBVIOUS
  <2>0. /\ server' = [server EXCEPT ![s].sent = m, ![s].queue = o]
        /\ UNCHANGED requests
    BY <1>m, <2>p, <1>1 DEF RuntimeSends
  <2>q. /\ server[s].queue \in Seq(1 .. MaxDown) /\ Len(server[s].queue) \in Nat
        /\ o \in Seq(1 .. MaxDown)
        /\ Len(o) = Len(server[s].queue) + 1
        /\ \A k \in 1 .. Len(server[s].queue) : o[k] = server[s].queue[k]
        /\ o[Len(o)] = m
    BY <1>0, <1>t, <2>p, Fields
  <2>1. /\ server' \in [Session -> ServerSession]
        /\ server'[s].sent = m /\ server'[s].queue = o
        /\ server'[s].poll = server[s].poll /\ server'[s].state = server[s].state
        /\ \A t \in Session \ {s} : server'[t] = server[t]
    BY <1>0, <1>t, <2>q, <2>0 DEF ServerSession
  <2>n. /\ server[s].sent \in Nat /\ Len(server[s].queue) \in Nat
        /\ server'[s].sent = server[s].sent + 1 /\ Len(server'[s].queue) = Len(server[s].queue) + 1
    BY <1>m, <1>s, <2>1, <2>q
  <2>2. LoopTypeOK'
    BY <1>0, <2>0, <2>1 DEF LoopTypeOK
  <2>3. OneOfEach' /\ UpFits'
    BY <2>0, UpFitsKept DEF LoopInvariant, OneOfEach
  <2>4. \A q \in requests : Advances(q, q)
    BY <1>0, Fields DEF Advances
  <2>5. \A t \in Session : SessionKept(t)
    <3>1. SessionKept(s)
      BY <1>m, <1>s, <2>1, <2>q DEF SessionKept, Fresh
    <3>2. \A t \in Session \ {s} : SessionKept(t)
      BY <2>1 DEF SessionKept, Fresh
    <3> QED BY <3>1, <3>2
  <2>6. /\ QueueIsPosted' /\ CloseFits' /\ (\A t \in Session : OnePoll(t))'
        /\ RequestsFit' /\ SessionsFit'
    BY <2>0, <2>2, <2>3, <2>4, <2>5, ServerStepKeeps
  <2>7. DownFits'
    <3>1. \A t \in Session : server'[t].sent - Len(server'[t].queue) = server[t].sent - Len(server[t].queue)
      <4>1. server'[s].sent - Len(server'[s].queue) = server[s].sent - Len(server[s].queue)
        BY <2>n
      <4> QED BY <4>1, <2>1
    <3>2. \A t \in Session : (received[t] + Len(server[t].queue) <= server[t].sent)'
      <4>1. (received[s] + Len(server[s].queue) <= server[s].sent)'
        BY <2>n, <1>0, Fields DEF LoopInvariant, DownFits
      <4>2. ASSUME NEW t \in Session, t # s PROVE (received[t] + Len(server[t].queue) <= server[t].sent)'
        BY <2>1, <4>2 DEF LoopInvariant, DownFits
      <4> QED BY <4>1, <4>2
    <3> QED BY <2>0, <3>1, <3>2, PollTaken DEF LoopInvariant, DownFits
  <2>8. (\A t \in Session : QueueFits(t))'
    <3>1. \A t \in Session : QueueFits(t)
      BY DEF LoopInvariant
    <3>p. \A t \in Session : Parked(t)' = Parked(t)
      BY <2>0 DEF Parked
    <3>2. \A k \in 1 .. Len(o) : o[k] = server'[s].sent - Len(o) + k
      <4> SUFFICES ASSUME NEW k \in 1 .. Len(o) PROVE o[k] = server'[s].sent - Len(o) + k
        OBVIOUS
      <4>1. CASE k = Len(o)
        BY <4>1, <2>n, <1>t, <2>1, <2>q
      <4>2. CASE k # Len(o)
        <5>1. k \in 1 .. Len(server[s].queue)
          BY <4>2, <2>q
        <5>2. server[s].queue[k] = server[s].sent - Len(server[s].queue) + k
          BY <5>1, <3>1 DEF QueueFits
        <5>3. o[k] = server[s].sent - Len(server[s].queue) + k /\ k \in Nat
          BY <5>1, <5>2, <2>q
        <5>4. Len(o) = Len(server[s].queue) + 1 /\ server'[s].sent = server[s].sent + 1
          BY <2>n, <2>q
        <5>5. \A a, b \in Nat : a - b + k = (a + 1) - (b + 1) + k
          BY <5>3
        <5> QED BY <5>3, <5>4, <5>5, <2>n
      <4> QED BY <4>1, <4>2
    <3>3. QueueFits(s)'
      BY <1>1, <2>1, <3>1, <3>p, <3>2 DEF QueueFits
    <3>4. ASSUME NEW t \in Session, t # s PROVE QueueFits(t)'
      BY <2>1, <3>1, <3>p, <3>4 DEF QueueFits
    <3> QED BY <3>3, <3>4
  <2> QED BY <2>2, <2>3, <2>6, <2>7, <2>8 DEF LoopInvariant
<1>2. CASE server[s].poll
  <2>p. PICK p \in requests : p \in Parked(s)
    BY <1>2 DEF LoopInvariant, QueueFits, Parked
  <2>0. Parked(s) = {p} /\ p.at = "parked" /\ p.session = s /\ p.kind = "poll" /\ p \in Request
    BY <1>0, <2>p, Fields DEF LoopInvariant, OneOfEach, Parked, RequestsFit
  <2>1. /\ server' = [server EXCEPT ![s].sent = m, ![s].poll = FALSE]
        /\ requests' = (requests \ {p}) \cup Answer(p, TRUE, m)
    BY <1>m, <1>2, <2>0 DEF RuntimeSends
  <2>2. /\ Moves(p, Answer(p, TRUE, m))
        /\ \A q \in Answer(p, TRUE, m) :
                 /\ q.kind = p.kind /\ q.session = p.session /\ q.awaited /\ p.awaited
                 /\ q.at = "answered" /\ q.ok = TRUE /\ q.message = m
    <3>1. GivesAnswer(p, TRUE, m, Answer(p, TRUE, m))
      BY <2>0, <1>0, <1>t, AnswerMoves
    <3> QED BY <3>1 DEF GivesAnswer
  <2>3. ServerMoves(p, Answer(p, TRUE, m), p, Answer(p, TRUE, m))
    BY <2>1, <2>2 DEF ServerMoves
  <2>4. /\ server' \in [Session -> ServerSession]
        /\ server'[s].sent = m /\ server'[s].queue = server[s].queue
        /\ server'[s].poll = FALSE /\ server'[s].state = server[s].state
        /\ \A t \in Session \ {s} : server'[t] = server[t]
    BY <1>0, <2>1, <1>t DEF ServerSession
  <2>5. LoopTypeOK' /\ OneOfEach'
    BY <1>0, <2>3, <2>4, MovesKeepType, MovesKeepOneOfEach DEF LoopTypeOK
  <2>6. \A t \in Session : SessionKept(t)
    <3>1. SessionKept(s)
      BY <2>0, <2>4 DEF SessionKept, Fresh
    <3>2. \A t \in Session \ {s} : SessionKept(t)
      BY <2>4 DEF SessionKept, Fresh
    <3> QED BY <3>1, <3>2
  <2>7. /\ QueueIsPosted' /\ CloseFits' /\ (\A t \in Session : OnePoll(t))'
        /\ RequestsFit' /\ SessionsFit'
    BY <2>3, <2>5, <2>6, MovesKeepType, ServerStepKeeps
  <2>8. UpFits'
    BY <2>0, <2>1, <2>2, UpFitsKept
  <2>9. DownFits'
    <3>1. server[s].queue = <<>> /\ Len(server[s].queue) = 0
      BY <1>2 DEF LoopInvariant, QueueFits
    <3>2. p.awaited => received[s] = server[s].sent
      BY <3>1, <2>0, <1>s, <1>0, Fields DEF LoopInvariant, DownFits, RequestsFit
    <3>3. \A t \in Session : (received[t] + Len(server[t].queue) <= server[t].sent)'
      <4>1. (received[s] + Len(server[s].queue) <= server[s].sent)'
        BY <1>m, <1>s, <2>4, <3>1, <1>0, Fields DEF LoopInvariant, DownFits
      <4>2. ASSUME NEW t \in Session, t # s PROVE (received[t] + Len(server[t].queue) <= server[t].sent)'
        BY <2>4, <4>2 DEF LoopInvariant, DownFits
      <4> QED BY <4>1, <4>2
    <3>4. ASSUME NEW q \in requests', q.kind = "poll"
          PROVE  LET taken == server'[q.session].sent - Len(server'[q.session].queue) IN
                    /\ q.awaited <=> client'.session = q.session
                    /\ q.awaited /\ q.ok =>
                         taken = received'[q.session] + (IF q.at = "answered" /\ q.message # 0 THEN 1 ELSE 0)
                    /\ q.at = "answered" /\ q.message # 0 => q.ok /\ q.message = taken
      <4>1. CASE q \in Answer(p, TRUE, m)
        <5>1. q.awaited /\ p.awaited /\ q.session = s /\ q.at = "answered" /\ q.ok /\ q.message = m
          BY <4>1, <2>0, <2>2
        <5>2. server'[s].sent - Len(server'[s].queue) = m /\ m # 0 /\ m = received[s] + 1
          BY <1>m, <1>t, <1>s, <2>4, <3>1, <3>2, <5>1
        <5>3. client.session = s
          BY <5>1, <2>0 DEF LoopInvariant, DownFits
        <5> QED BY <5>1, <5>2, <5>3
      <4>2. CASE q \in requests \ {p}
        <5>1. CASE q.session = s
          <6>1. ~q.awaited /\ q.at # "answered" /\ client.session # q.session
            BY <4>2, <5>1, <2>0, <3>4 DEF LoopInvariant, DownFits, OneOfEach, RequestsFit
          <6> QED BY <6>1
        <5>2. CASE q.session # s
          BY <4>2, <5>2, <2>4, <3>4, PollTaken DEF LoopInvariant, DownFits
        <5> QED BY <5>1, <5>2
      <4> QED BY <4>1, <4>2, <2>1
    <3> QED BY <3>3, <3>4 DEF DownFits
  <2>10. (\A t \in Session : QueueFits(t))'
    <3>1. \A t \in Session : QueueFits(t)
      BY DEF LoopInvariant
    <3>2. Parked(s)' = {} /\ \A t \in Session \ {s} : Parked(t)' = Parked(t)
      BY <2>0, <2>1, <2>2 DEF Parked
    <3>3. QueueFits(s)'
      BY <1>2, <2>4, <3>1, <3>2 DEF QueueFits
    <3>4. ASSUME NEW t \in Session, t # s PROVE QueueFits(t)'
      BY <2>4, <3>1, <3>2, <3>4 DEF QueueFits
    <3> QED BY <3>3, <3>4
  <2> QED BY <2>5, <2>7, <2>8, <2>9, <2>10 DEF LoopInvariant
<1> QED BY <1>1, <1>2

(* close() of HttpLoopSessionTransport.                                     *)
LEMMA RuntimeClosesPreserves ==
    ASSUME LoopInvariant, NEW s \in Session, RuntimeCloses(s)
    PROVE  LoopInvariant'
<1>1. /\ server[s].state = "open" /\ server' = [server EXCEPT ![s] = Closed(@)]
      /\ requests' = ReleasedBy(s, requests)
      /\ UNCHANGED <<client, received, handled, accepted, failures, late>>
  BY DEF RuntimeCloses
<1>2. /\ server' \in [Session -> ServerSession]
      /\ \A t \in Session : /\ server'[t].sent = server[t].sent /\ server'[t].queue = server[t].queue
                            /\ t # s => server'[t] = server[t]
      /\ server'[s].state = "closed" /\ server'[s].poll = FALSE
  BY <1>1, ClosedIs
<1>3. /\ \/ UNCHANGED requests
         \/ QuietMoves
      /\ Parked(s)' = {} /\ \A t \in Session \ {s} : Parked(t)' = Parked(t)
      /\ \A q : q.kind = "send" => (q \in requests' <=> q \in requests)
  BY <1>1, ReleaseMoves
<1>4. UpFits'
  BY <1>1, <1>3, UpFitsKept
<1>5. \A t \in Session :
              /\ server'[t].state = "unused" <=> server[t].state = "unused"
              /\ server'[t].poll => server[t].queue = <<>> /\ server'[t].state = "open"
              /\ server'[t].poll <=> Parked(t)' # {}
  BY <1>1, <1>2, <1>3 DEF LoopInvariant, QueueFits
<1>6. handled' \in [Session -> 0 .. MaxUp]
  BY <1>1 DEF LoopInvariant, LoopTypeOK
<1> QED BY <1>1, <1>2, <1>3, <1>4, <1>5, <1>6, QuietStepPreserves

(* The timeout of a parked poll.                                            *)
LEMMA PollTimesOutPreserves ==
    ASSUME LoopInvariant, NEW r \in requests, PollTimesOut(r)
    PROVE  LoopInvariant'
<1> DEFINE s == r.session
<1>0. s \in Session /\ r.kind = "poll" /\ r.at = "parked" /\ LoopTypeOK
  BY PollTaken DEF PollTimesOut, LoopInvariant, RequestsFit
<1>1. /\ server' = [server EXCEPT ![s].poll = FALSE]
      /\ requests' = (requests \ {r}) \cup Answer(r, TRUE, 0)
      /\ UNCHANGED <<client, received, handled, accepted, failures, late>>
  BY DEF PollTimesOut, Answered
<1>2. /\ server' \in [Session -> ServerSession]
      /\ \A t \in Session : /\ server'[t].sent = server[t].sent /\ server'[t].queue = server[t].queue
                            /\ server'[t].state = server[t].state
                            /\ t # s => server'[t] = server[t]
      /\ server'[s].poll = FALSE
  <2>1. server \in [Session -> ServerSession]
    BY <1>0 DEF LoopTypeOK
  <2> QED BY <1>0, <1>1, <2>1 DEF ServerSession
<1>p. Parked(s) = {r} /\ r \in Parked(s)
  BY <1>0 DEF Parked, LoopInvariant, OneOfEach
<1>3. requests' = ReleasedBy(s, requests)
  BY <1>p, <1>1 DEF ReleasedBy
<1>4. /\ \/ UNCHANGED requests
         \/ QuietMoves
      /\ Parked(s)' = {} /\ \A t \in Session \ {s} : Parked(t)' = Parked(t)
      /\ \A q : q.kind = "send" => (q \in requests' <=> q \in requests)
  BY <1>0, <1>3, ReleaseMoves
<1>5. UpFits'
  BY <1>1, <1>4, UpFitsKept
<1>6. \A t \in Session :
              /\ server'[t].state = "unused" <=> server[t].state = "unused"
              /\ server'[t].poll => server[t].queue = <<>> /\ server'[t].state = "open"
              /\ server'[t].poll <=> Parked(t)' # {}
  BY <1>0, <1>1, <1>2, <1>4 DEF LoopInvariant, QueueFits
<1>7. handled' \in [Session -> 0 .. MaxUp]
  BY <1>0, <1>1 DEF LoopTypeOK
<1> QED BY <1>1, <1>2, <1>4, <1>5, <1>6, <1>7, QuietStepPreserves

(* The disconnect handler of the server.                                    *)
LEMMA HandleDisconnectPreserves ==
    ASSUME LoopInvariant, NEW r \in requests, HandleDisconnect(r)
    PROVE  LoopInvariant'
<1> DEFINE s == r.session
<1>0. s \in Session /\ r.kind = "disconnect" /\ r.at = "sent" /\ LoopTypeOK /\ server[s].state # "unused"
  BY SessionTaken DEF HandleDisconnect, LoopInvariant
<1>m. PICK m : m = 0
  OBVIOUS
<1>1. /\ server' = [server EXCEPT ![s] = IF @.state = "open" THEN Closed(@) ELSE @]
      /\ requests' = ReleasedBy(s, requests \ {r}) \cup Answer(r, TRUE, m)
      /\ UNCHANGED <<client, received, handled, accepted, failures, late>>
  BY <1>0, <1>m, ReleaseFirst DEF HandleDisconnect
<1>a. GivesAnswer(r, TRUE, m, Answer(r, TRUE, m))
  <2>1. m \in Nat /\ m \in 0 .. MaxUp + MaxDown
    BY <1>m, LoopConstants
  <2> QED BY <1>0, <2>1, AnswerMoves
<1>4. /\ QuietMoves
      /\ Parked(s)' = {} /\ \A t \in Session \ {s} : Parked(t)' = Parked(t)
      /\ \A q : q.kind = "send" => (q \in requests' <=> q \in requests)
  <2> DEFINE Q == Answer(r, TRUE, m)
  <2>1. /\ Moves(r, Q) /\ \A q \in Q : q.kind = "disconnect" /\ q.at # "parked" /\ q.session = s
    BY <1>0, <1>a DEF GivesAnswer
  <2> HIDE DEF Q
  <2>2. /\ QuietMoves
        /\ Parked(s)' = {q \in Q : q.at = "parked"}
        /\ \A t \in Session \ {s} : Parked(t)' = Parked(t)
        /\ \A q : q.kind = "send" => (q \in requests' <=> (q \in requests /\ q # r) \/ q \in Q)
    BY <1>0, <1>1, <2>1, ReleaseAndMove DEF Q
  <2> QED BY <1>0, <2>1, <2>2
<1>2. /\ server' \in [Session -> ServerSession]
      /\ \A t \in Session : /\ server'[t].sent = server[t].sent /\ server'[t].queue = server[t].queue
                            /\ t # s => server'[t] = server[t]
                            /\ server'[t].state = "unused" <=> server[t].state = "unused"
      /\ server'[s].poll = FALSE
  <2>1. server \in [Session -> ServerSession]
    BY <1>0 DEF LoopTypeOK
  <2>2. CASE server[s].state = "open"
    BY <2>2, <1>0, <1>1, ClosedIs
  <2>3. CASE server[s].state # "open"
    BY <2>1, <2>3, <1>0, <1>1 DEF LoopInvariant, QueueFits
  <2> QED BY <2>2, <2>3
<1>5. UpFits'
  BY <1>1, <1>4, UpFitsKept
<1>7. handled' \in [Session -> 0 .. MaxUp]
  BY <1>0, <1>1 DEF LoopTypeOK
<1>8. \A t \in Session :
              /\ server'[t].poll => server[t].queue = <<>> /\ server'[t].state = "open"
              /\ server'[t].poll <=> Parked(t)' # {}
  BY <1>0, <1>2, <1>4 DEF LoopInvariant, QueueFits
<1> QED BY <1>1, <1>2, <1>4, <1>5, <1>7, <1>8, QuietStepPreserves

(* The send handler of the server, as far as it awaits the body.            *)
LEMMA HandleSendPreserves ==
    ASSUME LoopInvariant, NEW r \in requests, HandleSend(r)
    PROVE  LoopInvariant'
<1>0. /\ r.session \in Session /\ r.kind = "send" /\ r.at = "sent" /\ r.ok /\ LoopTypeOK
      /\ r \in Request
  BY SessionTaken, Fields DEF HandleSend, LoopInvariant
<1>1. UNCHANGED <<server, client, received, handled, accepted, failures, late>>
  BY DEF HandleSend
<1>m. PICK m : m = 0
  OBVIOUS
<1>a. GivesAnswer(r, FALSE, m, Answer(r, FALSE, m))
  <2>1. m \in Nat /\ m \in 0 .. MaxUp + MaxDown
    BY <1>m, LoopConstants
  <2> QED BY <1>0, <2>1, AnswerMoves
<1>2. PICK Q : /\ Q = {[r EXCEPT !.at = "body"]} \/ Q = Answer(r, FALSE, m)
               /\ requests' = (requests \ {r}) \cup Q
  BY <1>m DEF HandleSend, Answered
<1>3. /\ Moves(r, Q)
      /\ \A q \in Q : /\ q.at # "parked" /\ q.kind = "send"
                      /\ \/ q.at = "body" /\ q.message = r.message
                         \/ q.at = "answered" /\ ~q.ok
  <2>1. CASE Q = {[r EXCEPT !.at = "body"]}
    BY <2>1, <1>0 DEF Moves, Advances, Request
  <2>2. CASE Q = Answer(r, FALSE, m)
    BY <2>2, <1>0, <1>a DEF GivesAnswer
  <2> QED BY <1>2, <2>1, <2>2
<1>4. UpFits'
  BY <1>0, <1>1, <1>2, <1>3, UpFitsMoved
<1>5. QuietMoves
  BY <1>0, <1>2, <1>3, OneMoves
<1>6. \A t \in Session : Parked(t)' = Parked(t)
  BY <1>0, <1>2, <1>3 DEF Parked
<1>7. \A t \in Session :
              /\ server'[t].poll => server[t].queue = <<>> /\ server'[t].state = "open"
              /\ server'[t].poll <=> Parked(t)' # {}
  BY <1>1, <1>6 DEF LoopInvariant, QueueFits
<1>8. server' \in [Session -> ServerSession] /\ handled' \in [Session -> 0 .. MaxUp]
  BY <1>0, <1>1 DEF LoopTypeOK
<1> QED BY <1>1, <1>4, <1>5, <1>7, <1>8, QuietStepPreserves

(* The send handler, with the body.                                         *)
LEMMA HandleSendBodyPreserves ==
    ASSUME LoopInvariant, NEW r \in requests, HandleSendBody(r)
    PROVE  LoopInvariant'
<1> DEFINE s == r.session
<1>0. /\ s \in Session /\ r.kind = "send" /\ r.at = "body" /\ LoopTypeOK
      /\ server[s].state # "unused" /\ r \in Pending
  <2>1. r.kind = "send" /\ r.at = "body"
    BY DEF HandleSendBody, LoopInvariant, RequestsFit
  <2> QED BY <2>1, SessionTaken DEF LoopInvariant, Pending
<1>1. /\ UNCHANGED <<client, received, accepted, failures, late>>
      /\ handled' = [handled EXCEPT ![s] = r.message]
  BY DEF HandleSendBody
<1>m. PICK m : m = 0
  OBVIOUS
<1>2. /\ GivesAnswer(r, TRUE, m, Answer(r, TRUE, m))
      /\ GivesAnswer(r, FALSE, m, Answer(r, FALSE, m))
  <2>1. m \in Nat /\ m \in 0 .. MaxUp + MaxDown
    BY <1>m, LoopConstants
  <2> QED BY <1>0, <2>1, AnswerMoves
<1>3. \A t \in Session : Fresh(t) => handled'[t] = handled[t]
  BY <1>0, <1>1 DEF Fresh, LoopTypeOK
<1>4. CASE UNCHANGED server /\ requests' = (requests \ {r}) \cup Answer(r, TRUE, m)
  <2>1. PICK Q : Q = Answer(r, TRUE, m)
    OBVIOUS
  <2>2. Moves(r, Q) /\ \A q \in Q : q.at = "answered" /\ q.kind = "send"
    BY <1>0, <1>2, <2>1 DEF GivesAnswer
  <2>3. QuietMoves
    BY <1>4, <2>1, <2>2, OneMoves
  <2>4. \A q : q.kind = "send" => (q \in requests' <=> (q \in requests /\ q # r) \/ q \in Q)
    BY <1>4, <2>1
  <2>5. UpFits' /\ handled' \in [Session -> 0 .. MaxUp]
    BY <1>0, <1>1, <2>2, <2>4, UpFitsHandled
  <2>6. \A t \in Session : Parked(t)' = Parked(t)
    BY <1>0, <1>4, <2>1, <2>2 DEF Parked
  <2>7. \A t \in Session :
              /\ server'[t].poll => server[t].queue = <<>> /\ server'[t].state = "open"
              /\ server'[t].poll <=> Parked(t)' # {}
    BY <1>4, <2>6 DEF LoopInvariant, QueueFits
  <2>8. server' \in [Session -> ServerSession]
    BY <1>0, <1>4 DEF LoopTypeOK
  <2> QED BY <1>1, <1>3, <1>4, <2>3, <2>5, <2>7, <2>8, QuietStepPreserves
<1>5. CASE /\ requests' = ReleasedBy(s, requests \ {r}) \cup Answer(r, FALSE, m)
           /\ server' = [server EXCEPT ![s] = Closed(@)]
  <2>1. PICK Q : Q = Answer(r, FALSE, m)
    OBVIOUS
  <2>2. Moves(r, Q) /\ \A q \in Q : q.at = "answered" /\ q.kind = "send"
    BY <1>0, <1>2, <2>1 DEF GivesAnswer
  <2>3. /\ QuietMoves
        /\ Parked(s)' = {q \in Q : q.at = "parked"}
        /\ \A t \in Session \ {s} : Parked(t)' = Parked(t)
        /\ \A q : q.kind = "send" => (q \in requests' <=> (q \in requests /\ q # r) \/ q \in Q)
    BY <1>0, <1>5, <2>1, <2>2, ReleaseAndMove
  <2>4. UpFits' /\ handled' \in [Session -> 0 .. MaxUp]
    BY <1>0, <1>1, <2>2, <2>3, UpFitsHandled
  <2>5. /\ server' \in [Session -> ServerSession]
        /\ \A t \in Session : /\ server'[t].sent = server[t].sent /\ server'[t].queue = server[t].queue
                              /\ t # s => server'[t] = server[t]
        /\ server'[s].state = "closed" /\ server'[s].poll = FALSE
    BY <1>0, <1>5, ClosedIs
  <2>6. \A t \in Session :
              /\ server'[t].state = "unused" <=> server[t].state = "unused"
              /\ server'[t].poll => server[t].queue = <<>> /\ server'[t].state = "open"
              /\ server'[t].poll <=> Parked(t)' # {}
    BY <1>0, <2>2, <2>3, <2>5 DEF LoopInvariant, QueueFits
  <2> QED BY <1>1, <1>3, <2>3, <2>4, <2>5, <2>6, QuietStepPreserves
<1> QED BY <1>0, <1>m, <1>4, <1>5, ReleaseFirst DEF HandleSendBody, Answered

(* The poll handler of the server: from the queue, or parked.               *)
LEMMA HandlePollPreserves ==
    ASSUME LoopInvariant, NEW r \in requests, HandlePoll(r)
    PROVE  LoopInvariant'
<1> DEFINE s == r.session
<1>0. s \in Session /\ r.kind = "poll" /\ r.at = "sent" /\ r.ok /\ LoopTypeOK /\ r \in Request
  BY SessionTaken, Fields DEF HandlePoll, LoopInvariant
<1>1. UNCHANGED <<client, received, handled, accepted, failures, late>>
  BY DEF HandlePoll
<1>8. server \in [Session -> ServerSession] /\ handled' \in [Session -> 0 .. MaxUp]
  BY <1>0, <1>1 DEF LoopTypeOK
<1>m. PICK none : none = 0
  OBVIOUS
<1>2. CASE UNCHANGED server /\ requests' = (requests \ {r}) \cup Answer(r, FALSE, none)
  <2>1. PICK Q : Q = Answer(r, FALSE, none)
    OBVIOUS
  <2>a. none \in Nat /\ none \in 0 .. MaxUp + MaxDown
    BY <1>m, LoopConstants
  <2>b. GivesAnswer(r, FALSE, none, Q)
    BY <1>0, <2>1, <2>a, AnswerMoves
  <2>2. Moves(r, Q) /\ \A q \in Q : q.at = "answered" /\ q.kind = "poll" /\ q.message = 0
    BY <1>0, <1>m, <2>b DEF GivesAnswer
  <2>3. QuietMoves
    BY <1>2, <2>1, <2>2, OneMoves
  <2>4. \A q : q.kind = "send" => (q \in requests' <=> q \in requests)
    BY <1>0, <1>2, <2>1, <2>2
  <2>5. UpFits'
    BY <1>1, <2>4, UpFitsKept
  <2>6. \A t \in Session : Parked(t)' = Parked(t)
    BY <1>0, <1>2, <2>1, <2>2 DEF Parked
  <2>7. \A t \in Session :
              /\ server'[t].poll => server[t].queue = <<>> /\ server'[t].state = "open"
              /\ server'[t].poll <=> Parked(t)' # {}
    BY <1>2, <2>6 DEF LoopInvariant, QueueFits
  <2> QED BY <1>1, <1>2, <1>8, <2>3, <2>5, <2>7, QuietStepPreserves
<1>3. CASE /\ server[s].state = "open" /\ server[s].queue = <<>>
           /\ server' = [server EXCEPT ![s].poll = TRUE]
           /\ requests' = ReleasedBy(s, requests \ {r}) \cup {[r EXCEPT !.at = "parked"]}
  <2>1. PICK a : a = [r EXCEPT !.at = "parked"]
    OBVIOUS
  <2>2. Moves(r, {a}) /\ a.at = "parked" /\ a.kind = "poll" /\ a.session = s
    BY <1>0, <2>1 DEF Moves, Advances, Request
  <2>3. /\ QuietMoves
        /\ Parked(s)' = {q \in {a} : q.at = "parked"}
        /\ \A t \in Session \ {s} : Parked(t)' = Parked(t)
        /\ \A q : q.kind = "send" => (q \in requests' <=> (q \in requests /\ q # r) \/ q \in {a})
    <3>1. /\ \A q \in {a} : q.at # "parked" \/ q.session = s
          /\ \A q \in {a} : q.kind = "poll" /\ q.at = "answered" => q.message = 0
          /\ requests' = ReleasedBy(s, requests \ {r}) \cup {a}
          /\ r.at \notin {"parked", "answered"}
      BY <1>0, <1>3, <2>1, <2>2
    <3> HIDE <1>3
    <3> QED BY <1>0, <3>1, <2>2, ReleaseAndMove
  <2>4. UpFits'
    BY <1>0, <1>1, <2>2, <2>3, UpFitsKept
  <2>5. /\ server' \in [Session -> ServerSession]
        /\ \A t \in Session : /\ server'[t].sent = server[t].sent /\ server'[t].queue = server[t].queue
                              /\ server'[t].state = server[t].state
                              /\ t # s => server'[t] = server[t]
        /\ server'[s].poll = TRUE
    BY <1>0, <1>3, <1>8 DEF ServerSession
  <2>6. \A t \in Session :
              /\ server'[t].state = "unused" <=> server[t].state = "unused"
              /\ server'[t].poll => server[t].queue = <<>> /\ server'[t].state = "open"
              /\ server'[t].poll <=> Parked(t)' # {}
    BY <1>0, <1>3, <2>2, <2>3, <2>5 DEF LoopInvariant, QueueFits
  <2> QED BY <1>1, <1>8, <2>3, <2>4, <2>5, <2>6, QuietStepPreserves
<1>4. ASSUME NEW m, m = Head(server[s].queue),
             server[s].state = "open", server[s].queue # <<>>,
             server' = [server EXCEPT ![s].queue = Tail(server[s].queue)],
             requests' = (requests \ {r}) \cup Answer(r, TRUE, m)
      PROVE  LoopInvariant'
  <2>o. PICK o : o = Tail(server[s].queue)
    OBVIOUS
  <2>q. /\ server[s].queue \in Seq(1 .. MaxDown) /\ o \in Seq(1 .. MaxDown)
        /\ Len(server[s].queue) \in Nat /\ Len(o) \in Nat /\ Len(server[s].queue) = Len(o) + 1
        /\ m = server[s].queue[1] /\ m \in 1 .. MaxDown
        /\ \A k \in 1 .. Len(o) : k + 1 \in 1 .. Len(server[s].queue) /\ o[k] = server[s].queue[k + 1]
    <3>1. server[s].queue \in Seq(1 .. MaxDown) /\ MaxDown \in Nat
      BY <1>0, Fields, LoopConstants
    <3> QED BY <3>1, <1>4, <2>o, QueueTail
  <2>m. m \in Nat /\ m # 0 /\ m \in 0 .. MaxUp + MaxDown
    BY <2>q, LoopConstants
  <2>1. PICK Q : Q = Answer(r, TRUE, m)
    OBVIOUS
  <2>2. GivesAnswer(r, TRUE, m, Q)
    BY <1>0, <2>1, <2>m, AnswerMoves
  <2>3. /\ Moves(r, Q)
        /\ \A q \in Q : /\ q.at = "answered" /\ q.kind = "poll" /\ q.session = s /\ q.message = m
                        /\ q.ok /\ q.awaited /\ r.awaited
    BY <1>0, <2>2 DEF GivesAnswer
  <2>4. ServerMoves(r, Q, r, Q)
    BY <1>4, <2>1, <2>3 DEF ServerMoves
  <2>5. /\ server' \in [Session -> ServerSession]
        /\ \A t \in Session : /\ server'[t].sent = server[t].sent /\ server'[t].poll = server[t].poll
                              /\ server'[t].state = server[t].state
                              /\ t # s => server'[t] = server[t]
        /\ server'[s].queue = o
    BY <1>0, <1>4, <1>8, <2>o, <2>q DEF ServerSession
  <2>n. /\ server[s].sent \in Nat /\ server[s].sent - Len(server'[s].queue) = server[s].sent - Len(server[s].queue) + 1
        /\ m = server[s].sent - Len(server[s].queue) + 1
    <3>1. server[s].sent \in Nat /\ 1 \in 1 .. Len(server[s].queue)
      BY <1>0, <2>q, Fields
    <3>2. QueueFits(s)
      BY <1>0 DEF LoopInvariant
    <3>3. m = server[s].sent - Len(server[s].queue) + 1
      BY <2>q, <3>1, <3>2 DEF QueueFits
    <3> QED BY <2>5, <2>q, <3>1, <3>3
  <2>6. LoopTypeOK' /\ OneOfEach'
    BY <1>0, <1>1, <2>4, <2>5, MovesKeepType, MovesKeepOneOfEach DEF LoopTypeOK
  <2>7. \A t \in Session : SessionKept(t)
    <3>1. SessionKept(s)
      BY <1>0, <1>1, <2>5 DEF SessionKept, Fresh
    <3>2. \A t \in Session \ {s} : SessionKept(t)
      BY <1>1, <2>5 DEF SessionKept, Fresh
    <3> QED BY <3>1, <3>2
  <2>8. /\ QueueIsPosted' /\ CloseFits' /\ (\A t \in Session : OnePoll(t))'
        /\ RequestsFit' /\ SessionsFit'
    BY <1>1, <2>4, <2>6, <2>7, MovesKeepType, ServerStepKeeps
  <2>9. UpFits'
    <3>1. \A q : q.kind = "send" => (q \in requests' <=> q \in requests)
      BY <1>0, <1>4, <2>1, <2>3
    <3> QED BY <1>1, <3>1, UpFitsKept
  <2>10. DownFits'
    <3>1. received[s] \in Nat /\ received[s] + Len(server[s].queue) <= server[s].sent
      BY <1>0, Fields DEF LoopInvariant, DownFits
    <3>2. \A t \in Session : (received[t] + Len(server[t].queue) <= server[t].sent)'
      <4>1. received'[s] + Len(server'[s].queue) <= server'[s].sent
        <5>1. received[s] \in Nat /\ Len(server'[s].queue) \in Nat /\ Len(server[s].queue) = Len(server'[s].queue) + 1
          BY <2>5, <2>q, <3>1
        <5>2. received[s] + Len(server'[s].queue) <= server[s].sent
          <6>1. \A a, b, c \in Nat : a + (b + 1) <= c => a + b <= c
            OBVIOUS
          <6> QED BY <5>1, <3>1, <2>n, <6>1
        <5> QED BY <1>0, <1>1, <2>5, <5>2
      <4>2. ASSUME NEW t \in Session, t # s PROVE received'[t] + Len(server'[t].queue) <= server'[t].sent
        BY <1>1, <2>5, <4>2 DEF LoopInvariant, DownFits
      <4> QED BY <4>1, <4>2
    <3>3. /\ r.awaited <=> client.session = s
          /\ r.awaited => received[s] = server[s].sent - Len(server[s].queue)
      BY <1>0, <3>1, <2>q, <2>n DEF LoopInvariant, DownFits
    <3>4. ASSUME NEW q \in requests', q.kind = "poll"
          PROVE  LET taken == server'[q.session].sent - Len(server'[q.session].queue) IN
                    /\ q.awaited <=> client'.session = q.session
                    /\ q.awaited /\ q.ok =>
                         taken = received'[q.session] + (IF q.at = "answered" /\ q.message # 0 THEN 1 ELSE 0)
                    /\ q.at = "answered" /\ q.message # 0 => q.ok /\ q.message = taken
      <4>1. CASE q \in Q
        <5>1. /\ q.awaited /\ r.awaited /\ q.session = s /\ q.at = "answered" /\ q.ok /\ q.message = m /\ m # 0
              /\ client.session = s
          BY <4>1, <2>3, <2>m, <3>3
        <5>2. server'[s].sent - Len(server'[s].queue) = m /\ m = received[s] + 1
          BY <1>0, <2>n, <2>5, <2>q, <3>1, <3>3, <5>1
        <5> QED BY <1>1, <5>1, <5>2
      <4>2. CASE q \in requests \ {r}
        <5>1. CASE q.session = s
          <6>1. ~q.awaited /\ q.at # "answered" /\ client.session # q.session
            BY <1>0, <4>2, <5>1, <3>4 DEF LoopInvariant, DownFits, OneOfEach, RequestsFit
          <6> QED BY <1>1, <6>1
        <5>2. CASE q.session # s
          BY <1>1, <4>2, <5>2, <2>5, <3>4, PollTaken DEF LoopInvariant, DownFits
        <5> QED BY <5>1, <5>2
      <4> QED BY <4>1, <4>2, <1>4, <2>1
    <3> QED BY <3>2, <3>4 DEF DownFits
  <2>11. (\A t \in Session : QueueFits(t))'
    <3>1. \A t \in Session : QueueFits(t)
      BY DEF LoopInvariant
    <3>2. \A t \in Session : Parked(t)' = Parked(t)
      BY <1>0, <1>4, <2>1, <2>3 DEF Parked
    <3>3. \A k \in 1 .. Len(o) : o[k] = server'[s].sent - Len(o) + k
      <4> SUFFICES ASSUME NEW k \in 1 .. Len(o) PROVE o[k] = server'[s].sent - Len(o) + k
        OBVIOUS
      <4>1. k \in Nat /\ k + 1 \in 1 .. Len(server[s].queue) /\ o[k] = server[s].queue[k + 1]
        BY <2>q
      <4>2. server[s].queue[k + 1] = server[s].sent - Len(server[s].queue) + (k + 1)
        BY <1>0, <3>1, <4>1 DEF QueueFits
      <4>3. Len(server[s].queue) = Len(o) + 1 /\ Len(o) \in Nat /\ server'[s].sent = server[s].sent
        BY <1>0, <2>q, <2>5
      <4>4. \A a, b \in Nat : a - (b + 1) + (k + 1) = a - b + k
        BY <4>1
      <4> QED BY <4>1, <4>2, <4>3, <4>4, <2>n
    <3>4. QueueFits(s)'
      BY <1>0, <1>4, <2>5, <3>1, <3>2, <3>3 DEF QueueFits
    <3>5. ASSUME NEW t \in Session, t # s PROVE QueueFits(t)'
      BY <2>5, <3>1, <3>2, <3>5 DEF QueueFits
    <3> QED BY <3>4, <3>5
  <2> QED BY <2>6, <2>8, <2>9, <2>10, <2>11 DEF LoopInvariant
<1> QED BY <1>m, <1>2, <1>3, <1>4 DEF HandlePoll, Answered

(* The connect handler of the server.                                       *)
LEMMA HandleConnectPreserves ==
    ASSUME LoopInvariant, NEW r \in requests, HandleConnect(r)
    PROVE  LoopInvariant'
<1>m. PICK m : m = 0
  OBVIOUS
<1>1. /\ r.kind = "connect" /\ r.at = "sent" /\ LoopTypeOK /\ r \in Request /\ r.awaited \in BOOLEAN
      /\ r.session = NoSession /\ (r.awaited => client.session = NoSession)
      /\ UNCHANGED <<client, received, handled, accepted, failures, late>>
  BY Fields DEF HandleConnect, LoopInvariant, RequestsFit
<1>2. PICK s \in Session :
         /\ server[s].state = "unused"
         /\ server' = [server EXCEPT ![s].state = "open"]
         /\ requests' = (requests \ {r}) \cup {[a EXCEPT !.session = s] : a \in Answer(r, TRUE, m)}
  BY <1>m DEF HandleConnect
<1>3. PICK Q : Q = {[a EXCEPT !.session = s] : a \in Answer(r, TRUE, m)}
  OBVIOUS
<1>4. /\ \A q \in Q : /\ q \in Request /\ q.kind = "connect" /\ q.session = s /\ q.at = "answered"
                      /\ q.awaited /\ r.awaited
      /\ \A a, b \in Q : a = b
  <2>1. m \in 0 .. MaxUp + MaxDown
    BY <1>m, LoopConstants
  <2>2. /\ \A a \in Answer(r, TRUE, m) : a \in Request /\ a.kind = "connect" /\ a.at = "answered" /\ a.awaited /\ r.awaited
        /\ \A a, b \in Answer(r, TRUE, m) : a = b
    BY <1>1, <2>1 DEF Answer, Request
  <2> QED BY <1>3, <2>2 DEF Request
<1>5. requests' = (requests \ {r}) \cup Q
  BY <1>2, <1>3
<1>6. /\ server' \in [Session -> ServerSession]
      /\ \A t \in Session : /\ server'[t].sent = server[t].sent /\ server'[t].queue = server[t].queue
                            /\ server'[t].poll = server[t].poll
                            /\ t # s => server'[t] = server[t]
      /\ server'[s].state = "open"
  <2>1. server \in [Session -> ServerSession]
    BY <1>1 DEF LoopTypeOK
  <2> QED BY <1>2, <2>1 DEF ServerSession
<1>7. LoopTypeOK'
  BY <1>1, <1>4, <1>5, <1>6 DEF LoopTypeOK
<1>8. OneOfEach'
  BY <1>1, <1>4, <1>5 DEF LoopInvariant, OneOfEach
<1>9. \A k \in {"poll", "send", "disconnect"} : \A q : q.kind = k => (q \in requests' <=> q \in requests)
  BY <1>1, <1>4, <1>5
<1>10. DownFits' /\ UpFits'
  BY <1>1, <1>6, <1>9, DownFitsKept, UpFitsKept
<1>11. QueueIsPosted' /\ CloseFits'
  BY <1>1, <1>9 DEF LoopInvariant, QueueIsPosted, CloseFits
<1>12. (\A t \in Session : OnePoll(t))'
  <2>1. \A t \in Session : Polls(t)' = Polls(t)
    BY <1>9 DEF Polls
  <2> QED BY <1>1, <2>1 DEF LoopInvariant, OnePoll, OnSession
<1>13. (\A t \in Session : QueueFits(t))'
  <2>1. \A t \in Session : Parked(t)' = Parked(t)
    BY <1>1, <1>4, <1>5 DEF Parked
  <2>2. \A t \in Session : server'[t].poll => server[t].queue = <<>> /\ server'[t].state = "open"
    BY <1>6 DEF LoopInvariant, QueueFits
  <2>3. \A t \in Session : server'[t].poll <=> Parked(t)' # {}
    BY <1>6, <2>1 DEF LoopInvariant, QueueFits
  <2> QED BY <1>6, <2>2, <2>3, QueueFitsKept
<1>14. ASSUME NEW t \in Session, Fresh(t) PROVE Fresh(t)'
  <2>1. \A q \in requests' : q.session = t => q.kind = "connect"
    BY <1>4, <1>5, <1>14 DEF Fresh
  <2> QED BY <1>1, <1>6, <1>14, <2>1 DEF Fresh
<1>15. SessionsFit'
  BY <1>1, <1>6, <1>14, Fields DEF LoopInvariant, SessionsFit
<1>16. RequestsFit'
  <2> SUFFICES ASSUME NEW q \in requests'
               PROVE  /\ q.session = NoSession <=> q.kind = "connect" /\ q.at # "answered"
                      /\ q.session # NoSession => server'[q.session].state # "unused"
                      /\ IF q.at = "answered" THEN q.awaited ELSE q.ok
                      /\ q.at = "parked" => q.kind = "poll"
                      /\ q.at = "body" => q.kind = "send"
                      /\ q.kind = "connect" => /\ q.awaited => client'.session = NoSession
                                               /\ q.at = "answered" => Fresh(q.session)'
                      /\ q.kind = "disconnect" /\ q.awaited => client'.closing = "answer"
    BY DEF RequestsFit
  <2>1. CASE q \in Q
    <3>1. Fresh(s)'
      BY <1>2, <1>14 DEF LoopInvariant, SessionsFit
    <3>2. s # NoSession
      BY <1>1, Fields
    <3> QED BY <2>1, <3>1, <3>2, <1>1, <1>4, <1>6
  <2>2. CASE q \in requests
    <3>1. q.session \in Session \cup {NoSession}
      BY <2>2, <1>1, Fields
    <3> QED BY <2>2, <3>1, <1>1, <1>6, <1>14 DEF LoopInvariant, RequestsFit
  <2> QED BY <1>5, <2>1, <2>2
<1> QED BY <1>7, <1>8, <1>10, <1>11, <1>12, <1>13, <1>15, <1>16 DEF LoopInvariant

-----------------------------------------------------------------------------
(* The steps of the client.                                                 *)

(* Queues still fit after a step that parks and releases no poll.           *)
LEMMA QueuesStay ==
    ASSUME LoopInvariant, UNCHANGED server, \A t \in Session : Parked(t)' # {} <=> Parked(t) # {}
    PROVE  (\A t \in Session : QueueFits(t))'
<1> SUFFICES ASSUME NEW t \in Session PROVE QueueFits(t)'
  OBVIOUS
<1>1. QueueFits(t)
  BY DEF LoopInvariant
<1> QED BY <1>1 DEF QueueFits

(* q is p, but perhaps the client does not wait for it any longer.          *)
Same(p, q) ==
    /\ q \in Request /\ q.kind = p.kind /\ q.session = p.session /\ q.message = p.message
    /\ q.at = p.at /\ q.ok = p.ok
    /\ q.awaited = p.awaited \/ (~q.awaited /\ p.at # "answered")

(* The requests without one that was answered or failed.                    *)
Left(rs) ==
    \/ rs = requests
    \/ \E r \in requests : \/ r.at \in {"sent", "answered"} /\ rs = requests \ {r}
                           \/ r.at # "answered" /\ rs = (requests \ {r}) \cup {[r EXCEPT !.awaited = FALSE]}

(* What such a rest keeps.                                                  *)
LeftFits(rs) ==
    /\ \A q \in rs : \E p \in requests : Same(p, q)
    /\ \A p \in requests : p.at = "parked" => \E q \in rs : Same(p, q)
    /\ \A q1, q2 \in rs :
          /\ q1.kind = "send" /\ q2.kind = "send" /\ q1.at # "answered" /\ q2.at # "answered"
          /\ q1.session = q2.session \/ q1.message = q2.message
          => q1 = q2
    /\ \A q1, q2 \in rs : q1.kind = q2.kind /\ q1.awaited /\ q2.awaited => q1 = q2
    /\ \A q1, q2 \in rs : q1.session = q2.session /\ q1.at = "parked" /\ q2.at = "parked" => q1 = q2

(* The rest of the requests keeps what RequestsFit, OneOfEach and UpFits    *)
(* say of them.                                                             *)
LEMMA LeftIs ==
    ASSUME LoopInvariant, NEW rs, Left(rs)
    PROVE  LeftFits(rs)
<1>0. \A p \in requests : p \in Request /\ Same(p, p)
  BY Fields DEF LoopInvariant, Same
<1>5o. \A p, q \in requests :
       \/ p.kind = q.kind /\ p.awaited /\ q.awaited
       \/ p.session = q.session /\ p.at = "parked" /\ q.at = "parked"
       => p = q
  BY DEF LoopInvariant, OneOfEach
<1>s. \A p, q \in requests :
          /\ p.kind = "send" /\ q.kind = "send" /\ p.at # "answered" /\ q.at # "answered"
          /\ p.session = q.session \/ p.message = q.message
          => p = q
  BY UpFitsParts DEF Pending
<1>1. CASE rs = requests
  BY <1>0, <1>5o, <1>s, <1>1 DEF LeftFits
<1>2. ASSUME NEW r \in requests, r.at \in {"sent", "answered"}, rs = requests \ {r}
      PROVE  LeftFits(rs)
  BY <1>0, <1>5o, <1>s, <1>2 DEF LeftFits
<1>3. ASSUME NEW r \in requests, r.at # "answered",
             rs = (requests \ {r}) \cup {[r EXCEPT !.awaited = FALSE]}
      PROVE  LeftFits(rs)
  <2>1. PICK a : a = [r EXCEPT !.awaited = FALSE]
    OBVIOUS
  <2>2. Same(r, a) /\ ~a.awaited
    BY <1>0, <1>3, <2>1 DEF Same, Request
  <2>3. rs = (requests \ {r}) \cup {a}
    BY <1>3, <2>1
  <2>4. /\ \A q \in rs : \E p \in requests : Same(p, q)
        /\ \A p \in requests : p.at = "parked" => \E q \in rs : Same(p, q)
    BY <1>0, <2>2, <2>3
  <2>5. \A q1, q2 \in rs :
          /\ q1.kind = "send" /\ q2.kind = "send" /\ q1.at # "answered" /\ q2.at # "answered"
          /\ q1.session = q2.session \/ q1.message = q2.message
          => q1 = q2
    BY <1>s, <2>2, <2>3 DEF Same
  <2>6. \A q1, q2 \in rs : q1.kind = q2.kind /\ q1.awaited /\ q2.awaited => q1 = q2
    BY <1>5o, <2>2, <2>3
  <2>7. \A q1, q2 \in rs : q1.session = q2.session /\ q1.at = "parked" /\ q2.at = "parked" => q1 = q2
    BY <1>5o, <2>2, <2>3 DEF Same
  <2> QED BY <2>4, <2>5, <2>6, <2>7 DEF LeftFits
<1> QED BY <1>1, <1>2, <1>3 DEF Left

(* Nobody waits for the polls of a client that has given its session up.    *)
LEMMA AbortedIs ==
    ASSUME LoopInvariant, NEW rs, LeftFits(rs)
    PROVE  /\ LeftFits(Aborted(rs))
           /\ \A q \in Aborted(rs) : q.kind = "poll" => ~q.awaited
           /\ \A q : q.kind # "poll" => (q \in Aborted(rs) <=> q \in rs)
           /\ \A q \in Aborted(rs) : q.awaited => q \in rs
<1> DEFINE A == Aborted(rs)
<1>0. \A q \in rs : q \in Request
  BY DEF LeftFits, Same
<1>1. \A q \in A : \/ q \in rs /\ q.kind # "poll"
                   \/ \E p \in rs : /\ p.kind = "poll" /\ p.at # "answered" /\ q = [p EXCEPT !.awaited = FALSE]
  BY DEF Aborted
<1>2. \A q \in A : \/ q \in rs /\ q.kind # "poll"
                   \/ \E p \in rs : /\ p.kind = "poll" /\ p.at # "answered" /\ ~q.awaited
                                    /\ q = [p EXCEPT !.awaited = FALSE] /\ Same(p, q)
  <2>1. ASSUME NEW p \in rs, p.at # "answered", NEW q, q = [p EXCEPT !.awaited = FALSE]
        PROVE  ~q.awaited /\ Same(p, q)
    BY <1>0, <2>1 DEF Same, Request
  <2> QED BY <1>1, <2>1
<1>3. \A q : q.kind # "poll" => (q \in A <=> q \in rs)
  BY <1>2 DEF Aborted, Same
<1>4. \A q \in A : \E p \in requests : Same(p, q)
  <2> SUFFICES ASSUME NEW q \in A PROVE \E p \in requests : Same(p, q)
    OBVIOUS
  <2>1. CASE q \in rs
    BY <2>1 DEF LeftFits
  <2>2. ASSUME NEW p \in rs, p.at # "answered", ~q.awaited, Same(p, q) PROVE \E o \in requests : Same(o, q)
    <3>1. PICK o \in requests : Same(o, p)
      BY DEF LeftFits
    <3> QED BY <2>2, <3>1 DEF Same
  <2> QED BY <1>2, <2>1, <2>2
<1>5. \A p \in requests : p.at = "parked" => \E q \in A : Same(p, q)
  <2> SUFFICES ASSUME NEW p \in requests, p.at = "parked" PROVE \E q \in A : Same(p, q)
    OBVIOUS
  <2>1. p.kind = "poll"
    BY DEF LoopInvariant, RequestsFit
  <2>2. PICK o \in rs : Same(p, o)
    BY DEF LeftFits
  <2>3. PICK q : q = [o EXCEPT !.awaited = FALSE]
    OBVIOUS
  <2>4. q \in A
    BY <2>1, <2>2, <2>3 DEF Aborted, Same
  <2>5. Same(p, q)
    BY <1>0, <2>1, <2>2, <2>3 DEF Same, Request
  <2> QED BY <2>4, <2>5
<1>6. \A q1, q2 \in A :
          /\ q1.kind = "send" /\ q2.kind = "send" /\ q1.at # "answered" /\ q2.at # "answered"
          /\ q1.session = q2.session \/ q1.message = q2.message
          => q1 = q2
  BY <1>3 DEF LeftFits
<1>7. \A q1, q2 \in A : q1.kind = q2.kind /\ q1.awaited /\ q2.awaited => q1 = q2
  BY <1>2 DEF LeftFits
<1>8. \A q1, q2 \in A : q1.session = q2.session /\ q1.at = "parked" /\ q2.at = "parked" => q1 = q2
  <2> SUFFICES ASSUME NEW q1 \in A, NEW q2 \in A, q1.session = q2.session, q1.at = "parked", q2.at = "parked"
               PROVE  q1 = q2
    OBVIOUS
  <2>1. \A q \in A : q.at = "parked" => q.kind = "poll"
    BY <1>4 DEF LoopInvariant, RequestsFit, Same
  <2>2. PICK p1 \in rs : q1 = [p1 EXCEPT !.awaited = FALSE] /\ Same(p1, q1)
    BY <1>2, <2>1
  <2>3. PICK p2 \in rs : q2 = [p2 EXCEPT !.awaited = FALSE] /\ Same(p2, q2)
    BY <1>2, <2>1
  <2>4. p1 = p2
    BY <2>2, <2>3 DEF LeftFits, Same
  <2> QED BY <2>2, <2>3, <2>4
<1> QED BY <1>2, <1>3, <1>4, <1>5, <1>6, <1>7, <1>8 DEF LeftFits

(* The end of a session for the client: it leaves requests behind that      *)
(* nobody waits for, and tells the server if D says so.                     *)
LEMMA OverPreserves ==
    ASSUME LoopInvariant, UNCHANGED <<server, received, handled, accepted, late>>,
           failures' \in 0 .. MaxFailures, client' \in ClientState,
           client'.closed, client'.session = NoSession, client'.queue = <<>>,
           NEW rs, LeftFits(rs), NEW D, requests' = Aborted(rs) \cup D,
           \A q \in D : q \in Request /\ q.kind = "disconnect" /\ q.session = client.session
                          /\ q.session # NoSession /\ q.at = "sent" /\ q.ok /\ q.awaited,
           \A a, b \in D : a = b,
           D # {} => ~ \E q \in rs : q.kind = "disconnect" /\ q.awaited,
           client'.flush = "running" <=> \E q \in rs : q.kind = "send" /\ q.awaited,
           client'.closing = "flushed" /\ ~late => client'.flush # "running",
           \A q \in requests' : q.kind = "disconnect" /\ q.awaited => client'.closing = "answer"
    PROVE  LoopInvariant'
<1>0. LoopTypeOK /\ NoSession \notin Session
  BY Fields DEF LoopInvariant
<1> DEFINE A == Aborted(rs)
<1>1. /\ LeftFits(A)
      /\ \A q \in A : q.kind = "poll" => ~q.awaited
      /\ \A q : q.kind # "poll" => (q \in A <=> q \in rs)
      /\ \A q \in A : q.awaited => q \in rs
  BY AbortedIs
<1>2. requests' = A \cup D
  OBVIOUS
<1> HIDE DEF A
<1>3. LoopTypeOK'
  <2>1. \A q \in A : q \in Request
    BY <1>1 DEF LeftFits, Same
  <2> QED BY <1>0, <1>2, <2>1 DEF LoopTypeOK
<1>4. OneOfEach'
  <2> SUFFICES ASSUME NEW a \in requests', NEW b \in requests',
                      \/ a.kind = b.kind /\ a.awaited /\ b.awaited
                      \/ a.session = b.session /\ a.at = "parked" /\ b.at = "parked"
               PROVE  a = b
    BY DEF OneOfEach
  <2>1. CASE a \in A /\ b \in A
    BY <2>1, <1>1 DEF LeftFits
  <2>2. CASE a \in D /\ b \in D
    BY <2>2
  <2>3. CASE a \in A /\ b \in D
    BY <2>3, <1>1
  <2>4. CASE a \in D /\ b \in A
    BY <2>4, <1>1
  <2> QED BY <1>2, <2>1, <2>2, <2>3, <2>4
<1>5. \A q \in A : \E p \in requests : Same(p, q)
  BY <1>1 DEF LeftFits
<1>6. ASSUME NEW t \in Session, Fresh(t) PROVE Fresh(t)'
  <2>1. \A q \in requests' : q.session = t => q.kind = "connect"
    BY <1>2, <1>5, <1>6 DEF Fresh, Same
  <2> QED BY <1>0, <1>6, <2>1 DEF Fresh
<1>7. SessionsFit'
  BY <1>0, <1>6 DEF LoopInvariant, SessionsFit
<1>8. RequestsFit'
  <2> SUFFICES ASSUME NEW q \in requests'
               PROVE  /\ q.session = NoSession <=> q.kind = "connect" /\ q.at # "answered"
                      /\ q.session # NoSession => server'[q.session].state # "unused"
                      /\ IF q.at = "answered" THEN q.awaited ELSE q.ok
                      /\ q.at = "parked" => q.kind = "poll"
                      /\ q.at = "body" => q.kind = "send"
                      /\ q.kind = "connect" => /\ q.awaited => client'.session = NoSession
                                               /\ q.at = "answered" => Fresh(q.session)'
                      /\ q.kind = "disconnect" /\ q.awaited => client'.closing = "answer"
    BY DEF RequestsFit
  <2>1. CASE q \in D
    <3>1. server[client.session].state # "unused"
      BY <2>1 DEF LoopInvariant, SessionsFit
    <3> QED BY <2>1, <3>1
  <2>2. CASE q \in A
    <3>1. PICK p \in requests : Same(p, q)
      BY <1>5, <2>2
    <3>2. p.session \in Session \cup {NoSession}
      BY <1>0, Fields
    <3>3. /\ q.session = NoSession <=> q.kind = "connect" /\ q.at # "answered"
          /\ q.session # NoSession => server[q.session].state # "unused"
          /\ IF q.at = "answered" THEN q.awaited ELSE q.ok
          /\ q.at = "parked" => q.kind = "poll"
          /\ q.at = "body" => q.kind = "send"
          /\ q.kind = "connect" /\ q.at = "answered" => Fresh(q.session)
      BY <3>1 DEF LoopInvariant, RequestsFit, Same
    <3>4. q.kind = "connect" /\ q.at = "answered" => Fresh(q.session)'
      BY <1>6, <3>1, <3>2, <3>3 DEF Same
    <3> QED BY <3>3, <3>4
  <2> QED BY <1>2, <2>1, <2>2
<1>9. \A q \in requests' : q.kind = "poll" => ~q.awaited
  BY <1>1, <1>2
<1>10. QueueIsPosted' /\ CloseFits'
  <2>1. (\E q \in requests' : q.kind = "send" /\ q.awaited) <=> \E q \in rs : q.kind = "send" /\ q.awaited
    BY <1>1, <1>2
  <2> QED BY <2>1 DEF QueueIsPosted, CloseFits
<1>11. (\A t \in Session : OnePoll(t))'
  <2> SUFFICES ASSUME NEW t \in Session PROVE OnePoll(t)'
    OBVIOUS
  <2>1. Polls(t)' = {}
    BY <1>9 DEF Polls
  <2>2. Cardinality(Polls(t)') <= 1
    BY <2>1, FS_EmptySet
  <2> QED BY <2>1, <2>2 DEF OnePoll, OnSession
<1>12. (\A t \in Session : QueueFits(t))'
  <2>1. \A t \in Session : Parked(t)' # {} <=> Parked(t) # {}
    BY <1>1, <1>2, <1>5 DEF Parked, LeftFits, Same
  <2> QED BY <2>1, QueuesStay
<1>13. DownFits'
  <2>1. \A t \in Session : (received[t] + Len(server[t].queue) <= server[t].sent)'
    BY DEF LoopInvariant, DownFits
  <2>2. ASSUME NEW q \in requests', q.kind = "poll"
        PROVE  ~q.awaited /\ q.at # "answered" /\ client'.session # q.session
    BY <1>0, <1>2, <1>9, <1>8, <2>2 DEF RequestsFit
  <2> QED BY <2>1, <2>2 DEF DownFits
<1>14. UpFits'
  <2>1. Posted' = accepted /\ Posted <= accepted /\ Posted \in Int /\ accepted \in Nat
    BY <1>0, Fields DEF Posted
  <2>2. \A q \in Pending' : /\ q \in rs /\ q \in A /\ q.kind = "send" /\ q.at # "answered"
                            /\ \E p \in Pending : p.session = q.session /\ p.message = q.message
    BY <1>1, <1>2, <1>5 DEF Pending, Same
  <2>3. ASSUME NEW q \in Pending'
        PROVE  /\ q.message \in 1 .. Posted'
               /\ \A s \in Session : handled[s] # q.message
               /\ handled[q.session] \in {0, q.message - 1}
               /\ \A p \in Pending' : p.session = q.session \/ p.message = q.message => p = q
    <3>1. PICK p \in Pending : p.session = q.session /\ p.message = q.message
      BY <2>2, <2>3
    <3>2. /\ q.message \in 1 .. Posted'
          /\ \A s \in Session : handled[s] # q.message
          /\ handled[q.session] \in {0, q.message - 1}
      BY <2>1, <3>1, UpFitsParts
    <3>3. \A o \in Pending' : o.session = q.session \/ o.message = q.message => o = q
      BY <2>2, <2>3 DEF LeftFits
    <3> QED BY <3>2, <3>3
  <2>4. \A s \in Session : handled'[s] <= Posted'
    BY <2>1, UpFitsParts
  <2>5. \A q \in requests' : q.kind = "send" => q.session # client'.session
    BY <1>0, <1>8 DEF RequestsFit
  <2>6. \A k \in 1 .. Len(client'.queue) : client'.queue[k] = Posted' + k
    OBVIOUS
  <2> QED BY <2>3, <2>4, <2>5, <2>6 DEF UpFits
<1> QED BY <1>3, <1>4, <1>7, <1>8, <1>10, <1>11, <1>12, <1>13, <1>14 DEF LoopInvariant

(* A transport that is closed already has nothing left to abort.            *)
LEMMA FailIs ==
    ASSUME LoopInvariant, NEW rs, LeftFits(rs), NEW c \in ClientState,
           c.closed = client.closed, c.session = client.session, c.queue = client.queue,
           FailTransport(c, rs)
    PROVE  client' = Over(c) /\ requests' = Aborted(rs)
<1>1. CASE ~client.closed
  BY <1>1 DEF FailTransport
<1>2. CASE client.closed
  <2>0. /\ client.session = NoSession /\ client.queue = <<>> /\ client.closed = TRUE
        /\ client' = c /\ requests' = rs /\ NoSession \notin Session
    BY <1>2, Fields DEF LoopInvariant, SessionsFit, FailTransport
  <2>1. Over(c) = c
    BY <2>0 DEF Over, ClientState
  <2>2. ASSUME NEW q \in rs, q.kind = "poll"
        PROVE  q.at # "answered" /\ [q EXCEPT !.awaited = FALSE] = q
    <3>1. PICK p \in requests : Same(p, q)
      BY DEF LeftFits
    <3>2. p.kind = "poll" /\ ~p.awaited /\ p.at # "answered"
      BY <2>0, <2>2, <3>1, PollTaken DEF LoopInvariant, DownFits, RequestsFit, Same
    <3>3. q \in Request /\ q.awaited = FALSE /\ q.at # "answered"
      BY <3>1, <3>2 DEF Same, Request
    <3> QED BY <3>3 DEF Request
  <2>3. Aborted(rs) = rs
    BY <2>2 DEF Aborted
  <2> QED BY <2>0, <2>1, <2>3
<1> QED BY <1>1, <1>2

(* The transport after its session is over.                                 *)
LEMMA OverIs ==
    ASSUME NEW c \in ClientState
    PROVE  /\ Over(c) \in ClientState /\ Over(c).closed /\ Over(c).session = NoSession /\ Over(c).queue = <<>>
           /\ Over(c).flush = c.flush /\ Over(c).closing = c.closing
<1>1. PICK o : o = [c EXCEPT !.closed = TRUE, !.session = NoSession, !.queue = <<>>]
  OBVIOUS
<1>2. o.closed = TRUE /\ o.session = NoSession /\ o.queue = <<>> /\ o.flush = c.flush /\ o.closing = c.closing
  BY <1>1 DEF ClientState
<1>3. <<>> \in Seq(1 .. MaxUp)
  OBVIOUS
<1>4. o \in ClientState
  BY <1>1, <1>3 DEF ClientState
<1> QED BY <1>1, <1>2, <1>4 DEF Over

(* The transport when only its flush changes.                               *)
LEMMA FlushIs ==
    ASSUME NEW f \in {"none", "running", "ending"}, client \in ClientState,
           NEW c, c = [client EXCEPT !.flush = f]
    PROVE  /\ c \in ClientState /\ c.flush = f /\ c.closing = client.closing
           /\ c.closed = client.closed /\ c.session = client.session /\ c.queue = client.queue
<1>1. /\ c.flush = f /\ c.closing = client.closing
      /\ c.closed = client.closed /\ c.session = client.session /\ c.queue = client.queue
  BY DEF ClientState
<1>2. c \in ClientState
  BY DEF ClientState
<1> QED BY <1>1, <1>2

(* A new request.                                                           *)
LEMMA NewIs ==
    ASSUME NEW k \in Kind, NEW t \in Session \cup {NoSession}, NEW m \in 0 .. MaxUp + MaxDown,
           NEW q, q = NewRequest(k, t, m)
    PROVE  /\ q \in Request /\ q.kind = k /\ q.session = t /\ q.message = m
           /\ q.at = "sent" /\ q.ok /\ q.awaited
  BY DEF NewRequest, Request

(* A request fails, and with it the session.                                *)
LEMMA FailPreserves ==
    ASSUME LoopInvariant, UNCHANGED <<server, received, handled, accepted, late>>,
           failures' \in 0 .. MaxFailures,
           NEW r \in requests, r.awaited, NEW rs, LeftFits(rs),
           \A q \in rs : q.awaited => q \in requests /\ q # r,
           \A q \in requests : q # r => q \in rs,
           \/ r.kind = "send" /\ FailTransport([client EXCEPT !.flush = "ending"], rs)
           \/ r.kind = "poll" /\ FailTransport(client, rs)
    PROVE  LoopInvariant'
<1>0. client \in ClientState
  BY DEF LoopInvariant, LoopTypeOK
<1>1. ASSUME NEW c \in ClientState, client' = Over(c), requests' = Aborted(rs),
             c.closing = client.closing,
             c.flush = "running" <=> \E q \in rs : q.kind = "send" /\ q.awaited,
             c.flush = "running" => client.flush = "running"
      PROVE  LoopInvariant'
  <2>1. /\ client' \in ClientState /\ client'.closed /\ client'.session = NoSession /\ client'.queue = <<>>
        /\ client'.flush = c.flush /\ client'.closing = client.closing
    BY <1>1, OverIs
  <2>2. client'.closing = "flushed" /\ ~late => client'.flush # "running"
    BY <1>1, <2>1 DEF LoopInvariant, CloseFits
  <2>3. \A q \in requests' : q.kind = "disconnect" /\ q.awaited => client'.closing = "answer"
    BY <1>1, <2>1, AbortedIs DEF LoopInvariant, RequestsFit
  <2>4. PICK D : D = {}
    OBVIOUS
  <2>5. requests' = Aborted(rs) \cup D
    BY <1>1, <2>4
  <2> QED BY <1>1, <2>1, <2>2, <2>3, <2>4, <2>5, OverPreserves
<1>2. CASE r.kind = "send" /\ FailTransport([client EXCEPT !.flush = "ending"], rs)
  <2>1. PICK c : c = [client EXCEPT !.flush = "ending"]
    OBVIOUS
  <2>2. /\ c \in ClientState /\ c.flush = "ending" /\ c.closing = client.closing
        /\ c.closed = client.closed /\ c.session = client.session /\ c.queue = client.queue
    BY <1>0, <2>1, FlushIs
  <2>3. FailTransport(c, rs)
    BY <1>2, <2>1
  <2>4. client' = Over(c) /\ requests' = Aborted(rs)
    BY <2>2, <2>3, FailIs
  <2>5. ~ \E q \in rs : q.kind = "send" /\ q.awaited
    BY <1>2 DEF LoopInvariant, OneOfEach
  <2> QED BY <1>1, <2>2, <2>4, <2>5
<1>3. CASE r.kind = "poll" /\ FailTransport(client, rs)
  <2>1. client' = Over(client) /\ requests' = Aborted(rs)
    BY <1>0, <1>3, FailIs
  <2>2. client.flush = "running" <=> \E q \in rs : q.kind = "send" /\ q.awaited
    BY <1>3 DEF LoopInvariant, QueueIsPosted
  <2> QED BY <1>0, <1>1, <2>1, <2>2
<1> QED BY <1>2, <1>3

(* close() of the client after the flush.                                   *)
LEMMA CloseSessionPreserves ==
    ASSUME LoopInvariant, CloseSession
    PROVE  LoopInvariant'
<1>0. LoopTypeOK /\ client \in ClientState /\ client.closing = "flushed"
  BY DEF LoopInvariant, LoopTypeOK, CloseSession
<1>1. UNCHANGED <<server, received, handled, accepted, failures, late>> /\ failures' \in 0 .. MaxFailures
  BY <1>0 DEF CloseSession, LoopTypeOK
<1>2. LeftFits(requests)
  BY LeftIs DEF Left
<1>3. /\ client' \in ClientState /\ client'.closed /\ client'.session = NoSession /\ client'.queue = <<>>
      /\ client'.flush = client.flush /\ client'.closing \in {"no", "answer"}
      /\ client.session # NoSession => client'.closing = "answer"
  <2>1. /\ Over(client) \in ClientState /\ Over(client).closed /\ Over(client).session = NoSession
        /\ Over(client).queue = <<>> /\ Over(client).flush = client.flush
    BY <1>0, OverIs
  <2>2. PICK o : o = Over(client)
    OBVIOUS
  <2>3. \/ client' = [o EXCEPT !.closing = "no"] /\ client.session = NoSession
        \/ client' = [o EXCEPT !.closing = "answer"]
    BY <2>2 DEF CloseSession
  <2> QED BY <2>1, <2>2, <2>3 DEF ClientState
<1>4. client.flush = "running" <=> \E q \in requests : q.kind = "send" /\ q.awaited
  BY DEF LoopInvariant, QueueIsPosted
<1>5. ~ \E q \in requests : q.kind = "disconnect" /\ q.awaited
  BY <1>0 DEF LoopInvariant, RequestsFit
<1>6. PICK D : /\ requests' = Aborted(requests) \cup D
               /\ \/ D = {} /\ client.session = NoSession
                  \/ D = {NewRequest("disconnect", client.session, 0)} /\ client.session # NoSession
  BY DEF CloseSession
<1>7. /\ \A q \in D : q \in Request /\ q.kind = "disconnect" /\ q.session = client.session
                          /\ q.session # NoSession /\ q.at = "sent" /\ q.ok /\ q.awaited
      /\ \A a, b \in D : a = b
  <2>1. 0 \in 0 .. MaxUp + MaxDown
    BY LoopConstants
  <2>2. "disconnect" \in Kind /\ client.session \in Session \cup {NoSession}
    BY <1>0, Fields DEF Kind
  <2>3. ASSUME NEW q, q = NewRequest("disconnect", client.session, 0)
        PROVE  q \in Request /\ q.kind = "disconnect" /\ q.session = client.session /\ q.at = "sent" /\ q.ok /\ q.awaited
    BY <2>1, <2>2, <2>3, NewIs
  <2> QED BY <1>6, <2>3
<1>8. \A q \in requests' : q.kind = "disconnect" /\ q.awaited => client'.closing = "answer"
  BY <1>2, <1>3, <1>5, <1>6, <1>7, AbortedIs
<1> QED BY <1>1, <1>2, <1>3, <1>4, <1>5, <1>6, <1>7, <1>8, OverPreserves

(* A step that leaves the session, its messages and its polls alone.        *)
LEMMA AsidePreserves ==
    ASSUME LoopInvariant, UNCHANGED <<server, received, handled, accepted, late>>,
           failures' \in 0 .. MaxFailures, client' \in ClientState,
           client'.session = client.session, client'.closed = client.closed, client'.queue = client.queue,
           client'.flush = "running" <=> client.flush = "running",
           LeftFits(requests'),
           \A q : q.kind = "poll" \/ q.kind = "send" => (q \in requests' <=> q \in requests),
           \A q \in requests' : q.kind = "disconnect" /\ q.awaited => client'.closing = "answer",
           CloseFits'
    PROVE  LoopInvariant'
<1>0. LoopTypeOK
  BY DEF LoopInvariant
<1>1. \A q \in requests' : \E p \in requests : Same(p, q)
  BY DEF LeftFits
<1>2. LoopTypeOK'
  BY <1>0, <1>1 DEF LoopTypeOK, Same
<1>3. OneOfEach'
  BY DEF LeftFits, OneOfEach
<1>4. ASSUME NEW t \in Session, Fresh(t) PROVE Fresh(t)'
  <2>1. \A q \in requests' : q.session = t => q.kind = "connect"
    BY <1>1, <1>4 DEF Fresh, Same
  <2> QED BY <1>4, <2>1 DEF Fresh
<1>5. SessionsFit'
  BY <1>4 DEF LoopInvariant, SessionsFit
<1>6. RequestsFit'
  <2> SUFFICES ASSUME NEW q \in requests'
               PROVE  /\ q.session = NoSession <=> q.kind = "connect" /\ q.at # "answered"
                      /\ q.session # NoSession => server'[q.session].state # "unused"
                      /\ IF q.at = "answered" THEN q.awaited ELSE q.ok
                      /\ q.at = "parked" => q.kind = "poll"
                      /\ q.at = "body" => q.kind = "send"
                      /\ q.kind = "connect" => /\ q.awaited => client'.session = NoSession
                                               /\ q.at = "answered" => Fresh(q.session)'
                      /\ q.kind = "disconnect" /\ q.awaited => client'.closing = "answer"
    BY DEF RequestsFit
  <2>1. PICK p \in requests : Same(p, q)
    BY <1>1
  <2>2. p.session \in Session \cup {NoSession}
    BY <1>0, Fields
  <2>3. /\ q.session = NoSession <=> q.kind = "connect" /\ q.at # "answered"
        /\ q.session # NoSession => server[q.session].state # "unused"
        /\ IF q.at = "answered" THEN q.awaited ELSE q.ok
        /\ q.at = "parked" => q.kind = "poll"
        /\ q.at = "body" => q.kind = "send"
        /\ q.kind = "connect" => /\ q.awaited => client.session = NoSession
                                 /\ q.at = "answered" => Fresh(q.session)
    BY <2>1 DEF LoopInvariant, RequestsFit, Same
  <2>4. q.kind = "connect" /\ q.at = "answered" => Fresh(q.session)'
    BY <1>4, <2>1, <2>2, <2>3 DEF Same
  <2> QED BY <2>3, <2>4
<1>7. QueueIsPosted'
  <2>1. (\E q \in requests' : q.kind = "send" /\ q.awaited) <=> \E q \in requests : q.kind = "send" /\ q.awaited
    OBVIOUS
  <2> QED BY <2>1 DEF LoopInvariant, QueueIsPosted
<1>8. (\A t \in Session : OnePoll(t))'
  <2>1. \A t \in Session : Polls(t)' = Polls(t)
    BY DEF Polls
  <2> QED BY <2>1 DEF LoopInvariant, OnePoll, OnSession
<1>9. (\A t \in Session : QueueFits(t))'
  <2>1. \A t \in Session : Parked(t)' # {} <=> Parked(t) # {}
    BY <1>1 DEF Parked, LeftFits, Same
  <2> QED BY <2>1, QueuesStay
<1>10. DownFits'
  BY PollTaken DEF LoopInvariant, DownFits
<1>11. UpFits'
  <2>1. Pending' = Pending /\ Posted' = Posted
    BY DEF Pending, Posted
  <2> QED BY <2>1 DEF LoopInvariant, UpFits
<1> QED BY <1>2, <1>3, <1>5, <1>6, <1>7, <1>8, <1>9, <1>10, <1>11 DEF LoopInvariant

(* The finally of a flush.                                                  *)
LEMMA FlushEndsPreserves ==
    ASSUME LoopInvariant, FlushEnds
    PROVE  LoopInvariant'
<1>0. client \in ClientState /\ client.flush = "ending"
  BY DEF LoopInvariant, LoopTypeOK, FlushEnds
<1>1. /\ client' = [client EXCEPT !.flush = "none", !.closing = IF @ = "flush" THEN "flushed" ELSE @]
      /\ UNCHANGED <<server, requests, received, handled, accepted, failures, late>>
  BY DEF FlushEnds
<1>2. /\ client'.session = client.session /\ client'.closed = client.closed /\ client'.queue = client.queue
      /\ client'.flush = "none"
      /\ client'.closing = IF client.closing = "flush" THEN "flushed" ELSE client.closing
  BY <1>0, <1>1 DEF ClientState
<1>3. client' \in ClientState
  BY <1>0, <1>1 DEF ClientState
<1>4. LeftFits(requests')
  <2>1. Left(requests)
    BY DEF Left
  <2>2. LeftFits(requests)
    BY <2>1, LeftIs
  <2>3. PICK rs : rs = requests
    OBVIOUS
  <2>4. requests' = rs
    BY <1>1, <2>3
  <2> QED BY <2>2, <2>3, <2>4
<1>5. CloseFits'
  BY <1>0, <1>1, <1>2 DEF LoopInvariant, QueueIsPosted, CloseFits
<1>6. \A q \in requests' : q.kind = "disconnect" /\ q.awaited => client'.closing = "answer"
  BY <1>1, <1>2 DEF LoopInvariant, RequestsFit
<1>7. failures' \in 0 .. MaxFailures
  BY <1>1 DEF LoopInvariant, LoopTypeOK
<1> QED BY <1>0, <1>1, <1>2, <1>3, <1>4, <1>5, <1>6, <1>7, AsidePreserves

(* close() of the client before the flush has ended.                        *)
LEMMA CloseTransportPreserves ==
    ASSUME LoopInvariant, CloseTransport
    PROVE  LoopInvariant'
<1>0. client \in ClientState /\ client.closing = "no"
  BY DEF LoopInvariant, LoopTypeOK, CloseTransport
<1>1. /\ client' = [client EXCEPT !.closing = IF client.flush = "none" THEN "flushed" ELSE "flush"]
      /\ UNCHANGED <<server, requests, received, handled, accepted, failures, late>>
  BY DEF CloseTransport
<1>2. /\ client'.session = client.session /\ client'.closed = client.closed /\ client'.queue = client.queue
      /\ client'.flush = client.flush
      /\ client'.closing = IF client.flush = "none" THEN "flushed" ELSE "flush"
  BY <1>0, <1>1 DEF ClientState
<1>3. client' \in ClientState
  BY <1>0, <1>1 DEF ClientState
<1>4. LeftFits(requests')
  <2>1. Left(requests)
    BY DEF Left
  <2>2. PICK rs : rs = requests
    OBVIOUS
  <2>3. LeftFits(rs)
    BY <2>1, <2>2, LeftIs
  <2> QED BY <1>1, <2>2, <2>3
<1>5. CloseFits'
  BY <1>0, <1>1, <1>2 DEF LoopInvariant, QueueIsPosted, CloseFits
<1>6. \A q \in requests' : q.kind = "disconnect" /\ q.awaited => client'.closing = "answer"
  BY <1>0, <1>1 DEF LoopInvariant, RequestsFit
<1>7. failures' \in 0 .. MaxFailures
  BY <1>1 DEF LoopInvariant, LoopTypeOK
<1> QED BY <1>0, <1>1, <1>2, <1>3, <1>4, <1>5, <1>6, <1>7, AsidePreserves

(* The answer to the disconnect request.                                    *)
LEMMA DisconnectAnsweredPreserves ==
    ASSUME LoopInvariant, NEW r \in requests, DisconnectAnswered(r)
    PROVE  LoopInvariant'
<1>0. client \in ClientState /\ r.kind = "disconnect" /\ r.at = "answered" /\ r.awaited /\ client.closing = "answer"
  BY DEF LoopInvariant, LoopTypeOK, RequestsFit, DisconnectAnswered
<1>1. /\ client' = [client EXCEPT !.closing = "no"]
      /\ requests' = requests \ {r}
      /\ UNCHANGED <<server, received, handled, accepted, failures, late>>
  BY DEF DisconnectAnswered
<1>2. /\ client'.session = client.session /\ client'.closed = client.closed /\ client'.queue = client.queue
      /\ client'.flush = client.flush /\ client'.closing = "no"
  BY <1>0, <1>1 DEF ClientState
<1>3. client' \in ClientState
  BY <1>0, <1>1 DEF ClientState
<1>4. LeftFits(requests')
  <2>1. Left(requests')
    BY <1>0, <1>1 DEF Left
  <2> QED BY <2>1, LeftIs
<1>5. CloseFits'
  BY <1>1, <1>2 DEF CloseFits
<1>6. ~ \E q \in requests' : q.kind = "disconnect" /\ q.awaited
  BY <1>0, <1>1 DEF LoopInvariant, OneOfEach
<1>7. \A q : q.kind = "poll" \/ q.kind = "send" => (q \in requests' <=> q \in requests)
  BY <1>0, <1>1
<1>8. failures' \in 0 .. MaxFailures
  BY <1>1 DEF LoopInvariant, LoopTypeOK
<1> QED BY <1>0, <1>1, <1>2, <1>3, <1>4, <1>5, <1>6, <1>7, <1>8, AsidePreserves

(* A request that fails, whether or not the server still gets it.           *)
LEMMA RequestFailsPreserves ==
    ASSUME LoopInvariant, NEW r \in requests, RequestFails(r)
    PROVE  LoopInvariant'
<1>0. r.awaited /\ r \in Request /\ r.awaited = TRUE /\ client \in ClientState
  BY DEF LoopInvariant, LoopTypeOK, RequestFails, Request
<1>1. /\ UNCHANGED <<server, received, handled, accepted, late>>
      /\ failures' \in 0 .. MaxFailures
  <2>1. failures \in Nat /\ failures < MaxFailures /\ failures' = failures + 1
    BY Fields DEF LoopInvariant, RequestFails
  <2>2. UNCHANGED <<server, received, handled, accepted, late>>
    BY DEF RequestFails
  <2> QED BY <2>1, <2>2, LoopConstants
<1>2. PICK rs :
         /\ \/ r.at \in {"sent", "answered"} /\ rs = requests \ {r}
            \/ r.at # "answered" /\ rs = (requests \ {r}) \cup {[r EXCEPT !.awaited = FALSE]}
         /\ \/ r.kind = "connect" /\ requests' = rs /\ UNCHANGED client
            \/ r.kind = "disconnect" /\ client' = [client EXCEPT !.closing = "no"] /\ requests' = rs
            \/ r.kind = "send" /\ FailTransport([client EXCEPT !.flush = "ending"], rs)
            \/ r.kind = "poll" /\ FailTransport(client, rs)
  BY DEF RequestFails
<1>3. Left(rs) /\ LeftFits(rs)
  <2>1. Left(rs)
    BY <1>2 DEF Left
  <2> QED BY <2>1, LeftIs
<1>4. /\ \A q \in rs : q.awaited => q \in requests /\ q # r
      /\ \A q \in requests : q # r => q \in rs
      /\ \A q : q.kind # r.kind => (q \in rs <=> q \in requests)
  <2>1. PICK a : a = [r EXCEPT !.awaited = FALSE]
    OBVIOUS
  <2>2. ~a.awaited /\ a.kind = r.kind
    BY <1>0, <2>1 DEF Request
  <2>3. rs = requests \ {r} \/ rs = (requests \ {r}) \cup {a}
    BY <1>2, <2>1
  <2> QED BY <1>0, <2>2, <2>3
<1>5. CASE \/ r.kind = "send" /\ FailTransport([client EXCEPT !.flush = "ending"], rs)
           \/ r.kind = "poll" /\ FailTransport(client, rs)
  BY <1>0, <1>1, <1>3, <1>4, <1>5, FailPreserves
<1>6. CASE r.kind = "connect" /\ requests' = rs /\ UNCHANGED client
  <2>1. CloseFits'
    BY <1>1, <1>6 DEF LoopInvariant, CloseFits
  <2>2. \A q \in requests' : q.kind = "disconnect" /\ q.awaited => client'.closing = "answer"
    BY <1>4, <1>6 DEF LoopInvariant, RequestsFit
  <2>3. \A q : q.kind = "poll" \/ q.kind = "send" => (q \in requests' <=> q \in requests)
    BY <1>4, <1>6
  <2>4. /\ client' \in ClientState /\ LeftFits(requests')
        /\ client'.session = client.session /\ client'.closed = client.closed /\ client'.queue = client.queue
        /\ client'.flush = "running" <=> client.flush = "running"
    BY <1>0, <1>3, <1>6
  <2> QED BY <1>1, <2>1, <2>2, <2>3, <2>4, AsidePreserves
<1>7. CASE r.kind = "disconnect" /\ client' = [client EXCEPT !.closing = "no"] /\ requests' = rs
  <2>1. /\ client'.session = client.session /\ client'.closed = client.closed /\ client'.queue = client.queue
        /\ client'.flush = client.flush /\ client'.closing = "no"
    BY <1>0, <1>7 DEF ClientState
  <2>2. client' \in ClientState
    BY <1>0, <1>7 DEF ClientState
  <2>3. CloseFits'
    BY <2>1 DEF CloseFits
  <2>4. \A q \in requests' : q.kind = "disconnect" => ~q.awaited
    BY <1>0, <1>4, <1>7 DEF LoopInvariant, OneOfEach
  <2>5. \A q : q.kind = "poll" \/ q.kind = "send" => (q \in requests' <=> q \in requests)
    BY <1>4, <1>7
  <2>6. LeftFits(requests')
    BY <1>3, <1>7
  <2> QED BY <1>1, <2>1, <2>2, <2>3, <2>4, <2>5, <2>6, AsidePreserves
<1> QED BY <1>2, <1>5, <1>6, <1>7

(* A step that leaves the session and its polls alone, and sends a message  *)
(* or is done with one.                                                     *)
LEMMA SendingKeeps ==
    ASSUME LoopInvariant, UNCHANGED <<server, received, handled>>, LoopTypeOK',
           client'.session = client.session, client'.closed = client.closed, client'.closing = client.closing,
           client.session = NoSession => client'.queue = <<>>,
           \A q : q.kind # "send" => (q \in requests' <=> q \in requests),
           \A q \in requests' : q.kind = "send" /\ q \notin requests =>
              q.at = "sent" /\ q.ok /\ q.session = client.session /\ q.session \in Session,
           \A p, q \in requests' : p.kind = "send" /\ q.kind = "send" /\ p.awaited /\ q.awaited => p = q
    PROVE  /\ OneOfEach' /\ RequestsFit' /\ SessionsFit' /\ DownFits'
           /\ (\A t \in Session : QueueFits(t) /\ OnePoll(t))'
<1>0. LoopTypeOK /\ NoSession \notin Session
  BY Fields DEF LoopInvariant
<1>1. \A q \in requests' : q.kind = "send" => q.at # "parked"
  BY DEF LoopInvariant, RequestsFit
<1>2. OneOfEach'
  BY <1>1 DEF LoopInvariant, OneOfEach
<1>3. ASSUME NEW t \in Session, Fresh(t) PROVE Fresh(t)'
  <2>1. \A q \in requests' : q.session = t => q.kind = "connect"
    BY <1>3 DEF Fresh
  <2> QED BY <1>3, <2>1 DEF Fresh
<1>4. SessionsFit'
  BY <1>3 DEF LoopInvariant, SessionsFit
<1>5. RequestsFit'
  <2> SUFFICES ASSUME NEW q \in requests'
               PROVE  /\ q.session = NoSession <=> q.kind = "connect" /\ q.at # "answered"
                      /\ q.session # NoSession => server'[q.session].state # "unused"
                      /\ IF q.at = "answered" THEN q.awaited ELSE q.ok
                      /\ q.at = "parked" => q.kind = "poll"
                      /\ q.at = "body" => q.kind = "send"
                      /\ q.kind = "connect" => /\ q.awaited => client'.session = NoSession
                                               /\ q.at = "answered" => Fresh(q.session)'
                      /\ q.kind = "disconnect" /\ q.awaited => client'.closing = "answer"
    BY DEF RequestsFit
  <2>1. CASE q \in requests
    <3>1. q.session \in Session \cup {NoSession}
      BY <1>0, <2>1, Fields
    <3> QED BY <1>3, <2>1, <3>1 DEF LoopInvariant, RequestsFit
  <2>2. CASE q \notin requests
    BY <1>0, <2>2 DEF LoopInvariant, SessionsFit
  <2> QED BY <2>1, <2>2
<1>6. DownFits'
  BY PollTaken DEF LoopInvariant, DownFits
<1>7. (\A t \in Session : QueueFits(t))'
  <2>1. \A t \in Session : Parked(t)' # {} <=> Parked(t) # {}
    BY <1>1 DEF Parked, LoopInvariant, RequestsFit
  <2> QED BY <2>1, QueuesStay
<1>8. (\A t \in Session : OnePoll(t))'
  <2>1. \A t \in Session : Polls(t)' = Polls(t)
    BY DEF Polls
  <2> QED BY <2>1 DEF LoopInvariant, OnePoll, OnSession
<1> QED BY <1>2, <1>4, <1>5, <1>6, <1>7, <1>8

(* A queue with one message more.                                           *)
LEMMA QueueAppend ==
    ASSUME NEW M \in Nat, NEW q \in Seq(1 .. M), NEW m \in 1 .. M
    PROVE  /\ Append(q, m) \in Seq(1 .. M) /\ Append(q, m) # <<>>
           /\ Len(q) \in Nat /\ Len(Append(q, m)) = Len(q) + 1
           /\ \A k \in 1 .. Len(q) : Append(q, m)[k] = q[k]
           /\ Append(q, m)[Len(q) + 1] = m
  OBVIOUS

(* The next message is posted.                                              *)
LEMMA PostPreserves ==
    ASSUME LoopInvariant, UNCHANGED <<server, received, handled, failures>>,
           accepted' \in 0 .. MaxUp, late' \in BOOLEAN, client.closing = "flushed" => late',
           client.session # NoSession,
           NEW q \in Seq(1 .. MaxUp), q # <<>>, accepted' - Len(q) = Posted,
           \A k \in 1 .. Len(q) : q[k] = Posted + k,
           NEW rs \in SUBSET requests, Post(client, q, rs),
           \A r \in requests : r.kind # "send" \/ r.at # "answered" \/ ~r.ok => r \in rs,
           \A r \in rs : r.kind = "send" => ~r.awaited
    PROVE  LoopInvariant'
<1>0. LoopTypeOK /\ client \in ClientState /\ client.session \in Session
  BY Fields DEF LoopInvariant, LoopTypeOK
<1>q. /\ Tail(q) \in Seq(1 .. MaxUp) /\ Len(Tail(q)) \in Nat /\ Len(q) \in Nat
      /\ Len(q) = Len(Tail(q)) + 1
      /\ Head(q) = q[1] /\ Head(q) \in 1 .. MaxUp
      /\ \A k \in 1 .. Len(Tail(q)) : k + 1 \in 1 .. Len(q) /\ Tail(q)[k] = q[k + 1]
  BY QueueTail, LoopConstants
<1>t. PICK o : o = Tail(q)
  OBVIOUS
<1>1. /\ client'.session = client.session /\ client'.closed = client.closed
      /\ client'.queue = o /\ client'.flush = "running" /\ client'.closing = client.closing
  BY <1>0, <1>t DEF Post, ClientState
<1>2. client' \in ClientState
  BY <1>0, <1>q DEF Post, ClientState
<1>3. PICK n : n = NewRequest("send", client.session, Head(q))
  OBVIOUS
<1>4. /\ n \in Request /\ n.kind = "send" /\ n.session = client.session /\ n.message = Head(q)
      /\ n.at = "sent" /\ n.ok /\ n.awaited
  <2>1. "send" \in Kind /\ Head(q) \in 0 .. MaxUp + MaxDown /\ client.session \in Session \cup {NoSession}
    BY <1>0, <1>q, LoopConstants DEF Kind
  <2> QED BY <1>3, <2>1, NewIs
<1>5. requests' = rs \cup {n}
  BY <1>3 DEF Post
<1>6. LoopTypeOK'
  BY <1>0, <1>2, <1>4, <1>5 DEF LoopTypeOK
<1>7. /\ OneOfEach' /\ RequestsFit' /\ SessionsFit' /\ DownFits'
      /\ (\A t \in Session : QueueFits(t) /\ OnePoll(t))'
  <2>1. \A r : r.kind # "send" => (r \in requests' <=> r \in requests)
    BY <1>4, <1>5
  <2>2. \A r \in requests' : r.kind = "send" /\ r \notin requests =>
              r.at = "sent" /\ r.ok /\ r.session = client.session /\ r.session \in Session
    BY <1>0, <1>4, <1>5
  <2>3. \A p, r \in requests' : p.kind = "send" /\ r.kind = "send" /\ p.awaited /\ r.awaited => p = r
    BY <1>5
  <2> QED BY <1>1, <1>6, <2>1, <2>2, <2>3, SendingKeeps
<1>8. QueueIsPosted'
  BY <1>1, <1>4, <1>5 DEF QueueIsPosted
<1>9. CloseFits'
  BY <1>1 DEF CloseFits
<1>10. /\ Posted \in Int /\ Head(q) = Posted + 1 /\ Posted' = Posted + 1
       /\ \A k \in 1 .. Len(o) : o[k] = Posted' + k
  <2>1. Posted \in Int /\ accepted' \in Int /\ 1 \in 1 .. Len(q)
    BY <1>q, UpFitsParts
  <2>2. Head(q) = Posted + 1
    BY <1>q, <2>1
  <2>3. Posted' = accepted' - Len(o)
    BY <1>1 DEF Posted
  <2>4. Posted' = Posted + 1
    BY <1>q, <1>t, <2>1, <2>3
  <2>5. ASSUME NEW k \in 1 .. Len(o) PROVE o[k] = Posted' + k
    <3>1. k \in Nat /\ k + 1 \in 1 .. Len(q) /\ o[k] = q[k + 1]
      BY <1>q, <1>t
    <3>2. q[k + 1] = Posted + (k + 1)
      BY <3>1
    <3> QED BY <2>1, <2>4, <3>1, <3>2
  <2> QED BY <2>1, <2>2, <2>4, <2>5
<1>11. \A r \in rs : ~(r.kind = "send" /\ r.session = client.session)
  BY UpFitsParts DEF UpFits
<1>12. \A r \in Pending' : r = n \/ (r \in Pending /\ r \in rs)
  BY <1>5 DEF Pending
<1>13. handled[client.session] \in {0, Posted}
  <2>1. ~ \E r \in requests : r.kind = "send" /\ r.session = client.session /\ (r \in Pending \/ ~r.ok)
    BY <1>11 DEF Pending
  <2> QED BY <2>1, UpFitsParts DEF UpFits
<1>14. ASSUME NEW r \in Pending'
       PROVE  /\ r.message \in 1 .. Posted'
              /\ \A s \in Session : handled[s] # r.message
              /\ handled[r.session] \in {0, r.message - 1}
              /\ \A p \in Pending' : p.session = r.session \/ p.message = r.message => p = r
  <2>1. \A s \in Session : handled[s] # Posted + 1
    BY <1>10, UpFitsParts
  <2>2. n.message = Posted + 1 /\ n.session = client.session /\ Posted + 1 \in 1 .. Posted + 1
    BY <1>4, <1>10, <1>q
  <2>3. CASE r = n
    <3>1. handled[r.session] \in {0, r.message - 1}
      BY <2>2, <2>3, <1>10, <1>13
    <3>2. ASSUME NEW p \in Pending', p.session = r.session \/ p.message = r.message PROVE p = r
      BY <1>11, <1>12, <2>2, <2>3, <3>2, <1>10, UpFitsParts DEF Pending
    <3> QED BY <2>1, <2>2, <2>3, <3>1, <3>2, <1>10
  <2>4. CASE r \in Pending /\ r \in rs
    <3>1. r.message \in 1 .. Posted'
      BY <2>4, <1>10, UpFitsParts
    <3>2. ASSUME NEW p \in Pending', p.session = r.session \/ p.message = r.message PROVE p = r
      BY <1>11, <1>12, <2>2, <2>4, <3>2, <1>10, UpFitsParts DEF Pending
    <3> QED BY <2>4, <3>1, <3>2, UpFitsParts
  <2> QED BY <1>12, <2>3, <2>4
<1>15. \A r \in requests' : r.kind = "send" /\ r.session = client'.session =>
          /\ r.awaited
          /\ r \in Pending' => r.message = Posted'
  BY <1>1, <1>4, <1>5, <1>10, <1>11
<1>16. \E r \in requests' : r.kind = "send" /\ r.session = client'.session /\ (r \in Pending' \/ ~r.ok)
  BY <1>1, <1>4, <1>5 DEF Pending
<1>17. \A s \in Session : handled'[s] <= Posted'
  BY <1>10, UpFitsParts
<1>18. UpFits'
  BY <1>1, <1>10, <1>14, <1>15, <1>16, <1>17 DEF UpFits
<1> QED BY <1>6, <1>7, <1>8, <1>9, <1>18 DEF LoopInvariant

(* send() of the client.                                                    *)
LEMMA SendPreserves ==
    ASSUME LoopInvariant, Send
    PROVE  LoopInvariant'
<1> DEFINE q == Append(client.queue, accepted + 1)
<1>0. /\ LoopTypeOK /\ client \in ClientState /\ client.session # NoSession
      /\ accepted \in Nat /\ accepted + 1 \in 1 .. MaxUp /\ accepted' = accepted + 1
      /\ accepted' \in 0 .. MaxUp
      /\ UNCHANGED <<server, received, handled, failures>>
  <2>1. accepted \in Nat /\ accepted < MaxUp /\ accepted' = accepted + 1
    BY Fields DEF LoopInvariant, Send
  <2> QED BY <2>1, LoopConstants DEF LoopInvariant, LoopTypeOK, Send
<1>1. /\ client.queue \in Seq(1 .. MaxUp) /\ q \in Seq(1 .. MaxUp) /\ q # <<>>
      /\ Len(client.queue) \in Nat /\ Len(q) = Len(client.queue) + 1
      /\ \A k \in 1 .. Len(client.queue) : q[k] = client.queue[k]
      /\ q[Len(client.queue) + 1] = accepted + 1
  <2>1. client.queue \in Seq(1 .. MaxUp) /\ MaxUp \in Nat
    BY <1>0, Fields, LoopConstants
  <2> QED BY <1>0, <2>1, QueueAppend
<1>2. /\ late' \in BOOLEAN /\ (client.closing = "flushed" => late') /\ (client.flush = "ending" => late')
      /\ (late => late')
  <2>1. late \in BOOLEAN
    BY <1>0 DEF LoopTypeOK
  <2>2. late' = (late \/ client.flush = "ending" \/ client.closing = "flushed")
    BY DEF Send
  <2> QED BY <2>1, <2>2
<1>3. accepted' - Len(q) = Posted /\ \A k \in 1 .. Len(q) : q[k] = Posted + k
  <2>1. accepted' - Len(q) = Posted
    <3>1. \A a, b \in Nat : (a + 1) - (b + 1) = a - b
      OBVIOUS
    <3> HIDE DEF q
    <3> QED BY <1>0, <1>1, <3>1 DEF Posted
  <2>2. ASSUME NEW k \in 1 .. Len(q) PROVE q[k] = Posted + k
    <3>1. CASE k \in 1 .. Len(client.queue)
      BY <3>1, <1>1, UpFitsParts DEF UpFits
    <3>2. CASE k = Len(client.queue) + 1
      BY <3>2, <1>0, <1>1 DEF Posted
    <3> QED BY <1>1, <3>1, <3>2
  <2> QED BY <2>1, <2>2
<1> HIDE DEF q
<1>4. CASE client.flush = "none" /\ Post(client, q, requests)
  <2>1. \A r \in requests : r.kind = "send" => ~r.awaited
    BY <1>4 DEF LoopInvariant, QueueIsPosted
  <2>2. requests \in SUBSET requests
    OBVIOUS
  <2> QED BY <1>0, <1>1, <1>2, <1>3, <1>4, <2>1, <2>2, PostPreserves
<1>5. CASE client.flush # "none" /\ client' = [client EXCEPT !.queue = q] /\ UNCHANGED requests
  <2>1. /\ client'.session = client.session /\ client'.closed = client.closed
        /\ client'.queue = q /\ client'.flush = client.flush /\ client'.closing = client.closing
    BY <1>0, <1>5 DEF ClientState
  <2>2. client' \in ClientState
    BY <1>0, <1>1, <1>5 DEF ClientState
  <2>3. LoopTypeOK'
    BY <1>0, <1>2, <1>5, <2>2 DEF LoopTypeOK
  <2>4. /\ OneOfEach' /\ RequestsFit' /\ SessionsFit' /\ DownFits'
        /\ (\A t \in Session : QueueFits(t) /\ OnePoll(t))'
    <3>1. \A p, r \in requests' : p.kind = "send" /\ r.kind = "send" /\ p.awaited /\ r.awaited => p = r
      BY <1>5 DEF LoopInvariant, OneOfEach
    <3> QED BY <1>0, <1>5, <2>1, <2>3, <3>1, SendingKeeps
  <2>5. QueueIsPosted'
    <3>1. client.flush \in {"none", "running", "ending"}
      BY <1>0, Fields
    <3> QED BY <1>2, <1>5, <2>1, <3>1 DEF LoopInvariant, QueueIsPosted
  <2>6. CloseFits'
    BY <1>2, <2>1 DEF CloseFits
  <2>7. UpFits'
    <3>1. Posted' = Posted /\ Pending' = Pending
      BY <1>3, <1>5, <2>1 DEF Posted, Pending
    <3>2. \A k \in 1 .. Len(client'.queue) : client'.queue[k] = Posted' + k
      BY <1>3, <2>1, <3>1
    <3> QED BY <1>0, <1>5, <2>1, <3>1, <3>2 DEF LoopInvariant, UpFits
  <2> QED BY <2>3, <2>4, <2>5, <2>6, <2>7 DEF LoopInvariant
<1> QED BY <1>4, <1>5 DEF Send, q

(* The answer to a posted message.                                          *)
LEMMA SendAnsweredPreserves ==
    ASSUME LoopInvariant, NEW r \in requests, SendAnswered(r)
    PROVE  LoopInvariant'
<1>0. /\ LoopTypeOK /\ client \in ClientState /\ r.kind = "send" /\ r.at = "answered" /\ r.awaited
      /\ client.flush = "running" /\ accepted \in 0 .. MaxUp /\ late \in BOOLEAN
  BY DEF LoopInvariant, LoopTypeOK, RequestsFit, QueueIsPosted, SendAnswered
<1>1. /\ UNCHANGED <<server, received, handled, accepted, failures, late>>
      /\ failures' \in 0 .. MaxFailures
  BY <1>0 DEF SendAnswered, LoopTypeOK
<1>2. /\ \A q \in requests \ {r} : q.kind = "send" => ~q.awaited
      /\ Left(requests \ {r})
  BY <1>0 DEF LoopInvariant, OneOfEach, Left
<1>3. CASE r.ok /\ client.queue # <<>> /\ Post(client, client.queue, requests \ {r})
  <2>1. client.queue \in Seq(1 .. MaxUp) /\ client.session # NoSession
    BY <1>0, <1>3, Fields DEF LoopInvariant, SessionsFit
  <2>2. accepted' - Len(client.queue) = Posted /\ \A k \in 1 .. Len(client.queue) : client.queue[k] = Posted + k
    BY <1>1, UpFitsParts DEF UpFits, Posted
  <2>3. client.closing = "flushed" => late'
    BY <1>1, <1>3 DEF LoopInvariant, CloseFits
  <2>4. /\ accepted' \in 0 .. MaxUp /\ late' \in BOOLEAN /\ requests \ {r} \in SUBSET requests
        /\ \A q \in requests : q.kind # "send" \/ q.at # "answered" \/ ~q.ok => q \in requests \ {r}
    BY <1>0, <1>1, <1>3
  <2> QED BY <1>1, <1>2, <1>3, <2>1, <2>2, <2>3, <2>4, PostPreserves
<1>4. CASE r.ok /\ client.queue = <<>> /\ client' = [client EXCEPT !.flush = "ending"] /\ requests' = requests \ {r}
  <2>1. /\ client'.session = client.session /\ client'.closed = client.closed
        /\ client'.queue = client.queue /\ client'.flush = "ending" /\ client'.closing = client.closing
    BY <1>0, <1>4 DEF ClientState
  <2>2. client' \in ClientState
    BY <1>0, <1>4 DEF ClientState
  <2>3. LoopTypeOK'
    BY <1>0, <1>1, <1>4, <2>2 DEF LoopTypeOK
  <2>4. /\ OneOfEach' /\ RequestsFit' /\ SessionsFit' /\ DownFits'
        /\ (\A t \in Session : QueueFits(t) /\ OnePoll(t))'
    <3>1. \A q : q.kind # "send" => (q \in requests' <=> q \in requests)
      BY <1>0, <1>4
    <3>2. \A p, q \in requests' : p.kind = "send" /\ q.kind = "send" /\ p.awaited /\ q.awaited => p = q
      BY <1>2, <1>4
    <3> QED BY <1>1, <1>4, <2>1, <2>3, <3>1, <3>2, SendingKeeps
  <2>5. QueueIsPosted'
    BY <1>2, <1>4, <2>1 DEF QueueIsPosted
  <2>6. CloseFits'
    BY <1>1, <2>1, <1>4 DEF CloseFits
  <2>7. UpFits'
    <3>1. Posted' = Posted /\ Pending' = Pending
      BY <1>0, <1>1, <1>4, <2>1 DEF Posted, Pending
    <3>2. \A q \in requests : q.kind = "send" /\ (q \in Pending \/ ~q.ok) => q \in requests'
      BY <1>0, <1>4 DEF Pending
    <3> QED BY <1>1, <1>4, <2>1, <3>1, <3>2 DEF LoopInvariant, UpFits
  <2> QED BY <2>3, <2>4, <2>5, <2>6, <2>7 DEF LoopInvariant
<1>5. CASE ~r.ok /\ FailTransport([client EXCEPT !.flush = "ending"], requests \ {r})
  <2>1. PICK rs : rs = requests \ {r}
    OBVIOUS
  <2>2. LeftFits(rs) /\ (\A q \in rs : q.awaited => q \in requests /\ q # r) /\ (\A q \in requests : q # r => q \in rs)
    BY <1>2, <2>1, LeftIs
  <2>3. r.kind = "send" /\ FailTransport([client EXCEPT !.flush = "ending"], rs)
    BY <1>0, <1>5, <2>1
  <2> QED BY <1>0, <1>1, <2>2, <2>3, FailPreserves
<1> QED BY <1>3, <1>4, <1>5 DEF SendAnswered

(* connect() of the client.                                                 *)
LEMMA LoopConnectPreserves ==
    ASSUME LoopInvariant, LoopConnect
    PROVE  LoopInvariant'
<1>0. /\ LoopTypeOK /\ client.session = NoSession
      /\ \A r \in requests : r.kind = "connect" => ~r.awaited
      /\ UNCHANGED <<server, client, received, handled, accepted, failures, late>>
  BY DEF LoopInvariant, SessionsFit, LoopConnect
<1>1. PICK n : n = NewRequest("connect", NoSession, 0)
  OBVIOUS
<1>2. /\ n \in Request /\ n.kind = "connect" /\ n.session = NoSession /\ n.message = 0
      /\ n.at = "sent" /\ n.ok /\ n.awaited
  <2>1. "connect" \in Kind /\ 0 \in 0 .. MaxUp + MaxDown /\ NoSession \in Session \cup {NoSession}
    BY LoopConstants DEF Kind
  <2> QED BY <1>1, <2>1, NewIs
<1>3. requests' = requests \cup {n}
  BY <1>1 DEF LoopConnect
<1>4. LoopTypeOK'
  BY <1>0, <1>2, <1>3 DEF LoopTypeOK
<1>5. OneOfEach'
  BY <1>0, <1>2, <1>3 DEF LoopInvariant, OneOfEach
<1>6. ASSUME NEW t \in Session, Fresh(t) PROVE Fresh(t)'
  BY <1>0, <1>2, <1>3, <1>6 DEF Fresh
<1>7. SessionsFit'
  BY <1>0, <1>6 DEF LoopInvariant, SessionsFit
<1>8. RequestsFit'
  <2>1. \A q \in requests : q.session \in Session \cup {NoSession}
    BY <1>0, Fields
  <2> QED BY <1>0, <1>2, <1>3, <1>6, <2>1 DEF LoopInvariant, RequestsFit
<1>9. \A q : q.kind # "connect" => (q \in requests' <=> q \in requests)
  BY <1>2, <1>3
<1>10. DownFits' /\ UpFits'
  BY <1>0, <1>9, DownFitsKept, UpFitsKept
<1>11. QueueIsPosted' /\ CloseFits'
  BY <1>0, <1>9 DEF LoopInvariant, QueueIsPosted, CloseFits
<1>12. (\A t \in Session : OnePoll(t))'
  <2>1. \A t \in Session : Polls(t)' = Polls(t)
    BY <1>9 DEF Polls
  <2> QED BY <1>0, <2>1 DEF LoopInvariant, OnePoll, OnSession
<1>13. (\A t \in Session : QueueFits(t))'
  <2>1. \A t \in Session : Parked(t)' # {} <=> Parked(t) # {}
    BY <1>2, <1>3 DEF Parked
  <2> QED BY <1>0, <2>1, QueuesStay
<1> QED BY <1>4, <1>5, <1>7, <1>8, <1>10, <1>11, <1>12, <1>13 DEF LoopInvariant

(* The session starts, with its first poll.                                 *)
LEMMA ConnectAnsweredPreserves ==
    ASSUME LoopInvariant, NEW r \in requests, ConnectAnswered(r)
    PROVE  LoopInvariant'
<1> DEFINE s == r.session
<1>0. /\ LoopTypeOK /\ client \in ClientState /\ r.kind = "connect" /\ r.at = "answered" /\ r.awaited
      /\ s \in Session /\ client.session = NoSession /\ NoSession \notin Session
      /\ Fresh(s) /\ server[s].state # "unused" /\ client.queue = <<>>
      /\ UNCHANGED <<server, received, handled, accepted, failures, late>>
  BY Fields DEF LoopInvariant, LoopTypeOK, RequestsFit, SessionsFit, ConnectAnswered
<1>1. PICK n : n = NewRequest("poll", s, 0)
  OBVIOUS
<1>2. /\ n \in Request /\ n.kind = "poll" /\ n.session = s /\ n.message = 0
      /\ n.at = "sent" /\ n.ok /\ n.awaited
  <2>1. "poll" \in Kind /\ 0 \in 0 .. MaxUp + MaxDown /\ s \in Session \cup {NoSession}
    BY <1>0, LoopConstants DEF Kind
  <2> QED BY <1>1, <2>1, NewIs
<1>3. requests' = (requests \ {r}) \cup {n} /\ client' = [client EXCEPT !.session = s, !.closed = FALSE]
  BY <1>1 DEF ConnectAnswered
<1>4. /\ client'.session = s /\ ~client'.closed /\ client'.queue = client.queue
      /\ client'.flush = client.flush /\ client'.closing = client.closing
  BY <1>0, <1>3 DEF ClientState
<1>5. client' \in ClientState
  BY <1>0, <1>3 DEF ClientState
<1>6. LoopTypeOK'
  BY <1>0, <1>2, <1>3, <1>5 DEF LoopTypeOK
<1>7. /\ \A q \in requests : q.kind = "poll" => ~q.awaited /\ q.session # s /\ q.session \in Session
      /\ \A q \in requests : q.kind = "send" => q.session # s
      /\ \A q \in requests \ {r} : q.kind = "connect" => ~q.awaited /\ q.at # "answered"
  <2>1. \A q \in requests : q.kind = "poll" => ~q.awaited /\ q.session \in Session
    BY <1>0, PollTaken DEF LoopInvariant, DownFits
  <2>2. \A q \in requests : q.session = s => q.kind = "connect"
    BY <1>0 DEF Fresh
  <2>3. \A q \in requests \ {r} : q.kind = "connect" => ~q.awaited /\ q.at # "answered"
    BY <1>0 DEF LoopInvariant, OneOfEach, RequestsFit
  <2> QED BY <2>1, <2>2, <2>3
<1>8. OneOfEach'
  BY <1>2, <1>3, <1>7 DEF LoopInvariant, OneOfEach
<1>9. RequestsFit'
  BY <1>0, <1>2, <1>3, <1>4, <1>7 DEF LoopInvariant, RequestsFit
<1>10. SessionsFit'
  <2>1. ASSUME NEW t \in Session, server'[t].state = "unused" PROVE Fresh(t)'
    <3>1. Fresh(t) /\ t # s
      BY <1>0, <2>1 DEF LoopInvariant, SessionsFit
    <3>2. \A q \in requests' : q.session = t => q.kind = "connect"
      BY <1>2, <1>3, <3>1 DEF Fresh
    <3> QED BY <1>0, <1>4, <3>1, <3>2 DEF Fresh
  <2> QED BY <1>0, <1>4, <2>1 DEF SessionsFit
<1>11. DownFits'
  <2>1. \A t \in Session : (received[t] + Len(server[t].queue) <= server[t].sent)'
    BY <1>0 DEF LoopInvariant, DownFits
  <2>2. ASSUME NEW q \in requests', q.kind = "poll"
        PROVE  LET taken == server'[q.session].sent - Len(server'[q.session].queue) IN
                  /\ q.awaited <=> client'.session = q.session
                  /\ q.awaited /\ q.ok =>
                       taken = received'[q.session] + (IF q.at = "answered" /\ q.message # 0 THEN 1 ELSE 0)
                  /\ q.at = "answered" /\ q.message # 0 => q.ok /\ q.message = taken
    <3>1. CASE q = n
      <4>1. received[s] = 0 /\ server[s].sent - Len(server[s].queue) = 0
        BY <1>0, Fields DEF Fresh
      <4> QED BY <1>0, <1>2, <1>4, <3>1, <4>1
    <3>2. CASE q \in requests
      <4>1. ~q.awaited /\ q.session # s /\ q.at # "answered"
        BY <1>7, <2>2, <3>2 DEF LoopInvariant, RequestsFit
      <4> QED BY <1>4, <4>1
    <3> QED BY <1>3, <3>1, <3>2
  <2> QED BY <2>1, <2>2 DEF DownFits
<1>12. UpFits'
  <2>1. Posted' = Posted /\ Pending' = Pending
    BY <1>0, <1>2, <1>3, <1>4 DEF Posted, Pending
  <2>2. \A q \in requests' : q.kind = "send" => q.session # client'.session
    BY <1>2, <1>3, <1>4, <1>7
  <2>3. handled'[client'.session] \in {0, Posted'}
    BY <1>0, <1>4 DEF Fresh
  <2> QED BY <1>0, <1>4, <2>1, <2>2, <2>3 DEF LoopInvariant, UpFits
<1>13. QueueIsPosted' /\ CloseFits'
  BY <1>0, <1>2, <1>3, <1>4 DEF LoopInvariant, QueueIsPosted, CloseFits
<1>14. (\A t \in Session : OnePoll(t))'
  <2> SUFFICES ASSUME NEW t \in Session PROVE OnePoll(t)'
    OBVIOUS
  <2>1. CASE t = s
    <3>1. Polls(t)' = {n}
      BY <1>2, <1>3, <1>7, <2>1 DEF Polls
    <3>2. Cardinality(Polls(t)') <= 1
      <4>1. Cardinality({n}) = 1
        BY FS_Singleton
      <4> QED BY <3>1, <4>1
    <3>3. OnSession(t)'
      BY <1>4, <2>1 DEF OnSession
    <3>4. Polls(t)' # {}
      BY <3>1
    <3> QED BY <3>2, <3>3, <3>4 DEF OnePoll
  <2>2. CASE t # s
    <3>1. Polls(t)' = {}
      BY <1>2, <1>3, <1>7, <2>2 DEF Polls
    <3>2. Cardinality(Polls(t)') <= 1
      BY <3>1, FS_EmptySet
    <3> QED BY <1>4, <2>2, <3>1, <3>2 DEF OnePoll, OnSession
  <2> QED BY <2>1, <2>2
<1>15. (\A t \in Session : QueueFits(t))'
  <2>1. \A t \in Session : Parked(t)' # {} <=> Parked(t) # {}
    BY <1>0, <1>2, <1>3 DEF Parked
  <2> QED BY <1>0, <2>1, QueuesStay
<1> QED BY <1>6, <1>8, <1>9, <1>10, <1>11, <1>12, <1>13, <1>14, <1>15 DEF LoopInvariant

(* The answer to a poll: the next poll, or the end of the session.          *)
LEMMA PollAnsweredPreserves ==
    ASSUME LoopInvariant, NEW r \in requests, PollAnswered(r)
    PROVE  LoopInvariant'
<1> DEFINE s == r.session
<1>0. /\ LoopTypeOK /\ client \in ClientState /\ r.kind = "poll" /\ r.at = "answered" /\ r.awaited
      /\ s \in Session /\ client.session = s /\ NoSession \notin Session
      /\ r.message \in Nat
      /\ UNCHANGED <<server, handled, accepted, failures, late>>
  BY PollTaken, Fields DEF LoopInvariant, LoopTypeOK, RequestsFit, DownFits, PollAnswered
<1>1. CASE r.ok /\ UNCHANGED client
  <2>1. PICK n : n = NewRequest("poll", s, 0)
    OBVIOUS
  <2>2. /\ n \in Request /\ n.kind = "poll" /\ n.session = s /\ n.message = 0
        /\ n.at = "sent" /\ n.ok /\ n.awaited
    <3>1. "poll" \in Kind /\ 0 \in 0 .. MaxUp + MaxDown /\ s \in Session \cup {NoSession}
      BY <1>0, LoopConstants DEF Kind
    <3> QED BY <2>1, <3>1, NewIs
  <2>3. /\ requests' = (requests \ {r}) \cup {n}
        /\ received' = IF r.message = 0 THEN received ELSE [received EXCEPT ![s] = r.message]
    BY <1>0, <1>1, <2>1 DEF PollAnswered, FailTransport
  <2>4. /\ received[s] \in Nat /\ server[s].sent \in Nat /\ server[s].sent <= MaxDown /\ Len(server[s].queue) \in Nat
        /\ server[s].sent - Len(server[s].queue) = received[s] + (IF r.message # 0 THEN 1 ELSE 0)
        /\ r.message # 0 => r.message = server[s].sent - Len(server[s].queue)
    BY <1>0, <1>1, Fields DEF LoopInvariant, DownFits
  <2>5. /\ received' \in [Session -> 0 .. MaxDown]
        /\ received'[s] = server[s].sent - Len(server[s].queue)
        /\ \A t \in Session \ {s} : received'[t] = received[t]
    <3>1. received \in [Session -> 0 .. MaxDown]
      BY <1>0 DEF LoopTypeOK
    <3>2. CASE r.message = 0
      BY <2>3, <2>4, <3>1, <3>2
    <3>3. CASE r.message # 0
      <4>1. r.message \in 0 .. MaxDown
        BY <1>0, <2>4, <3>3, LoopConstants
      <4>2. received' = [received EXCEPT ![s] = r.message]
        BY <2>3, <3>3
      <4> QED BY <1>0, <2>4, <3>1, <3>3, <4>1, <4>2
    <3> QED BY <3>2, <3>3
  <2>6. LoopTypeOK'
    BY <1>0, <1>1, <2>2, <2>3, <2>5 DEF LoopTypeOK
  <2>7. /\ \A q \in requests \ {r} : q.kind = "poll" => ~q.awaited /\ q.session # s /\ q.at # "answered"
        /\ \A q \in requests : q.kind = "connect" => ~q.awaited /\ q.at # "answered"
    BY <1>0, PollTaken DEF LoopInvariant, DownFits, OneOfEach, RequestsFit
  <2>8. OneOfEach'
    BY <1>0, <2>2, <2>3, <2>7 DEF LoopInvariant, OneOfEach
  <2>9. RequestsFit'
    BY <1>0, <1>1, <2>2, <2>3, <2>7 DEF LoopInvariant, RequestsFit
  <2>10. SessionsFit'
    <3>1. ASSUME NEW t \in Session, server'[t].state = "unused" PROVE Fresh(t)'
      <4>1. Fresh(t) /\ t # s
        BY <1>0, <3>1 DEF LoopInvariant, SessionsFit, Fresh
      <4>2. \A q \in requests' : q.session = t => q.kind = "connect"
        BY <2>2, <2>3, <4>1 DEF Fresh
      <4> QED BY <1>0, <1>1, <2>5, <4>1, <4>2 DEF Fresh
    <3> QED BY <1>0, <1>1, <3>1 DEF LoopInvariant, SessionsFit
  <2>11. DownFits'
    <3>1. \A t \in Session : (received[t] + Len(server[t].queue) <= server[t].sent)'
      BY <1>0, <2>4, <2>5 DEF LoopInvariant, DownFits
    <3>2. ASSUME NEW q \in requests', q.kind = "poll"
          PROVE  LET taken == server'[q.session].sent - Len(server'[q.session].queue) IN
                  /\ q.awaited <=> client'.session = q.session
                  /\ q.awaited /\ q.ok =>
                       taken = received'[q.session] + (IF q.at = "answered" /\ q.message # 0 THEN 1 ELSE 0)
                  /\ q.at = "answered" /\ q.message # 0 => q.ok /\ q.message = taken
      <4>1. CASE q = n
        BY <1>0, <1>1, <2>2, <2>4, <2>5, <4>1
      <4>2. CASE q \in requests \ {r}
        BY <1>0, <1>1, <2>7, <3>2, <4>2
      <4> QED BY <2>3, <4>1, <4>2
    <3> QED BY <3>1, <3>2 DEF DownFits
  <2>12. UpFits'
    <3>1. \A q : q.kind = "send" => (q \in requests' <=> q \in requests)
      BY <1>0, <2>2, <2>3
    <3> QED BY <1>0, <1>1, <3>1, UpFitsKept
  <2>13. QueueIsPosted' /\ CloseFits'
    BY <1>0, <1>1, <2>2, <2>3 DEF LoopInvariant, QueueIsPosted, CloseFits
  <2>14. (\A t \in Session : OnePoll(t))'
    <3> SUFFICES ASSUME NEW t \in Session PROVE OnePoll(t)'
      OBVIOUS
    <3>0. OnSession(t) <=> t = s
      BY <1>0 DEF OnSession, LoopInvariant, SessionsFit
    <3>1. CASE t = s
      <4>1. Polls(t)' = {n}
        BY <2>2, <2>3, <2>7, <3>1 DEF Polls
      <4>2. Cardinality(Polls(t)') <= 1
        <5>1. Cardinality({n}) = 1
          BY FS_Singleton
        <5> QED BY <4>1, <5>1
      <4>3. OnSession(t)'
        BY <1>1, <3>0, <3>1 DEF OnSession
      <4>4. Polls(t)' # {}
        BY <4>1
      <4> QED BY <4>2, <4>3, <4>4 DEF OnePoll
    <3>2. CASE t # s
      <4>1. Polls(t)' = {}
        BY <2>2, <2>3, <2>7, <3>2 DEF Polls
      <4>2. Cardinality(Polls(t)') <= 1
        BY <4>1, FS_EmptySet
      <4> QED BY <1>1, <3>0, <3>2, <4>1, <4>2 DEF OnePoll, OnSession
    <3> QED BY <3>1, <3>2
  <2>15. (\A t \in Session : QueueFits(t))'
    <3>1. \A t \in Session : Parked(t)' # {} <=> Parked(t) # {}
      BY <1>0, <2>2, <2>3 DEF Parked
    <3> QED BY <1>0, <3>1, QueuesStay
  <2> QED BY <2>6, <2>8, <2>9, <2>10, <2>11, <2>12, <2>13, <2>14, <2>15 DEF LoopInvariant
<1>2. CASE ~r.ok /\ FailTransport(client, requests \ {r}) /\ UNCHANGED received
  <2>1. PICK rs : rs = requests \ {r}
    OBVIOUS
  <2>2. Left(rs) /\ LeftFits(rs)
    <3>1. Left(rs)
      BY <1>0, <2>1 DEF Left
    <3> QED BY <3>1, LeftIs
  <2>3. (\A q \in rs : q.awaited => q \in requests /\ q # r) /\ (\A q \in requests : q # r => q \in rs)
    BY <2>1
  <2>4. r.kind = "poll" /\ FailTransport(client, rs)
    BY <1>0, <1>2, <2>1
  <2>5. failures' \in 0 .. MaxFailures
    BY <1>0 DEF LoopTypeOK
  <2> QED BY <1>0, <1>2, <2>2, <2>3, <2>4, <2>5, FailPreserves
<1> QED BY <1>1, <1>2 DEF PollAnswered

-----------------------------------------------------------------------------
(* The invariant.                                                           *)

(* The initial state.                                                       *)
LEMMA LoopInitFits ==
    ASSUME LoopInit
    PROVE  LoopInvariant
<1> USE DEF LoopInit
<1>0. /\ \A s \in Session : /\ server[s] = [state |-> "unused", queue |-> <<>>, poll |-> FALSE, sent |-> 0]
                            /\ received[s] = 0 /\ handled[s] = 0
      /\ client.session = NoSession /\ client.closed = FALSE /\ client.queue = <<>>
      /\ client.flush = "none" /\ client.closing = "no"
      /\ NoSession \notin Session /\ accepted = 0 /\ requests = {}
  BY LoopConstants DEF Session
<1>1. LoopTypeOK
  <2>1. [state |-> "unused", queue |-> <<>>, poll |-> FALSE, sent |-> 0] \in ServerSession
    BY LoopConstants DEF ServerSession
  <2>2. client \in ClientState
    BY DEF ClientState
  <2>3. server \in [Session -> ServerSession]
    BY <2>1
  <2>4. received \in [Session -> 0 .. MaxDown] /\ handled \in [Session -> 0 .. MaxUp]
    BY LoopConstants
  <2>5. accepted \in 0 .. MaxUp /\ failures \in 0 .. MaxFailures
    BY LoopConstants
  <2>6. requests \subseteq Request /\ late \in BOOLEAN
    OBVIOUS
  <2> QED BY <2>2, <2>3, <2>4, <2>5, <2>6 DEF LoopTypeOK
<1> HIDE DEF LoopInit
<1>2. \A s \in Session : Parked(s) = {} /\ Polls(s) = {}
  BY <1>0 DEF Parked, Polls
<1>3. \A s \in Session : server[s].queue = <<>> /\ server[s].sent = 0 /\ ~server[s].poll
  BY <1>0
<1>4. \A s \in Session : QueueFits(s)
  BY <1>2, <1>3 DEF QueueFits
<1>5. \A s \in Session : OnePoll(s)
  <2>1. Cardinality({}) <= 1
    BY FS_EmptySet
  <2> QED BY <1>0, <1>2, <2>1 DEF OnePoll, OnSession
<1>6. QueueIsPosted /\ OneOfEach /\ RequestsFit /\ CloseFits
  BY <1>0 DEF QueueIsPosted, OneOfEach, RequestsFit, CloseFits
<1>7. SessionsFit
  BY <1>0, <1>3 DEF SessionsFit, Fresh
<1>8. DownFits
  BY <1>0, <1>3 DEF DownFits
<1>9. UpFits
  BY <1>0 DEF UpFits, Posted, Pending
<1> QED BY <1>1, <1>4, <1>5, <1>6, <1>7, <1>8, <1>9 DEF LoopInvariant

(* A step of something else.                                                *)
LEMMA StutterPreserves ==
    ASSUME LoopInvariant, UNCHANGED loopVars
    PROVE  LoopInvariant'
<1>1. LoopTypeOK'
  BY DEF LoopInvariant, loopVars, LoopTypeOK
<1>2. \A s \in Session : (QueueFits(s) <=> QueueFits(s)') /\ (OnePoll(s) <=> OnePoll(s)')
  BY DEF loopVars, QueueFits, OnePoll, Parked, Polls, OnSession
<1>3. QueueIsPosted' /\ OneOfEach' /\ CloseFits'
  BY DEF LoopInvariant, loopVars, QueueIsPosted, OneOfEach, CloseFits
<1>4. \A s \in Session : Fresh(s) <=> Fresh(s)'
  BY DEF loopVars, Fresh
<1>5. RequestsFit'
  BY <1>4 DEF LoopInvariant, loopVars, RequestsFit, Fresh
<1>6. SessionsFit'
  BY <1>4 DEF LoopInvariant, loopVars, SessionsFit
<1>7. DownFits' /\ UpFits'
  BY DEF LoopInvariant, loopVars, DownFits, UpFits, Posted, Pending
<1> QED BY <1>1, <1>2, <1>3, <1>5, <1>6, <1>7 DEF LoopInvariant

(* HttpLoopSessionTransport and HttpLoopClientTransport: whatever fails,    *)
(* times out or is replaced, a parked poll is never passed over by a queued *)
(* message, exactly a client on a session polls it, once at a time, and a   *)
(* queued message is being posted.                                          *)
THEOREM LoopIsInvariant == LoopSpec => []LoopInvariant
<1>1. LoopInit => LoopInvariant
  BY LoopInitFits
<1>2. LoopInvariant /\ [LoopNext]_loopVars => LoopInvariant'
  <2> SUFFICES ASSUME LoopInvariant, [LoopNext]_loopVars PROVE LoopInvariant'
    OBVIOUS
  <2>1. ASSUME NEW s \in Session, RuntimeSends(s) \/ RuntimeCloses(s) PROVE LoopInvariant'
    BY <2>1, RuntimeSendsPreserves, RuntimeClosesPreserves
  <2>2. ASSUME NEW r \in requests, ServerHandles(r) PROVE LoopInvariant'
    BY <2>2, HandleConnectPreserves, HandlePollPreserves, HandleSendPreserves, HandleSendBodyPreserves,
       HandleDisconnectPreserves DEF ServerHandles
  <2>3. ASSUME NEW r \in requests, ClientHandles(r) PROVE LoopInvariant'
    BY <2>3, ConnectAnsweredPreserves, SendAnsweredPreserves, PollAnsweredPreserves,
       DisconnectAnsweredPreserves DEF ClientHandles
  <2>4. ASSUME NEW r \in requests, PollTimesOut(r) \/ RequestFails(r) PROVE LoopInvariant'
    BY <2>4, PollTimesOutPreserves, RequestFailsPreserves
  <2>5. CASE LoopConnect \/ Send \/ FlushEnds \/ CloseTransport \/ CloseSession
    BY <2>5, LoopConnectPreserves, SendPreserves, FlushEndsPreserves, CloseTransportPreserves, CloseSessionPreserves
  <2>6. CASE UNCHANGED loopVars
    BY <2>6, StutterPreserves
  <2> QED BY <2>1, <2>2, <2>3, <2>4, <2>5, <2>6 DEF LoopNext
<1> QED BY <1>1, <1>2, PTL DEF LoopSpec

-----------------------------------------------------------------------------
(* The link.                                                                *)

(* Only the send() of the server numbers a message of a session.            *)
LEMMA OnlySendsSend ==
    ASSUME LoopInvariant, [LoopNext]_loopVars,
           NEW t \in Session, server'[t].sent # server[t].sent
    PROVE  \E s \in Session : RuntimeSends(s)
<1>0. server \in [Session -> ServerSession]
  BY DEF LoopInvariant, LoopTypeOK
<1>1. ASSUME NEW s \in Session, server' = [server EXCEPT ![s] = Closed(@)] PROVE server'[t].sent = server[t].sent
  BY <1>0, <1>1 DEF Closed, ServerSession
<1>2. ASSUME NEW s \in Session, RuntimeCloses(s) PROVE server'[t].sent = server[t].sent
  BY <1>1, <1>2 DEF RuntimeCloses
<1>3. ASSUME NEW r \in requests, ServerHandles(r) PROVE server'[t].sent = server[t].sent
  <2>1. CASE HandleConnect(r)
    BY <1>0, <2>1 DEF HandleConnect, ServerSession
  <2>2. CASE HandlePoll(r)
    <3>1. PICK s : s = r.session
      OBVIOUS
    <3>2. s \in Session
      BY <2>2, <3>1, PollTaken DEF HandlePoll
    <3>3. \/ server' = server
          \/ \E q : server' = [server EXCEPT ![s].queue = q]
          \/ server' = [server EXCEPT ![s].poll = TRUE]
      BY <2>2, <3>1 DEF HandlePoll
    <3>4. ASSUME NEW q, server' = [server EXCEPT ![s].queue = q] PROVE server'[t].sent = server[t].sent
      BY <1>0, <3>2, <3>4 DEF ServerSession
    <3>5. ASSUME server' = [server EXCEPT ![s].poll = TRUE] PROVE server'[t].sent = server[t].sent
      BY <1>0, <3>2, <3>5 DEF ServerSession
    <3> QED BY <3>3, <3>4, <3>5
  <2>3. CASE HandleSend(r)
    BY <2>3 DEF HandleSend
  <2>4. CASE HandleSendBody(r)
    <3>1. r.session \in Session
      BY <2>4, SessionTaken DEF HandleSendBody, LoopInvariant, RequestsFit
    <3> QED BY <1>1, <2>4, <3>1 DEF HandleSendBody
  <2>5. CASE HandleDisconnect(r)
    BY <1>0, <2>5 DEF HandleDisconnect, Closed, ServerSession
  <2> QED BY <1>3, <2>1, <2>2, <2>3, <2>4, <2>5 DEF ServerHandles
<1>4. ASSUME NEW r \in requests, ClientHandles(r) \/ RequestFails(r) PROVE server'[t].sent = server[t].sent
  BY <1>4 DEF ClientHandles, ConnectAnswered, SendAnswered, PollAnswered, DisconnectAnswered, RequestFails
<1>5. ASSUME NEW r \in requests, PollTimesOut(r) PROVE server'[t].sent = server[t].sent
  BY <1>0, <1>5 DEF PollTimesOut, ServerSession
<1>6. CASE LoopConnect \/ Send \/ FlushEnds \/ CloseTransport \/ CloseSession \/ UNCHANGED loopVars
  BY <1>6 DEF LoopConnect, Send, FlushEnds, CloseTransport, CloseSession, loopVars
<1> QED BY <1>2, <1>3, <1>4, <1>5, <1>6 DEF LoopNext

(* Only a poll that brings a message counts as one received.                *)
LEMMA OnlyPollsReceive ==
    ASSUME LoopInvariant, [LoopNext]_loopVars, received' # received
    PROVE  \E r \in requests : PollAnswered(r) /\ r.ok /\ r.message # 0
<1>1. ASSUME NEW s \in Session, RuntimeSends(s) \/ RuntimeCloses(s) PROVE FALSE
  BY <1>1 DEF RuntimeSends, RuntimeCloses
<1>2. ASSUME NEW r \in requests, ServerHandles(r) \/ PollTimesOut(r) \/ RequestFails(r) PROVE FALSE
  BY <1>2 DEF ServerHandles, HandleConnect, HandlePoll, HandleSend, HandleSendBody, HandleDisconnect,
              PollTimesOut, RequestFails
<1>3. ASSUME NEW r \in requests, ConnectAnswered(r) \/ SendAnswered(r) \/ DisconnectAnswered(r) PROVE FALSE
  BY <1>3 DEF ConnectAnswered, SendAnswered, DisconnectAnswered
<1>4. ~ (LoopConnect \/ Send \/ FlushEnds \/ CloseTransport \/ CloseSession \/ UNCHANGED loopVars)
  BY DEF LoopConnect, Send, FlushEnds, CloseTransport, CloseSession, loopVars
<1>5. PICK r \in requests : PollAnswered(r)
  BY <1>1, <1>2, <1>3, <1>4 DEF LoopNext, ClientHandles
<1> QED BY <1>5 DEF PollAnswered

(* Only the body of a message that is read hands it to the runtime.         *)
LEMMA OnlyBodiesAreHandled ==
    ASSUME LoopInvariant, [LoopNext]_loopVars, handled' # handled
    PROVE  \E r \in requests : HandleSendBody(r)
<1>1. ASSUME NEW s \in Session, RuntimeSends(s) \/ RuntimeCloses(s) PROVE FALSE
  BY <1>1 DEF RuntimeSends, RuntimeCloses
<1>2. ASSUME NEW r \in requests, ClientHandles(r) \/ PollTimesOut(r) \/ RequestFails(r) PROVE FALSE
  BY <1>2 DEF ClientHandles, ConnectAnswered, SendAnswered, PollAnswered, DisconnectAnswered,
              PollTimesOut, RequestFails
<1>3. ASSUME NEW r \in requests, HandleConnect(r) \/ HandlePoll(r) \/ HandleSend(r) \/ HandleDisconnect(r) PROVE FALSE
  BY <1>3 DEF HandleConnect, HandlePoll, HandleSend, HandleDisconnect
<1>4. ~ (LoopConnect \/ Send \/ FlushEnds \/ CloseTransport \/ CloseSession \/ UNCHANGED loopVars)
  BY DEF LoopConnect, Send, FlushEnds, CloseTransport, CloseSession, loopVars
<1> QED BY <1>1, <1>2, <1>3, <1>4 DEF LoopNext, ServerHandles

(* A step of the loop is a step of the link, or none.                       *)
LEMMA StepOfTheLink ==
    ASSUME LoopInvariant, [LoopNext]_loopVars
    PROVE  [Down!LinkNext]_(Down!link)
<1> DEFINE numbers == [s \in Session |-> server[s].sent]
<1>0. server \in [Session -> ServerSession] /\ received \in [Session -> 0 .. MaxDown]
  BY DEF LoopInvariant, LoopTypeOK
<1>1. ASSUME NEW s \in Session, RuntimeSends(s) PROVE Down!SendOn(s)
  <2>1. received' = received
    BY <1>1 DEF RuntimeSends
  <2>2. \A t \in Session : server'[t].sent = IF t = s THEN server[s].sent + 1 ELSE server[t].sent
    <3>1. PICK m : m = server[s].sent + 1
      OBVIOUS
    <3>2. \/ server' = [server EXCEPT ![s].sent = m, ![s].poll = FALSE]
          \/ \E q : server' = [server EXCEPT ![s].sent = m, ![s].queue = q]
      BY <1>1, <3>1 DEF RuntimeSends
    <3>3. ASSUME NEW q, server' = [server EXCEPT ![s].sent = m, ![s].queue = q]
          PROVE  \A t \in Session : server'[t].sent = IF t = s THEN m ELSE server[t].sent
      BY <1>0, <3>3 DEF ServerSession
    <3>4. ASSUME server' = [server EXCEPT ![s].sent = m, ![s].poll = FALSE]
          PROVE  \A t \in Session : server'[t].sent = IF t = s THEN m ELSE server[t].sent
      BY <1>0, <3>4 DEF ServerSession
    <3> QED BY <3>1, <3>2, <3>3, <3>4
  <2>3. numbers' = [numbers EXCEPT ![s] = @ + 1]
    BY <2>2
  <2> QED BY <2>1, <2>3 DEF Down!SendOn
<1>2. ASSUME NEW r \in requests, PollAnswered(r), r.ok, r.message # 0 PROVE Down!ReceiveOn(r.session)
  <2>1. /\ r.session \in Session /\ server' = server
        /\ received' = [received EXCEPT ![r.session] = r.message]
    BY <1>2, PollTaken DEF PollAnswered
  <2>2. r.kind = "poll" /\ r.awaited /\ r.at = "answered"
    BY <1>2 DEF PollAnswered, LoopInvariant, RequestsFit
  <2>3. r.message = server[r.session].sent - Len(server[r.session].queue) /\ r.message = received[r.session] + 1
    BY <1>2, <2>2 DEF LoopInvariant, DownFits
  <2>4. server[r.session].sent \in Nat /\ Len(server[r.session].queue) \in Nat /\ received[r.session] \in Nat
    BY <1>0, <2>1, Fields DEF LoopInvariant
  <2>5. received[r.session] < numbers[r.session]
    BY <2>1, <2>3, <2>4
  <2>6. received' = [received EXCEPT ![r.session] = @ + 1]
    BY <1>0, <2>1, <2>3
  <2> QED BY <2>1, <2>5, <2>6 DEF Down!ReceiveOn
<1>3. ASSUME ~ \E s \in Session : RuntimeSends(s), received' = received PROVE UNCHANGED Down!link
  <2>1. \A t \in Session : server'[t].sent = server[t].sent
    BY <1>3, OnlySendsSend
  <2>2. numbers' = numbers
    BY <2>1
  <2> QED BY <1>3, <2>2 DEF Down!link
<1>4. CASE \E s \in Session : RuntimeSends(s)
  BY <1>1, <1>4 DEF Down!LinkNext
<1>5. CASE received' # received
  <2>1. PICK r \in requests : PollAnswered(r) /\ r.ok /\ r.message # 0
    BY <1>5, OnlyPollsReceive
  <2>2. r.session \in Session
    BY <2>1, PollTaken DEF PollAnswered
  <2> QED BY <1>2, <2>1, <2>2 DEF Down!LinkNext
<1> QED BY <1>3, <1>4, <1>5

(* What is handled on a session follows what was, or is new.                *)
LEMMA StepUpInOrder ==
    ASSUME LoopInvariant, [LoopNext]_loopVars, NEW s \in Session, handled'[s] # handled[s]
    PROVE  IF handled[s] # 0 THEN handled'[s] = handled[s] + 1
                             ELSE \A t \in Session : handled'[s] # handled[t]
<1>1. PICK r \in requests : HandleSendBody(r)
  BY OnlyBodiesAreHandled
<1>2. r \in Pending
  BY <1>1 DEF HandleSendBody, LoopInvariant, RequestsFit, Pending
<1>3. handled \in [Session -> 0 .. MaxUp] /\ handled' = [handled EXCEPT ![r.session] = r.message]
  BY <1>1 DEF HandleSendBody, LoopInvariant, LoopTypeOK
<1>4. s = r.session /\ handled'[s] = r.message
  BY <1>3
<1>5. /\ handled[s] \in {0, r.message - 1} /\ r.message \in Nat /\ \A t \in Session : handled[t] # r.message
  BY <1>2, <1>4, UpFitsParts
<1> QED BY <1>4, <1>5

(* HttpLoopSessionTransport and HttpLoopClientTransport make a FIFO link of *)
(* single requests, both ways, whatever polls time out, replace each other  *)
(* or fail: FifoLink is implemented by the sessions on the way down, and    *)
(* what the runtime handles of a session on the way up has no gap and       *)
(* nothing twice.                                                           *)
THEOREM LoopImplementsFifoLink == LoopSpec => ImplementsFifoLink
<1>1. LoopInit => Down!LinkInit
  <2>1. LoopInit => [s \in Session |-> server[s].sent] = [s \in Session |-> 0]
    BY DEF LoopInit
  <2> QED BY <2>1 DEF LoopInit, Down!LinkInit
<1>2. LoopInvariant /\ [LoopNext]_loopVars => [Down!LinkNext]_(Down!link)
  BY StepOfTheLink
<1>3. LoopInvariant /\ [LoopNext]_loopVars =>
        [\A s \in Session : handled'[s] # handled[s] =>
            IF handled[s] # 0 THEN handled'[s] = handled[s] + 1
                              ELSE \A t \in Session : handled'[s] # handled[t]]_loopVars
  BY StepUpInOrder
<1> QED BY <1>1, <1>2, <1>3, LoopIsInvariant, PTL DEF LoopSpec, ImplementsFifoLink, Down!LinkSpec, UpInOrder

(* close() of HttpLoopClientTransport goes on to the disconnect request     *)
(* only when the flush it awaited has left nothing to post, unless a        *)
(* message was late.                                                        *)
THEOREM LoopCloseFlushesFirst == LoopSpec => CloseFlushesFirst
<1>1. LoopInvariant /\ [LoopNext]_loopVars =>
        [client.closing = "flushed" /\ client'.closing # "flushed" /\ ~late
           => client.queue = <<>> /\ client.flush # "running"]_loopVars
  BY DEF LoopInvariant, CloseFits
<1> QED BY <1>1, LoopIsInvariant, PTL DEF LoopSpec, CloseFlushesFirst
=============================================================================
