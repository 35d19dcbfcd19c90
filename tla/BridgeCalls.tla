---------------------------- MODULE BridgeCalls ----------------------------
(* The calls that a server is given over its MCP bridge: handleBridgeRequest *)
(* (cli.ts) runs them here or forwards them to the leader over a control    *)
(* link (cluster-manager.ts: requestLeaderRpc and what follows it), and     *)
(* executeBridgeRequest (bridge-requests.ts) runs them, one invocation for  *)
(* each client they go to.  Who leads is decided in ClusterElection, how an *)
(* invocation ends in ServerRuntime: here both may happen at any time.      *)
EXTENDS Naturals, Sequences

CONSTANTS
    Peer,        \* the other servers
    Self,        \* this server
    NoServer,    \* no leader is known; a call that nobody runs
    Call,        \* bridge calls that reach clients; each is made at most once
    FanOut,      \* those that are callPaths, the others are callPath
    Target,      \* clients
    MaxLinks,    \* bound: control links that are made
    MaxTurns     \* bound: changes of the leader this server follows

ASSUME BridgeConstants ==
    /\ FanOut \subseteq Call /\ MaxLinks \in Nat /\ MaxTurns \in Nat
    /\ Self \notin Peer /\ NoServer \notin Peer \cup {Self} /\ Target # {}

VARIABLES
    leader,  \* the leader this server follows, Self when it leads
    known,   \* peers: the servers that were discovered or heard of
    leads,   \* the peers that lead, each in its term
    link,    \* the control links, in the order in which they were made
    phase,   \* where a call is
    asked,   \* the leader a call was forwarded to, and the link that took it
    outcome, \* what the bridge was answered
    wire,    \* RPC messages on their way
    run,     \* the execution of a call
    stage,   \* how far close() of the cluster manager is
    turns

bridgeVars == <<leader, known, leads, link, phase, asked, outcome, wire, run, stage, turns>>

NoLink == 0

(* "closing" and "shut" are no longer OPEN, and their close event is still  *)
(* to come; close() awaits that of the second.                              *)
LinkState == {"connecting", "open", "closing", "shut", "gone"}

(* A leader says that it resigns and waits 50 ms while it is "closing".     *)
Stage == {"up", "closing", "ending", "closed"}

Phase == {"new", "connecting", "pending", "local", "done"}

(* "refused" never left this server or was answered by one that does not    *)
(* lead; "failed" is an execution that threw, a timer, or a link or a       *)
(* manager that closed.                                                     *)
Outcome == {"none", "refused", "failed", "result"}

NoRun == [at |-> NoServer, over |-> NoLink, waits |-> {}, entries |-> {}]

BridgeTypeOK ==
    /\ leader \in Peer \cup {Self, NoServer} /\ known \subseteq Peer /\ leads \subseteq Peer
    /\ link \in Seq([peer : Peer, outbound : BOOLEAN, state : LinkState, heard : BOOLEAN, held : BOOLEAN])
    /\ Len(link) <= MaxLinks
    /\ phase \in [Call -> Phase] /\ outcome \in [Call -> Outcome]
    /\ asked \in [Call -> [peer : Peer \cup {NoServer}, link : 0 .. MaxLinks]]
    /\ wire \subseteq [call : Call, link : 1 .. MaxLinks, is : {"request", "refused", "failed", "result"}]
    /\ run \in [Call -> [at : Peer \cup {Self, NoServer}, over : 0 .. MaxLinks,
                         waits : SUBSET Target, entries : SUBSET Target]]
    /\ stage \in Stage /\ turns \in 0 .. MaxTurns

BridgeInit ==
    /\ leads \in SUBSET Peer /\ leader \in leads \cup {NoServer} /\ known \in SUBSET Peer
    /\ link = <<>>
    /\ phase = [c \in Call |-> "new"] /\ outcome = [c \in Call |-> "none"]
    /\ asked = [c \in Call |-> [peer |-> NoServer, link |-> NoLink]]
    /\ wire = {} /\ run = [c \in Call |-> NoRun]
    /\ stage = "up" /\ turns = 0

-----------------------------------------------------------------------------
(* Who leads.                                                               *)

(* ClusterElection: a server follows one that has been elected, leads       *)
(* itself or knows of no leader.                                            *)
LeaderTurns ==
    /\ turns < MaxTurns /\ turns' = turns + 1
    /\ leader' \in (leads \cup {Self, NoServer}) \ {leader}
    /\ UNCHANGED <<known, leads, link, phase, asked, outcome, wire, run, stage>>

PeerTurns ==
    /\ turns < MaxTurns /\ turns' = turns + 1
    /\ \E p \in Peer : leads' = IF p \in leads THEN leads \ {p} ELSE leads \cup {p}
    /\ UNCHANGED <<leader, known, link, phase, asked, outcome, wire, run, stage>>

-----------------------------------------------------------------------------
(* Links.                                                                   *)

(* A link is held by the manager (this.links) from its open event on, and   *)
(* is one of its peer's (peer.links) once something was heard on it.        *)
Made(p, outbound, state) ==
    [peer |-> p, outbound |-> outbound, state |-> state, heard |-> FALSE, held |-> state = "open"]

InState(p, states) == {l \in DOMAIN link : link[l].peer = p /\ link[l].state \in states}

Alive == {"open", "closing", "shut"}

(* findOpenLink(): whatever opened it, but not before its peer is heard.    *)
OpenLinks(p) == {l \in InState(p, {"open"}) : link[l].heard}

(* peer.connectPromise.                                                     *)
Connecting(p) == InState(p, {"connecting"})

(* peer.outboundOpen.                                                       *)
OutboundOpen(p) == \E l \in InState(p, Alive) : link[l].outbound

Dials(p) ==
    /\ Len(link) < MaxLinks
    /\ link' = Append(link, Made(p, TRUE, "connecting"))

(* What ensurePeerConnection() asks before it dials.                        *)
MayDial(p) == stage = "up" /\ ~OutboundOpen(p) /\ Connecting(p) = {}

(* refreshPeers(), where nobody waits for the connection.                   *)
Discovers(p) ==
    /\ known' = known \cup {p}
    /\ IF MayDial(p) THEN Dials(p) ELSE UNCHANGED link
    /\ UNCHANGED <<leader, leads, phase, asked, outcome, wire, run, stage, turns>>

(* handleConnection().                                                      *)
Accepts(p) ==
    /\ stage = "up" /\ Len(link) < MaxLinks
    /\ link' = Append(link, Made(p, FALSE, "open"))
    /\ UNCHANGED <<leader, known, leads, phase, asked, outcome, wire, run, stage, turns>>

(* upsertPeerFromMessage().                                                 *)
Names(l) == link' = [link EXCEPT ![l].heard = TRUE] /\ known' = known \cup {link[l].peer}

(* The first message on a link, the hello of its peer, at any time.         *)
Hears(l) ==
    /\ link[l].state \in Alive /\ ~link[l].heard
    /\ Names(l)
    /\ UNCHANGED <<leader, leads, phase, asked, outcome, wire, run, stage, turns>>

Settle(C, o) ==
    /\ phase' = [c \in Call |-> IF c \in C THEN "done" ELSE phase[c]]
    /\ outcome' = [c \in Call |-> IF c \in C THEN o ELSE outcome[c]]

(* What requestLeaderRpc does when the connection is no longer awaited: a   *)
(* pending request and its timer, on one of these links.  There is no await *)
(* between the look at the links and the send.                              *)
Sends(C, p, open) ==
    IF open = {}
    THEN Settle(C, "refused") /\ UNCHANGED <<asked, wire>>
    ELSE \E l \in open :
            /\ phase' = [c \in Call |-> IF c \in C THEN "pending" ELSE phase[c]]
            /\ asked' = [c \in Call |-> IF c \in C THEN [peer |-> p, link |-> l] ELSE asked[c]]
            /\ wire' = wire \cup [call : C, link : {l}, is : {"request"}]
            /\ UNCHANGED outcome

Waiting(p) == {c \in Call : phase[c] = "connecting" /\ asked[c].peer = p}

(* The call that dialled goes on.  It looks at the peer that it knows,      *)
(* which has no links any more when close() is over.                        *)
GoesOn(p, open) == Sends(Waiting(p), p, IF stage = "closed" THEN {} ELSE open)

(* The open event.  The hello of the peer may come in the same packet, and  *)
(* is then handled before the call goes on; otherwise the link that has     *)
(* just opened is not one of its peer's yet.                                *)
Opened(l) ==
    LET p == link[l].peer IN
    /\ link[l].state = "connecting"
    /\ \E heard \in BOOLEAN :
          /\ link' = [link EXCEPT ![l].state = "open", ![l].heard = heard, ![l].held = TRUE]
          /\ known' = IF heard THEN known \cup {p} ELSE known
          /\ GoesOn(p, IF heard THEN OpenLinks(p) \cup {l} ELSE OpenLinks(p))
    /\ UNCHANGED <<leader, leads, run, stage, turns>>

(* Mutant: the error of the socket is not listened to.                      *)
DidNotOpenUnheard(l) ==
    /\ link[l].state = "connecting"
    /\ link' = [link EXCEPT ![l].state = "gone"]
    /\ UNCHANGED <<leader, known, leads, phase, asked, outcome, wire, run, stage, turns>>

(* openPeerConnection() swallows the error.                                 *)
DidNotOpen(l) ==
    LET p == link[l].peer IN
    /\ link[l].state = "connecting"
    /\ link' = [link EXCEPT ![l].state = "gone"]
    /\ GoesOn(p, OpenLinks(p))
    /\ UNCHANGED <<leader, known, leads, run, stage, turns>>

(* Either end closes, or the connection breaks.                             *)
LinkCloses(l) ==
    /\ link[l].state = "open"
    /\ link' = [link EXCEPT ![l].state = "closing"]
    /\ UNCHANGED <<leader, known, leads, phase, asked, outcome, wire, run, stage, turns>>

(* Mutant: the requests of a link are left to their timers.                 *)
RejectedNone(l) == {}

(* rejectPendingRpcRequests(): those of the link, if its peer still leads.  *)
RejectedWith(l) ==
    IF link[l].held /\ link[l].peer = leader
    THEN {c \in Call : phase[c] = "pending" /\ asked[c].link = l} ELSE {}

(* unregisterLink(), which does nothing if close() has forgotten the link.  *)
(* The peer may still read what was sent to it.                             *)
LinkGoes(l) ==
    /\ link[l].state \in {"closing", "shut"}
    /\ link' = [link EXCEPT ![l].state = "gone", ![l].heard = FALSE, ![l].held = FALSE]
    /\ Settle(RejectedWith(l), "failed")
    /\ wire' = {m \in wire : m.link # l \/ m.is = "request"}
    /\ UNCHANGED <<leader, known, leads, asked, run, stage, turns>>

-----------------------------------------------------------------------------
(* Executions.                                                              *)

(* The clients a call goes to.  callPaths takes those it is given or all    *)
(* that match, and throws if there are none; callPath throws if its client  *)
(* (any one) or its path is unknown.                                        *)
Goes(c) == IF c \in FanOut THEN SUBSET Target ELSE {{}, {CHOOSE t \in Target : TRUE}}

Starts(c, s, l, T) ==
    run' = [run EXCEPT ![c] = [at |-> s, over |-> l, waits |-> T, entries |-> {}]]

(* Whether what the peer sends arrives: send() drops it when the socket is  *)
(* not open at its end.                                                     *)
Arrives(l) ==
    CASE link[l].state = "open" -> {TRUE}
      [] link[l].state \in {"closing", "shut"} -> BOOLEAN
      [] OTHER -> {FALSE}

(* The answer of an execution, to the bridge or to the server that asked.   *)
Answers(c, s, l, is) ==
    IF s = Self
    THEN Settle({c}, is) /\ UNCHANGED wire
    ELSE /\ \E arrives \in Arrives(l) :
               wire' = IF arrives THEN wire \cup {[call |-> c, link |-> l, is |-> is]} ELSE wire
         /\ UNCHANGED <<phase, outcome>>

(* invoke() rejects: Promise.all rejects with the first.  The other         *)
(* invocations go on, but nobody waits for them or keeps what has come.     *)
Fails(c, t) ==
    /\ run' = [run EXCEPT ![c].waits = {}, ![c].entries = {}]
    /\ Answers(c, run[c].at, run[c].over, "failed")

(* Mutant: an entry for the first client only.                              *)
ReturnsFirst(c, t) ==
    /\ run' = [run EXCEPT ![c].waits = @ \ {t}, ![c].entries = @ \cup {t}]
    /\ IF run[c].entries = {}
       THEN Answers(c, run[c].at, run[c].over, "result")
       ELSE UNCHANGED <<phase, outcome, wire>>

(* invoke() resolves, with the result or the error of the client.           *)
Returns(c, t) ==
    LET last == run[c].waits = {t} IN
    /\ run' = [run EXCEPT ![c].waits = @ \ {t}, ![c].entries = @ \cup {t}]
    /\ IF last
       THEN Answers(c, run[c].at, run[c].over, "result")
       ELSE UNCHANGED <<phase, outcome, wire>>

InvocationEnds(c, t) ==
    /\ t \in run[c].waits
    /\ Fails(c, t) \/ Returns(c, t)
    /\ UNCHANGED <<leader, known, leads, link, asked, stage, turns>>

-----------------------------------------------------------------------------
(* handleBridgeRequest().                                                   *)

RunsHere(c) ==
    /\ phase[c] = "new" /\ leader \in {Self, NoServer}
    /\ \E T \in Goes(c) :
          /\ Starts(c, Self, NoLink, T)
          /\ phase' = [phase EXCEPT ![c] = IF T = {} THEN "done" ELSE "local"]
          /\ outcome' = [outcome EXCEPT ![c] = IF T = {} THEN "failed" ELSE @]
    /\ UNCHANGED <<leader, known, leads, link, asked, wire, stage, turns>>

(* A leader on hearsay may be none of the peers.                            *)
NoPeerToAsk(c) ==
    /\ phase[c] = "new" /\ leader \in Peer \ known
    /\ Settle({c}, "refused")
    /\ UNCHANGED <<leader, known, leads, link, asked, wire, run, stage, turns>>

(* ensurePeerConnection() returns at once when the outbound link is open or *)
(* closing, when another call or a refresh has dialled, and when the        *)
(* manager closes: the call goes over a link that can be used, or nowhere.  *)
Forwards(c) ==
    /\ phase[c] = "new" /\ leader \in known
    /\ ~MayDial(leader)
    /\ Sends({c}, leader, OpenLinks(leader))
    /\ UNCHANGED <<leader, known, leads, link, run, stage, turns>>

(* Otherwise it dials, even if the peer has opened a link, and the call     *)
(* waits for this connection.                                               *)
ForwardsWhenConnected(c) ==
    /\ phase[c] = "new" /\ leader \in known
    /\ MayDial(leader) /\ Dials(leader)
    /\ phase' = [phase EXCEPT ![c] = "connecting"]
    /\ asked' = [asked EXCEPT ![c].peer = leader]
    /\ UNCHANGED <<leader, known, leads, outcome, wire, run, stage, turns>>

TimesOut(c) ==
    /\ phase[c] = "pending"
    /\ Settle({c}, "failed")
    /\ UNCHANGED <<leader, known, leads, link, asked, wire, run, stage, turns>>

(* handleRpcRequestMessage() at the peer.                                   *)
ReceiveRequest(m) ==
    /\ m \in wire /\ m.is = "request"
    /\ \E arrives \in Arrives(m.link) :
          LET p == link[m.link].peer
              answer(is) == IF arrives THEN {[m EXCEPT !.is = is]} ELSE {}
          IN  IF p \notin leads
              THEN wire' = (wire \ {m}) \cup answer("refused") /\ UNCHANGED run
              ELSE \E T \in Goes(m.call) :
                      /\ Starts(m.call, p, m.link, T)
                      /\ wire' = (wire \ {m}) \cup (IF T = {} THEN answer("failed") ELSE {})
    /\ UNCHANGED <<leader, known, leads, link, phase, asked, outcome, stage, turns>>

(* handleRpcResponse(): whoever sends it, if the request still waits.  Like *)
(* every message it names the peer of its link.                             *)
ReceiveResponse(m) ==
    /\ m \in wire /\ m.is # "request"
    /\ wire' = wire \ {m}
    /\ Settle({m.call} \cap {c \in Call : phase[c] = "pending"}, m.is)
    /\ Names(m.link)
    /\ UNCHANGED <<leader, leads, asked, run, stage, turns>>

-----------------------------------------------------------------------------
(* close() of the cluster manager: the requests that wait fail now, those   *)
(* that are made afterwards when their links are closed.                    *)
LinksShut == link' = [l \in DOMAIN link |-> IF link[l].state = "open"
                                            THEN [link[l] EXCEPT !.state = "shut"] ELSE link[l]]

Closes ==
    /\ stage = "up"
    /\ Settle({c \in Call : phase[c] = "pending"}, "failed")
    /\ IF leader = Self THEN stage' = "closing" /\ UNCHANGED link
       ELSE stage' = "ending" /\ LinksShut
    /\ UNCHANGED <<leader, known, leads, asked, wire, run, turns>>

ClosesLinks ==
    /\ stage = "closing" /\ stage' = "ending"
    /\ LinksShut
    /\ UNCHANGED <<leader, known, leads, phase, asked, outcome, wire, run, turns>>

(* links.clear() and peers.clear(), whatever has been opened meanwhile.     *)
ForgetsPeers ==
    /\ stage = "ending" /\ \A l \in DOMAIN link : link[l].state # "shut"
    /\ stage' = "closed" /\ known' = {}
    /\ link' = [l \in DOMAIN link |-> [link[l] EXCEPT !.heard = FALSE, !.held = FALSE]]
    /\ UNCHANGED <<leader, leads, phase, asked, outcome, wire, run, turns>>

BridgeNext ==
    \/ LeaderTurns \/ PeerTurns \/ Closes \/ ClosesLinks \/ ForgetsPeers
    \/ \E l \in DOMAIN link : Opened(l) \/ DidNotOpen(l) \/ Hears(l) \/ LinkCloses(l) \/ LinkGoes(l)
    \/ \E p \in Peer : Accepts(p) \/ Discovers(p)
    \/ \E c \in Call : \/ RunsHere(c) \/ NoPeerToAsk(c) \/ Forwards(c)
                       \/ ForwardsWhenConnected(c) \/ TimesOut(c)
                       \/ \E t \in Target : InvocationEnds(c, t)
    \/ \E m \in wire : ReceiveRequest(m) \/ ReceiveResponse(m)

(* A socket opens or fails, by the timeouts of TCP if by nothing else,      *)
(* timers fire, and an invocation of this server ends, by its own timer if  *)
(* by nothing else.  Nothing is asked of peers.                             *)
BridgeFairness ==
    /\ \A l \in 1 .. MaxLinks :
          WF_bridgeVars(l \in DOMAIN link /\ (Opened(l) \/ DidNotOpen(l)))
    /\ \A c \in Call :
          /\ WF_bridgeVars(TimesOut(c))
          /\ WF_bridgeVars(\E t \in Target : run[c].at = Self /\ InvocationEnds(c, t))

BridgeSpec == BridgeInit /\ [][BridgeNext]_bridgeVars /\ BridgeFairness

-----------------------------------------------------------------------------
(* Properties.                                                              *)

(* A call that was refused has reached no client and will reach none.       *)
RefusedNeverRuns ==
    \A c \in Call : outcome[c] = "refused" => run[c] = NoRun /\ \A m \in wire : m.call # c

(* A result is that of the whole execution, at the leader that was asked or *)
(* here: one entry for each client the call went to.                        *)
ResultsAreWhole ==
    \A c \in Call : outcome[c] = "result" =>
       /\ run[c].waits = {} /\ run[c].entries # {}
       /\ run[c].at \in {asked[c].peer, Self} \ {NoServer}

(* A call that waits with its timer was put on a link and has no answer.    *)
PendingIsForwarded ==
    \A c \in Call : phase[c] = "pending" => asked[c].link # NoLink /\ outcome[c] = "none"

(* A call that has not left yet is known nowhere else.                      *)
NotSentYet ==
    \A c \in Call : phase[c] \in {"new", "connecting"}
        => asked[c].link = NoLink /\ run[c] = NoRun /\ \A m \in wire : m.call # c

DoneIsAnswered == \A c \in Call : phase[c] = "done" <=> outcome[c] # "none"

(* A call is sent over a link to the leader it is meant for, once it opened. *)
SentToItsLeader ==
    \A c \in Call : asked[c].link # NoLink =>
       /\ asked[c].link \in DOMAIN link
       /\ link[asked[c].link].peer = asked[c].peer
       /\ link[asked[c].link].state # "connecting"

(* A call waits for a connection that it has asked for itself: nobody waits *)
(* for that of another, and none is left behind by a connection that ends.  *)
WaitsForItsOwn ==
    \A c \in Call : phase[c] = "connecting" =>
       /\ Connecting(asked[c].peer) # {}
       /\ \A d \in Call \ {c} : phase[d] = "connecting" => asked[d].peer # asked[c].peer

(* There is one message about a call at a time, over the link of the call:  *)
(* a request or a refusal before anything runs, an answer when all is over. *)
OneMessageACall ==
    \A m \in wire :
       /\ m.link = asked[m.call].link
       /\ \A n \in wire : n.call = m.call => n = m
       /\ IF m.is \in {"request", "refused"} THEN run[m.call] = NoRun
          ELSE run[m.call].at = asked[m.call].peer /\ run[m.call].waits = {}
       /\ m.is = "result" => run[m.call].entries # {}

(* A call runs here while it waits, or at the leader that it was sent to,   *)
(* which has not answered before the end.                                   *)
RunsWhereAsked ==
    \A c \in Call : run[c] # NoRun =>
       /\ IF run[c].at = Self THEN run[c].waits # {} => phase[c] = "local"
          ELSE /\ asked[c].link # NoLink
               /\ run[c].at = asked[c].peer /\ run[c].over = asked[c].link
       /\ run[c].waits # {} => \A m \in wire : m.call # c

BridgeInvariant ==
    /\ BridgeTypeOK /\ RefusedNeverRuns /\ ResultsAreWhole /\ PendingIsForwarded
    /\ NotSentYet /\ DoneIsAnswered /\ SentToItsLeader /\ WaitsForItsOwn /\ OneMessageACall
    /\ RunsWhereAsked

(* A call is answered once.  When a link to the leader goes, no call waits  *)
(* for its timer that was sent over this link, unless close() is over.      *)
AnsweredOnce ==
    [][\A c \in Call :
          /\ phase[c] = "done" => phase'[c] = "done" /\ outcome'[c] = outcome[c]
          /\ phase'[c] = "pending" /\ asked'[c].peer = leader'
                => LET l == asked'[c].link
                   IN  link'[l].state = "gone" => link[l].state = "gone" \/ ~link[l].held]_bridgeVars

(* Every call comes to an end, whatever becomes of leaders and links.       *)
CallsSettle == \A c \in Call : []<>(phase[c] \in {"new", "done"})
=============================================================================
