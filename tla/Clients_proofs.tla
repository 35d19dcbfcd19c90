--------------------------- MODULE Clients_proofs ---------------------------
(* What connects to a server and must connect again: ConnectionInvariant of *)
(* the reconnecting client, EditorInvariant of the VS Code extension and    *)
(* ExtensionInvariant of the browser extension are inductive, for any       *)
(* number of sockets, calls of connect(), runs and attempts and any bounds. *)
EXTENDS ClientConnection, EditorController, ExtensionRuntime, TLAPS

-----------------------------------------------------------------------------
(* The reconnecting client.                                                 *)

(* What scheduleReconnect() does to the controller.                         *)
LEMMA ScheduledIs ==
    ASSUME NEW c \in Controller, NEW d, d = Scheduled(c)
    PROVE  /\ d \in Controller
           /\ d.stopped = c.stopped /\ d.reconnecting = c.reconnecting /\ d.attempt = c.attempt
           /\ \/ ~MaySchedule(c) /\ d.timer = c.timer /\ d.pending = c.pending
              \/ MaySchedule(c) /\ d.timer = 0 /\ ~d.pending
              \/ MaySchedule(c) /\ d.timer # 0 /\ d.pending = c.pending
<1>0. c.attempt \in 0 .. MaxAttempts /\ c.timer \in 0 .. MaxAttempts /\ MaxAttempts \in Nat
  BY ConnectionConstants DEF Controller
<1>1. CASE ~MaySchedule(c)
  BY <1>1 DEF Scheduled
<1>2. CASE MaySchedule(c) /\ c.attempt + 1 > MaxAttempts
  <2>1. d = [c EXCEPT !.pending = FALSE] /\ c.timer = 0
    BY <1>2 DEF Scheduled, MaySchedule
  <2> QED BY <1>2, <2>1 DEF Controller
<1>3. CASE MaySchedule(c) /\ c.attempt + 1 <= MaxAttempts
  <2>1. PICK n : n = c.attempt + 1
    OBVIOUS
  <2>2. n \in 0 .. MaxAttempts /\ n # 0
    BY <1>0, <1>3, <2>1
  <2>3. d = [c EXCEPT !.timer = n]
    BY <1>0, <1>3, <2>1 DEF Scheduled
  <2> QED BY <1>3, <2>2, <2>3 DEF Controller
<1> QED BY <1>0, <1>1, <1>2, <1>3

(* A promise is made, and kept or rejected.                                 *)
LEMMA EnsureScheduledIs ==
    ASSUME NEW c \in Controller, NEW d, d = EnsureScheduled(c)
    PROVE  /\ d \in Controller
           /\ d.stopped = c.stopped /\ d.reconnecting = c.reconnecting
           /\ \/ ~MaySchedule(c) /\ d.timer = c.timer /\ d.pending
              \/ MaySchedule(c) /\ d.timer = 0 /\ ~d.pending
              \/ MaySchedule(c) /\ d.timer # 0 /\ d.pending
<1>1. PICK e : e = [c EXCEPT !.pending = TRUE]
  OBVIOUS
<1>2. /\ e \in Controller /\ e.stopped = c.stopped /\ e.reconnecting = c.reconnecting /\ e.timer = c.timer
      /\ e.pending = TRUE
  BY <1>1 DEF Controller
<1>3. MaySchedule(e) <=> MaySchedule(c)
  BY <1>2 DEF MaySchedule
<1>4. d = Scheduled(e)
  BY <1>1 DEF EnsureScheduled
<1> QED BY <1>2, <1>3, <1>4, ScheduledIs

(* The parts of the invariant.                                              *)
LEMMA Parts ==
    ASSUME ConnectionInvariant
    PROVE  /\ mdp \in Mdp /\ mdp.connected \in BOOLEAN /\ mdp.registered \in BOOLEAN /\ mdp.restore \in BOOLEAN
           /\ controller \in Controller /\ controller.timer \in Nat /\ controller.stopped \in BOOLEAN
           /\ controller.reconnecting \in BOOLEAN /\ controller.pending \in BOOLEAN
           /\ sockets \in [Socket -> {"connecting", "open", "closing", "closed"}]
           /\ current \in Socket \cup {NoSocket} /\ NoSocket \notin Socket
           /\ awaits \in [Opener -> Awaited]
           /\ serving \in BOOLEAN /\ heard \in Socket \cup {NoSocket}
           /\ unhandled \subseteq {"answer", "exhausted"} /\ overlapped \in BOOLEAN
           /\ \A s \in Socket : s \notin {"none", "auth", "reconnect"}
           /\ \A f \in Opener : f \in ConnectCall \/ f \in Run
           /\ \A f \in ConnectCall : f \in Opener /\ f \notin Run
           /\ \A f \in Run : f \in Opener /\ f \notin ConnectCall
  BY ConnectionConstants DEF ConnectionInvariant, ConnectionTypeOK, Mdp, Controller, Opener

(* The calls that wait for the promise, when it is settled.                 *)
LEMMA SettledIs ==
    ASSUME NEW aw \in [Opener -> Awaited]
    PROVE  /\ Settled(aw) \in [Opener -> Awaited]
           /\ \A f \in Opener : Settled(aw)[f] = aw[f] \/ (aw[f] = "reconnect" /\ Settled(aw)[f] = "none")
           /\ \A f \in Opener : Settled(aw)[f] # "reconnect"
  BY DEF Settled, Awaited

(* The sockets when one is closed.                                          *)
LEMMA CloseSocketIs ==
    ASSUME NEW ss \in [Socket -> {"connecting", "open", "closing", "closed"}], NEW s
    PROVE  /\ CloseSocket(ss, s) \in [Socket -> {"connecting", "open", "closing", "closed"}]
           /\ \A x \in Socket : x # s => CloseSocket(ss, s)[x] = ss[x]
           /\ \A x \in Socket : CloseSocket(ss, s)[x] = "open" => ss[x] = "open"
  BY DEF CloseSocket

(* Nothing is opened by nobody.                                             *)
LEMMA SameOpeners ==
    ASSUME ConnectionInvariant, NEW aw \in [Opener -> Awaited], awaits' = aw,
           \A f \in Opener : aw[f] = awaits[f] \/ (awaits[f] = "reconnect" /\ aw[f] = "none")
    PROVE  /\ \A f \in Opener : Opening(f)' <=> Opening(f)
           /\ Running' <=> Running
           /\ RunsDoNotWait'
<1>1. \A r \in Run : r \in Opener /\ awaits[r] # "reconnect"
  BY Parts DEF ConnectionInvariant, RunsDoNotWait
<1>2. \A r \in Run : aw[r] = awaits[r]
  BY <1>1
<1> QED BY <1>1, <1>2 DEF Opening, Running, RunsDoNotWait

(* connect() is called.                                                     *)
LEMMA ConnectPreserves ==
    ASSUME ConnectionInvariant, NEW k \in ConnectCall, Connect(k)
    PROVE  ConnectionInvariant'
<1>0. /\ awaits[k] = "none" /\ awaits' = [awaits EXCEPT ![k] = "auth"]
      /\ controller' = [controller EXCEPT !.stopped = FALSE, !.timer = 0]
      /\ overlapped' = (overlapped \/ ~Idle)
      /\ UNCHANGED <<mdp, sockets, current, serving, heard, unhandled>>
  BY DEF Connect
<1>1. /\ controller' \in Controller /\ controller'.stopped = FALSE /\ controller'.timer = 0
      /\ controller'.reconnecting = controller.reconnecting /\ controller'.pending = controller.pending
  <2>0. PICK b \in BOOLEAN : b = FALSE
    OBVIOUS
  <2>1. PICK z : z = 0
    OBVIOUS
  <2>2. z \in 0 .. MaxAttempts
    BY <2>1, ConnectionConstants
  <2>3. controller' = [controller EXCEPT !.stopped = b, !.timer = z]
    BY <1>0, <2>0, <2>1
  <2>4. /\ controller' \in Controller /\ controller'.stopped = b /\ controller'.timer = z
        /\ controller'.reconnecting = controller.reconnecting /\ controller'.pending = controller.pending
    BY <2>2, <2>3, Parts DEF Controller
  <2> QED BY <2>0, <2>1, <2>4
<1>2. /\ awaits' \in [Opener -> Awaited] /\ awaits'[k] = "auth"
      /\ \A f \in Opener : f # k => awaits'[f] = awaits[f]
  BY <1>0, Parts DEF Awaited
<1>3. overlapped' \in BOOLEAN
  BY <1>0, Parts
<1>4. ConnectionTypeOK'
  BY <1>0, <1>1, <1>2, <1>3, Parts DEF ConnectionTypeOK
<1>5. NothingAfterDisconnect'
  BY <1>1 DEF NothingAfterDisconnect
<1>6. RunsDoNotWait'
  BY <1>2, Parts DEF ConnectionInvariant, RunsDoNotWait
<1>7. ASSUME ~overlapped' PROVE PromiseIsKept' /\ RegistrationIsHeard' /\ OneOpener'
  <2>1. ~overlapped /\ Idle
    BY <1>0, <1>7
  <2>2. PromiseIsKept /\ RegistrationIsHeard /\ OneOpener
    BY <2>1 DEF ConnectionInvariant
  <2>3. ~mdp.connected /\ ~controller.pending /\ \A f \in Opener : awaits[f] = "none"
    BY <2>1 DEF Idle
  <2>4. ~controller.reconnecting
    BY <2>2, <2>3, Parts DEF PromiseIsKept, Running
  <2>5. \A f \in Opener : Opening(f)' <=> f = k
    BY <1>2, <2>3, Parts DEF Opening
  <2>6. OneOpener'
    BY <1>0, <1>1, <2>3, <2>5, Parts DEF OneOpener
  <2>7. PromiseIsKept'
    BY <1>1, <2>3, <2>4 DEF PromiseIsKept
  <2>8. RegistrationIsHeard'
    BY <1>0, <2>2 DEF RegistrationIsHeard, IsOpen
  <2> QED BY <2>6, <2>7, <2>8
<1> QED BY <1>4, <1>5, <1>6, <1>7 DEF ConnectionInvariant

(* The transport is open for f.                                             *)
LEMMA OpenedPreserves ==
    ASSUME ConnectionInvariant, NEW f \in Opener, Opening(f),
           NEW ss \in [Socket -> {"connecting", "open", "closing", "closed"}], NEW s \in Socket,
           Opened(f, ss, s), UNCHANGED <<serving, unhandled, overlapped>>
    PROVE  ConnectionInvariant'
<1>1. PICK restores \in BOOLEAN : restores = (~controller.stopped /\ mdp.restore)
  OBVIOUS
<1>0. /\ mdp' = [mdp EXCEPT !.connected = TRUE, !.registered = @ \/ restores]
      /\ heard' = IF restores THEN s ELSE heard
      /\ sockets' = IF controller.stopped THEN CloseSocket(ss, s) ELSE ss
      /\ current' = s
      /\ \/ /\ f \in ConnectCall
            /\ awaits' = [awaits EXCEPT ![f] = "none"]
            /\ controller' = controller
         \/ /\ f \in Run /\ controller.stopped
            /\ awaits' = [awaits EXCEPT ![f] = "none"]
            /\ controller' = [controller EXCEPT !.reconnecting = FALSE]
         \/ /\ f \in Run /\ ~controller.stopped
            /\ awaits' = Settled([awaits EXCEPT ![f] = "none"])
            /\ controller' = [[controller EXCEPT !.reconnecting = FALSE] EXCEPT !.attempt = 0, !.pending = FALSE]
  BY <1>1 DEF Opened
<1>2. /\ mdp' \in Mdp /\ mdp'.connected = TRUE /\ mdp'.registered = (mdp.registered \/ restores)
  BY <1>0, Parts DEF Mdp
<1>3. sockets' \in [Socket -> {"connecting", "open", "closing", "closed"}] /\ heard' \in Socket \cup {NoSocket}
  BY <1>0, Parts, CloseSocketIs
<1>4. /\ controller' \in Controller /\ controller'.stopped = controller.stopped /\ controller'.timer = controller.timer
      /\ \/ f \in ConnectCall /\ controller' = controller
         \/ f \in Run /\ controller.stopped /\ ~controller'.reconnecting /\ controller'.pending = controller.pending
         \/ f \in Run /\ ~controller.stopped /\ ~controller'.reconnecting /\ ~controller'.pending
  <2>1. CASE /\ f \in Run /\ controller.stopped
             /\ controller' = [controller EXCEPT !.reconnecting = FALSE]
    BY <2>1, Parts DEF Controller
  <2>2. CASE /\ f \in Run /\ ~controller.stopped
             /\ controller' = [[controller EXCEPT !.reconnecting = FALSE] EXCEPT !.attempt = 0, !.pending = FALSE]
    <3>1. PICK over : over = [controller EXCEPT !.reconnecting = FALSE]
      OBVIOUS
    <3>2. /\ over \in Controller /\ over.stopped = controller.stopped /\ over.timer = controller.timer
          /\ over.reconnecting = FALSE
      BY <3>1, Parts DEF Controller
    <3>0. PICK b \in BOOLEAN : b = FALSE
      OBVIOUS
    <3>3. PICK z : z = 0
      OBVIOUS
    <3>4. z \in 0 .. MaxAttempts
      BY <3>3, ConnectionConstants
    <3>5. controller' = [over EXCEPT !.attempt = z, !.pending = b]
      BY <2>2, <3>0, <3>1, <3>3
    <3>6. /\ controller' \in Controller /\ controller'.stopped = over.stopped /\ controller'.timer = over.timer
          /\ controller'.reconnecting = over.reconnecting /\ controller'.pending = b
      BY <3>2, <3>4, <3>5 DEF Controller
    <3> QED BY <2>2, <3>0, <3>2, <3>6
  <2>3. CASE f \in ConnectCall /\ controller' = controller
    BY <2>3, Parts
  <2> QED BY <1>0, <2>1, <2>2, <2>3
<1>5. PICK aw \in [Opener -> Awaited] : /\ aw[f] = "none"
                                        /\ \A g \in Opener : g # f => aw[g] = awaits[g]
                                        /\ aw = [awaits EXCEPT ![f] = "none"]
  BY Parts DEF Awaited
<1>6. awaits' = aw \/ awaits' = Settled(aw)
  BY <1>0, <1>5
<1>7. /\ awaits' \in [Opener -> Awaited] /\ awaits'[f] = "none"
      /\ \A g \in Opener : g # f => awaits'[g] = awaits[g] \/ (awaits[g] = "reconnect" /\ awaits'[g] = "none")
  <2>1. CASE awaits' = aw
    BY <1>5, <2>1
  <2>2. CASE awaits' = Settled(aw)
    <3>1. PICK st : st = Settled(aw)
      OBVIOUS
    <3>2. /\ st \in [Opener -> Awaited]
          /\ \A g \in Opener : st[g] = aw[g] \/ (aw[g] = "reconnect" /\ st[g] = "none")
      BY <3>1, SettledIs
    <3>3. awaits' = st
      BY <2>2, <3>1
    <3> QED BY <1>5, <3>2, <3>3
  <2> QED BY <1>6, <2>1, <2>2
<1>8. ConnectionTypeOK'
  BY <1>0, <1>2, <1>3, <1>4, <1>7, Parts DEF ConnectionTypeOK
<1>9. NothingAfterDisconnect'
  BY <1>4, Parts DEF ConnectionInvariant, NothingAfterDisconnect
<1>10. RunsDoNotWait'
  BY <1>7, Parts DEF ConnectionInvariant, RunsDoNotWait
<1>11. ASSUME ~overlapped' PROVE PromiseIsKept' /\ RegistrationIsHeard' /\ OneOpener'
  <2>1. PromiseIsKept /\ RegistrationIsHeard /\ OneOpener /\ NothingAfterDisconnect /\ RunsDoNotWait
    BY <1>11 DEF ConnectionInvariant
  <2>2. \A g \in Opener : ~Opening(g)'
    BY <1>7, <2>1 DEF OneOpener, Opening
  <2>3. ~mdp.connected /\ controller.timer = 0 /\ ~mdp.registered
    BY <2>1 DEF OneOpener, RegistrationIsHeard
  <2>4. ~controller'.pending
    BY <1>4, <2>1 DEF OneOpener, NothingAfterDisconnect
  <2>5. ~controller'.reconnecting
    <3>1. CASE f \in ConnectCall
      <4>1. \A r \in Run : ~Opening(r) /\ awaits[r] # "reconnect"
        BY <2>1, <3>1, Parts DEF OneOpener, RunsDoNotWait
      <4>2. ~Running
        BY <4>1, Parts DEF Running, Opening
      <4> QED BY <1>4, <2>1, <3>1, <4>2, Parts DEF PromiseIsKept
    <3>2. CASE f \in Run
      BY <1>4, <3>2, Parts
    <3> QED BY <3>1, <3>2, Parts
  <2>6. OneOpener'
    BY <2>2, <2>4, Parts DEF OneOpener
  <2>7. PromiseIsKept'
    BY <1>4, <2>3, <2>4, <2>5 DEF PromiseIsKept
  <2>8. RegistrationIsHeard'
    BY <1>0, <1>2, <2>3, Parts DEF RegistrationIsHeard
  <2> QED BY <2>6, <2>7, <2>8
<1> QED BY <1>8, <1>9, <1>10, <1>11 DEF ConnectionInvariant

(* What the registration is worth when sockets only close.                  *)
LEMMA StillHeard ==
    ASSUME RegistrationIsHeard, UNCHANGED <<mdp, current, heard>>, IsOpen' => IsOpen
    PROVE  RegistrationIsHeard'
  BY DEF RegistrationIsHeard

(* The promise and the opener when no opener is left.                       *)
LEMMA NobodyOpens ==
    ASSUME ConnectionInvariant, \A g \in Opener : ~Opening(g)', RunsDoNotWait',
           controller'.pending => ~mdp'.connected, ~controller'.reconnecting,
           controller'.pending <=> controller'.timer # 0
    PROVE  PromiseIsKept' /\ OneOpener'
<1>1. OneOpener'
  BY Parts DEF OneOpener
<1>2. PromiseIsKept'
  BY DEF PromiseIsKept
<1> QED BY <1>1, <1>2

(* A run that is not told to stop is an opener.                             *)
LEMMA RunningOpens ==
    ASSUME ConnectionInvariant
    PROVE  Running <=> \E r \in Run : Opening(r)
<1>1. \A r \in Run : awaits[r] # "reconnect"
  BY DEF ConnectionInvariant, RunsDoNotWait
<1> QED BY <1>1 DEF Running, Opening

(* An opener awaits something else.                                         *)
LEMMA AwaitsIs ==
    ASSUME NEW aw \in [Opener -> Awaited], NEW f \in Opener, NEW w \in Awaited,
           NEW x, x = [aw EXCEPT ![f] = w]
    PROVE  /\ x \in [Opener -> Awaited] /\ x[f] = w
           /\ \A g \in Opener : g # f => x[g] = aw[g]
  OBVIOUS

(* The transport did not come up for f.                                     *)
LEMMA DidNotOpenPreserves ==
    ASSUME ConnectionInvariant, NEW f \in Opener, Opening(f), DidNotOpen(f),
           sockets' \in [Socket -> {"connecting", "open", "closing", "closed"}], IsOpen' => IsOpen,
           UNCHANGED <<mdp, current, serving, heard, overlapped>>
    PROVE  ConnectionInvariant'
<1>1. PICK next : next = EnsureScheduled(controller)
  OBVIOUS
<1>2. PICK c : c = [controller EXCEPT !.reconnecting = FALSE]
  OBVIOUS
<1>3. PICK after : after = Scheduled(c)
  OBVIOUS
<1>4. PICK over \in [Opener -> Awaited] : /\ over = [awaits EXCEPT ![f] = "none"]
                                          /\ over[f] = "none"
                                          /\ \A g \in Opener : g # f => over[g] = awaits[g]
  <2>1. PICK x : x = [awaits EXCEPT ![f] = "none"]
    OBVIOUS
  <2>2. "none" \in Awaited
    BY DEF Awaited
  <2>3. x \in [Opener -> Awaited] /\ x[f] = "none" /\ \A g \in Opener : g # f => x[g] = awaits[g]
    BY <2>1, <2>2, AwaitsIs, Parts
  <2> QED BY <2>1, <2>3
<1>5. PICK waits \in [Opener -> Awaited] : /\ waits = [awaits EXCEPT ![f] = "reconnect"]
                                           /\ waits[f] = "reconnect"
                                           /\ \A g \in Opener : g # f => waits[g] = awaits[g]
  <2>1. PICK x : x = [awaits EXCEPT ![f] = "reconnect"]
    OBVIOUS
  <2>2. "reconnect" \in Awaited
    BY DEF Awaited
  <2>3. x \in [Opener -> Awaited] /\ x[f] = "reconnect" /\ \A g \in Opener : g # f => x[g] = awaits[g]
    BY <2>1, <2>2, AwaitsIs, Parts
  <2> QED BY <2>1, <2>3
<1>6. PICK st \in [Opener -> Awaited] : /\ st = Settled(over)
                                        /\ \A g \in Opener : st[g] = over[g] \/ (over[g] = "reconnect" /\ st[g] = "none")
  BY SettledIs
<1>7. \/ /\ f \in ConnectCall /\ controller.stopped
         /\ awaits' = over
         /\ UNCHANGED <<controller, unhandled>>
      \/ /\ f \in ConnectCall /\ ~controller.stopped
         /\ controller' = next
         /\ awaits' = IF next.pending THEN waits ELSE st
         /\ unhandled' = IF next.pending \/ controller.pending THEN unhandled
                                                               ELSE unhandled \cup {"exhausted"}
      \/ /\ f \in Run
         /\ controller' = after
         /\ awaits' = IF after.pending THEN over ELSE st
         /\ UNCHANGED unhandled
  BY <1>1, <1>2, <1>3, <1>4, <1>5, <1>6 DEF DidNotOpen
<1>8. /\ next \in Controller
      /\ next.stopped = controller.stopped /\ next.reconnecting = controller.reconnecting
      /\ \/ ~MaySchedule(controller) /\ next.timer = controller.timer /\ next.pending
         \/ MaySchedule(controller) /\ next.timer = 0 /\ ~next.pending
         \/ MaySchedule(controller) /\ next.timer # 0 /\ next.pending
  BY <1>1, EnsureScheduledIs, Parts
<1>9. /\ c \in Controller /\ c.stopped = controller.stopped /\ ~c.reconnecting
      /\ c.timer = controller.timer /\ c.pending = controller.pending
  BY <1>2, Parts DEF Controller
<1>10. /\ after \in Controller
       /\ after.stopped = controller.stopped /\ ~after.reconnecting
       /\ \/ ~MaySchedule(c) /\ after.timer = controller.timer /\ after.pending = controller.pending
          \/ MaySchedule(c) /\ after.timer = 0 /\ ~after.pending
          \/ MaySchedule(c) /\ after.timer # 0 /\ after.pending = controller.pending
  BY <1>3, <1>9, ScheduledIs
<1>11. /\ awaits' \in [Opener -> Awaited]
       /\ awaits'[f] = "none" \/ (f \in ConnectCall /\ awaits'[f] = "reconnect")
       /\ \A g \in Opener : g # f => awaits'[g] = awaits[g] \/ (awaits[g] = "reconnect" /\ awaits'[g] = "none")
  <2>1. awaits' = over \/ (awaits' = waits /\ f \in ConnectCall) \/ awaits' = st
    BY <1>7
  <2>2. CASE awaits' = over
    BY <1>4, <2>2
  <2>3. CASE awaits' = waits /\ f \in ConnectCall
    BY <1>5, <2>3
  <2>4. CASE awaits' = st
    BY <1>4, <1>6, <2>4
  <2> QED BY <2>1, <2>2, <2>3, <2>4
<1>12. controller' \in Controller /\ controller'.stopped = controller.stopped
  BY <1>7, <1>8, <1>10, Parts
<1>13. unhandled' \subseteq {"answer", "exhausted"}
  BY <1>7, Parts
<1>14. ConnectionTypeOK'
  BY <1>11, <1>12, <1>13, Parts DEF ConnectionTypeOK
<1>15. NothingAfterDisconnect'
  <2>1. SUFFICES ASSUME controller.stopped
                 PROVE  controller'.timer = 0 /\ ~controller'.pending /\ ~controller'.reconnecting
    BY <1>12 DEF NothingAfterDisconnect
  <2>2. controller.timer = 0 /\ ~controller.pending /\ ~controller.reconnecting
    BY <2>1 DEF ConnectionInvariant, NothingAfterDisconnect
  <2>3. ~MaySchedule(c)
    BY <1>9, <2>1 DEF MaySchedule
  <2> QED BY <1>7, <1>10, <2>1, <2>2, <2>3
<1>16. RunsDoNotWait'
  <2>1. SUFFICES ASSUME NEW r \in Run PROVE awaits'[r] # "reconnect"
    BY DEF RunsDoNotWait
  <2>2. awaits[r] # "reconnect" /\ r \in Opener /\ r \notin ConnectCall
    BY Parts DEF ConnectionInvariant, RunsDoNotWait
  <2> QED BY <1>11, <2>2
<1>17. ASSUME ~overlapped' PROVE PromiseIsKept' /\ RegistrationIsHeard' /\ OneOpener'
  <2>1. PromiseIsKept /\ RegistrationIsHeard /\ OneOpener /\ NothingAfterDisconnect
    BY <1>17 DEF ConnectionInvariant
  <2>2. \A g \in Opener : ~Opening(g)'
    BY <1>11, <2>1 DEF OneOpener, Opening
  <2>3. ~mdp.connected /\ controller.timer = 0 /\ \A g \in Opener : Opening(g) => g = f
    BY <2>1 DEF OneOpener
  <2>4. ~controller'.reconnecting /\ (controller'.pending <=> controller'.timer # 0)
    <3>1. CASE f \in ConnectCall /\ controller.stopped
      BY <1>7, <2>1, <3>1, Parts DEF NothingAfterDisconnect
    <3>2. CASE f \in ConnectCall /\ ~controller.stopped
      <4>1. ~Running
        BY <2>3, <3>2, Parts, RunningOpens
      <4>2. MaySchedule(controller) /\ ~controller.reconnecting
        BY <2>1, <2>3, <3>2, <4>1 DEF MaySchedule, PromiseIsKept
      <4>3. controller' = next
        BY <1>7, <3>2, Parts
      <4> QED BY <1>8, <4>2, <4>3
    <3>3. CASE f \in Run /\ controller.stopped
      <4>1. ~MaySchedule(c) /\ ~controller.pending
        BY <1>9, <2>1, <3>3 DEF MaySchedule, NothingAfterDisconnect
      <4>2. controller' = after
        BY <1>7, <3>3, Parts
      <4> QED BY <1>10, <2>3, <4>1, <4>2
    <3>4. CASE f \in Run /\ ~controller.stopped
      <4>1. MaySchedule(c) /\ controller.pending
        BY <1>9, <2>1, <2>3, <3>4 DEF MaySchedule, OneOpener
      <4>2. controller' = after
        BY <1>7, <3>4, Parts
      <4> QED BY <1>10, <4>1, <4>2
    <3> QED BY <3>1, <3>2, <3>3, <3>4, Parts
  <2>5. PromiseIsKept' /\ OneOpener'
    BY <1>16, <2>2, <2>3, <2>4, NobodyOpens
  <2>6. RegistrationIsHeard'
    BY <2>1, StillHeard
  <2> QED BY <2>5, <2>6
<1> QED BY <1>14, <1>15, <1>16, <1>17 DEF ConnectionInvariant

(* An opener that goes on with its work, and a state of the sockets that    *)
(* changes, leave the promise and the opener as they are.                   *)
LEMMA OpenersGoOn ==
    ASSUME ConnectionInvariant, UNCHANGED <<controller, overlapped>>, mdp'.connected => mdp.connected,
           awaits' \in [Opener -> Awaited],
           \A g \in Opener : Opening(g)' <=> Opening(g), \A r \in Run : awaits'[r] # "reconnect"
    PROVE  ~overlapped' => PromiseIsKept' /\ OneOpener'
<1>1. SUFFICES ASSUME ~overlapped PROVE PromiseIsKept' /\ OneOpener'
  OBVIOUS
<1>2. PromiseIsKept /\ OneOpener
  BY <1>1 DEF ConnectionInvariant
<1>3. Running' <=> Running
  BY RunningOpens, Parts DEF Running, Opening
<1>4. PromiseIsKept'
  BY <1>2, <1>3 DEF PromiseIsKept
<1>5. OneOpener'
  BY <1>2, Parts DEF OneOpener
<1> QED BY <1>4, <1>5

(* A step that moves sockets only, or is none.                              *)
LEMMA SocketsPreserve ==
    ASSUME ConnectionInvariant, UNCHANGED <<mdp, controller, current, awaits, heard, overlapped>>,
           sockets' \in [Socket -> {"connecting", "open", "closing", "closed"}], IsOpen' => IsOpen,
           serving' \in BOOLEAN, unhandled' \subseteq {"answer", "exhausted"}
    PROVE  ConnectionInvariant'
<1>1. ConnectionTypeOK'
  BY Parts DEF ConnectionTypeOK
<1>2. NothingAfterDisconnect' /\ RunsDoNotWait'
  BY DEF ConnectionInvariant, NothingAfterDisconnect, RunsDoNotWait
<1>3. ~overlapped' => PromiseIsKept' /\ OneOpener'
  <2>1. \A g \in Opener : Opening(g)' <=> Opening(g)
    BY DEF Opening
  <2>2. \A r \in Run : awaits'[r] # "reconnect"
    BY DEF ConnectionInvariant, RunsDoNotWait
  <2> QED BY <2>1, <2>2, Parts, OpenersGoOn
<1>4. ~overlapped' => RegistrationIsHeard'
  BY StillHeard DEF ConnectionInvariant
<1> QED BY <1>1, <1>2, <1>3, <1>4 DEF ConnectionInvariant

(* authenticateTransport() is done.                                         *)
LEMMA AuthenticatedPreserves ==
    ASSUME ConnectionInvariant, NEW f \in Opener, Authenticated(f)
    PROVE  ConnectionInvariant'
<1>1. Opening(f) /\ awaits[f] = "auth" /\ UNCHANGED <<serving, unhandled, overlapped>>
  BY DEF Authenticated, Opening
<1>2. CASE IsOpen /\ Opened(f, sockets, current)
  <2>1. current \in Socket
    BY <1>2, Parts DEF IsOpen
  <2> QED BY <1>1, <1>2, <2>1, Parts, OpenedPreserves
<1>3. ASSUME NEW s \in Socket,
             ~IsOpen, sockets' = [sockets EXCEPT ![s] = "connecting"], current' = s,
             awaits' = [awaits EXCEPT ![f] = s], UNCHANGED <<mdp, controller, heard>>
      PROVE  ConnectionInvariant'
  <2>1. sockets' \in [Socket -> {"connecting", "open", "closing", "closed"}] /\ sockets'[s] = "connecting"
    BY <1>3, Parts
  <2>2. /\ awaits' \in [Opener -> Awaited] /\ awaits'[f] = s
        /\ \A g \in Opener : g # f => awaits'[g] = awaits[g]
    <3>1. s \in Awaited
      BY DEF Awaited
    <3> QED BY <1>3, <3>1, AwaitsIs, Parts
  <2>3. ConnectionTypeOK'
    BY <1>1, <1>3, <2>1, <2>2, Parts DEF ConnectionTypeOK
  <2>4. \A g \in Opener : Opening(g)' <=> Opening(g)
    BY <1>1, <2>2, Parts DEF Opening
  <2>5. \A r \in Run : awaits'[r] # "reconnect"
    BY <2>2, Parts DEF ConnectionInvariant, RunsDoNotWait
  <2>6. NothingAfterDisconnect' /\ RunsDoNotWait'
    BY <1>3, <2>5 DEF ConnectionInvariant, NothingAfterDisconnect, RunsDoNotWait
  <2>7. ~overlapped' => PromiseIsKept' /\ OneOpener'
    BY <1>1, <1>3, <2>2, <2>4, <2>5, OpenersGoOn
  <2>8. ~overlapped' => RegistrationIsHeard'
    <3>1. ~IsOpen'
      BY <1>3, <2>1 DEF IsOpen
    <3> QED BY <1>1, <1>3, <3>1, Parts DEF ConnectionInvariant, RegistrationIsHeard
  <2> QED BY <2>3, <2>6, <2>7, <2>8 DEF ConnectionInvariant
<1> QED BY <1>1, <1>2, <1>3 DEF Authenticated

(* authenticateTransport() fails.                                           *)
LEMMA AuthenticationFailsPreserves ==
    ASSUME ConnectionInvariant, NEW f \in Opener, AuthenticationFails(f)
    PROVE  ConnectionInvariant'
<1>1. Opening(f) /\ DidNotOpen(f) /\ UNCHANGED <<mdp, sockets, current, serving, heard, overlapped>>
  BY DEF AuthenticationFails, Opening
<1>2. IsOpen' => IsOpen
  BY <1>1 DEF IsOpen
<1> QED BY <1>1, <1>2, Parts, DidNotOpenPreserves

(* The open event of a socket.                                              *)
LEMMA SocketOpensPreserves ==
    ASSUME ConnectionInvariant, NEW s \in Socket, SocketOpens(s)
    PROVE  ConnectionInvariant'
<1>1. UNCHANGED <<serving, unhandled, overlapped>>
  BY DEF SocketOpens
<1>2. PICK ss \in [Socket -> {"connecting", "open", "closing", "closed"}] :
        ss = [sockets EXCEPT ![s] = "open"]
  BY Parts
<1>3. ASSUME NEW f \in Opener, awaits[f] = s, Opened(f, ss, s)
      PROVE  ConnectionInvariant'
  <2>1. Opening(f)
    BY <1>3, Parts DEF Opening
  <2> QED BY <1>1, <1>3, <2>1, OpenedPreserves
<1>4. CASE s # current /\ sockets' = ss /\ UNCHANGED <<mdp, controller, current, awaits, heard>>
  <2>1. IsOpen' => IsOpen
    BY <1>2, <1>4, Parts DEF IsOpen
  <2> QED BY <1>1, <1>4, <2>1, Parts, SocketsPreserve
<1> QED BY <1>2, <1>3, <1>4 DEF SocketOpens

(* The error event of a socket.                                             *)
LEMMA SocketFailsPreserves ==
    ASSUME ConnectionInvariant, NEW s \in Socket, SocketFails(s)
    PROVE  ConnectionInvariant'
<1>1. /\ sockets' = [sockets EXCEPT ![s] = "closing"]
      /\ UNCHANGED <<mdp, current, serving, heard, overlapped>>
  BY DEF SocketFails
<1>2. sockets' \in [Socket -> {"connecting", "open", "closing", "closed"}]
  BY <1>1, Parts
<1>3. IsOpen' => IsOpen
  BY <1>1, Parts DEF IsOpen
<1>4. ASSUME NEW f \in Opener, awaits[f] = s, DidNotOpen(f)
      PROVE  ConnectionInvariant'
  <2>1. Opening(f)
    BY <1>4, Parts DEF Opening
  <2> QED BY <1>1, <1>2, <1>3, <1>4, <2>1, DidNotOpenPreserves
<1>5. CASE UNCHANGED <<controller, awaits, unhandled>>
  BY <1>1, <1>2, <1>3, <1>5, Parts, SocketsPreserve
<1> QED BY <1>4, <1>5 DEF SocketFails

(* A socket is closed from the other side.                                  *)
LEMMA ServerClosesPreserves ==
    ASSUME ConnectionInvariant, NEW s \in Socket, ServerCloses(s)
    PROVE  ConnectionInvariant'
<1>1. /\ sockets' = [sockets EXCEPT ![s] = "closing"]
      /\ UNCHANGED <<mdp, controller, current, awaits, serving, heard, unhandled, overlapped>>
  BY DEF ServerCloses
<1>2. sockets' \in [Socket -> {"connecting", "open", "closing", "closed"}]
  BY <1>1, Parts
<1>3. IsOpen' => IsOpen
  BY <1>1, Parts DEF IsOpen
<1> QED BY <1>1, <1>2, <1>3, Parts, SocketsPreserve

(* The close event of a socket.                                             *)
LEMMA SocketClosedPreserves ==
    ASSUME ConnectionInvariant, NEW s \in Socket, SocketClosed(s)
    PROVE  ConnectionInvariant'
<1>1. PICK next : next = IF mdp.connected /\ ~controller.stopped THEN EnsureScheduled(controller)
                                                                 ELSE controller
  OBVIOUS
<1>2. PICK failed \in BOOLEAN : failed = (mdp.connected /\ ~controller.stopped /\ ~next.pending)
  OBVIOUS
<1>3. /\ sockets' = [sockets EXCEPT ![s] = "closed"]
      /\ heard' = IF heard = s THEN NoSocket ELSE heard
      /\ UNCHANGED <<serving, overlapped>>
      /\ \/ /\ s = current /\ \A f \in Opener : awaits[f] # s
            /\ current' = NoSocket
            /\ mdp' = [connected |-> FALSE, registered |-> FALSE,
                       restore |-> mdp.restore \/ (mdp.connected /\ mdp.registered)]
            /\ controller' = next
            /\ awaits' = IF failed THEN Settled(awaits) ELSE awaits
            /\ unhandled' = IF failed THEN unhandled \cup {"exhausted"} ELSE unhandled
         \/ /\ s # current
            /\ UNCHANGED <<current, mdp, controller, awaits, unhandled>>
  BY <1>1, <1>2 DEF SocketClosed
<1>4. sockets' \in [Socket -> {"connecting", "open", "closing", "closed"}] /\ heard' \in Socket \cup {NoSocket}
  BY <1>3, Parts
<1>5. CASE s # current /\ UNCHANGED <<current, mdp, controller, awaits, unhandled>>
  <2>1. IsOpen' => IsOpen
    BY <1>3, <1>5, Parts DEF IsOpen
  <2>2. ConnectionTypeOK'
    BY <1>3, <1>4, <1>5, Parts DEF ConnectionTypeOK
  <2>3. NothingAfterDisconnect' /\ RunsDoNotWait'
    BY <1>5 DEF ConnectionInvariant, NothingAfterDisconnect, RunsDoNotWait
  <2>4. \A g \in Opener : Opening(g)' <=> Opening(g)
    BY <1>5 DEF Opening
  <2>5. \A r \in Run : awaits'[r] # "reconnect"
    BY <1>5 DEF ConnectionInvariant, RunsDoNotWait
  <2>6. ~overlapped' => PromiseIsKept' /\ OneOpener'
    BY <1>3, <1>5, <2>4, <2>5, Parts, OpenersGoOn
  <2>7. ~overlapped' => RegistrationIsHeard'
    BY <1>3, <1>5, <2>1 DEF ConnectionInvariant, RegistrationIsHeard
  <2> QED BY <2>2, <2>3, <2>6, <2>7 DEF ConnectionInvariant
<1>6. CASE s = current /\ ~(s # current)
  <2>1. PICK restore \in BOOLEAN : restore = (mdp.restore \/ (mdp.connected /\ mdp.registered))
    OBVIOUS
  <2>2. PICK st \in [Opener -> Awaited] : /\ st = Settled(awaits)
                                          /\ \A g \in Opener : st[g] = awaits[g] \/ (awaits[g] = "reconnect" /\ st[g] = "none")
    BY SettledIs, Parts
  <2>3. /\ current' = NoSocket
        /\ mdp' = [connected |-> FALSE, registered |-> FALSE, restore |-> restore]
        /\ controller' = next
        /\ awaits' = IF failed THEN st ELSE awaits
        /\ unhandled' = IF failed THEN unhandled \cup {"exhausted"} ELSE unhandled
    BY <1>3, <1>6, <2>1, <2>2
  <2>4. mdp' \in Mdp /\ ~mdp'.connected /\ ~mdp'.registered
    BY <2>3 DEF Mdp
  <2>5. /\ awaits' \in [Opener -> Awaited]
        /\ \A g \in Opener : awaits'[g] = awaits[g] \/ (awaits[g] = "reconnect" /\ awaits'[g] = "none")
    BY <2>2, <2>3, Parts
  <2>6. (\A g \in Opener : Opening(g)' <=> Opening(g)) /\ RunsDoNotWait'
    BY <2>5, SameOpeners
  <2>7. next \in Controller /\ next.stopped = controller.stopped
    <3>1. CASE mdp.connected /\ ~controller.stopped
      BY <1>1, <3>1, EnsureScheduledIs, Parts
    <3>2. CASE ~(mdp.connected /\ ~controller.stopped)
      BY <1>1, <3>2, Parts
    <3> QED BY <3>1, <3>2
  <2>8. unhandled' \subseteq {"answer", "exhausted"}
    BY <2>3, Parts
  <2>9. ConnectionTypeOK'
    BY <1>3, <1>4, <2>3, <2>4, <2>5, <2>7, <2>8, Parts DEF ConnectionTypeOK
  <2>10. NothingAfterDisconnect'
    BY <1>1, <2>3, <2>7 DEF ConnectionInvariant, NothingAfterDisconnect
  <2>11. RegistrationIsHeard'
    BY <2>3, <2>4 DEF RegistrationIsHeard, IsOpen
  <2>12. ASSUME ~overlapped' PROVE PromiseIsKept' /\ OneOpener'
    <3>1. PromiseIsKept /\ OneOpener
      BY <1>3, <2>12 DEF ConnectionInvariant
    <3>2. CASE mdp.connected /\ ~controller.stopped
      <4>1. (\A g \in Opener : ~Opening(g)) /\ controller.timer = 0
        <5>1. \A g \in Opener : ~Opening(g)
          BY <3>1, <3>2 DEF OneOpener
        <5>2. controller.timer = 0
          BY <3>1, <3>2 DEF OneOpener, PromiseIsKept
        <5> QED BY <5>1, <5>2
      <4>2. ~Running
        BY <4>1, Parts, RunningOpens
      <4>3. MaySchedule(controller) /\ ~controller.reconnecting
        BY <3>1, <3>2, <4>1, <4>2 DEF MaySchedule, PromiseIsKept
      <4>4. next = EnsureScheduled(controller)
        BY <1>1, <3>2
      <4>5. /\ next.reconnecting = controller.reconnecting
            /\ \/ next.timer = 0 /\ ~next.pending
               \/ next.timer # 0 /\ next.pending
        BY <4>3, <4>4, EnsureScheduledIs, Parts
      <4>6. ~controller'.reconnecting /\ (controller'.pending <=> controller'.timer # 0)
        BY <2>3, <4>3, <4>5
      <4> QED BY <2>4, <2>6, <4>1, <4>6, NobodyOpens
    <3>3. CASE ~(mdp.connected /\ ~controller.stopped)
      <4>1. controller' = controller
        BY <1>1, <2>3, <3>3
      <4>2. \A r \in Run : awaits'[r] # "reconnect"
        BY <2>6 DEF RunsDoNotWait
      <4> QED BY <1>3, <2>4, <2>5, <2>6, <2>12, <4>1, <4>2, OpenersGoOn
    <3> QED BY <3>2, <3>3
  <2> QED BY <2>6, <2>9, <2>10, <2>11, <2>12 DEF ConnectionInvariant
<1> QED BY <1>3, <1>5, <1>6

(* The timer fires: an attempt begins.                                      *)
LEMMA TimerFiresPreserves ==
    ASSUME ConnectionInvariant, TimerFires
    PROVE  ConnectionInvariant'
<1>1. controller.timer # 0 /\ UNCHANGED <<mdp, sockets, current, serving, heard, unhandled, overlapped>>
  BY DEF TimerFires
<1>2. ~controller.stopped
  BY <1>1 DEF ConnectionInvariant, NothingAfterDisconnect
<1>3. PICK z : z = 0
  OBVIOUS
<1>4. z \in 0 .. MaxAttempts
  BY <1>3, ConnectionConstants
<1>5. RegistrationIsHeard => RegistrationIsHeard'
  BY <1>1 DEF RegistrationIsHeard, IsOpen
<1>6. CASE controller.reconnecting /\ controller' = [controller EXCEPT !.timer = 0] /\ UNCHANGED awaits
  <2>1. controller' = [controller EXCEPT !.timer = z]
    BY <1>3, <1>6
  <2>2. controller' \in Controller /\ controller'.stopped = controller.stopped
    BY <1>4, <2>1, Parts DEF Controller
  <2>3. ConnectionTypeOK'
    BY <1>1, <1>6, <2>2, Parts DEF ConnectionTypeOK
  <2>4. NothingAfterDisconnect' /\ RunsDoNotWait'
    BY <1>2, <1>6, <2>2 DEF ConnectionInvariant, NothingAfterDisconnect, RunsDoNotWait
  <2>5. overlapped
    BY <1>1, <1>6 DEF ConnectionInvariant, PromiseIsKept
  <2> QED BY <1>1, <2>3, <2>4, <2>5 DEF ConnectionInvariant
<1>7. ASSUME ~controller.reconnecting,
             controller' = [controller EXCEPT !.timer = 0, !.reconnecting = TRUE,
                                              !.attempt = controller.timer],
             NEW r \in Run, awaits[r] = "none", awaits' = [awaits EXCEPT ![r] = "auth"]
      PROVE  ConnectionInvariant'
  <2>1. PICK b \in BOOLEAN : b = TRUE
    OBVIOUS
  <2>2. PICK a \in 0 .. MaxAttempts : a = controller.timer
    BY Parts DEF Controller
  <2>3. controller' = [controller EXCEPT !.timer = z, !.reconnecting = b, !.attempt = a]
    BY <1>3, <1>7, <2>1, <2>2
  <2>4. /\ controller' \in Controller /\ controller'.stopped = controller.stopped
        /\ controller'.timer = z /\ controller'.reconnecting = b /\ controller'.pending = controller.pending
    BY <1>4, <2>3, Parts DEF Controller
  <2>5. r \in Opener /\ "auth" \in Awaited
    BY Parts DEF Awaited
  <2>6. /\ awaits' \in [Opener -> Awaited] /\ awaits'[r] = "auth"
        /\ \A g \in Opener : g # r => awaits'[g] = awaits[g]
    BY <1>7, <2>5, AwaitsIs, Parts
  <2>7. ConnectionTypeOK'
    BY <1>1, <2>4, <2>6, Parts DEF ConnectionTypeOK
  <2>8. NothingAfterDisconnect'
    BY <1>2, <2>4 DEF NothingAfterDisconnect
  <2>9. RunsDoNotWait'
    BY <2>6, Parts DEF ConnectionInvariant, RunsDoNotWait
  <2>10. ASSUME ~overlapped' PROVE PromiseIsKept' /\ RegistrationIsHeard' /\ OneOpener'
    <3>1. PromiseIsKept /\ RegistrationIsHeard /\ OneOpener
      BY <1>1, <2>10 DEF ConnectionInvariant
    <3>2. controller.pending /\ ~mdp.connected /\ \A g \in Opener : ~Opening(g)
      BY <1>1, <3>1 DEF PromiseIsKept, OneOpener
    <3>3. \A g \in Opener : Opening(g)' <=> g = r
      BY <2>6, <3>2 DEF Opening
    <3>4. controller'.timer = 0 /\ controller'.reconnecting /\ controller'.pending
      BY <1>3, <2>1, <2>4, <3>2
    <3>5. OneOpener'
      BY <1>1, <3>2, <3>3, <3>4, Parts DEF OneOpener
    <3>6. PromiseIsKept'
      BY <2>6, <3>4 DEF PromiseIsKept, Running
    <3> QED BY <1>5, <3>1, <3>5, <3>6
  <2> QED BY <2>7, <2>8, <2>9, <2>10 DEF ConnectionInvariant
<1> QED BY <1>6, <1>7 DEF TimerFires

(* register() is called.                                                    *)
LEMMA RegisterPreserves ==
    ASSUME ConnectionInvariant, Register
    PROVE  ConnectionInvariant'
<1>1. /\ mdp.connected /\ IsOpen
      /\ mdp' = [mdp EXCEPT !.registered = TRUE]
      /\ heard' = current
      /\ UNCHANGED <<controller, sockets, current, awaits, serving, unhandled, overlapped>>
  BY DEF Register
<1>2. mdp' \in Mdp /\ mdp'.connected = mdp.connected
  BY <1>1, Parts DEF Mdp
<1>3. ConnectionTypeOK'
  BY <1>1, <1>2, Parts DEF ConnectionTypeOK
<1>4. NothingAfterDisconnect' /\ RunsDoNotWait'
  BY <1>1 DEF ConnectionInvariant, NothingAfterDisconnect, RunsDoNotWait
<1>5. \A g \in Opener : Opening(g)' <=> Opening(g)
  BY <1>1 DEF Opening
<1>6. \A r \in Run : awaits'[r] # "reconnect"
  BY <1>1 DEF ConnectionInvariant, RunsDoNotWait
<1>7. ~overlapped' => PromiseIsKept' /\ OneOpener'
  BY <1>1, <1>2, <1>5, <1>6, Parts, OpenersGoOn
<1>8. RegistrationIsHeard'
  BY <1>1, <1>2, Parts DEF RegistrationIsHeard, IsOpen
<1> QED BY <1>3, <1>4, <1>7, <1>8 DEF ConnectionInvariant

(* disconnect() is called.                                                  *)
LEMMA DisconnectPreserves ==
    ASSUME ConnectionInvariant, Disconnect
    PROVE  ConnectionInvariant'
<1>1. /\ controller' = [controller EXCEPT !.stopped = TRUE, !.reconnecting = FALSE, !.timer = 0,
                                          !.pending = FALSE]
      /\ awaits' = Settled(awaits)
      /\ UNCHANGED <<current, serving, heard, unhandled, overlapped>>
  BY DEF Disconnect
<1>2. PICK z : z = 0
  OBVIOUS
<1>y. PICK y \in BOOLEAN : y = TRUE
  OBVIOUS
<1>n. PICK n \in BOOLEAN : n = FALSE
  OBVIOUS
<1>3. z \in 0 .. MaxAttempts
  BY <1>2, ConnectionConstants
<1>4. controller' = [controller EXCEPT !.stopped = y, !.reconnecting = n, !.timer = z, !.pending = n]
  BY <1>1, <1>2, <1>y, <1>n
<1>5. /\ controller' \in Controller /\ controller'.stopped = y
      /\ controller'.timer = z /\ controller'.reconnecting = n /\ controller'.pending = n
  BY <1>3, <1>4, Parts DEF Controller
<1>6. PICK st \in [Opener -> Awaited] :
        /\ st = Settled(awaits)
        /\ \A g \in Opener : st[g] = awaits[g] \/ (awaits[g] = "reconnect" /\ st[g] = "none")
  BY SettledIs, Parts
<1>7. awaits' = st
  BY <1>1, <1>6
<1>8. (\A g \in Opener : Opening(g)' <=> Opening(g)) /\ (Running' <=> Running) /\ RunsDoNotWait'
  BY <1>6, <1>7, SameOpeners
<1>9. /\ mdp' \in Mdp
      /\ sockets' \in [Socket -> {"connecting", "open", "closing", "closed"}]
      /\ mdp'.connected => mdp.connected
      /\ RegistrationIsHeard => RegistrationIsHeard'
  <2>1. CASE mdp' = [mdp EXCEPT !.restore = FALSE] /\ UNCHANGED sockets
    <3>1. mdp' \in Mdp /\ mdp'.connected = mdp.connected /\ mdp'.registered = mdp.registered
      BY <2>1, Parts DEF Mdp
    <3> QED BY <1>1, <2>1, <3>1, Parts DEF RegistrationIsHeard, IsOpen
  <2>2. CASE /\ mdp' = [connected |-> FALSE, registered |-> FALSE, restore |-> FALSE]
             /\ sockets' = CloseSocket(sockets, current)
    <3>1. mdp' \in Mdp /\ ~mdp'.connected /\ ~mdp'.registered
      BY <2>2 DEF Mdp
    <3>2. sockets' \in [Socket -> {"connecting", "open", "closing", "closed"}]
      BY <2>2, Parts, CloseSocketIs
    <3> QED BY <3>1, <3>2 DEF RegistrationIsHeard
  <2> QED BY <2>1, <2>2 DEF Disconnect
<1>10. ConnectionTypeOK'
  BY <1>1, <1>5, <1>7, <1>9, Parts DEF ConnectionTypeOK
<1>11. NothingAfterDisconnect'
  BY <1>2, <1>n, <1>5 DEF NothingAfterDisconnect
<1>12. ASSUME ~overlapped' PROVE PromiseIsKept' /\ RegistrationIsHeard' /\ OneOpener'
  <2>1. RegistrationIsHeard /\ OneOpener
    BY <1>1, <1>12 DEF ConnectionInvariant
  <2>2. controller'.stopped /\ controller'.timer = 0 /\ ~controller'.reconnecting /\ ~controller'.pending
    BY <1>2, <1>y, <1>n, <1>5
  <2>3. OneOpener'
    BY <1>8, <1>9, <2>1, <2>2, Parts DEF OneOpener
  <2>4. PromiseIsKept'
    BY <2>2 DEF PromiseIsKept
  <2> QED BY <1>9, <2>1, <2>3, <2>4
<1> QED BY <1>8, <1>10, <1>11, <1>12 DEF ConnectionInvariant

(* An invocation comes, and is answered.                                    *)
LEMMA InvocationPreserves ==
    ASSUME ConnectionInvariant, Invoked \/ Answers
    PROVE  ConnectionInvariant'
<1>1. UNCHANGED <<mdp, controller, sockets, current, awaits, heard, overlapped>>
  BY DEF Invoked, Answers
<1>2. IsOpen' => IsOpen
  BY <1>1 DEF IsOpen
<1>3. serving' \in BOOLEAN /\ unhandled' \subseteq {"answer", "exhausted"}
  <2>1. CASE Invoked
    BY <2>1, Parts DEF Invoked
  <2>2. CASE Answers
    BY <2>2, Parts DEF Answers
  <2> QED BY <2>1, <2>2
<1> QED BY <1>1, <1>2, <1>3, Parts, SocketsPreserve

(* A client that was just made.                                             *)
LEMMA ConnectionStarts == ConnectionInit => ConnectionInvariant
<1> SUFFICES ASSUME ConnectionInit PROVE ConnectionInvariant
  OBVIOUS
<1> USE DEF ConnectionInit
<1>1. mdp \in Mdp
  BY DEF Mdp
<1>2. PICK z : z = 0
  OBVIOUS
<1>n. PICK n \in BOOLEAN : n = FALSE
  OBVIOUS
<1>3. z \in 0 .. MaxAttempts
  BY <1>2, ConnectionConstants
<1>4. controller = [attempt |-> z, timer |-> z, reconnecting |-> n, stopped |-> n, pending |-> n]
  BY <1>2, <1>n
<1>5. controller \in Controller
  BY <1>3, <1>4 DEF Controller
<1>6. awaits \in [Opener -> Awaited] /\ \A f \in Opener : awaits[f] = "none"
  BY DEF Awaited
<1>7. ConnectionTypeOK
  BY <1>1, <1>5, <1>6 DEF ConnectionTypeOK
<1>8. NothingAfterDisconnect /\ PromiseIsKept
  BY DEF NothingAfterDisconnect, PromiseIsKept
<1>9. RegistrationIsHeard
  BY DEF RegistrationIsHeard
<1>10. OneOpener /\ RunsDoNotWait
  BY <1>6 DEF OneOpener, RunsDoNotWait, Opening, Opener
<1> QED BY <1>7, <1>8, <1>9, <1>10 DEF ConnectionInvariant

(* In every state of a client: disconnect() leaves nothing behind that      *)
(* would connect again, and, when connect() is only called on an idle       *)
(* client, a promised reconnect is under way, the transport is opened by    *)
(* one call or run at a time, and a client that believes to be registered   *)
(* is registered on the socket it has.                                      *)
THEOREM ConnectionIsInvariant == ConnectionSpec => []ConnectionInvariant
<1>1. ConnectionInvariant /\ [ConnectionNext]_connectionVars => ConnectionInvariant'
  <2> SUFFICES ASSUME ConnectionInvariant, [ConnectionNext]_connectionVars
               PROVE  ConnectionInvariant'
    OBVIOUS
  <2>1. ASSUME NEW k \in ConnectCall, Connect(k) PROVE ConnectionInvariant'
    BY <2>1, ConnectPreserves
  <2>2. ASSUME NEW f \in Opener, Authenticated(f) PROVE ConnectionInvariant'
    BY <2>2, AuthenticatedPreserves
  <2>3. ASSUME NEW f \in Opener, AuthenticationFails(f) PROVE ConnectionInvariant'
    BY <2>3, AuthenticationFailsPreserves
  <2>4. ASSUME NEW s \in Socket, SocketOpens(s) PROVE ConnectionInvariant'
    BY <2>4, SocketOpensPreserves
  <2>5. ASSUME NEW s \in Socket, SocketFails(s) PROVE ConnectionInvariant'
    BY <2>5, SocketFailsPreserves
  <2>6. ASSUME NEW s \in Socket, ServerCloses(s) PROVE ConnectionInvariant'
    BY <2>6, ServerClosesPreserves
  <2>7. ASSUME NEW s \in Socket, SocketClosed(s) PROVE ConnectionInvariant'
    BY <2>7, SocketClosedPreserves
  <2>8. CASE TimerFires
    BY <2>8, TimerFiresPreserves
  <2>9. CASE Register
    BY <2>9, RegisterPreserves
  <2>10. CASE Disconnect
    BY <2>10, DisconnectPreserves
  <2>11. CASE Invoked \/ Answers
    BY <2>11, InvocationPreserves
  <2>12. CASE UNCHANGED connectionVars
    <3>1. UNCHANGED <<mdp, controller, sockets, current, awaits, serving, heard, unhandled, overlapped>>
      BY <2>12 DEF connectionVars
    <3>2. IsOpen' => IsOpen
      BY <3>1 DEF IsOpen
    <3> QED BY <3>1, <3>2, Parts, SocketsPreserve
  <2> QED BY <2>1, <2>2, <2>3, <2>4, <2>5, <2>6, <2>7, <2>8, <2>9, <2>10, <2>11, <2>12 DEF ConnectionNext
<1> QED BY <1>1, ConnectionStarts, PTL DEF ConnectionSpec

-----------------------------------------------------------------------------
(* The controller of the VS Code extension.                                 *)

(* A task at the end of the queue.                                          *)
LEMMA TaskAdded ==
    ASSUME tasks \in Seq(EditorTask), NEW t \in EditorTask, tasks' = Append(tasks, t)
    PROVE  /\ tasks' \in Seq(EditorTask) /\ tasks' # <<>>
           /\ tasks # <<>> => Head(tasks') = Head(tasks)
           /\ \A i \in DOMAIN tasks : i \in DOMAIN tasks' /\ tasks'[i] = tasks[i]
           /\ \E i \in DOMAIN tasks' : tasks'[i] = t
           /\ \A i \in DOMAIN tasks' : tasks'[i] = t \/ (i \in DOMAIN tasks /\ tasks'[i] = tasks[i])
<1>1. tasks' \in Seq(EditorTask) /\ Len(tasks') = Len(tasks) + 1 /\ Len(tasks) \in Nat
  OBVIOUS
<1>2. \A i \in DOMAIN tasks : i \in DOMAIN tasks' /\ tasks'[i] = tasks[i]
  OBVIOUS
<1>3. Len(tasks) + 1 \in DOMAIN tasks' /\ tasks'[Len(tasks) + 1] = t
  OBVIOUS
<1>4. \A i \in DOMAIN tasks' : tasks'[i] = t \/ (i \in DOMAIN tasks /\ tasks'[i] = tasks[i])
  OBVIOUS
<1>5. tasks' # <<>> /\ (tasks # <<>> => Head(tasks') = Head(tasks))
  OBVIOUS
<1> QED BY <1>1, <1>2, <1>3, <1>4, <1>5

(* The task at the head is over.                                            *)
LEMMA TaskTaken ==
    ASSUME tasks \in Seq(EditorTask), tasks # <<>>, tasks' = Tail(tasks)
    PROVE  /\ tasks' \in Seq(EditorTask) /\ Head(tasks) \in EditorTask
           /\ \E i \in DOMAIN tasks : tasks[i] = Head(tasks)
           /\ \A i \in DOMAIN tasks' : \E j \in DOMAIN tasks : tasks'[i] = tasks[j]
           /\ \A i \in DOMAIN tasks : tasks[i] = Head(tasks) \/ \E j \in DOMAIN tasks' : tasks'[j] = tasks[i]
<1>1. tasks' \in Seq(EditorTask) /\ Head(tasks) \in EditorTask /\ Head(tasks) = tasks[1] /\ 1 \in DOMAIN tasks
  OBVIOUS
<1>2. \A i \in DOMAIN tasks' : i + 1 \in DOMAIN tasks /\ tasks'[i] = tasks[i + 1]
  OBVIOUS
<1>3. \A i \in DOMAIN tasks : i = 1 \/ (i - 1 \in DOMAIN tasks' /\ tasks'[i - 1] = tasks[i])
  OBVIOUS
<1> QED BY <1>1, <1>2, <1>3

(* The parts that carry the others.                                         *)
EditorFits == EditorTypeOK /\ OneConnection /\ TasksFit /\ ClientFits /\ StateFits

(* The status is true when nothing is queued.                               *)
LEMMA StatusFollows ==
    ASSUME EditorFits
    PROVE  EditorInvariant
<1> SUFFICES ASSUME NoTask PROVE StatusIsTrue
  BY DEF EditorFits, EditorInvariant, StatusIsTrue
<1>1. step = "idle" /\ DOMAIN tasks = {}
  BY DEF EditorFits, TasksFit, NoTask
<1>2. \A c : ~CloseQueued(c)
  BY <1>1 DEF CloseQueued
<1>3. reconnects \in BOOLEAN
  BY DEF EditorFits, EditorTypeOK
<1> QED BY <1>1, <1>2, <1>3 DEF EditorFits, ClientFits, StateFits, StatusIsTrue

(* What the queue keeps of the tasks when one is added.                     *)
LEMMA QueueingKeeps ==
    ASSUME EditorFits, NEW t \in EditorTask, tasks' = Append(tasks, t),
           UNCHANGED <<step, editor, connections, expected>>,
           t.do # "closed" \/ (t.client \in DOMAIN connections /\ connections[t.client] = "closed")
    PROVE  tasks' \in Seq(EditorTask) /\ TasksFit' /\ OneConnection' /\ ClientFits'
<1>1. tasks \in Seq(EditorTask)
  BY DEF EditorFits, EditorTypeOK
<1>2. \A c : CloseQueued(c) => CloseQueued(c)'
  BY <1>1, TaskAdded DEF CloseQueued
<1>3. TasksFit'
  BY <1>1, TaskAdded DEF EditorFits, TasksFit
<1>4. OneConnection' /\ ClientFits'
  BY <1>2 DEF EditorFits, OneConnection, ClientFits
<1> QED BY <1>1, <1>3, <1>4, TaskAdded

(* What the queue keeps of the tasks when one is over.                      *)
LEMMA EndingKeeps ==
    ASSUME EditorFits, tasks # <<>>, TaskEnds
    PROVE  /\ tasks' \in Seq(EditorTask) /\ step' = "idle"
           /\ \A c : CloseQueued(c) => CloseQueued(c)' \/ (Head(tasks).do = "closed" /\ Head(tasks).client = c)
           /\ \A i \in DOMAIN tasks' : \E j \in DOMAIN tasks : tasks'[i] = tasks[j]
           /\ Head(tasks).do = "closed" /\ (\E i \in DOMAIN tasks : tasks[i].do # "closed")
                => \E i \in DOMAIN tasks' : tasks'[i].do # "closed"
<1>1. tasks \in Seq(EditorTask) /\ tasks' = Tail(tasks) /\ step' = "idle"
  BY DEF EditorFits, EditorTypeOK, TaskEnds
<1>2. \A c : CloseQueued(c) => CloseQueued(c)' \/ (Head(tasks).do = "closed" /\ Head(tasks).client = c)
  BY <1>1, TaskTaken DEF CloseQueued
<1>3. /\ \A i \in DOMAIN tasks' : \E j \in DOMAIN tasks : tasks'[i] = tasks[j]
      /\ Head(tasks).do = "closed" /\ (\E i \in DOMAIN tasks : tasks[i].do # "closed")
           => \E i \in DOMAIN tasks' : tasks'[i].do # "closed"
  BY <1>1, TaskTaken
<1> QED BY <1>1, <1>2, <1>3, TaskTaken

(* connect(), disconnect() and applyConfiguration() dispose of the client.  *)
LEMMA DisposesPreserves ==
    ASSUME EditorFits, Disposes
    PROVE  EditorFits'
<1>0. /\ step = "idle" /\ tasks # <<>> /\ Head(tasks).do # "closed" /\ step' = "dispose"
      /\ reconnects' = FALSE /\ editor' = [editor EXCEPT !.client = None]
      /\ UNCHANGED <<settings, tasks, serverUp, asks, downs, lost>>
  BY DEF Disposes
<1>1. /\ editor \in [client : 0 .. MaxClients, state : EditorState] /\ connections \in Seq({"opening", "open", "closing", "closed"})
      /\ expected \subseteq 1 .. MaxClients /\ Len(connections) <= MaxClients
  BY DEF EditorFits, EditorTypeOK
<1>2. /\ editor' \in [client : 0 .. MaxClients, state : EditorState] /\ editor'.client = None /\ editor'.state = editor.state
  BY <1>0, <1>1, EditorConstants DEF None
<1>3. tasks \in Seq(EditorTask) /\ \E i \in DOMAIN tasks : tasks[i].do # "closed"
  <2>1. tasks \in Seq(EditorTask)
    BY DEF EditorFits, EditorTypeOK
  <2>2. 1 \in DOMAIN tasks /\ tasks[1] = Head(tasks)
    BY <1>0, <2>1
  <2> QED BY <1>0, <2>1, <2>2
<1>4. StateFits'
  BY <1>0, <1>2, <1>3 DEF EditorFits, StateFits
<1>5. \A c : CloseQueued(c)' <=> CloseQueued(c)
  BY <1>0 DEF CloseQueued
<1>6. CASE editor.client = None
  <2>1. UNCHANGED <<expected, connections>>
    BY <1>6 DEF Disposes
  <2>2. EditorTypeOK'
    BY <1>0, <1>2, <2>1 DEF EditorFits, EditorTypeOK
  <2>3. OneConnection' /\ TasksFit' /\ ClientFits'
    BY <1>0, <1>2, <1>5, <1>6, <2>1 DEF EditorFits, OneConnection, TasksFit, ClientFits
  <2> QED BY <1>4, <2>2, <2>3 DEF EditorFits
<1>7. CASE editor.client # None
  <2>1. PICK c : c = editor.client
    OBVIOUS
  <2>2. /\ c \in DOMAIN connections /\ c \in 1 .. MaxClients
        /\ connections[c] = "open" \/ CloseQueued(c)
    BY <1>1, <1>7, <2>1 DEF EditorFits, ClientFits
  <2>3. PICK w \in {"opening", "open", "closing", "closed"} : w = IF connections[c] = "open" THEN "closing" ELSE connections[c]
    BY <1>1, <2>2
  <2>4. expected' = expected \cup {c} /\ connections' = [connections EXCEPT ![c] = w]
    BY <1>7, <2>1, <2>3 DEF Disposes
  <2>5. /\ connections' \in Seq({"opening", "open", "closing", "closed"}) /\ Len(connections') = Len(connections)
        /\ DOMAIN connections' = DOMAIN connections /\ connections'[c] = w
        /\ \A d \in DOMAIN connections : d # c => connections'[d] = connections[d]
    BY <1>1, <2>2, <2>4
  <2>6. EditorTypeOK'
    BY <1>0, <1>1, <1>2, <2>2, <2>4, <2>5 DEF EditorFits, EditorTypeOK
  <2>7. \A i \in DOMAIN tasks : tasks[i].do = "closed" => tasks[i].client # c \/ w = "closed"
    BY <2>3 DEF EditorFits, TasksFit
  <2>8. TasksFit'
    BY <1>0, <2>5, <2>7 DEF EditorFits, TasksFit
  <2>9. OneConnection'
    <3>1. w \in {"closing", "closed"}
      BY <2>2, <2>3 DEF EditorFits, TasksFit, CloseQueued
    <3> QED BY <1>0, <2>1, <2>5, <3>1 DEF EditorFits, OneConnection
  <2>10. ClientFits'
    BY <1>0, <1>2, <1>5, <2>2, <2>3, <2>4, <2>5 DEF EditorFits, ClientFits
  <2> QED BY <1>4, <2>6, <2>8, <2>9, <2>10 DEF EditorFits
<1> QED BY <1>6, <1>7

(* The client has disconnected.                                             *)
LEMMA DisposedPreserves ==
    ASSUME EditorFits, Disposed
    PROVE  EditorFits'
<1>0. /\ step = "dispose" /\ editor' = [editor EXCEPT !.state = "idle"] /\ tasks # <<>> /\ Head(tasks).do # "closed"
      /\ UNCHANGED <<settings, connections, expected, reconnects, serverUp, asks, downs, lost>>
      /\ editor.client = None /\ ~reconnects
      /\ editor \in [client : 0 .. MaxClients, state : EditorState]
      /\ tasks \in Seq(EditorTask)
  BY DEF Disposed, EditorFits, TasksFit, ClientFits, StateFits, EditorTypeOK
<1>1. editor'.client = None /\ editor'.state = "idle" /\ editor' \in [client : 0 .. MaxClients, state : EditorState]
  BY <1>0 DEF EditorState
<1>2. \/ step' = "establish" /\ UNCHANGED tasks
      \/ TaskEnds
  BY DEF Disposed
<1>3. tasks' \in Seq(EditorTask) /\ (\A c : CloseQueued(c) => CloseQueued(c)') /\ TasksFit' /\ step' \in {"establish", "idle"}
  <2>1. CASE step' = "establish" /\ UNCHANGED tasks
    BY <1>0, <2>1 DEF CloseQueued, EditorFits, TasksFit
  <2>2. CASE TaskEnds
    BY <1>0, <2>2, EndingKeeps DEF EditorFits, TasksFit
  <2> QED BY <1>2, <2>1, <2>2
<1>4. EditorTypeOK'
  BY <1>0, <1>1, <1>3 DEF EditorFits, EditorTypeOK
<1>5. OneConnection' /\ ClientFits' /\ StateFits'
  BY <1>0, <1>1, <1>3 DEF EditorFits, OneConnection, ClientFits, StateFits
<1> QED BY <1>3, <1>4, <1>5 DEF EditorFits

(* A connection is opening.                                                 *)
LEMMA EstablishesPreserves ==
    ASSUME EditorFits, Establishes
    PROVE  EditorFits'
<1>0. /\ step = "establish" /\ Len(connections) < MaxClients
      /\ editor' = [editor EXCEPT !.state = "connecting"]
      /\ connections' = Append(connections, "opening") /\ step' = "connecting"
      /\ UNCHANGED <<settings, tasks, expected, reconnects, serverUp, asks, downs, lost>>
      /\ editor.client = None /\ ~reconnects
      /\ editor \in [client : 0 .. MaxClients, state : EditorState]
      /\ connections \in Seq({"opening", "open", "closing", "closed"})
  BY DEF Establishes, EditorFits, TasksFit, ClientFits, StateFits, EditorTypeOK
<1>1. editor'.client = None /\ editor'.state = "connecting" /\ editor' \in [client : 0 .. MaxClients, state : EditorState]
  BY <1>0 DEF EditorState
<1>2. /\ connections' \in Seq({"opening", "open", "closing", "closed"}) /\ connections' # <<>>
      /\ Len(connections') <= MaxClients
      /\ \A c \in DOMAIN connections : c \in DOMAIN connections' /\ connections'[c] = connections[c]
      /\ \A c \in DOMAIN connections' : c = Len(connections') \/ c \in DOMAIN connections
  BY <1>0, EditorConstants
<1>3. \A c : CloseQueued(c)' <=> CloseQueued(c)
  BY <1>0 DEF CloseQueued
<1>4. EditorTypeOK'
  BY <1>0, <1>1, <1>2 DEF EditorFits, EditorTypeOK
<1>5. OneConnection' /\ TasksFit'
  BY <1>0, <1>1, <1>2 DEF EditorFits, OneConnection, TasksFit
<1>6. ClientFits' /\ StateFits'
  BY <1>0, <1>1, <1>2, <1>3 DEF EditorFits, ClientFits, StateFits
<1> QED BY <1>4, <1>5, <1>6 DEF EditorFits

(* A connection that was opening changes, and its task goes on.             *)
LEMMA OpensPreserves ==
    ASSUME EditorFits, Opens
    PROVE  EditorFits'
<1>0. /\ step = "connecting" /\ connections[Len(connections)] = "opening"
      /\ connections' = [connections EXCEPT ![Len(connections)] = "open"]
      /\ UNCHANGED <<settings, tasks, step, editor, expected, reconnects, serverUp, asks, downs, lost>>
      /\ connections \in Seq({"opening", "open", "closing", "closed"}) /\ connections # <<>>
      /\ editor.client = None
  BY DEF Opens, EditorFits, EditorTypeOK, ClientFits
<1>1. PICK c : c = Len(connections)
  OBVIOUS
<1>2. /\ connections' \in Seq({"opening", "open", "closing", "closed"}) /\ Len(connections') = Len(connections)
      /\ DOMAIN connections' = DOMAIN connections /\ c \in DOMAIN connections /\ connections[c] = "opening"
      /\ \A d \in DOMAIN connections : d # c => connections'[d] = connections[d]
  BY <1>0, <1>1
<1>3. \A d : CloseQueued(d)' <=> CloseQueued(d)
  BY <1>0 DEF CloseQueued
<1>4. EditorTypeOK'
  BY <1>0, <1>2 DEF EditorFits, EditorTypeOK
<1>5. OneConnection' /\ TasksFit'
  BY <1>0, <1>1, <1>2 DEF EditorFits, OneConnection, TasksFit
<1>6. ClientFits'
  <2>1. connections' # <<>>
    BY <1>0, <1>2
  <2>2. \A d \in expected : d \in DOMAIN connections' /\ (connections'[d] = "closing" \/ CloseQueued(d)')
    BY <1>0, <1>2, <1>3 DEF EditorFits, ClientFits
  <2> QED BY <1>0, <2>1, <2>2 DEF ClientFits
<1>7. StateFits'
  BY <1>0 DEF EditorFits, StateFits
<1> QED BY <1>4, <1>5, <1>6, <1>7 DEF EditorFits

(* The client of an open connection is the client of the controller.        *)
LEMMA EstablishedPreserves ==
    ASSUME EditorFits, Established
    PROVE  EditorFits'
<1>0. /\ step = "connecting" /\ connections[Len(connections)] = "open"
      /\ editor' = [client |-> Len(connections), state |-> "connected"]
      /\ lost' = FALSE /\ TaskEnds /\ tasks # <<>> /\ Head(tasks).do # "closed"
      /\ UNCHANGED <<settings, connections, expected, reconnects, serverUp, asks, downs>>
      /\ connections \in Seq({"opening", "open", "closing", "closed"}) /\ connections # <<>>
      /\ Len(connections) <= MaxClients /\ ~reconnects /\ editor.client = None
  BY DEF Established, EditorFits, EditorTypeOK, TasksFit, ClientFits, StateFits
<1>1. /\ editor'.client = Len(connections) /\ editor'.state = "connected" /\ Len(connections) \in DOMAIN connections
      /\ editor' \in [client : 0 .. MaxClients, state : EditorState]
  BY <1>0, EditorConstants DEF EditorState
<1>2. /\ tasks' \in Seq(EditorTask) /\ step' = "idle"
      /\ \A c : CloseQueued(c) => CloseQueued(c)'
      /\ \A i \in DOMAIN tasks' : \E j \in DOMAIN tasks : tasks'[i] = tasks[j]
  BY <1>0, EndingKeeps
<1>3. EditorTypeOK'
  BY <1>0, <1>1, <1>2 DEF EditorFits, EditorTypeOK
<1>4. TasksFit' /\ OneConnection'
  <2>1. TasksFit'
    BY <1>0, <1>2 DEF EditorFits, TasksFit
  <2>2. DOMAIN connections = 1 .. Len(connections) /\ None \notin DOMAIN connections
    BY <1>0 DEF None
  <2>3. OneConnection'
    BY <1>0, <1>1, <2>2 DEF EditorFits, OneConnection
  <2> QED BY <2>1, <2>3
<1>5. Len(connections) \notin expected
  BY <1>0 DEF EditorFits, ClientFits, TasksFit, CloseQueued
<1>6. ClientFits'
  <2>1. /\ editor'.client \in DOMAIN connections' \ expected'
        /\ connections'[editor'.client] = "open"
    BY <1>0, <1>1, <1>5
  <2>2. \A c \in expected : c \in DOMAIN connections /\ (connections[c] = "closing" \/ CloseQueued(c)')
    BY <1>2 DEF EditorFits, ClientFits
  <2> QED BY <1>0, <1>2, <2>1, <2>2 DEF ClientFits
<1>7. StateFits'
  <2>1. editor'.client # None
    BY <1>0, <1>1 DEF None
  <2> QED BY <1>0, <1>1, <1>2, <2>1 DEF StateFits
<1> QED BY <1>3, <1>4, <1>6, <1>7 DEF EditorFits

(* The connection is not made.                                              *)
LEMMA DoesNotEstablishPreserves ==
    ASSUME EditorFits, DoesNotEstablish
    PROVE  EditorFits'
<1>0. /\ step = "connecting"
      /\ connections[Len(connections)] \in {"opening", "closed"}
      /\ connections' = [connections EXCEPT ![Len(connections)] = "closed"]
      /\ editor' = [client |-> None, state |-> "error"] /\ TaskEnds
      /\ tasks # <<>> /\ Head(tasks).do # "closed"
      /\ UNCHANGED <<settings, expected, reconnects, serverUp, asks, downs, lost>>
      /\ connections \in Seq({"opening", "open", "closing", "closed"}) /\ connections # <<>>
      /\ Len(connections) <= MaxClients /\ ~reconnects /\ editor.client = None
  BY DEF DoesNotEstablish, EditorFits, EditorTypeOK, TasksFit, ClientFits, StateFits
<1>1. /\ editor'.client = None /\ editor'.state = "error"
      /\ editor' \in [client : 0 .. MaxClients, state : EditorState]
  BY <1>0, EditorConstants DEF EditorState, None
<1>2. PICK c : c = Len(connections)
  OBVIOUS
<1>3. /\ connections' \in Seq({"opening", "open", "closing", "closed"}) /\ Len(connections') = Len(connections)
      /\ DOMAIN connections' = DOMAIN connections /\ c \in DOMAIN connections /\ connections[c] \in {"opening", "closed"}
      /\ connections'[c] = "closed"
      /\ \A d \in DOMAIN connections : d # c => connections'[d] = connections[d]
  BY <1>0, <1>2
<1>4. /\ tasks' \in Seq(EditorTask) /\ step' = "idle"
      /\ \A d : CloseQueued(d) => CloseQueued(d)'
      /\ \A i \in DOMAIN tasks' : \E j \in DOMAIN tasks : tasks'[i] = tasks[j]
  BY <1>0, EndingKeeps
<1>5. EditorTypeOK'
  BY <1>0, <1>1, <1>3, <1>4 DEF EditorFits, EditorTypeOK
<1>6. TasksFit'
  BY <1>3, <1>4 DEF EditorFits, TasksFit
<1>7. OneConnection'
  BY <1>0, <1>2, <1>3 DEF EditorFits, OneConnection
<1>8. ClientFits' /\ StateFits'
  BY <1>0, <1>1, <1>3, <1>4 DEF EditorFits, ClientFits, StateFits
<1> QED BY <1>5, <1>6, <1>7, <1>8 DEF EditorFits

(* The controller is told of a closed connection.                           *)
LEMMA HandlesClosePreserves ==
    ASSUME EditorFits, HandlesClose
    PROVE  EditorFits'
<1>1. PICK c : c = Head(tasks).client
  OBVIOUS
<1>0. /\ step = "idle" /\ tasks # <<>> /\ Head(tasks).do = "closed" /\ TaskEnds
      /\ UNCHANGED <<settings, connections, serverUp, asks, downs>>
      /\ tasks \in Seq(EditorTask) /\ lost \in BOOLEAN /\ reconnects \in BOOLEAN
      /\ editor \in [client : 0 .. MaxClients, state : EditorState] /\ expected \subseteq 1 .. MaxClients
  BY DEF HandlesClose, EditorFits, EditorTypeOK
<1>2. c \in DOMAIN connections /\ connections[c] = "closed" /\ c # None
  <2>1. \E i \in DOMAIN tasks : tasks[i] = Head(tasks)
    BY <1>0
  <2>2. c \in DOMAIN connections /\ connections[c] = "closed"
    BY <1>0, <1>1, <2>1 DEF EditorFits, TasksFit
  <2>3. connections \in Seq({"opening", "open", "closing", "closed"})
    BY DEF EditorFits, EditorTypeOK
  <2> QED BY <2>2, <2>3 DEF None
<1>3. /\ tasks' \in Seq(EditorTask) /\ step' = "idle"
      /\ \A d : CloseQueued(d) => CloseQueued(d)' \/ d = c
      /\ \A i \in DOMAIN tasks' : \E j \in DOMAIN tasks : tasks'[i] = tasks[j]
      /\ (\E i \in DOMAIN tasks : tasks[i].do # "closed") => \E i \in DOMAIN tasks' : tasks'[i].do # "closed"
  BY <1>0, <1>1, EndingKeeps
<1>4. TasksFit'
  BY <1>0, <1>3 DEF EditorFits, TasksFit
<1>5. CASE c \in expected \/ editor.client # c
  <2>1. expected' = expected \ {c} /\ UNCHANGED <<editor, reconnects, lost>>
    BY <1>1, <1>5 DEF HandlesClose
  <2>2. EditorTypeOK'
    BY <1>0, <1>3, <2>1 DEF EditorFits, EditorTypeOK
  <2>3. OneConnection' /\ StateFits'
    BY <1>0, <1>3, <2>1 DEF EditorFits, OneConnection, StateFits
  <2>4. ClientFits'
    BY <1>0, <1>2, <1>3, <1>5, <2>1 DEF EditorFits, ClientFits
  <2> QED BY <1>4, <2>2, <2>3, <2>4 DEF EditorFits
<1>6. CASE c \notin expected /\ editor.client = c
  <2>1. PICK again \in BOOLEAN : again = (settings.autoConnect /\ settings.autoReconnect)
    OBVIOUS
  <2>2. /\ editor' = [client |-> None, state |-> IF again THEN "waiting" ELSE "error"]
        /\ reconnects' = (reconnects \/ again) /\ lost' = (again /\ ~OtherwiseAsked) /\ UNCHANGED expected
    BY <1>1, <1>6, <2>1 DEF HandlesClose
  <2>3. /\ editor' \in [client : 0 .. MaxClients, state : EditorState]
        /\ editor'.client = None /\ editor'.state = IF again THEN "waiting" ELSE "error"
    BY <2>2, EditorConstants DEF EditorState, None
  <2>4. ~reconnects
    BY <1>2, <1>6 DEF EditorFits, StateFits
  <2>5. EditorTypeOK'
    BY <1>0, <1>3, <2>2, <2>3 DEF EditorFits, EditorTypeOK
  <2>6. OneConnection'
    BY <1>0, <1>2, <1>6 DEF EditorFits, OneConnection
  <2>7. ClientFits'
    BY <1>0, <1>3, <1>6, <2>2, <2>3 DEF EditorFits, ClientFits
  <2>8. StateFits'
    BY <1>3, <2>2, <2>3, <2>4 DEF StateFits
  <2> QED BY <1>4, <2>5, <2>6, <2>7, <2>8 DEF EditorFits
<1> QED BY <1>5, <1>6

(* What is queued: a reconnect, a command, a change of the settings ...     *)
LEMMA AskingPreserves ==
    ASSUME EditorFits, ReconnectFires \/ UserAsks \/ SettingsChange
    PROVE  EditorFits'
<1>1. PICK do \in {"connect", "disconnect", "apply"} : tasks' = Queued(do, None)
  BY DEF ReconnectFires, UserAsks, SettingsChange
<1>2. PICK t : t = [do |-> do, client |-> None]
  OBVIOUS
<1>3. t \in EditorTask /\ t.do # "closed" /\ tasks' = Append(tasks, t)
  BY <1>1, <1>2, EditorConstants DEF EditorTask, Queued, None
<1>4. UNCHANGED <<step, editor, connections, expected, serverUp, downs>> /\ (reconnects' = reconnects \/ reconnects' = FALSE)
  BY DEF ReconnectFires, UserAsks, SettingsChange
<1>5. tasks' \in Seq(EditorTask) /\ TasksFit' /\ OneConnection' /\ ClientFits'
  BY <1>3, <1>4, QueueingKeeps
<1>6. /\ settings' \in [autoConnect : BOOLEAN, autoReconnect : BOOLEAN] /\ asks' \in 0 .. MaxAsks /\ lost' \in BOOLEAN
  <2>1. /\ settings \in [autoConnect : BOOLEAN, autoReconnect : BOOLEAN] /\ asks \in 0 .. MaxAsks /\ lost \in BOOLEAN
    BY DEF EditorFits, EditorTypeOK
  <2>2. settings' \in [autoConnect : BOOLEAN, autoReconnect : BOOLEAN]
    BY <2>1 DEF ReconnectFires, UserAsks, SettingsChange
  <2>3. lost' \in BOOLEAN
    BY <2>1 DEF ReconnectFires, UserAsks, SettingsChange
  <2>4. asks' = asks \/ (asks > 0 /\ asks' = asks - 1)
    BY DEF ReconnectFires, UserAsks, SettingsChange
  <2> QED BY <2>1, <2>2, <2>3, <2>4, EditorConstants
<1>7. EditorTypeOK'
  BY <1>4, <1>5, <1>6 DEF EditorFits, EditorTypeOK
<1>8. \E i \in DOMAIN tasks' : tasks'[i].do # "closed"
  BY <1>3, TaskAdded DEF EditorFits, EditorTypeOK
<1>9. StateFits'
  BY <1>4, <1>8 DEF EditorFits, StateFits
<1> QED BY <1>5, <1>7, <1>9 DEF EditorFits

(* ... or that a connection is over.                                        *)
LEMMA ConnectionEndsPreserves ==
    ASSUME EditorFits, NEW c \in DOMAIN connections, ConnectionEnds(c)
    PROVE  EditorFits'
<1>0. /\ connections[c] \in {"closing", "open"} /\ connections' = [connections EXCEPT ![c] = "closed"]
      /\ tasks' = Queued("closed", c)
      /\ UNCHANGED <<settings, step, editor, expected, reconnects, serverUp, asks, downs, lost>>
      /\ connections \in Seq({"opening", "open", "closing", "closed"}) /\ Len(connections) <= MaxClients
      /\ tasks \in Seq(EditorTask)
  BY DEF ConnectionEnds, EditorFits, EditorTypeOK
<1>1. PICK t : t = [do |-> "closed", client |-> c]
  OBVIOUS
<1>2. c \in 1 .. MaxClients
  BY <1>0, EditorConstants
<1>3. t \in EditorTask /\ t.do = "closed" /\ t.client = c /\ tasks' = Append(tasks, t)
  BY <1>0, <1>1, <1>2, EditorConstants DEF EditorTask, Queued
<1>4. /\ connections' \in Seq({"opening", "open", "closing", "closed"}) /\ Len(connections') = Len(connections)
      /\ DOMAIN connections' = DOMAIN connections /\ connections'[c] = "closed"
      /\ \A d \in DOMAIN connections : d # c => connections'[d] = connections[d]
  BY <1>0
<1>5. /\ \A d : CloseQueued(d) => CloseQueued(d)'
      /\ CloseQueued(c)'
  BY <1>0, <1>3, TaskAdded DEF CloseQueued
<1>6. EditorTypeOK'
  BY <1>0, <1>3, <1>4, TaskAdded DEF EditorFits, EditorTypeOK
<1>7. TasksFit'
  <2>1. \A i \in DOMAIN tasks' : tasks'[i].do = "closed" =>
           tasks'[i].client \in DOMAIN connections' /\ connections'[tasks'[i].client] = "closed"
    BY <1>0, <1>3, <1>4, TaskAdded DEF EditorFits, TasksFit
  <2>2. step' # "idle" => tasks' # <<>> /\ Head(tasks').do # "closed"
    BY <1>0, <1>3, TaskAdded DEF EditorFits, TasksFit
  <2> QED BY <2>1, <2>2 DEF TasksFit
<1>8. OneConnection'
  BY <1>0, <1>4 DEF EditorFits, OneConnection
<1>9. ClientFits'
  <2>1. connections' # <<>> \/ connections = <<>>
    BY <1>0, <1>4
  <2> QED BY <1>0, <1>4, <1>5, <2>1 DEF EditorFits, ClientFits
<1>10. StateFits'
  BY <1>0, <1>3, TaskAdded DEF EditorFits, StateFits
<1> QED BY <1>6, <1>7, <1>8, <1>9, <1>10 DEF EditorFits

(* Steps of the server alone, and of something else.                        *)
LEMMA ServerPreserves ==
    ASSUME EditorFits, ServerGoesDown \/ ServerComesBack \/ UNCHANGED editorVars
    PROVE  EditorFits'
<1>1. /\ UNCHANGED <<settings, tasks, step, editor, connections, expected, reconnects, asks, lost>>
      /\ serverUp' \in BOOLEAN /\ downs' \in 0 .. MaxDowns
  <2>1. serverUp \in BOOLEAN /\ downs \in 0 .. MaxDowns
    BY DEF EditorFits, EditorTypeOK
  <2>2. downs' = downs \/ (downs > 0 /\ downs' = downs - 1)
    BY DEF ServerGoesDown, ServerComesBack, editorVars
  <2>3. downs' \in 0 .. MaxDowns
    BY <2>1, <2>2, EditorConstants
  <2>4. serverUp' \in BOOLEAN
    BY <2>1 DEF ServerGoesDown, ServerComesBack, editorVars
  <2>5. UNCHANGED <<settings, tasks, step, editor, connections, expected, reconnects, asks, lost>>
    BY DEF ServerGoesDown, ServerComesBack, editorVars
  <2> QED BY <2>3, <2>4, <2>5
<1>2. EditorTypeOK' /\ OneConnection' /\ TasksFit'
  BY <1>1 DEF EditorFits, EditorTypeOK, OneConnection, TasksFit
<1>3. ClientFits' /\ StateFits'
  BY <1>1 DEF EditorFits, ClientFits, StateFits, CloseQueued
<1> QED BY <1>2, <1>3 DEF EditorFits

(* The initial state.                                                       *)
LEMMA EditorInitFits ==
    ASSUME EditorInit
    PROVE  EditorFits
<1>1. PICK t : t = [do |-> "connect", client |-> None]
  OBVIOUS
<1>2. t \in EditorTask /\ t.do # "closed"
  BY <1>1, EditorConstants DEF EditorTask, None
<1>3. tasks \in {<<>>, <<t>>} /\ tasks \in Seq(EditorTask)
  BY <1>1, <1>2 DEF EditorInit
<1>4. step = "idle" /\ editor = [client |-> None, state |-> "idle"] /\ connections = <<>> /\ expected = {} /\ reconnects = FALSE
  BY DEF EditorInit
<1>5. editor \in [client : 0 .. MaxClients, state : EditorState]
  BY <1>4, EditorConstants DEF EditorState, None
<1>6. connections \in Seq({"opening", "open", "closing", "closed"}) /\ Len(connections) <= MaxClients /\ DOMAIN connections = {}
  BY <1>4, EditorConstants
<1>7. EditorTypeOK
  <2>1. asks \in 0 .. MaxAsks /\ downs \in 0 .. MaxDowns
    BY EditorConstants DEF EditorInit
  <2>2. settings \in [autoConnect : BOOLEAN, autoReconnect : BOOLEAN] /\ serverUp \in BOOLEAN /\ lost \in BOOLEAN
    BY DEF EditorInit
  <2>3. expected \subseteq 1 .. MaxClients /\ reconnects \in BOOLEAN /\ step \in {"idle", "dispose", "establish", "connecting"}
    BY <1>4
  <2> QED BY <1>3, <1>5, <1>6, <2>1, <2>2, <2>3 DEF EditorTypeOK
<1>8. \A i \in DOMAIN tasks : tasks[i].do # "closed"
  BY <1>2, <1>3
<1> QED BY <1>4, <1>6, <1>7, <1>8 DEF EditorFits, OneConnection, TasksFit, ClientFits, StateFits

(* The controller of the VS Code extension: whatever is asked, lost and     *)
(* tried again while its tasks wait for each other, no connection is left   *)
(* open that it does not have, and when no task is queued its status is     *)
(* what it says.                                                            *)
THEOREM EditorIsInvariant == EditorSpec => []EditorInvariant
<1>1. EditorInit => EditorFits
  BY EditorInitFits
<1>2. EditorFits /\ [EditorNext]_editorVars => EditorFits'
  <2> SUFFICES ASSUME EditorFits, [EditorNext]_editorVars PROVE EditorFits'
    OBVIOUS
  <2>1. CASE TaskStep
    BY <2>1, DisposesPreserves, DisposedPreserves, EstablishesPreserves, OpensPreserves, EstablishedPreserves,
       DoesNotEstablishPreserves, HandlesClosePreserves DEF TaskStep
  <2>2. CASE ReconnectFires \/ UserAsks \/ SettingsChange
    BY <2>2, AskingPreserves
  <2>3. CASE ServerGoesDown \/ ServerComesBack \/ UNCHANGED editorVars
    BY <2>3, ServerPreserves
  <2>4. CASE \E c \in DOMAIN connections : ConnectionEnds(c)
    BY <2>4, ConnectionEndsPreserves
  <2> QED BY <2>1, <2>2, <2>3, <2>4 DEF EditorNext
<1>3. EditorFits => EditorInvariant
  BY StatusFollows
<1> QED BY <1>1, <1>2, <1>3, PTL DEF EditorSpec

-----------------------------------------------------------------------------
(* The background worker of the browser extension.                          *)

(* The parts that carry the others.                                         *)
WorkerFits == ExtensionTypeOK /\ NoConnectionIsLeft /\ DialingFits /\ RefreshFits /\ NothingOverlooked

(* What is stored is run, when nothing is under way.                        *)
LEMMA RunsFollows ==
    ASSUME WorkerFits, PageFits
    PROVE  ExtensionInvariant
  BY DEF WorkerFits, ExtensionInvariant, RunsWhatIsStored, NothingUnderWay, NoRefresh, NothingOverlooked

(* A configuration is one, and is not undefined.                            *)
LEMMA ConfigIs == \A f \in Config : f # NoConfig /\ \A c \in Client : f[c] \in {"absent", "on", "off"}
  BY ExtensionConstants DEF Config, Setting

(* Some client is enabled in every configuration.                           *)
LEMMA SomeEnabled == \A f \in Config : Enabled(f) # {}
  BY ExtensionConstants DEF Config, Enabled

(* A call of refresh() starts one, or joins the one that runs.              *)
LEMMA JoiningPreserves ==
    ASSUME WorkerFits, NEW new \in BOOLEAN, StartsOrJoins(new),
           UNCHANGED <<stored, config, dialing, clients, links, state, writes, budget>>,
           page' \in [at : PageState, draft : Config \cup {NoConfig}],
           \/ calls' = calls
           \/ calls > 0 /\ calls' = calls - 1 /\ new = SomethingIsNew,
           \/ timer' = timer
           \/ timer' = FALSE /\ new = (refresh.at = "connecting")
    PROVE  WorkerFits'
<1>0. /\ calls \in Nat /\ missed \in BOOLEAN /\ timer \in BOOLEAN
      /\ refresh \in [at : Stage, config : Config \cup {NoConfig}]
  BY DEF WorkerFits, ExtensionTypeOK
<1>1. calls' \in Nat /\ timer' \in BOOLEAN
  <2>1. calls' \in Nat
    BY <1>0
  <2>2. timer' \in BOOLEAN
    BY <1>0
  <2> QED BY <2>1, <2>2
<1>2. CASE refresh.at = "idle"
  <2>1. refresh'.at = "reading" /\ refresh'.config = NoConfig /\ missed' = missed
        /\ refresh' \in [at : Stage, config : Config \cup {NoConfig}]
    BY <1>2 DEF StartsOrJoins, Stage
  <2>2. dialing = {}
    BY <1>2 DEF WorkerFits, DialingFits
  <2>3. ExtensionTypeOK' /\ NoConnectionIsLeft'
    BY <1>0, <1>1, <2>1 DEF WorkerFits, ExtensionTypeOK, NoConnectionIsLeft
  <2>4. DialingFits' /\ RefreshFits' /\ NothingOverlooked'
    BY <2>1, <2>2 DEF DialingFits, RefreshFits, NothingOverlooked, HasRead, HasApplied
  <2> QED BY <2>3, <2>4 DEF WorkerFits
<1>3. CASE refresh.at # "idle"
  <2>1. refresh' = refresh /\ missed' = (missed \/ (refresh.at # "reading" /\ new))
    BY <1>3 DEF StartsOrJoins
  <2>2. missed' \in BOOLEAN /\ (missed => missed')
    BY <1>0, <2>1
  <2>3. ExtensionTypeOK' /\ NoConnectionIsLeft' /\ DialingFits'
    BY <1>0, <1>1, <2>1, <2>2 DEF WorkerFits, ExtensionTypeOK, NoConnectionIsLeft, DialingFits
  <2>4. refresh.at = "connecting" => (timer \/ missed => timer' \/ missed')
    BY <2>1, <2>2
  <2>5. RefreshFits'
    <3>1. /\ HasRead' <=> HasRead
          /\ HasApplied' <=> HasApplied
      BY <2>1 DEF HasRead, HasApplied
    <3>2. ASSUME refresh.at = "connecting", NEW c \in Client, Runs(refresh.config, c, timer \/ missed)
          PROVE  Runs(refresh.config, c, timer \/ missed)'
      BY <2>1, <2>4, <3>2 DEF Runs
    <3> QED BY <2>1, <3>1, <3>2 DEF WorkerFits, RefreshFits
  <2>6. NothingOverlooked'
    <3>1. calls' = 0 /\ ~missed' /\ HasRead => refresh.config = stored /\ (HasApplied => config = stored)
      <4>1. CASE calls' = calls
        BY <2>2, <4>1 DEF WorkerFits, NothingOverlooked, HasRead, HasApplied
      <4>2. CASE new = SomethingIsNew
        BY <2>1, <4>2 DEF SomethingIsNew, HasRead, HasApplied
      <4> QED BY <4>1, <4>2
    <3> QED BY <1>3, <2>1, <3>1 DEF NothingOverlooked, HasRead, HasApplied
  <2> QED BY <2>3, <2>5, <2>6 DEF WorkerFits
<1> QED BY <1>2, <1>3

(* Who calls it: the storage, an edit, the page and the timer.              *)
LEMMA CallsPreserve ==
    ASSUME WorkerFits, RefreshIsCalled \/ PageAsks \/ ReconnectTimerFires
    PROVE  WorkerFits'
<1>0. page \in [at : PageState, draft : Config \cup {NoConfig}]
  BY DEF WorkerFits, ExtensionTypeOK
<1>1. CASE RefreshIsCalled
  <2>1. PICK new \in BOOLEAN : new = SomethingIsNew
    BY DEF SomethingIsNew
  <2>2. StartsOrJoins(new) /\ page' \in [at : PageState, draft : Config \cup {NoConfig}]
    BY <1>0, <1>1, <2>1 DEF RefreshIsCalled
  <2> QED BY <1>1, <2>1, <2>2, JoiningPreserves DEF RefreshIsCalled
<1>2. CASE PageAsks
  <2>1. PICK new \in BOOLEAN : new = SomethingIsNew
    BY DEF SomethingIsNew
  <2>2. StartsOrJoins(new) /\ page' \in [at : PageState, draft : Config \cup {NoConfig}]
    BY <1>0, <1>2, <2>1 DEF PageAsks, PageState
  <2> QED BY <1>2, <2>1, <2>2, JoiningPreserves DEF PageAsks
<1>3. CASE ReconnectTimerFires
  <2>1. PICK new \in BOOLEAN : new = (refresh.at = "connecting")
    OBVIOUS
  <2>2. StartsOrJoins(new) /\ page' \in [at : PageState, draft : Config \cup {NoConfig}]
    BY <1>0, <1>3, <2>1 DEF ReconnectTimerFires
  <2> QED BY <1>3, <2>1, <2>2, JoiningPreserves DEF ReconnectTimerFires
<1> QED BY <1>1, <1>2, <1>3

(* What is left of a bound.                                                 *)
LEMMA SpendIs ==
    ASSUME WorkerFits, NEW what \in {"edits", "saves", "troubles"}, Spend(what)
    PROVE  budget' \in [edits : 0 .. MaxEdits, saves : 0 .. MaxSaves, troubles : 0 .. MaxTroubles]
<1>1. budget \in [edits : 0 .. MaxEdits, saves : 0 .. MaxSaves, troubles : 0 .. MaxTroubles]
  BY DEF WorkerFits, ExtensionTypeOK
<1>2. PICK n : n = budget[what] - 1
  OBVIOUS
<1>3. budget[what] > 0 /\ budget' = [budget EXCEPT ![what] = n]
  BY <1>2 DEF Spend
<1>4. CASE what = "edits"
  BY <1>1, <1>2, <1>3, <1>4, ExtensionConstants
<1>5. CASE what = "saves"
  BY <1>1, <1>2, <1>3, <1>5, ExtensionConstants
<1>6. CASE what = "troubles"
  BY <1>1, <1>2, <1>3, <1>6, ExtensionConstants
<1> QED BY <1>4, <1>5, <1>6

(* What the end of a refresh does to the page.                              *)
LEMMA EndIs ==
    ASSUME WorkerFits, NEW ok \in BOOLEAN, RefreshEnds(ok)
    PROVE  /\ refresh'.at = "idle" /\ refresh'.config = NoConfig
           /\ refresh' \in [at : Stage, config : Config \cup {NoConfig}]
           /\ page' \in [at : PageState, draft : Config \cup {NoConfig}]
<1>1. page \in [at : PageState, draft : Config \cup {NoConfig}]
  BY DEF WorkerFits, ExtensionTypeOK
<1>2. page' \in [at : PageState, draft : Config \cup {NoConfig}]
  BY <1>1 DEF RefreshEnds, PageState
<1> QED BY <1>2 DEF RefreshEnds, NoRefresh, Stage

(* The configuration is read.                                               *)
LEMMA ReadsPreserves ==
    ASSUME WorkerFits, ReadsConfig
    PROVE  WorkerFits'
<1>0. /\ refresh.at = "reading" /\ missed' = FALSE
      /\ stored \in Config /\ state \in [Client -> ConnectionState]
      /\ UNCHANGED <<stored, config, dialing, clients, links, timer, writes, calls, page, budget>>
  BY DEF ReadsConfig, WorkerFits, ExtensionTypeOK
<1>1. /\ refresh'.at = "registering" /\ refresh'.config = stored
      /\ refresh' \in [at : Stage, config : Config \cup {NoConfig}]
  BY <1>0 DEF ReadsConfig, Stage
<1>2. /\ state' \in [Client -> ConnectionState]
      /\ \A c \in Client : stored[c] = "absent" => state'[c] = "none"
  BY <1>0 DEF ReadsConfig, ConnectionState
<1>3. ExtensionTypeOK' /\ NoConnectionIsLeft'
  BY <1>0, <1>1, <1>2 DEF WorkerFits, ExtensionTypeOK, NoConnectionIsLeft
<1>4. DialingFits'
  BY <1>0, <1>1 DEF WorkerFits, DialingFits
<1>5. RefreshFits'
  BY <1>0, <1>1, <1>2, ConfigIs DEF RefreshFits, HasRead, HasApplied
<1>6. NothingOverlooked'
  BY <1>0, <1>1 DEF NothingOverlooked, HasRead, HasApplied
<1> QED BY <1>3, <1>4, <1>5, <1>6 DEF WorkerFits

(* The configuration is applied: the content scripts are registered.        *)
LEMMA RegistersPreserves ==
    ASSUME WorkerFits, Registers
    PROVE  WorkerFits'
<1>0. /\ refresh.at = "registering" /\ config' = refresh.config
      /\ refresh \in [at : Stage, config : Config \cup {NoConfig}]
      /\ UNCHANGED <<stored, dialing, clients, links, state, timer, writes, calls, page, missed, budget>>
  BY DEF Registers, WorkerFits, ExtensionTypeOK
<1>1. /\ refresh'.at = "injecting" /\ refresh'.config = refresh.config
      /\ refresh' \in [at : Stage, config : Config \cup {NoConfig}]
  BY <1>0 DEF Registers, Stage
<1>2. refresh.config \in Config
  BY <1>0 DEF WorkerFits, RefreshFits, HasRead
<1>3. ExtensionTypeOK' /\ NoConnectionIsLeft'
  BY <1>0, <1>1, <1>2 DEF WorkerFits, ExtensionTypeOK, NoConnectionIsLeft
<1>4. DialingFits'
  BY <1>0, <1>1 DEF WorkerFits, DialingFits
<1>5. RefreshFits'
  BY <1>0, <1>1, <1>2, ConfigIs DEF WorkerFits, RefreshFits, HasRead, HasApplied
<1>6. NothingOverlooked'
  BY <1>0, <1>1 DEF WorkerFits, NothingOverlooked, HasRead, HasApplied
<1> QED BY <1>3, <1>4, <1>5, <1>6 DEF WorkerFits

(* They cannot be registered.                                               *)
LEMMA RegistrationFailsPreserves ==
    ASSUME WorkerFits, RegistrationFails
    PROVE  WorkerFits'
<1>0. /\ refresh.at = "registering" /\ missed' = TRUE /\ RefreshEnds(FALSE)
      /\ UNCHANGED <<stored, config, dialing, clients, links, state, timer, writes, calls>>
  BY DEF RegistrationFails
<1>1. /\ refresh'.at = "idle" /\ refresh'.config = NoConfig
      /\ refresh' \in [at : Stage, config : Config \cup {NoConfig}]
      /\ page' \in [at : PageState, draft : Config \cup {NoConfig}]
  BY <1>0, EndIs
<1>2. budget' \in [edits : 0 .. MaxEdits, saves : 0 .. MaxSaves, troubles : 0 .. MaxTroubles]
  BY SpendIs DEF RegistrationFails
<1>3. ExtensionTypeOK' /\ NoConnectionIsLeft'
  BY <1>0, <1>1, <1>2 DEF WorkerFits, ExtensionTypeOK, NoConnectionIsLeft
<1>4. DialingFits'
  BY <1>0, <1>1 DEF WorkerFits, DialingFits
<1>5. RefreshFits' /\ NothingOverlooked'
  BY <1>0, <1>1 DEF RefreshFits, NothingOverlooked, HasRead, HasApplied
<1> QED BY <1>3, <1>4, <1>5 DEF WorkerFits

(* The clients are closed, up to the await of it.                           *)
LEMMA StartsToClosePreserves ==
    ASSUME WorkerFits, StartsToClose
    PROVE  WorkerFits'
<1>0. /\ refresh.at = "injecting" /\ timer' = FALSE /\ clients' = {}
      /\ refresh \in [at : Stage, config : Config \cup {NoConfig}]
      /\ links \in [Client -> Nat]
      /\ UNCHANGED <<stored, config, dialing, state, writes, calls, page, missed, budget>>
  BY DEF StartsToClose, WorkerFits, ExtensionTypeOK
<1>1. /\ refresh'.at = "closing" /\ refresh'.config = refresh.config
      /\ refresh' \in [at : Stage, config : Config \cup {NoConfig}]
  BY <1>0 DEF StartsToClose, Stage
<1>2. links' \in [Client -> Nat] /\ \A c \in Client : links'[c] = 0
  <2>1. \A c \in Client : c \in clients \/ links[c] = 0
    BY <1>0 DEF WorkerFits, NoConnectionIsLeft
  <2>2. links' = [c \in Client |-> IF c \in clients THEN 0 ELSE links[c]]
    BY DEF StartsToClose
  <2> QED BY <1>0, <2>1, <2>2
<1>3. ExtensionTypeOK' /\ NoConnectionIsLeft'
  <2>1. ExtensionTypeOK'
    <3>1. clients' \subseteq Client /\ timer' \in BOOLEAN
      BY <1>0
    <3> QED BY <1>0, <1>1, <1>2, <3>1 DEF WorkerFits, ExtensionTypeOK
  <2>2. NoConnectionIsLeft'
    BY <1>2 DEF NoConnectionIsLeft
  <2> QED BY <2>1, <2>2
<1>4. DialingFits'
  BY <1>0, <1>1 DEF WorkerFits, DialingFits
<1>5. RefreshFits' /\ NothingOverlooked'
  BY <1>0, <1>1 DEF WorkerFits, RefreshFits, NothingOverlooked, HasRead, HasApplied
<1> QED BY <1>3, <1>4, <1>5 DEF WorkerFits

(* Every enabled client is connected.                                       *)
LEMMA StartsToConnectPreserves ==
    ASSUME WorkerFits, StartsToConnect
    PROVE  WorkerFits'
<1>1. PICK f : f = refresh.config
  OBVIOUS
<1>0. /\ refresh.at = "closing" /\ dialing' = dialing \cup Enabled(f)
      /\ refresh \in [at : Stage, config : Config \cup {NoConfig}]
      /\ state \in [Client -> ConnectionState]
      /\ clients = {} /\ dialing = {}
      /\ UNCHANGED <<stored, config, clients, links, timer, writes, calls, page, missed, budget>>
  BY <1>1 DEF StartsToConnect, WorkerFits, ExtensionTypeOK, DialingFits
<1>2. /\ refresh'.at = "connecting" /\ refresh'.config = f
      /\ refresh' \in [at : Stage, config : Config \cup {NoConfig}]
  BY <1>0, <1>1 DEF StartsToConnect, Stage
<1>3. f \in Config /\ \A c \in Client : f[c] \in {"absent", "on", "off"}
  BY <1>0, <1>1, ConfigIs DEF WorkerFits, RefreshFits, HasRead
<1>4. \A c \in Client : f[c] = "absent" => state[c] = "none"
  BY <1>0, <1>1 DEF WorkerFits, RefreshFits, HasRead
<1>5. state' = [c \in Client |-> CASE f[c] = "on" -> "connecting" [] f[c] = "off" -> "disabled" [] OTHER -> state[c]]
  BY <1>1 DEF StartsToConnect
<1>6. \A c \in Client : /\ f[c] = "on" => state'[c] = "connecting"
                        /\ f[c] = "off" => state'[c] = "disabled"
                        /\ f[c] = "absent" => state'[c] = "none"
  BY <1>4, <1>5
<1>7. state' \in [Client -> ConnectionState]
  BY <1>3, <1>5, <1>6 DEF ConnectionState
<1>8. dialing' = {c \in Client : f[c] = "on"}
  BY <1>0 DEF Enabled
<1>9. ExtensionTypeOK' /\ NoConnectionIsLeft' /\ DialingFits'
  BY <1>0, <1>2, <1>7, <1>8 DEF WorkerFits, ExtensionTypeOK, NoConnectionIsLeft, DialingFits
<1>10. RefreshFits'
  <2>1. ASSUME NEW c \in Client, c \notin dialing' PROVE Runs(f, c, timer \/ missed)'
    BY <1>0, <1>1, <1>2, <1>3, <1>6, <1>8, <2>1 DEF Runs
  <2>2. config' # NoConfig /\ f # NoConfig
    BY <1>0, <1>3, ConfigIs DEF WorkerFits, RefreshFits, HasApplied
  <2> QED BY <1>2, <1>6, <1>8, <2>1, <2>2 DEF RefreshFits, HasRead, HasApplied
<1>11. NothingOverlooked'
  BY <1>0, <1>1, <1>2 DEF WorkerFits, NothingOverlooked, HasRead, HasApplied
<1> QED BY <1>9, <1>10, <1>11 DEF WorkerFits

(* The end of one connection attempt, well or not.                          *)
LEMMA AttemptPreserves ==
    ASSUME WorkerFits, NEW c \in dialing, DialingEnds(c), NEW how \in {"connected", "error"},
           UNCHANGED <<stored, config, writes, calls, missed>>,
           state' = [state EXCEPT ![c] = how],
           IF how = "connected"
           THEN clients' = clients \cup {c} /\ links' = [links EXCEPT ![c] = @ + 1] /\ timer' = timer
           ELSE UNCHANGED <<clients, links>> /\ timer' = TRUE,
           budget' \in [edits : 0 .. MaxEdits, saves : 0 .. MaxSaves, troubles : 0 .. MaxTroubles]
    PROVE  WorkerFits'
<1>0. /\ refresh \in [at : Stage, config : Config \cup {NoConfig}] /\ refresh.at = "connecting"
      /\ page \in [at : PageState, draft : Config \cup {NoConfig}]
      /\ dialing \subseteq Client /\ clients \subseteq Client /\ c \in Client /\ dialing \cap clients = {}
      /\ links \in [Client -> Nat] /\ state \in [Client -> ConnectionState]
      /\ timer \in BOOLEAN /\ missed \in BOOLEAN /\ config # NoConfig
      /\ dialing' = dialing \ {c}
  BY DEF WorkerFits, ExtensionTypeOK, DialingFits, DialingEnds, RefreshFits, HasApplied
<1>1. PICK f : f = refresh.config
  OBVIOUS
<1>2. timer' \in BOOLEAN /\ clients' \subseteq Client /\ links' \in [Client -> Nat]
      /\ links[c] = 0
      /\ \A d \in Client : links'[d] <= 1 /\ (links'[d] = 1 => d \in clients')
  <2>1. links[c] = 0
    BY <1>0 DEF WorkerFits, NoConnectionIsLeft
  <2>2. \A d \in Client : links[d] <= 1 /\ (links[d] = 1 => d \in clients)
    BY DEF WorkerFits, NoConnectionIsLeft
  <2>3. CASE how = "connected"
    BY <1>0, <2>1, <2>2, <2>3
  <2>4. CASE how = "error"
    BY <1>0, <2>1, <2>2, <2>4
  <2> QED BY <2>3, <2>4
<1>3. /\ state' \in [Client -> ConnectionState] /\ state'[c] = how
      /\ \A d \in Client : d # c => state'[d] = state[d]
  BY <1>0 DEF ConnectionState
<1>4. \A d \in Client : d # c => (d \in clients' <=> d \in clients)
  OBVIOUS
<1>5. ASSUME NEW d \in Client, d \notin dialing' PROVE Runs(f, d, timer \/ missed)'
  <2>1. CASE d = c
    <3>1. f[c] = "on" /\ c \notin clients
      BY <1>0, <1>1 DEF WorkerFits, RefreshFits
    <3> QED BY <1>1, <1>3, <2>1, <3>1 DEF Runs
  <2>2. CASE d # c
    <3>1. Runs(f, d, timer \/ missed)
      BY <1>0, <1>1, <1>5, <2>2 DEF WorkerFits, RefreshFits
    <3> QED BY <1>3, <1>4, <2>2, <3>1 DEF Runs
  <2> QED BY <2>1, <2>2
<1>6. \A d \in dialing' : f[d] = "on"
  BY <1>0, <1>1 DEF WorkerFits, RefreshFits
<1>7. CASE dialing = {c} /\ RefreshEnds(TRUE)
  <2>1. /\ refresh'.at = "idle" /\ refresh'.config = NoConfig
        /\ refresh' \in [at : Stage, config : Config \cup {NoConfig}]
        /\ page' \in [at : PageState, draft : Config \cup {NoConfig}]
    BY <1>7, EndIs
  <2>2. ExtensionTypeOK' /\ NoConnectionIsLeft' /\ DialingFits'
    BY <1>0, <1>2, <1>3, <1>7, <2>1 DEF WorkerFits, ExtensionTypeOK, NoConnectionIsLeft, DialingFits
  <2>3. RefreshFits'
    BY <2>1 DEF RefreshFits, HasRead, HasApplied
  <2>4. NothingOverlooked'
    <3>1. SUFFICES ASSUME calls = 0, ~missed
                   PROVE  config = stored /\ \A d \in Client : Runs(stored, d, timer)'
      BY <2>1 DEF NothingOverlooked, HasRead, HasApplied
    <3>2. f = stored /\ config = stored
      BY <1>0, <1>1, <3>1 DEF WorkerFits, NothingOverlooked, HasRead, HasApplied
    <3>3. \A d \in Client : Runs(f, d, timer \/ missed)'
      BY <1>0, <1>5, <1>7
    <3> QED BY <1>1, <3>1, <3>2, <3>3 DEF Runs
  <2> QED BY <2>2, <2>3, <2>4 DEF WorkerFits
<1>8. CASE UNCHANGED <<refresh, page>>
  <2>1. ExtensionTypeOK' /\ NoConnectionIsLeft' /\ DialingFits'
    BY <1>0, <1>2, <1>3, <1>8 DEF WorkerFits, ExtensionTypeOK, NoConnectionIsLeft, DialingFits
  <2>2. \A d \in Client : f[d] = "absent" => state'[d] = "none"
    <3>1. f[c] = "on"
      BY <1>0, <1>1 DEF WorkerFits, RefreshFits
    <3>2. \A d \in Client : f[d] = "absent" => state[d] = "none"
      BY <1>0, <1>1 DEF WorkerFits, RefreshFits, HasRead
    <3> QED BY <1>3, <3>1, <3>2
  <2>3. RefreshFits'
    BY <1>0, <1>1, <1>5, <1>6, <1>8, <2>2 DEF WorkerFits, RefreshFits, HasRead, HasApplied
  <2>4. NothingOverlooked'
    BY <1>0, <1>8 DEF WorkerFits, NothingOverlooked, HasRead, HasApplied
  <2> QED BY <2>1, <2>3, <2>4 DEF WorkerFits
<1> QED BY <1>7, <1>8 DEF DialingEnds

(* A client connects, or does not and will be tried again.                  *)
LEMMA DialingPreserves ==
    ASSUME WorkerFits, NEW c \in Client, Connects(c) \/ DoesNotConnect(c)
    PROVE  WorkerFits'
<1>1. CASE Connects(c)
  <2>1. budget' \in [edits : 0 .. MaxEdits, saves : 0 .. MaxSaves, troubles : 0 .. MaxTroubles]
    BY <1>1 DEF Connects, WorkerFits, ExtensionTypeOK
  <2>2. PICK how \in {"connected", "error"} : how = "connected"
    OBVIOUS
  <2> QED BY <1>1, <2>1, <2>2, AttemptPreserves DEF Connects
<1>2. CASE DoesNotConnect(c)
  <2>1. budget' \in [edits : 0 .. MaxEdits, saves : 0 .. MaxSaves, troubles : 0 .. MaxTroubles]
    BY <1>2, SpendIs DEF DoesNotConnect
  <2>2. PICK how \in {"connected", "error"} : how = "error"
    OBVIOUS
  <2>3. timer' = TRUE
    <3>1. config # NoConfig /\ config \in Config \cup {NoConfig}
      BY <1>2 DEF WorkerFits, ExtensionTypeOK, DialingFits, RefreshFits, HasApplied, DoesNotConnect
    <3>2. Enabled(config) # {}
      BY <3>1, SomeEnabled
    <3> QED BY <1>2, <3>1, <3>2 DEF DoesNotConnect
  <2> QED BY <1>2, <2>1, <2>2, <2>3, AttemptPreserves DEF DoesNotConnect
<1> QED BY <1>1, <1>2

(* A connection breaks, and nobody is told.                                 *)
LEMMA BreaksPreserves ==
    ASSUME WorkerFits, NEW c \in Client, ConnectionBreaks(c)
    PROVE  WorkerFits'
<1>0. /\ links' = [links EXCEPT ![c] = 0] /\ links \in [Client -> Nat]
      /\ UNCHANGED <<stored, config, refresh, dialing, clients, state, timer, writes, calls, page, missed>>
  BY DEF ConnectionBreaks, WorkerFits, ExtensionTypeOK
<1>1. budget' \in [edits : 0 .. MaxEdits, saves : 0 .. MaxSaves, troubles : 0 .. MaxTroubles]
  BY SpendIs DEF ConnectionBreaks
<1>2. ExtensionTypeOK' /\ NoConnectionIsLeft' /\ DialingFits'
  BY <1>0, <1>1 DEF WorkerFits, ExtensionTypeOK, NoConnectionIsLeft, DialingFits
<1>3. RefreshFits' /\ NothingOverlooked'
  BY <1>0 DEF WorkerFits, RefreshFits, NothingOverlooked, HasRead, HasApplied, Runs
<1> QED BY <1>2, <1>3 DEF WorkerFits

(* The ends of a queue.                                                     *)
LEMMA QueueIs ==
    ASSUME NEW S, NEW q \in Seq(S), q # <<>>
    PROVE  /\ Len(q) \in DOMAIN q /\ q[Len(q)] \in S
           /\ 1 \in DOMAIN q /\ Head(q) = q[1] /\ Head(q) \in S /\ Tail(q) \in Seq(S)
           /\ \A i \in DOMAIN Tail(q) : i + 1 \in DOMAIN q /\ Tail(q)[i] = q[i + 1]
  OBVIOUS

(* The worker is stopped and started again.                                 *)
LEMMA StopsPreserves ==
    ASSUME WorkerFits, WorkerStops
    PROVE  WorkerFits'
<1>0. /\ config' = NoConfig /\ refresh'.at = "idle" /\ refresh'.config = NoConfig
      /\ dialing' = {} /\ clients' = {} /\ timer' = FALSE /\ missed' = FALSE /\ calls' = 1 /\ writes' = <<>>
      /\ refresh' \in [at : Stage, config : Config \cup {NoConfig}]
  BY DEF WorkerStops, NoRefresh, Stage
<1>1. links' \in [Client -> Nat] /\ (\A c \in Client : links'[c] = 0) /\ state' \in [Client -> ConnectionState]
  BY DEF WorkerStops, ConnectionState
<1>2. stored' \in Config
  <2>1. stored \in Config /\ writes \in Seq([by : Writer, config : Config])
    BY DEF WorkerFits, ExtensionTypeOK
  <2>2. writes # <<>> => Len(writes) \in DOMAIN writes /\ writes[Len(writes)] \in [by : Writer, config : Config]
    BY <2>1, QueueIs
  <2>3. stored' = IF writes = <<>> THEN stored ELSE writes[Len(writes)].config
    BY DEF WorkerStops
  <2> QED BY <2>1, <2>2, <2>3
<1>3. page' \in [at : PageState, draft : Config \cup {NoConfig}]
  BY DEF WorkerStops, WorkerFits, ExtensionTypeOK, PageState
<1>4. budget' \in [edits : 0 .. MaxEdits, saves : 0 .. MaxSaves, troubles : 0 .. MaxTroubles]
  BY SpendIs DEF WorkerStops
<1>5. writes' \in Seq([by : Writer, config : Config])
  BY <1>0
<1>6. ExtensionTypeOK'
  BY <1>0, <1>1, <1>2, <1>3, <1>4, <1>5 DEF ExtensionTypeOK
<1>7. NoConnectionIsLeft' /\ DialingFits'
  BY <1>0, <1>1 DEF NoConnectionIsLeft, DialingFits
<1>8. RefreshFits' /\ NothingOverlooked'
  BY <1>0 DEF RefreshFits, NothingOverlooked, HasRead, HasApplied
<1> QED BY <1>6, <1>7, <1>8 DEF WorkerFits

(* What an edit makes of a configuration is one.                            *)
LEMMA EditIs == \A g \in Config : \A f \in Edits(g) : f \in Config
<1> SUFFICES ASSUME NEW g \in Config, NEW f \in Edits(g) PROVE f \in Config
  OBVIOUS
<1>1. CASE f = g
  BY <1>1
<1>2. CASE \E c \in Client : \E v \in Setting : c \notin Required /\ f = [g EXCEPT ![c] = v]
  <2>1. PICK c \in Client, v \in Setting : c \notin Required /\ f = [g EXCEPT ![c] = v]
    BY <1>2
  <2>2. g \in [Client -> Setting] /\ \A d \in Required : g[d] = "on"
    BY DEF Config
  <2>3. f \in [Client -> Setting] /\ \A d \in Client : d # c => f[d] = g[d]
    BY <2>1, <2>2
  <2>4. \A d \in Required : f[d] = "on"
    BY <2>1, <2>2, <2>3, ExtensionConstants
  <2> QED BY <2>3, <2>4 DEF Config
<1>3. CASE f \in Creates(g)
  <2>1. PICK c \in Client, v \in {"on", "off"} : g[c] = "absent" /\ f = [g EXCEPT ![c] = v]
    BY <1>3 DEF Creates
  <2>2. c \notin Required
    BY <2>1 DEF Config
  <2> QED BY <1>2, <2>1, <2>2 DEF Setting
<1>4. CASE f \in Updates(g) \cup Deletes(g) \cup AddsExposeRule(g)
  BY <1>1, <1>2, <1>4 DEF Updates, Deletes, AddsExposeRule, Changeable, Setting
<1> QED BY <1>3, <1>4 DEF Edits

(* A configuration is on its way to the storage, or has been loaded.        *)
LEMMA QueuedPreserves ==
    ASSUME WorkerFits, writes' \in Seq([by : Writer, config : Config]),
           page' \in [at : PageState, draft : Config \cup {NoConfig}],
           budget' \in [edits : 0 .. MaxEdits, saves : 0 .. MaxSaves, troubles : 0 .. MaxTroubles],
           UNCHANGED <<stored, config, refresh, dialing, clients, links, state, timer, calls, missed>>
    PROVE  WorkerFits'
<1>1. ExtensionTypeOK' /\ NoConnectionIsLeft' /\ DialingFits'
  BY DEF WorkerFits, ExtensionTypeOK, NoConnectionIsLeft, DialingFits
<1>2. RefreshFits' /\ NothingOverlooked'
  BY DEF WorkerFits, RefreshFits, NothingOverlooked, HasRead, HasApplied, Runs
<1> QED BY <1>1, <1>2 DEF WorkerFits

(* The edits of the worker, and the options page.                           *)
LEMMA EditingPreserves ==
    ASSUME WorkerFits, PageFits, WorkerEdits \/ PageOpens \/ PageSaves
    PROVE  WorkerFits' /\ PageFits'
<1>0. /\ page \in [at : PageState, draft : Config \cup {NoConfig}] /\ stored \in Config /\ config \in Config \cup {NoConfig}
      /\ writes \in Seq([by : Writer, config : Config])
      /\ budget \in [edits : 0 .. MaxEdits, saves : 0 .. MaxSaves, troubles : 0 .. MaxTroubles]
  BY DEF WorkerFits, ExtensionTypeOK
<1>1. CASE WorkerEdits
  <2>1. Base \in Config
    BY <1>0 DEF Base
  <2>2. PICK f \in Edits(Base), by \in {"edit", "update"} : writes' = Append(writes, [by |-> by, config |-> f])
    BY <1>1 DEF WorkerEdits
  <2>3. PICK w : w = [by |-> by, config |-> f]
    OBVIOUS
  <2>4. f \in Config
    BY <2>1, EditIs
  <2>5. w \in [by : Writer, config : Config] /\ w.by # "page" /\ writes' = Append(writes, w)
    BY <2>2, <2>3, <2>4 DEF Writer
  <2>6. writes' \in Seq([by : Writer, config : Config])
    BY <1>0, <2>5
  <2>7. PageFits'
    BY <1>0, <1>1, <2>5 DEF PageFits, WorkerEdits
  <2>8. budget' \in [edits : 0 .. MaxEdits, saves : 0 .. MaxSaves, troubles : 0 .. MaxTroubles]
    BY <1>1, SpendIs DEF WorkerEdits
  <2> QED BY <1>0, <1>1, <2>6, <2>7, <2>8, QueuedPreserves DEF WorkerEdits
<1>2. CASE PageOpens
  <2>1. /\ page' \in [at : PageState, draft : Config \cup {NoConfig}]
        /\ page'.at = "editing" /\ page'.draft = stored
    BY <1>0, <1>2 DEF PageOpens, PageState
  <2>2. PageFits'
    BY <1>0, <1>2, <2>1 DEF PageFits, PageOpens
  <2> QED BY <1>0, <1>2, <2>1, <2>2, QueuedPreserves DEF PageOpens
<1>3. CASE PageSaves
  <2>1. page.draft \in Config
    BY <1>3 DEF PageSaves, PageFits
  <2>2. PICK f \in Edits(page.draft) : page' = [at |-> "saving", draft |-> f] /\ writes' = Append(writes, [by |-> "page", config |-> f])
    BY <1>3 DEF PageSaves
  <2>3. PICK w : w = [by |-> "page", config |-> f]
    OBVIOUS
  <2>4. f \in Config
    BY <2>1, EditIs
  <2>5. w \in [by : Writer, config : Config] /\ writes' = Append(writes, w)
    BY <2>2, <2>3, <2>4 DEF Writer
  <2>6. writes' \in Seq([by : Writer, config : Config])
    BY <1>0, <2>5
  <2>7. page' \in [at : PageState, draft : Config \cup {NoConfig}] /\ page'.at = "saving" /\ page'.draft = f
    BY <2>2, <2>4 DEF PageState
  <2>8. PageFits'
    BY <2>4, <2>7 DEF PageFits
  <2>9. budget' \in [edits : 0 .. MaxEdits, saves : 0 .. MaxSaves, troubles : 0 .. MaxTroubles]
    BY <1>3, SpendIs DEF PageSaves
  <2> QED BY <1>3, <2>6, <2>7, <2>8, <2>9, QueuedPreserves DEF PageSaves
<1> QED BY <1>1, <1>2, <1>3

(* A write is done.                                                         *)
LEMMA WritePreserves ==
    ASSUME WorkerFits, PageFits, WriteIsDone
    PROVE  WorkerFits' /\ PageFits'
<1>1. PICK w : w = Head(writes)
  OBVIOUS
<1>2. PICK n : calls' = calls + n /\ n \in {0, 1, 2} /\ (n = 0 => w.by # "edit" /\ w.config = stored)
  <2>1. PICK onChanged \in {1} \cup (IF w.config = stored THEN {0} ELSE {}) :
           calls' = calls + onChanged + (IF w.by = "edit" THEN 1 ELSE 0)
    BY <1>1 DEF WriteIsDone
  <2>2. calls \in Nat
    BY DEF WorkerFits, ExtensionTypeOK
  <2> WITNESS onChanged + (IF w.by = "edit" THEN 1 ELSE 0)
  <2> QED BY <2>1, <2>2
<1>0. /\ page \in [at : PageState, draft : Config \cup {NoConfig}] /\ stored \in Config /\ config \in Config \cup {NoConfig}
      /\ writes \in Seq([by : Writer, config : Config]) /\ writes # <<>> /\ writes' = Tail(writes)
      /\ calls \in Nat
      /\ stored' = w.config /\ config' = IF w.by = "page" THEN config ELSE w.config
      /\ page' = IF w.by = "page" THEN [page EXCEPT !.at = "saved"] ELSE page
      /\ UNCHANGED <<refresh, dialing, clients, links, state, timer, missed, budget>>
  BY <1>1 DEF WriteIsDone, WorkerFits, ExtensionTypeOK
<1>3. /\ w \in [by : Writer, config : Config] /\ 1 \in DOMAIN writes /\ w = writes[1]
      /\ writes' \in Seq([by : Writer, config : Config])
      /\ \A i \in DOMAIN writes' : i + 1 \in DOMAIN writes /\ writes'[i] = writes[i + 1]
  BY <1>0, <1>1, QueueIs
<1>4. stored' \in Config /\ config' \in Config \cup {NoConfig} /\ (config # NoConfig => config' # NoConfig)
  BY <1>0, <1>3, ConfigIs
<1>5. /\ page' \in [at : PageState, draft : Config \cup {NoConfig}] /\ page'.draft = page.draft
      /\ page'.at # "closed" <=> page.at # "closed"
  <2>1. CASE w.by = "page"
    <3>1. page.at # "closed"
      BY <1>3, <2>1 DEF PageFits
    <3> QED BY <1>0, <2>1, <3>1 DEF PageState
  <2>2. CASE w.by # "page"
    BY <1>0, <2>2
  <2> QED BY <2>1, <2>2
<1>6. PageFits'
  BY <1>3, <1>5 DEF PageFits
<1>7. calls' \in Nat
  BY <1>0, <1>2
<1>8. ExtensionTypeOK' /\ NoConnectionIsLeft' /\ DialingFits'
  BY <1>0, <1>3, <1>4, <1>5, <1>7 DEF WorkerFits, ExtensionTypeOK, NoConnectionIsLeft, DialingFits
<1>9. RefreshFits'
  BY <1>0, <1>4 DEF WorkerFits, RefreshFits, HasRead, HasApplied, Runs
<1>10. NothingOverlooked'
  <2>1. CASE calls' # 0
    BY <2>1 DEF NothingOverlooked
  <2>2. CASE calls' = 0
    <3>1. calls = 0 /\ stored' = stored /\ (config = stored => config' = stored)
      BY <1>0, <1>2, <2>2
    <3> QED BY <1>0, <2>2, <3>1 DEF WorkerFits, NothingOverlooked, HasRead, HasApplied, Runs
  <2> QED BY <2>1, <2>2
<1> QED BY <1>6, <1>8, <1>9, <1>10 DEF WorkerFits

(* The other steps leave the page open or closed, and its draft alone.      *)
LEMMA PageKept ==
    ASSUME WorkerFits, PageFits, page'.draft = page.draft, page'.at = "closed" <=> page.at = "closed",
           writes' \in {<<>>, writes}
    PROVE  PageFits'
  BY DEF PageFits

(* None of them closes the page or writes for it.                           *)
LEMMA PagePreserves ==
    ASSUME WorkerFits, PageFits,
           \/ RefreshIsCalled \/ PageAsks \/ ReadsConfig \/ Registers \/ RegistrationFails
           \/ StartsToClose \/ StartsToConnect \/ ReconnectTimerFires \/ WorkerStops
           \/ \E c \in Client : Connects(c) \/ DoesNotConnect(c) \/ ConnectionBreaks(c)
    PROVE  PageFits'
<1>0. page \in [at : PageState, draft : Config \cup {NoConfig}]
  BY DEF WorkerFits, ExtensionTypeOK
<1>1. ASSUME NEW ok \in BOOLEAN, RefreshEnds(ok)
      PROVE  page'.draft = page.draft /\ (page'.at = "closed" <=> page.at = "closed")
  BY <1>0, <1>1 DEF RefreshEnds
<1>2. CASE RefreshIsCalled \/ ReadsConfig \/ Registers \/ StartsToClose \/ StartsToConnect \/ ReconnectTimerFires
  BY <1>2, PageKept DEF RefreshIsCalled, ReadsConfig, Registers, StartsToClose, StartsToConnect, ReconnectTimerFires
<1>3. CASE PageAsks
  BY <1>0, <1>3, PageKept DEF PageAsks
<1>4. CASE RegistrationFails
  BY <1>1, <1>4, PageKept DEF RegistrationFails
<1>5. CASE WorkerStops
  BY <1>0, <1>5, PageKept DEF WorkerStops
<1>6. ASSUME NEW c \in Client, Connects(c) \/ DoesNotConnect(c) \/ ConnectionBreaks(c) PROVE PageFits'
  BY <1>1, <1>6, PageKept DEF Connects, DoesNotConnect, ConnectionBreaks, DialingEnds
<1> QED BY <1>2, <1>3, <1>4, <1>5, <1>6

(* The initial state.                                                       *)
LEMMA WorkerInitFits ==
    ASSUME ExtensionInit
    PROVE  WorkerFits /\ PageFits
<1>0. /\ stored \in Config /\ config = NoConfig /\ refresh = NoRefresh /\ dialing = {} /\ clients = {}
      /\ links = [c \in Client |-> 0] /\ state = [c \in Client |-> "none"]
      /\ timer = FALSE /\ writes = <<>> /\ calls = 1 /\ missed = FALSE
      /\ page = [at |-> "closed", draft |-> NoConfig]
      /\ budget = [edits |-> MaxEdits, saves |-> MaxSaves, troubles |-> MaxTroubles]
  BY DEF ExtensionInit, ExtensionStarts
<1>1. refresh \in [at : Stage, config : Config \cup {NoConfig}] /\ refresh.at = "idle" /\ refresh.config = NoConfig
  BY <1>0 DEF NoRefresh, Stage
<1>2. page \in [at : PageState, draft : Config \cup {NoConfig}] /\ page.at = "closed"
  BY <1>0 DEF PageState
<1>3. budget \in [edits : 0 .. MaxEdits, saves : 0 .. MaxSaves, troubles : 0 .. MaxTroubles]
  BY <1>0, ExtensionConstants
<1>4. links \in [Client -> Nat] /\ state \in [Client -> ConnectionState]
  BY <1>0 DEF ConnectionState
<1>5. writes \in Seq([by : Writer, config : Config]) /\ DOMAIN writes = {}
  BY <1>0
<1>6. ExtensionTypeOK
  BY <1>0, <1>1, <1>2, <1>3, <1>4, <1>5 DEF ExtensionTypeOK
<1>7. NoConnectionIsLeft /\ DialingFits
  BY <1>0, <1>1 DEF NoConnectionIsLeft, DialingFits
<1>8. RefreshFits /\ NothingOverlooked
  BY <1>0, <1>1 DEF RefreshFits, NothingOverlooked, HasRead, HasApplied
<1>9. PageFits
  BY <1>2, <1>5 DEF PageFits
<1> QED BY <1>6, <1>7, <1>8, <1>9 DEF WorkerFits

(* The background worker of the browser extension: whatever is edited,      *)
(* saved, refused and stopped while a refresh runs, a client never has a    *)
(* second connection or one the worker could not close, and when nothing is *)
(* under way it runs what is stored, unless a refresh failed or was asked   *)
(* for in vain.                                                             *)
THEOREM ExtensionIsInvariant == ExtensionSpec => []ExtensionInvariant
<1>1. ExtensionInit => WorkerFits /\ PageFits
  BY WorkerInitFits
<1>2. WorkerFits /\ PageFits /\ [ExtensionNext]_extensionVars => WorkerFits' /\ PageFits'
  <2> SUFFICES ASSUME WorkerFits, PageFits, [ExtensionNext]_extensionVars PROVE WorkerFits' /\ PageFits'
    OBVIOUS
  <2>1. CASE RefreshIsCalled \/ PageAsks \/ ReconnectTimerFires
    BY <2>1, CallsPreserve, PagePreserves
  <2>2. CASE ReadsConfig \/ Registers \/ RegistrationFails \/ StartsToClose \/ StartsToConnect
    BY <2>2, ReadsPreserves, RegistersPreserves, RegistrationFailsPreserves, StartsToClosePreserves,
       StartsToConnectPreserves, PagePreserves
  <2>3. CASE WorkerStops
    BY <2>3, StopsPreserves, PagePreserves
  <2>4. CASE WorkerEdits \/ PageOpens \/ PageSaves
    BY <2>4, EditingPreserves
  <2>5. CASE WriteIsDone
    BY <2>5, WritePreserves
  <2>6. ASSUME NEW c \in Client, Connects(c) \/ DoesNotConnect(c) \/ ConnectionBreaks(c)
        PROVE  WorkerFits' /\ PageFits'
    BY <2>6, DialingPreserves, BreaksPreserves, PagePreserves
  <2>7. CASE UNCHANGED extensionVars
    BY <2>7, QueuedPreserves DEF extensionVars, WorkerFits, ExtensionTypeOK, PageFits
  <2> QED BY <2>1, <2>2, <2>3, <2>4, <2>5, <2>6, <2>7 DEF ExtensionNext
<1>3. WorkerFits /\ PageFits => ExtensionInvariant
  BY RunsFollows
<1> QED BY <1>1, <1>2, <1>3, PTL DEF ExtensionSpec
=============================================================================
