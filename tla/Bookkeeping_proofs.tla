------------------------- MODULE Bookkeeping_proofs -------------------------
(* Proofs of what is remembered of something else: what the browser         *)
(* extension keeps of the pages it has injected into, that a command which  *)
(* meets nobody is answered in its second round, that the answers of the    *)
(* worker and its recordings are those of their pages, that an invocation   *)
(* is stored once and stays until it is cleared; that a client in Go,       *)
(* Python, Rust, C# or Java knows what has become of its sessions; that the *)
(* messages of the six languages mean what was given, and that a call is    *)
(* handled by the entry the server has resolved.                            *)
EXTENDS MCBookkeeping, FiniteSetTheorems, WellFoundedInduction, TLAPS


-----------------------------------------------------------------------------
(* Telemetry.                                                               *)

(* What Append and Tail do to what is stored in the end.                    *)
LEMMA LastWrite ==
    ASSUME NEW S, NEW q \in Seq(S)
    PROVE  /\ \A x \in S : Append(q, x) \in Seq(S) /\ Append(q, x) # <<>>
                           /\ Append(q, x)[Len(Append(q, x))] = x
                           /\ \A n \in DOMAIN Append(q, x) : Append(q, x)[n] = x \/ \E m \in DOMAIN q : Append(q, x)[n] = q[m]
           /\ q # <<>> => /\ Head(q) \in S /\ Tail(q) \in Seq(S)
                          /\ Head(q) = q[1] /\ 1 \in DOMAIN q
                          /\ q[Len(q)] \in S /\ Len(q) \in DOMAIN q
                          /\ IF Tail(q) = <<>> THEN q[Len(q)] = Head(q)
                             ELSE Tail(q)[Len(Tail(q))] = q[Len(q)]
                          /\ \A n \in DOMAIN Tail(q) : \E m \in DOMAIN q : Tail(q)[n] = q[m]
<1>1. \A x \in S : Append(q, x) \in Seq(S) /\ Append(q, x) # <<>>
                   /\ Append(q, x)[Len(Append(q, x))] = x
                   /\ \A n \in DOMAIN Append(q, x) : Append(q, x)[n] = x \/ \E m \in DOMAIN q : Append(q, x)[n] = q[m]
  OBVIOUS
<1>2. ASSUME q # <<>>
      PROVE  /\ Head(q) \in S /\ Tail(q) \in Seq(S)
             /\ Head(q) = q[1] /\ 1 \in DOMAIN q
             /\ q[Len(q)] \in S /\ Len(q) \in DOMAIN q
             /\ IF Tail(q) = <<>> THEN q[Len(q)] = Head(q)
                ELSE Tail(q)[Len(Tail(q))] = q[Len(q)]
             /\ \A n \in DOMAIN Tail(q) : \E m \in DOMAIN q : Tail(q)[n] = q[m]
  <2>1. Len(q) \in Nat /\ Len(q) > 0 /\ DOMAIN q = 1 .. Len(q)
    BY <1>2
  <2>2. Head(q) \in S /\ Tail(q) \in Seq(S) /\ Head(q) = q[1] /\ 1 \in DOMAIN q /\ q[Len(q)] \in S
    BY <1>2, <2>1
  <2>3. Len(Tail(q)) = Len(q) - 1 /\ \A n \in 1 .. Len(q) - 1 : Tail(q)[n] = q[n + 1]
    BY <1>2, <2>1
  <2>4. Tail(q) = <<>> => Len(q) = 1
    BY <2>1, <2>3
  <2>5. Tail(q) # <<>> => Len(q) > 1
    BY <2>1, <2>2, <2>3
  <2>6. \A n \in DOMAIN Tail(q) : n + 1 \in DOMAIN q /\ Tail(q)[n] = q[n + 1]
    BY <2>1, <2>2, <2>3
  <2>7. \A n \in DOMAIN Tail(q) : \E m \in DOMAIN q : Tail(q)[n] = q[m]
    BY <2>6
  <2> QED BY <2>1, <2>2, <2>3, <2>4, <2>5, <2>7
<1> QED BY <1>1, <1>2

(* At first nothing has been invoked and nothing cleared.                   *)
LEMMA TelemetryInitHolds == TelemetryInit => TelemetryInvariant
<1> SUFFICES ASSUME TelemetryInit
             PROVE  TelemetryInvariant
  OBVIOUS
<1> USE TelemetryConstants DEF TelemetryInit
<1>1. TelemetryTypeOK
  <2>1. left \in [clears : 0 .. MaxClears, losses : 0 .. MaxLosses] /\ queue \in Seq(SUBSET Invocation)
    OBVIOUS
  <2>2. disk \subseteq Invocation /\ fresh \subseteq Invocation
    OBVIOUS
  <2> QED BY <2>1, <2>2 DEF TelemetryTypeOK
<1>2. RecordsAreStored /\ ClearedIsGone /\ LoadsFirst /\ StoredInTheEnd
  BY DEF RecordsAreStored, ClearedIsGone, LoadsFirst, StoredInTheEnd, Stored
<1>3. RecordedOnce
  BY DEF RecordedOnce
<1> QED BY <1>1, <1>2, <1>3 DEF TelemetryInvariant

(* A write is put at the end of the queue.                                  *)
LEMMA QueuedWrite ==
    ASSUME TelemetryTypeOK, NEW m \in SUBSET Invocation, queue' = Append(queue, m)
    PROVE  /\ queue' \in Seq(SUBSET Invocation) /\ queue' # <<>> /\ Stored' = m
           /\ \A X : X \cap m = {} /\ (\A n \in DOMAIN queue : X \cap queue[n] = {})
                       => \A n \in DOMAIN queue' : X \cap queue'[n] = {}
<1>1. queue \in Seq(SUBSET Invocation)
  BY DEF TelemetryTypeOK
<1>2. /\ queue' \in Seq(SUBSET Invocation) /\ queue' # <<>> /\ queue'[Len(queue')] = m
      /\ \A n \in DOMAIN queue' : queue'[n] = m \/ \E k \in DOMAIN queue : queue'[n] = queue[k]
  BY <1>1, LastWrite
<1>3. Stored' = m
  BY <1>2 DEF Stored
<1> QED BY <1>2, <1>3

(* The first write is done.                                                 *)
LEMMA DoneWrite ==
    ASSUME TelemetryTypeOK, queue # <<>>, disk' = Head(queue), queue' = Tail(queue)
    PROVE  /\ queue' \in Seq(SUBSET Invocation) /\ disk' \in SUBSET Invocation /\ Stored' = Stored
           /\ \A X : (\A n \in DOMAIN queue : X \cap queue[n] = {})
                       => X \cap disk' = {} /\ \A n \in DOMAIN queue' : X \cap queue'[n] = {}
<1>1. queue \in Seq(SUBSET Invocation)
  BY DEF TelemetryTypeOK
<1>2. /\ Head(queue) \in SUBSET Invocation /\ Tail(queue) \in Seq(SUBSET Invocation)
      /\ Head(queue) = queue[1] /\ 1 \in DOMAIN queue
      /\ IF Tail(queue) = <<>> THEN queue[Len(queue)] = Head(queue)
         ELSE Tail(queue)[Len(Tail(queue))] = queue[Len(queue)]
      /\ \A n \in DOMAIN Tail(queue) : \E k \in DOMAIN queue : Tail(queue)[n] = queue[k]
  BY <1>1, LastWrite
<1>3. Stored' = Stored
  BY <1>2 DEF Stored
<1> QED BY <1>2, <1>3

(* The last write is all that is left when the worker stops.                *)
LEMMA StoredIsKnown ==
    ASSUME TelemetryTypeOK
    PROVE  /\ Stored \in SUBSET Invocation
           /\ \A X : X \cap disk = {} /\ (\A n \in DOMAIN queue : X \cap queue[n] = {}) => X \cap Stored = {}
<1>1. queue \in Seq(SUBSET Invocation) /\ disk \in SUBSET Invocation
  BY DEF TelemetryTypeOK
<1>2. queue # <<>> => queue[Len(queue)] \in SUBSET Invocation /\ Len(queue) \in DOMAIN queue
  BY <1>1, LastWrite
<1> QED BY <1>1, <1>2 DEF Stored

(* Every step keeps it.                                                     *)
LEMMA TelemetryNextKeeps ==
    TelemetryInvariant /\ [TelemetryNext]_telemetryVars => TelemetryInvariant'
<1> SUFFICES ASSUME TelemetryInvariant, [TelemetryNext]_telemetryVars
             PROVE  TelemetryInvariant'
  OBVIOUS
<1>0. /\ TelemetryTypeOK /\ ClearedIsGone /\ LoadsFirst /\ StoredInTheEnd /\ RecordedOnce
      /\ ~crossed => cleared \cap memory = {}
      /\ Mine \in SUBSET Invocation
  BY TelemetryConstants DEF TelemetryInvariant, ClearedIsGone
<1>q. ASSUME TelemetryTypeOK', LoadsFirst', StoredInTheEnd', (~crossed => cleared \cap memory = {})', RecordedOnce'
      PROVE  TelemetryInvariant'
  <2>1. RecordsAreStored' /\ ClearedIsGone'
    BY <1>q DEF LoadsFirst, StoredInTheEnd, RecordsAreStored, ClearedIsGone, Stored
  <2> QED BY <1>q, <2>1 DEF TelemetryInvariant
<1>1. CASE AsksForTelemetry
  <2> USE <1>0, <1>1 DEF AsksForTelemetry
  <2>1. TelemetryTypeOK'
    BY DEF TelemetryTypeOK
  <2>2. LoadsFirst' /\ StoredInTheEnd' /\ (~crossed => cleared \cap memory = {})'
    BY DEF LoadsFirst, StoredInTheEnd, Stored
  <2>3. RecordedOnce'
    BY DEF RecordedOnce
  <2> QED BY <2>1, <2>2, <2>3, <1>q
<1>2. CASE TelemetryIsLoaded
  <2> USE <1>0, <1>2 DEF TelemetryIsLoaded
  <2>1. TelemetryTypeOK'
    BY DEF TelemetryTypeOK
  <2>2. LoadsFirst' /\ StoredInTheEnd' /\ (~crossed => cleared \cap memory = {})'
    BY DEF LoadsFirst, StoredInTheEnd, Stored
  <2>3. RecordedOnce'
    BY DEF RecordedOnce
  <2> QED BY <2>1, <2>2, <2>3, <1>q
<1>3. ASSUME NEW i \in Invocation, InvocationStarts(i)
      PROVE  TelemetryInvariant'
  <2> USE <1>0, <1>3 DEF InvocationStarts
  <2>1. TelemetryTypeOK'
    BY DEF TelemetryTypeOK
  <2>2. LoadsFirst' /\ StoredInTheEnd' /\ (~crossed => cleared \cap memory = {})'
    BY DEF LoadsFirst, StoredInTheEnd, Stored
  <2>3. RecordedOnce'
    BY DEF RecordedOnce
  <2> QED BY <2>1, <2>2, <2>3, <1>q
<1>4. ASSUME NEW i \in Invocation, InvocationIsRecorded(i)
      PROVE  TelemetryInvariant'
  <2> USE <1>0, <1>4 DEF InvocationIsRecorded
  <2>1. TelemetryTypeOK'
    BY DEF TelemetryTypeOK
  <2>2. LoadsFirst' /\ StoredInTheEnd' /\ (~crossed => cleared \cap memory = {})'
    BY DEF LoadsFirst, StoredInTheEnd, Stored, RecordedOnce
  <2>3. RecordedOnce'
    BY DEF RecordedOnce
  <2> QED BY <2>1, <2>2, <2>3, <1>q
<1>5. CASE TimerPersists
  <2> USE <1>0, <1>5 DEF TimerPersists
  <2>1. memory \in SUBSET Invocation
    BY DEF TelemetryTypeOK
  <2>2. /\ queue' \in Seq(SUBSET Invocation) /\ queue' # <<>> /\ Stored' = memory
        /\ \A X : X \cap memory = {} /\ (\A n \in DOMAIN queue : X \cap queue[n] = {})
                    => \A n \in DOMAIN queue' : X \cap queue'[n] = {}
    BY <2>1, QueuedWrite
  <2>3. TelemetryTypeOK'
    BY <2>2 DEF TelemetryTypeOK
  <2>4. LoadsFirst' /\ StoredInTheEnd' /\ (~crossed => cleared \cap memory = {})'
    BY <2>2 DEF LoadsFirst, StoredInTheEnd
  <2>5. RecordedOnce'
    BY <2>2 DEF RecordedOnce
  <2> QED BY <2>3, <2>4, <2>5, <1>q
<1>6. CASE TelemetryIsWritten
  <2> USE <1>0, <1>6 DEF TelemetryIsWritten
  <2>2. /\ queue' \in Seq(SUBSET Invocation) /\ disk' \in SUBSET Invocation /\ Stored' = Stored
        /\ \A X : (\A n \in DOMAIN queue : X \cap queue[n] = {})
                    => X \cap disk' = {} /\ \A n \in DOMAIN queue' : X \cap queue'[n] = {}
    BY DoneWrite
  <2>3. TelemetryTypeOK'
    BY <2>2 DEF TelemetryTypeOK
  <2>4. LoadsFirst' /\ StoredInTheEnd' /\ (~crossed => cleared \cap memory = {})'
    BY <2>2 DEF LoadsFirst, StoredInTheEnd
  <2>5. RecordedOnce'
    BY <2>2 DEF RecordedOnce
  <2> QED BY <2>3, <2>4, <2>5, <1>q
<1>7. ASSUME NEW some \in {Mine, Invocation}, Clears(some)
      PROVE  TelemetryInvariant'
  <2>1. PICK m : m = memory \ some
    OBVIOUS
  <2>2. PICK gone : gone = some \cap (memory \cup disk)
    OBVIOUS
  <2>3. /\ load # "no" /\ persist' = FALSE /\ memory' = m /\ queue' = Append(queue, m)
        /\ cleared' = cleared \cup gone
        /\ crossed' = (crossed \/ load = "loading")
        /\ UNCHANGED <<disk, load, invoked, fresh>>
    BY <1>7, <2>1, <2>2 DEF Clears
  <2>4. left' \in [clears : 0 .. MaxClears, losses : 0 .. MaxLosses]
    BY <1>0, <1>7, TelemetryConstants DEF Clears, Loses, TelemetryTypeOK
  <2>5. /\ m \in SUBSET Invocation /\ gone \in SUBSET Invocation /\ m \subseteq memory
        /\ gone \cap m = {} /\ gone \subseteq memory \cup disk
    BY <1>0, <2>1, <2>2 DEF TelemetryTypeOK
  <2>6. /\ queue' \in Seq(SUBSET Invocation) /\ queue' # <<>> /\ Stored' = m
        /\ \A X : X \cap m = {} /\ (\A n \in DOMAIN queue : X \cap queue[n] = {})
                    => \A n \in DOMAIN queue' : X \cap queue'[n] = {}
    BY <1>0, <2>3, <2>5, QueuedWrite
  <2>7. TelemetryTypeOK'
    BY <1>0, <2>3, <2>4, <2>5, <2>6 DEF TelemetryTypeOK
  <2>8. LoadsFirst'
    BY <1>0, <2>3, <2>5, <2>6 DEF LoadsFirst, TelemetryTypeOK
  <2>9. StoredInTheEnd' /\ (~crossed => cleared \cap memory = {})'
    BY <1>0, <2>3, <2>5, <2>6 DEF StoredInTheEnd
  <2>10. RecordedOnce'
    BY <1>0, <2>3, <2>5, <2>6 DEF RecordedOnce
  <2> QED BY <2>7, <2>8, <2>9, <2>10, <1>q
<1>8. CASE Prunes
  <2>1. PICK m : m = memory \ Mine
    OBVIOUS
  <2>3. /\ load = "yes" /\ persist' = TRUE /\ memory' = m
        /\ UNCHANGED <<disk, load, queue, invoked, fresh, cleared, crossed>>
    BY <1>8, <2>1 DEF Prunes
  <2>4. left' \in [clears : 0 .. MaxClears, losses : 0 .. MaxLosses]
    BY <1>0, <1>8, TelemetryConstants DEF Prunes, Loses, TelemetryTypeOK
  <2>5. m \in SUBSET Invocation /\ m \subseteq memory
    BY <1>0, <2>1 DEF TelemetryTypeOK
  <2>7. TelemetryTypeOK'
    BY <1>0, <2>3, <2>4, <2>5 DEF TelemetryTypeOK
  <2>8. LoadsFirst' /\ StoredInTheEnd' /\ (~crossed => cleared \cap memory = {})'
    BY <1>0, <2>3, <2>5 DEF LoadsFirst, StoredInTheEnd, Stored
  <2>10. RecordedOnce'
    BY <1>0, <2>3, <2>5 DEF RecordedOnce
  <2> QED BY <2>7, <2>8, <2>10, <1>q
<1>9. CASE WorkerIsStopped
  <2>3. /\ memory' = {} /\ load' = "no" /\ persist' = FALSE /\ invoked' = {}
        /\ disk' = Stored /\ queue' = <<>>
        /\ UNCHANGED <<fresh, cleared, crossed>>
    BY <1>9 DEF WorkerIsStopped, Stored
  <2>4. left' \in [clears : 0 .. MaxClears, losses : 0 .. MaxLosses]
    BY <1>0, <1>9, TelemetryConstants DEF WorkerIsStopped, Loses, TelemetryTypeOK
  <2>5. /\ Stored \in SUBSET Invocation
        /\ \A X : X \cap disk = {} /\ (\A n \in DOMAIN queue : X \cap queue[n] = {}) => X \cap Stored = {}
    BY <1>0, StoredIsKnown
  <2>6. Stored' = Stored
    BY <2>3 DEF Stored
  <2>7. TelemetryTypeOK'
    <3>1. queue' \in Seq(SUBSET Invocation) /\ disk' \subseteq Invocation
      BY <2>3, <2>5
    <3> QED BY <1>0, <2>3, <2>4, <3>1 DEF TelemetryTypeOK
  <2>8. LoadsFirst' /\ StoredInTheEnd' /\ (~crossed => cleared \cap memory = {})'
    BY <1>0, <2>3, <2>6 DEF LoadsFirst, StoredInTheEnd
  <2>10. RecordedOnce'
    <3>1. fresh \cap Stored = {}
      BY <1>0, <2>5 DEF RecordedOnce
    <3> QED BY <1>0, <2>3, <3>1 DEF RecordedOnce
  <2> QED BY <2>7, <2>8, <2>10, <1>q
<1>10. CASE UNCHANGED telemetryVars
  BY <1>10 DEF telemetryVars, TelemetryInvariant, TelemetryTypeOK, RecordsAreStored, ClearedIsGone,
       LoadsFirst, StoredInTheEnd, RecordedOnce, Stored
<1> QED BY <1>1, <1>2, <1>3, <1>4, <1>5, <1>6, <1>7, <1>8, <1>9, <1>10 DEF TelemetryNext

-----------------------------------------------------------------------------
(* Recordings and captures.                                                 *)

(* The parts that carry the others.                                         *)
SessionsFit ==
    SessionTypeOK /\ SavedOnce /\ OneAnswer /\ RecordingsFit /\ AnswersAreTrue /\ RecordingGoesOn

CapturesFit ==
    captureSession # NoTab =>
       armed[captureSession] # 0 \/ \E m \in clicked : m.tab = captureSession

(* What the worker shows goes on when the page has nothing to answer.       *)
LEMMA SessionParts ==
    /\ SessionInvariant => SessionsFit /\ CapturesFit
    /\ SessionsFit /\ CapturesFit => SessionInvariant
    /\ SessionsFit' /\ CapturesFit' => SessionInvariant'
<1>1. RecordingGoesOn => (activeRecording # NoTab /\ Asks(activeRecording) => recorder[activeRecording] # 0)
  BY DEF RecordingGoesOn, Asks
<1>2. RecordingGoesOn' => (activeRecording # NoTab /\ Asks(activeRecording) => recorder[activeRecording] # 0)'
  BY DEF RecordingGoesOn, Asks
<1> QED BY <1>1, <1>2 DEF SessionInvariant, SessionsFit, CapturesFit, SessionsAreOfPages

(* At first nobody has asked for anything.                                  *)
LEMMA SessionInitHolds == SessionInit => SessionInvariant
<1> SUFFICES ASSUME SessionInit
             PROVE  SessionInvariant
  OBVIOUS
<1>1. SessionTypeOK
  <2>1. popup \in [Call -> [op : Ops, tab : Tab \cup {NoTab}, id : 0 .. MaxRecordings + MaxCaptures]]
    <3>1. Hung \in [op : Ops, tab : Tab \cup {NoTab}, id : 0 .. MaxRecordings + MaxCaptures]
      BY SessionConstants DEF Hung, Ops
    <3> QED BY <3>1 DEF SessionInit
  <2>2. started \in [recordings : 0 .. MaxRecordings, captures : 0 .. MaxCaptures]
    BY SessionConstants DEF SessionInit
  <2>3. recorder \in [Tab -> 0 .. MaxRecordings] /\ armed \in [Tab -> 0 .. MaxCaptures]
    BY SessionConstants DEF SessionInit
  <2>4. recorded \in [1 .. MaxRecordings -> Nat]
    BY DEF SessionInit
  <2> QED BY <2>1, <2>2, <2>3, <2>4 DEF SessionInit, SessionTypeOK
<1>2. \A c \in Call : popup[c] = Hung
  BY DEF SessionInit
<1>3. OneAnswer /\ AnswersAreTrue /\ RecordingGoesOn /\ CapturesFit
  BY <1>2 DEF SessionInit, OneAnswer, AnswersOf, AnswersAreTrue, RecordingGoesOn, CapturesFit, Hung
<1>4. RecordingsFit
  BY <1>2, <1>1 DEF SessionInit, RecordingsFit, HasSteps, Hung
<1>5. SavedOnce
  BY DEF SessionInit, SavedOnce
<1> QED BY <1>1, <1>3, <1>4, <1>5, SessionParts DEF SessionsFit

(* What the types say of one call.                                          *)
LEMMA PopupOf ==
    ASSUME SessionTypeOK, NEW c \in Call
    PROVE  /\ popup[c].op \in Ops /\ popup[c].tab \in Tab \cup {NoTab}
           /\ popup[c].id \in 0 .. MaxRecordings + MaxCaptures
           /\ MaxRecordings \in Nat /\ MaxCaptures \in Nat /\ NoTab \notin Tab
BY SessionConstants DEF SessionTypeOK

(* One call goes on.                                                        *)
LEMMA OneCallMoves ==
    ASSUME SessionTypeOK, NEW c \in Call, NEW r, popup' = [popup EXCEPT ![c] = r]
    PROVE  /\ popup'[c] = r /\ \A d \in Call \ {c} : popup'[d] = popup[d]
           /\ DOMAIN popup' = Call
BY DEF SessionTypeOK

(* A call ends or changes without an answer of a page: what is said of the  *)
(* other calls stays.                                                       *)
LEMMA CallMoves ==
    ASSUME SessionTypeOK, NEW c \in Call,
           NEW op \in Ops, NEW tab \in Tab \cup {NoTab}, NEW id \in 0 .. MaxRecordings + MaxCaptures,
           Becomes(c, op, tab, id)
    PROVE  /\ popup' \in [Call -> [op : Ops, tab : Tab \cup {NoTab}, id : 0 .. MaxRecordings + MaxCaptures]]
           /\ popup'[c].op = op /\ popup'[c].tab = tab /\ popup'[c].id = id
           /\ \A d \in Call \ {c} : popup'[d] = popup[d]
BY DEF SessionTypeOK, Becomes

(* A call that is over.                                                     *)
LEMMA CallEnds ==
    ASSUME SessionTypeOK, NEW c \in Call, Ended(c)
    PROVE  /\ popup' \in [Call -> [op : Ops, tab : Tab \cup {NoTab}, id : 0 .. MaxRecordings + MaxCaptures]]
           /\ popup'[c].op = "none" /\ popup'[c].tab = NoTab /\ popup'[c].id = 0
           /\ \A d \in Call \ {c} : popup'[d] = popup[d]
<1>1. Becomes(c, "none", NoTab, 0)
  BY DEF Ended, Becomes, Hung
<1>2. "none" \in Ops /\ NoTab \in Tab \cup {NoTab} /\ 0 \in 0 .. MaxRecordings + MaxCaptures
  BY SessionConstants DEF Ops
<1> QED BY <1>1, <1>2, CallMoves

(* The answers there are, when one call goes on.                            *)
LEMMA AnswersAfter ==
    ASSUME NEW c \in Call, \A d \in Call \ {c} : popup'[d] = popup[d]
    PROVE  \A t : \A d \in Call \ {c} : d \in AnswersOf(t)' <=> d \in AnswersOf(t)
BY DEF AnswersOf

PopupType == [Call -> [op : Ops, tab : Tab \cup {NoTab}, id : 0 .. MaxRecordings + MaxCaptures]]

QuietOps == {"none", "start", "stop", "arm"}

(* A call that no page and nobody with steps knows of goes on: what is said *)
(* of recordings and answers stays.                                         *)
LEMMA QuietCall ==
    ASSUME SessionsFit, CapturesFit, NEW c \in Call, popup' \in PopupType,
           popup'[c].op \in QuietOps, popup'[c].op = "none" \/ popup'[c].tab \in Tab,
           \A d \in Call \ {c} : popup'[d] = popup[d],
           popup[c].op \notin {"started", "stopped", "armed"},
           UNCHANGED <<recorder, armed, activeRecording, captureSession, clicked, recorded, started>>
    PROVE  SessionInvariant'
<1>1. SessionTypeOK' /\ SavedOnce' /\ CapturesFit'
  BY DEF SessionsFit, SessionTypeOK, SavedOnce, CapturesFit, PopupType
<1>2. \A t : AnswersOf(t)' = AnswersOf(t) /\ c \notin AnswersOf(t)
  BY DEF AnswersOf, QuietOps
<1>3. OneAnswer' /\ RecordingGoesOn'
  <2>1. \A t : \A d \in AnswersOf(t) : popup'[d] = popup[d]
    BY <1>2 DEF AnswersOf
  <2> QED BY <1>2, <2>1 DEF SessionsFit, OneAnswer, RecordingGoesOn
<1>4. AnswersAreTrue'
  BY DEF SessionsFit, AnswersAreTrue, QuietOps
<1>5. \A d \in Call : HasSteps(d)' => HasSteps(d) /\ popup'[d] = popup[d]
  BY DEF HasSteps, QuietOps
<1>6. RecordingsFit'
  BY <1>5 DEF SessionsFit, RecordingsFit
<1> QED BY <1>1, <1>3, <1>4, <1>6, SessionParts DEF SessionsFit

(* The popup asks, or hears that it asks in vain.                           *)
LEMMA CallsKeep ==
    ASSUME SessionsFit, CapturesFit, NEW c \in Call, Calls(c) \/ CallFails(c) \/ NothingIsRecorded(c)
    PROVE  SessionInvariant'
<1>0. SessionTypeOK /\ 0 \in 0 .. MaxRecordings + MaxCaptures /\ NoTab \notin Tab
      /\ activeRecording \in Tab \cup {NoTab}
  BY SessionConstants DEF SessionsFit, SessionTypeOK
<1>1. UNCHANGED <<recorder, armed, activeRecording, captureSession, clicked, recorded, started>>
  BY DEF Calls, CallFails, NothingIsRecorded
<1>2. popup[c].op \notin {"started", "stopped", "armed"}
  BY DEF Calls, CallFails, NothingIsRecorded
<1>3. CASE Ended(c)
  BY <1>0, <1>1, <1>2, <1>3, CallEnds, QuietCall DEF PopupType, QuietOps
<1>4. ASSUME NEW t \in Tab, NEW op \in {"start", "arm", "stop"}, Becomes(c, op, t, 0)
      PROVE  SessionInvariant'
  <2>1. op \in Ops /\ op \in QuietOps /\ t \in Tab \cup {NoTab}
    BY DEF Ops, QuietOps
  <2>2. /\ popup' \in PopupType /\ popup'[c].op = op /\ popup'[c].tab = t
        /\ \A d \in Call \ {c} : popup'[d] = popup[d]
    BY <1>0, <1>4, <2>1, CallMoves DEF PopupType
  <2> QED BY <1>1, <1>2, <2>1, <2>2, QuietCall
<1> QED BY <1>0, <1>3, <1>4 DEF Calls, CallFails, NothingIsRecorded

(* The page has begun to record.                                            *)
LEMMA PageStartsKeeps ==
    ASSUME SessionsFit, CapturesFit, NEW c \in Call, PageStartsRecording(c)
    PROVE  SessionInvariant'
<1>0. SessionTypeOK
  BY DEF SessionsFit
<1>1. PICK t : t = popup[c].tab
  OBVIOUS
<1>2. PICK k : k = started.recordings + 1
  OBVIOUS
<1>3. t \in Tab /\ popup[c].op = "start" /\ AnswersOf(t) = {}
  BY <1>1 DEF SessionsFit, AnswersAreTrue, PageStartsRecording, Asks
<1>4. /\ k \in 1 .. MaxRecordings /\ k > started.recordings /\ started.recordings \in Nat
      /\ started' \in [recordings : 0 .. MaxRecordings, captures : 0 .. MaxCaptures]
      /\ started'.recordings = k
  <2>1. started.recordings \in 0 .. MaxRecordings /\ started.recordings < MaxRecordings /\ MaxRecordings \in Nat
    BY <1>0, SessionConstants DEF PageStartsRecording, SessionTypeOK
  <2>2. k \in 1 .. MaxRecordings /\ k > started.recordings /\ started.recordings \in Nat
    BY <1>2, <2>1
  <2>3. started' = [started EXCEPT !.recordings = k]
    BY <1>2 DEF PageStartsRecording
  <2>4. k \in 0 .. MaxRecordings
    BY <2>2
  <2> QED BY <1>0, <2>2, <2>3, <2>4 DEF SessionTypeOK
<1>5. recorder' = [recorder EXCEPT ![t] = k]
  BY <1>1, <1>2 DEF PageStartsRecording
<1>6. /\ recorder' \in [Tab -> 0 .. MaxRecordings] /\ recorder'[t] = k
      /\ \A u \in Tab \ {t} : recorder'[u] = recorder[u]
  BY <1>0, <1>3, <1>4, <1>5 DEF SessionTypeOK
<1>7. /\ popup' \in PopupType /\ popup'[c].op = "started" /\ popup'[c].tab = t
      /\ \A d \in Call \ {c} : popup'[d] = popup[d]
  <2>1. "started" \in Ops /\ t \in Tab \cup {NoTab} /\ 0 \in 0 .. MaxRecordings + MaxCaptures
    BY <1>3, SessionConstants DEF Ops
  <2>2. Becomes(c, "started", t, 0)
    BY <1>1 DEF PageStartsRecording
  <2> QED BY <1>0, <2>1, <2>2, CallMoves DEF PopupType
<1>8. UNCHANGED <<armed, activeRecording, captureSession, clicked, recorded>>
  BY DEF PageStartsRecording
<1>9. SessionTypeOK' /\ SavedOnce' /\ CapturesFit'
  BY <1>4, <1>6, <1>7, <1>8 DEF SessionsFit, SessionTypeOK, SavedOnce, CapturesFit, PopupType
<1>10. AnswersOf(t)' = {c} /\ \A u \in Tab \ {t} : AnswersOf(u)' = AnswersOf(u)
  BY <1>3, <1>7 DEF AnswersOf
<1>11. OneAnswer'
  BY <1>10 DEF SessionsFit, OneAnswer
<1>12. RecordingGoesOn'
  <2>1. activeRecording = t => recorder'[activeRecording] # 0
    BY <1>4, <1>6
  <2>2. activeRecording \in Tab \ {t} =>
          recorder'[activeRecording] = recorder[activeRecording]
          /\ \A d \in AnswersOf(activeRecording) : d \in AnswersOf(activeRecording)' /\ popup'[d] = popup[d]
    <3>1. \A u \in Tab \ {t} : \A d \in AnswersOf(u) : d \in AnswersOf(u)' /\ popup'[d] = popup[d]
      BY <1>3, <1>7 DEF AnswersOf
    <3> QED BY <1>6, <1>8, <3>1
  <2> QED BY <1>0, <1>8, <2>1, <2>2 DEF SessionsFit, RecordingGoesOn, SessionTypeOK
<1>13. AnswersAreTrue'
  <2>1. \A u \in Tab : recorder[u] # 0 => recorder'[u] # 0
    BY <1>4, <1>6
  <2> QED BY <1>3, <1>4, <1>6, <1>7, <1>8, <2>1 DEF SessionsFit, AnswersAreTrue
<1>14. RecordingsFit'
  <2>1. \A d \in Call : HasSteps(d)' => d # c /\ HasSteps(d) /\ popup'[d] = popup[d]
    BY <1>7 DEF HasSteps
  <2>2. recorded[k] = 0
    BY <1>0, <1>4 DEF SessionsFit, RecordingsFit, SessionTypeOK
  <2>3. /\ \A u \in Tab : recorder[u] # 0 => recorder[u] < k
        /\ \A d \in Call : HasSteps(d) => popup[d].id < k /\ popup[d].id \in 1 .. k
        /\ \A i \in DOMAIN recorded : recorded[i] > 0 => i <= k
    BY <1>0, <1>2, <1>4 DEF SessionsFit, RecordingsFit, SessionTypeOK
  <2> QED BY <1>4, <1>6, <1>8, <2>1, <2>2, <2>3 DEF SessionsFit, RecordingsFit
<1> QED BY <1>9, <1>11, <1>12, <1>13, <1>14, SessionParts DEF SessionsFit

(* The worker knows that a page records.                                    *)
LEMMA RecordingStartedKeeps ==
    ASSUME SessionsFit, CapturesFit, NEW c \in Call, RecordingStarted(c)
    PROVE  SessionInvariant'
<1>0. SessionTypeOK
  BY DEF SessionsFit
<1>1. PICK t : t = popup[c].tab
  OBVIOUS
<1>2. t \in Tab /\ recorder[t] # 0 /\ popup[c].op = "started"
  BY <1>1 DEF SessionsFit, AnswersAreTrue, RecordingStarted
<1>3. /\ popup' \in PopupType /\ popup'[c].op = "none"
      /\ \A d \in Call \ {c} : popup'[d] = popup[d]
  BY <1>0, CallEnds DEF RecordingStarted, PopupType
<1>4. activeRecording' = t /\ UNCHANGED <<recorder, armed, captureSession, clicked, recorded, started>>
  BY <1>1 DEF RecordingStarted
<1>5. SessionTypeOK' /\ SavedOnce' /\ CapturesFit' /\ RecordingGoesOn'
  BY <1>2, <1>3, <1>4 DEF SessionsFit, SessionTypeOK, SavedOnce, CapturesFit, PopupType, RecordingGoesOn
<1>6. \A u : AnswersOf(u)' \subseteq AnswersOf(u)
  BY <1>3 DEF AnswersOf
<1>7. OneAnswer'
  BY <1>6 DEF SessionsFit, OneAnswer
<1>8. AnswersAreTrue'
  BY <1>3, <1>4 DEF SessionsFit, AnswersAreTrue
<1>9. RecordingsFit'
  <2>1. \A d \in Call : HasSteps(d)' => d # c /\ HasSteps(d) /\ popup'[d] = popup[d]
    BY <1>3 DEF HasSteps
  <2> QED BY <1>4, <2>1 DEF SessionsFit, RecordingsFit
<1> QED BY <1>5, <1>7, <1>8, <1>9, SessionParts DEF SessionsFit

(* A page stops recording and hands its steps out.                          *)
LEMMA PageStopsKeeps ==
    ASSUME SessionsFit, CapturesFit, NEW c \in Call, PageStopsRecording(c)
    PROVE  SessionInvariant'
<1>0. SessionTypeOK
  BY DEF SessionsFit
<1>1. PICK t : t = popup[c].tab
  OBVIOUS
<1>2. PICK k : k = recorder[t]
  OBVIOUS
<1>3. t \in Tab /\ popup[c].op = "stop" /\ AnswersOf(t) = {} /\ k # 0
  BY <1>1, <1>2 DEF SessionsFit, AnswersAreTrue, PageStopsRecording, Asks
<1>4. /\ k \in 1 .. started.recordings /\ k \in 1 .. MaxRecordings /\ recorded[k] = 0
      /\ \A u \in Tab : recorder[u] = k => u = t
      /\ \A d \in Call : HasSteps(d) => popup[d].id # k
      /\ 0 \in 0 .. MaxRecordings
  BY <1>0, <1>2, <1>3, SessionConstants DEF SessionsFit, RecordingsFit, SessionTypeOK
<1>5. recorder' = [recorder EXCEPT ![t] = 0]
  BY <1>1 DEF PageStopsRecording
<1>6. /\ recorder' \in [Tab -> 0 .. MaxRecordings] /\ recorder'[t] = 0
      /\ \A u \in Tab \ {t} : recorder'[u] = recorder[u]
  BY <1>0, <1>3, <1>4, <1>5 DEF SessionTypeOK
<1>7. /\ popup' \in PopupType /\ popup'[c].op = "stopped" /\ popup'[c].tab = t /\ popup'[c].id = k
      /\ \A d \in Call \ {c} : popup'[d] = popup[d]
  <2>1. "stopped" \in Ops /\ t \in Tab \cup {NoTab} /\ k \in 0 .. MaxRecordings + MaxCaptures
    BY <1>3, <1>4, SessionConstants DEF Ops
  <2>2. Becomes(c, "stopped", t, k)
    BY <1>1, <1>2 DEF PageStopsRecording
  <2> QED BY <1>0, <2>1, <2>2, CallMoves DEF PopupType
<1>8. UNCHANGED <<armed, activeRecording, captureSession, clicked, recorded, started>>
  BY DEF PageStopsRecording
<1>9. SessionTypeOK' /\ SavedOnce' /\ CapturesFit'
  BY <1>6, <1>7, <1>8 DEF SessionsFit, SessionTypeOK, SavedOnce, CapturesFit, PopupType
<1>10. AnswersOf(t)' = {c} /\ \A u \in Tab \ {t} : AnswersOf(u)' = AnswersOf(u)
  BY <1>3, <1>7 DEF AnswersOf
<1>11. OneAnswer'
  BY <1>10 DEF SessionsFit, OneAnswer
<1>12. RecordingGoesOn'
  <2>1. activeRecording = t => \E d \in AnswersOf(activeRecording)' : popup'[d].op = "stopped"
    BY <1>7, <1>8, <1>10
  <2>2. activeRecording \in Tab \ {t} =>
          recorder'[activeRecording] = recorder[activeRecording]
          /\ \A d \in AnswersOf(activeRecording) : d \in AnswersOf(activeRecording)' /\ popup'[d] = popup[d]
    <3>1. \A u \in Tab \ {t} : \A d \in AnswersOf(u) : d \in AnswersOf(u)' /\ popup'[d] = popup[d]
      BY <1>3, <1>7 DEF AnswersOf
    <3> QED BY <1>6, <1>8, <3>1
  <2> QED BY <1>0, <1>8, <2>1, <2>2 DEF SessionsFit, RecordingGoesOn, SessionTypeOK
<1>13. AnswersAreTrue'
  <2>1. \A d \in Call \ {c} : popup[d].op = "started" => popup[d].tab # t
    BY <1>3 DEF AnswersOf
  <2> QED BY <1>3, <1>6, <1>7, <1>8, <2>1 DEF SessionsFit, AnswersAreTrue
<1>14. RecordingsFit'
  <2>1. HasSteps(c)' /\ \A d \in Call \ {c} : HasSteps(d)' <=> HasSteps(d)
    BY <1>7 DEF HasSteps
  <2>2. \A u \in Tab : recorder'[u] # k /\ (recorder'[u] # 0 => recorder'[u] = recorder[u] /\ u # t)
    BY <1>3, <1>4, <1>6
  <2> QED BY <1>4, <1>6, <1>7, <1>8, <2>1, <2>2 DEF SessionsFit, RecordingsFit
<1> QED BY <1>9, <1>11, <1>12, <1>13, <1>14, SessionParts DEF SessionsFit

(* The worker has the steps.                                                *)
LEMMA RecordingStoppedKeeps ==
    ASSUME SessionsFit, CapturesFit, NEW c \in Call, RecordingStopped(c)
    PROVE  SessionInvariant'
<1>0. SessionTypeOK
  BY DEF SessionsFit
<1>1. PICK k : k = popup[c].id
  OBVIOUS
<1>2. k \in 0 .. MaxRecordings + MaxCaptures /\ popup[c].op = "stopped" /\ HasSteps(c)
  BY <1>0, <1>1 DEF RecordingStopped, SessionTypeOK, HasSteps
<1>3. /\ popup' \in PopupType /\ popup'[c].op = "save" /\ popup'[c].id = k
      /\ \A d \in Call \ {c} : popup'[d] = popup[d]
  <2>1. "save" \in Ops /\ NoTab \in Tab \cup {NoTab}
    BY DEF Ops
  <2>2. Becomes(c, "save", NoTab, k)
    BY <1>1 DEF RecordingStopped
  <2> QED BY <1>0, <1>2, <2>1, <2>2, CallMoves DEF PopupType
<1>4. activeRecording' = NoTab /\ UNCHANGED <<recorder, armed, captureSession, clicked, recorded, started>>
  BY DEF RecordingStopped
<1>5. SessionTypeOK' /\ SavedOnce' /\ CapturesFit' /\ RecordingGoesOn'
  BY <1>3, <1>4 DEF SessionsFit, SessionTypeOK, SavedOnce, CapturesFit, PopupType, RecordingGoesOn
<1>6. \A u : AnswersOf(u)' \subseteq AnswersOf(u)
  BY <1>3 DEF AnswersOf
<1>7. OneAnswer'
  BY <1>6 DEF SessionsFit, OneAnswer
<1>8. AnswersAreTrue'
  BY <1>3, <1>4 DEF SessionsFit, AnswersAreTrue
<1>9. RecordingsFit'
  <2>1. \A d \in Call : /\ HasSteps(d)' <=> HasSteps(d)
                        /\ popup'[d].id = popup[d].id
    BY <1>1, <1>2, <1>3 DEF HasSteps
  <2> QED BY <1>4, <2>1 DEF SessionsFit, RecordingsFit
<1> QED BY <1>5, <1>7, <1>8, <1>9, SessionParts DEF SessionsFit

(* The recording is saved.                                                  *)
LEMMA RecordingSavedKeeps ==
    ASSUME SessionsFit, CapturesFit, NEW c \in Call, RecordingSaved(c)
    PROVE  SessionInvariant'
<1>0. SessionTypeOK
  BY DEF SessionsFit
<1>1. PICK k : k = popup[c].id
  OBVIOUS
<1>2. /\ k \in 1 .. started.recordings /\ recorded[k] = 0 /\ k \in 1 .. MaxRecordings
      /\ \A t \in Tab : recorder[t] # k
      /\ \A d \in Call : HasSteps(d) /\ popup[d].id = k => d = c
  <2>1. HasSteps(c)
    BY DEF HasSteps, RecordingSaved
  <2>2. started.recordings \in 0 .. MaxRecordings /\ MaxRecordings \in Nat
    BY <1>0, SessionConstants DEF SessionTypeOK
  <2> QED BY <1>1, <2>1, <2>2 DEF SessionsFit, RecordingsFit
<1>3. /\ popup' \in PopupType /\ popup'[c].op = "none"
      /\ \A d \in Call \ {c} : popup'[d] = popup[d]
  BY <1>0, CallEnds DEF RecordingSaved, PopupType
<1>4. /\ recorded' \in [1 .. MaxRecordings -> Nat] /\ recorded'[k] = 1
      /\ \A i \in 1 .. MaxRecordings : i # k => recorded'[i] = recorded[i]
      /\ DOMAIN recorded = 1 .. MaxRecordings
  BY <1>0, <1>1, <1>2 DEF RecordingSaved, SessionTypeOK
<1>5. UNCHANGED <<recorder, armed, activeRecording, captureSession, clicked, started>>
  BY DEF RecordingSaved
<1>6. SessionTypeOK' /\ CapturesFit'
  BY <1>3, <1>4, <1>5 DEF SessionsFit, SessionTypeOK, CapturesFit, PopupType
<1>7. SavedOnce'
  BY <1>4 DEF SessionsFit, SavedOnce
<1>8. \A u : AnswersOf(u)' = AnswersOf(u) /\ c \notin AnswersOf(u)
  BY <1>3 DEF AnswersOf, RecordingSaved
<1>9. OneAnswer' /\ RecordingGoesOn'
  <2>1. \A t : \A d \in AnswersOf(t) : popup'[d] = popup[d]
    BY <1>3, <1>8 DEF AnswersOf
  <2> QED BY <1>5, <1>8, <2>1 DEF SessionsFit, OneAnswer, RecordingGoesOn
<1>10. AnswersAreTrue'
  BY <1>3, <1>5 DEF SessionsFit, AnswersAreTrue
<1>11. RecordingsFit'
  <2>1. \A d \in Call : HasSteps(d)' => d # c /\ HasSteps(d) /\ popup'[d] = popup[d]
    BY <1>3 DEF HasSteps
  <2>2. \A d \in Call : HasSteps(d)' => popup[d].id # k /\ popup[d].id \in 1 .. MaxRecordings
    <3>1. started.recordings \in 0 .. MaxRecordings /\ MaxRecordings \in Nat
      BY <1>0, SessionConstants DEF SessionTypeOK
    <3> QED BY <1>2, <2>1, <3>1 DEF SessionsFit, RecordingsFit
  <2>3. \A t \in Tab : recorder[t] # 0 => recorder[t] # k /\ recorder[t] \in 1 .. MaxRecordings
    BY <1>0, <1>2 DEF SessionTypeOK
  <2> QED BY <1>2, <1>4, <1>5, <2>1, <2>2, <2>3 DEF SessionsFit, RecordingsFit
<1> QED BY <1>6, <1>7, <1>9, <1>10, <1>11, SessionParts DEF SessionsFit

(* What holds of recordings stays when no recording, call with steps or     *)
(* saved recording changes.                                                 *)
LEMMA RecordingsStay ==
    ASSUME RecordingsFit, UNCHANGED <<recorder, recorded>>, started'.recordings = started.recordings,
           \A d \in Call : HasSteps(d)' => HasSteps(d) /\ popup'[d] = popup[d]
    PROVE  RecordingsFit'
BY DEF RecordingsFit

(* A page is armed.                                                         *)
LEMMA PageArmsKeeps ==
    ASSUME SessionsFit, CapturesFit, NEW c \in Call, PageArms(c)
    PROVE  SessionInvariant'
<1>0. SessionTypeOK
  BY DEF SessionsFit
<1>1. PICK t : t = popup[c].tab
  OBVIOUS
<1>2. PICK k : k = started.captures + 1
  OBVIOUS
<1>3. t \in Tab /\ popup[c].op = "arm" /\ AnswersOf(t) = {}
  BY <1>1 DEF SessionsFit, AnswersAreTrue, PageArms, Asks
<1>4. /\ k \in 1 .. MaxCaptures /\ k > 0
      /\ started' \in [recordings : 0 .. MaxRecordings, captures : 0 .. MaxCaptures]
      /\ started'.recordings = started.recordings
  <2>1. started.captures \in 0 .. MaxCaptures /\ started.captures < MaxCaptures /\ MaxCaptures \in Nat
    BY <1>0, SessionConstants DEF PageArms, SessionTypeOK
  <2>2. k \in 1 .. MaxCaptures /\ k > 0 /\ k \in 0 .. MaxCaptures
    BY <1>2, <2>1
  <2>3. started' = [started EXCEPT !.captures = k]
    BY <1>2 DEF PageArms
  <2> QED BY <1>0, <2>2, <2>3 DEF SessionTypeOK
<1>5. armed' = [armed EXCEPT ![t] = k]
  BY <1>1, <1>2 DEF PageArms
<1>6. /\ armed' \in [Tab -> 0 .. MaxCaptures] /\ armed'[t] = k
      /\ \A u \in Tab \ {t} : armed'[u] = armed[u]
  BY <1>0, <1>3, <1>4, <1>5 DEF SessionTypeOK
<1>7. /\ popup' \in PopupType /\ popup'[c].op = "armed" /\ popup'[c].tab = t /\ popup'[c].id = k
      /\ \A d \in Call \ {c} : popup'[d] = popup[d]
  <2>1. "armed" \in Ops /\ t \in Tab \cup {NoTab} /\ k \in 0 .. MaxRecordings + MaxCaptures
    BY <1>3, <1>4, SessionConstants DEF Ops
  <2>2. Becomes(c, "armed", t, k)
    BY <1>1, <1>2 DEF PageArms
  <2> QED BY <1>0, <2>1, <2>2, CallMoves DEF PopupType
<1>8. UNCHANGED <<recorder, activeRecording, captureSession, clicked, recorded>>
  BY DEF PageArms
<1>9. SessionTypeOK' /\ SavedOnce'
  BY <1>4, <1>6, <1>7, <1>8 DEF SessionsFit, SessionTypeOK, SavedOnce, PopupType
<1>10. CapturesFit'
  <2>1. \A u \in Tab : armed[u] # 0 => armed'[u] # 0
    BY <1>4, <1>6
  <2>2. captureSession \in Tab \cup {NoTab}
    BY <1>0 DEF SessionTypeOK
  <2> QED BY <1>8, <2>1, <2>2 DEF CapturesFit
<1>11. AnswersOf(t)' = {c} /\ \A u \in Tab \ {t} : AnswersOf(u)' = AnswersOf(u)
  BY <1>3, <1>7 DEF AnswersOf
<1>12. OneAnswer'
  BY <1>11 DEF SessionsFit, OneAnswer
<1>13. RecordingGoesOn'
  <2>1. \A u \in Tab : \A d \in AnswersOf(u) : d \in AnswersOf(u)' /\ popup'[d] = popup[d]
    BY <1>3, <1>7 DEF AnswersOf
  <2> QED BY <1>0, <1>8, <2>1 DEF SessionsFit, RecordingGoesOn, SessionTypeOK
<1>14. AnswersAreTrue'
  <2>1. \A d \in Call \ {c} : popup[d].op = "armed" => popup[d].tab # t
    BY <1>3 DEF AnswersOf
  <2> QED BY <1>3, <1>4, <1>6, <1>7, <1>8, <2>1 DEF SessionsFit, AnswersAreTrue
<1>15. RecordingsFit'
  <2>1. \A d \in Call : HasSteps(d)' => HasSteps(d) /\ popup'[d] = popup[d]
    BY <1>7 DEF HasSteps
  <2> QED BY <1>4, <1>8, <2>1, RecordingsStay DEF SessionsFit
<1> QED BY <1>9, <1>10, <1>12, <1>13, <1>14, <1>15, SessionParts DEF SessionsFit

(* The worker knows that a page is armed.                                   *)
LEMMA CaptureStartedKeeps ==
    ASSUME SessionsFit, CapturesFit, NEW c \in Call, CaptureStarted(c)
    PROVE  SessionInvariant'
<1>0. SessionTypeOK
  BY DEF SessionsFit
<1>1. PICK t : t = popup[c].tab
  OBVIOUS
<1>2. /\ t \in Tab /\ popup[c].op = "armed"
      /\ armed[t] # 0 \/ \E m \in clicked : m.tab = t
  BY <1>1 DEF SessionsFit, AnswersAreTrue, CaptureStarted
<1>3. /\ popup' \in PopupType /\ popup'[c].op = "none"
      /\ \A d \in Call \ {c} : popup'[d] = popup[d]
  BY <1>0, CallEnds DEF CaptureStarted, PopupType
<1>4. captureSession' = t /\ UNCHANGED <<recorder, armed, activeRecording, clicked, recorded, started>>
  BY <1>1 DEF CaptureStarted
<1>5. SessionTypeOK' /\ SavedOnce' /\ CapturesFit'
  BY <1>2, <1>3, <1>4 DEF SessionsFit, SessionTypeOK, SavedOnce, CapturesFit, PopupType
<1>6. \A u : AnswersOf(u)' \subseteq AnswersOf(u)
  BY <1>3 DEF AnswersOf
<1>7. OneAnswer'
  BY <1>6 DEF SessionsFit, OneAnswer
<1>8. AnswersAreTrue'
  BY <1>3, <1>4 DEF SessionsFit, AnswersAreTrue
<1>9. RecordingGoesOn'
  <2>1. \A u : \A d \in AnswersOf(u) : popup[d].op = "stopped" => d \in AnswersOf(u)' /\ popup'[d] = popup[d]
    BY <1>2, <1>3 DEF AnswersOf
  <2> QED BY <1>4, <2>1 DEF SessionsFit, RecordingGoesOn
<1>10. RecordingsFit'
  <2>1. \A d \in Call : HasSteps(d)' => HasSteps(d) /\ popup'[d] = popup[d]
    BY <1>3 DEF HasSteps
  <2> QED BY <1>4, <2>1, RecordingsStay DEF SessionsFit
<1> QED BY <1>5, <1>7, <1>8, <1>9, <1>10, SessionParts DEF SessionsFit

(* Clicks and what is heard of them change neither calls nor recordings.    *)
LEMMA ClicksKeep ==
    ASSUME SessionsFit, SessionTypeOK', CapturesFit', AnswersAreTrue',
           UNCHANGED <<recorder, activeRecording, popup, recorded, started>>
    PROVE  SessionInvariant'
<1>1. SavedOnce' /\ OneAnswer' /\ RecordingGoesOn'
  BY DEF SessionsFit, SavedOnce, OneAnswer, RecordingGoesOn, AnswersOf
<1>2. RecordingsFit'
  BY RecordingsStay DEF SessionsFit, HasSteps
<1> QED BY <1>1, <1>2, SessionParts DEF SessionsFit

(* The page sends a click.                                                  *)
LEMMA ClickKeeps ==
    ASSUME SessionsFit, CapturesFit, NEW t \in Tab, Clicks(t)
    PROVE  SessionInvariant'
<1>0. SessionTypeOK
  BY DEF SessionsFit
<1>1. PICK n : n = [tab |-> t, id |-> armed[t], heard |-> FALSE]
  OBVIOUS
<1>2. /\ armed[t] # 0 /\ clicked' = clicked \cup {n} /\ armed' = [armed EXCEPT ![t] = 0]
      /\ UNCHANGED <<recorder, activeRecording, captureSession, popup, recorded, started>>
  BY <1>1 DEF Clicks
<1>3. armed[t] \in 1 .. MaxCaptures /\ 0 \in 0 .. MaxCaptures
  BY <1>0, <1>2, SessionConstants DEF SessionTypeOK
<1>4. n \in [tab : Tab, id : 1 .. MaxCaptures, heard : BOOLEAN]
      /\ n.tab = t /\ n.id = armed[t] /\ ~n.heard /\ n \in clicked'
  BY <1>1, <1>2, <1>3
<1>5. armed' \in [Tab -> 0 .. MaxCaptures] /\ \A u \in Tab \ {t} : armed'[u] = armed[u]
  BY <1>0, <1>2, <1>3 DEF SessionTypeOK
<1>6. SessionTypeOK'
  BY <1>0, <1>2, <1>4, <1>5 DEF SessionTypeOK
<1>7. CapturesFit'
  <2>1. captureSession \in Tab \cup {NoTab}
    BY <1>0 DEF SessionTypeOK
  <2> QED BY <1>2, <1>4, <1>5, <2>1 DEF CapturesFit
<1>8. AnswersAreTrue'
  <2>1. ASSUME NEW c \in Call, popup[c].op = "armed"
        PROVE  \/ armed'[popup[c].tab] = popup[c].id
               \/ \E m \in clicked' : m.tab = popup[c].tab /\ m.id = popup[c].id /\ ~m.heard
    <3>1. popup[c].tab \in Tab
      BY <2>1 DEF SessionsFit, AnswersAreTrue
    <3>2. CASE armed[popup[c].tab] = popup[c].id
      BY <1>4, <1>5, <3>1, <3>2
    <3>3. CASE \E m \in clicked : m.tab = popup[c].tab /\ m.id = popup[c].id /\ ~m.heard
      BY <1>2, <3>3
    <3> QED BY <2>1, <3>2, <3>3 DEF SessionsFit, AnswersAreTrue
  <2> QED BY <1>2, <2>1 DEF SessionsFit, AnswersAreTrue
<1> QED BY <1>2, <1>6, <1>7, <1>8, ClicksKeep

(* The worker hears of a click, of none that a page sent after an answer    *)
(* still to come.                                                           *)
LEMMA CaptureIsHeardKeeps ==
    ASSUME SessionsFit, CapturesFit, NEW m \in clicked, CaptureIsHeard(m)
    PROVE  SessionInvariant'
<1>0. SessionTypeOK
  BY DEF SessionsFit
<1>1. PICK n : n = [m EXCEPT !.heard = TRUE]
  OBVIOUS
<1>2. /\ m.tab \in Tab /\ m.id \in 1 .. MaxCaptures
      /\ n \in [tab : Tab, id : 1 .. MaxCaptures, heard : BOOLEAN] /\ n.tab = m.tab
  BY <1>0, <1>1 DEF SessionTypeOK
<1>3. /\ clicked' = IF captureSession = m.tab THEN (clicked \ {m}) \cup {n} ELSE clicked \ {m}
      /\ UNCHANGED <<recorder, armed, activeRecording, captureSession, popup, recorded, started>>
  BY <1>1 DEF CaptureIsHeard
<1>4. SessionTypeOK'
  <2>1. clicked' \subseteq [tab : Tab, id : 1 .. MaxCaptures, heard : BOOLEAN]
    BY <1>0, <1>2, <1>3 DEF SessionTypeOK
  <2> QED BY <1>0, <1>3, <2>1 DEF SessionTypeOK
<1>5. CapturesFit'
  BY <1>2, <1>3 DEF CapturesFit
<1>6. AnswersAreTrue'
  <2>1. ASSUME NEW c \in Call, popup[c].op = "armed", NEW k \in clicked,
               k.tab = popup[c].tab, k.id = popup[c].id, ~k.heard
        PROVE  k \in clicked'
    <3>1. k = m => c \in AnswersOf(m.tab)
      BY <2>1 DEF AnswersOf
    <3>2. k = m => popup[c].id > m.id
      BY <2>1, <3>1 DEF CaptureIsHeard
    <3>3. k # m
      BY <1>2, <2>1, <3>2
    <3> QED BY <1>3, <3>3
  <2> QED BY <1>3, <2>1 DEF SessionsFit, AnswersAreTrue
<1> QED BY <1>3, <1>4, <1>5, <1>6, ClicksKeep

(* The capture is saved.                                                    *)
LEMMA CaptureSavedKeeps ==
    ASSUME SessionsFit, CapturesFit, NEW m \in clicked, CaptureSaved(m)
    PROVE  SessionInvariant'
<1>1. /\ m.heard /\ clicked' = clicked \ {m} /\ captureSession' = NoTab
      /\ UNCHANGED <<recorder, armed, activeRecording, popup, recorded, started>>
  BY DEF CaptureSaved
<1>2. SessionTypeOK' /\ CapturesFit'
  BY <1>1 DEF SessionsFit, SessionTypeOK, CapturesFit
<1>3. AnswersAreTrue'
  BY <1>1 DEF SessionsFit, AnswersAreTrue
<1> QED BY <1>1, <1>2, <1>3, ClicksKeep

(* A tab goes, with what its page had to say.                               *)
LEMMA TabGoesKeeps ==
    ASSUME SessionsFit, CapturesFit, NEW t \in Tab, TabGoes(t)
    PROVE  SessionInvariant'
<1>0. SessionTypeOK
  BY DEF SessionsFit
<1>1. /\ recorder' = [recorder EXCEPT ![t] = 0] /\ armed' = [armed EXCEPT ![t] = 0]
      /\ activeRecording' = IF activeRecording = t THEN NoTab ELSE activeRecording
      /\ captureSession' = IF captureSession = t THEN NoTab ELSE captureSession
      /\ UNCHANGED <<clicked, recorded, started>>
  BY DEF TabGoes
<1>2. /\ \A c \in AnswersOf(t) : popup'[c] = Hung
      /\ \A c \in Call \ AnswersOf(t) : popup'[c] = popup[c]
      /\ popup' \in PopupType
  <2>1. Hung \in [op : Ops, tab : Tab \cup {NoTab}, id : 0 .. MaxRecordings + MaxCaptures]
    BY SessionConstants DEF Hung, Ops
  <2>2. popup' = [c \in Call |-> IF c \in AnswersOf(t) THEN Hung ELSE popup[c]]
    BY DEF TabGoes
  <2>3. AnswersOf(t) \subseteq Call
    BY DEF AnswersOf
  <2> QED BY <1>0, <2>1, <2>2, <2>3 DEF SessionTypeOK, PopupType
<1>3. Hung.op = "none"
  BY DEF Hung
<1>4. /\ recorder' \in [Tab -> 0 .. MaxRecordings] /\ recorder'[t] = 0
      /\ \A u \in Tab \ {t} : recorder'[u] = recorder[u]
      /\ armed' \in [Tab -> 0 .. MaxCaptures] /\ armed'[t] = 0
      /\ \A u \in Tab \ {t} : armed'[u] = armed[u]
  <2>1. 0 \in 0 .. MaxRecordings /\ 0 \in 0 .. MaxCaptures
    BY SessionConstants
  <2> QED BY <1>0, <1>1, <2>1 DEF SessionTypeOK
<1>5. SessionTypeOK' /\ SavedOnce'
  BY <1>1, <1>2, <1>4 DEF SessionsFit, SessionTypeOK, SavedOnce, PopupType
<1>6. CapturesFit'
  BY <1>0, <1>1, <1>4 DEF CapturesFit, SessionTypeOK
<1>7. \A c \in Call : popup'[c].op # "none" => c \notin AnswersOf(t) /\ popup'[c] = popup[c]
  BY <1>2, <1>3
<1>8. /\ \A u : AnswersOf(u)' \subseteq AnswersOf(u)
      /\ \A u \in Tab \ {t} : \A d \in AnswersOf(u) : d \in AnswersOf(u)' /\ popup'[d] = popup[d]
  BY <1>2, <1>7 DEF AnswersOf
<1>9. OneAnswer'
  BY <1>8 DEF SessionsFit, OneAnswer
<1>10. RecordingGoesOn'
  <2>1. activeRecording' # NoTab => activeRecording' = activeRecording /\ activeRecording \in Tab \ {t}
    BY <1>0, <1>1 DEF SessionTypeOK
  <2>2. ASSUME activeRecording' # NoTab
        PROVE  \/ recorder'[activeRecording] # 0
               \/ \E c \in AnswersOf(activeRecording)' : popup'[c].op = "stopped"
    BY <1>4, <1>8, <2>1, <2>2 DEF SessionsFit, RecordingGoesOn
  <2> QED BY <2>1, <2>2 DEF RecordingGoesOn
<1>11. AnswersAreTrue'
  <2>1. \A c \in Call : popup'[c].op \in {"started", "armed"} => popup[c].tab \in Tab \ {t}
    BY <1>7 DEF SessionsFit, AnswersAreTrue, AnswersOf
  <2> QED BY <1>1, <1>4, <1>7, <2>1 DEF SessionsFit, AnswersAreTrue
<1>12. RecordingsFit'
  <2>1. \A d \in Call : HasSteps(d)' => HasSteps(d) /\ popup'[d] = popup[d]
    BY <1>7 DEF HasSteps
  <2>2. \A u \in Tab : recorder'[u] # 0 => recorder'[u] = recorder[u] /\ recorder[u] # 0
    BY <1>4
  <2>3. \A c \in Call : HasSteps(c) => popup[c].id # 0
    BY <1>0 DEF SessionsFit, RecordingsFit, SessionTypeOK
  <2>4. \A c \in Call : HasSteps(c) => \A u \in Tab : recorder'[u] # popup[c].id
    BY <2>2, <2>3 DEF SessionsFit, RecordingsFit
  <2> QED BY <1>1, <2>1, <2>2, <2>4 DEF SessionsFit, RecordingsFit
<1> QED BY <1>5, <1>6, <1>9, <1>10, <1>11, <1>12, SessionParts DEF SessionsFit

(* Every step keeps it.                                                     *)
LEMMA SessionNextKeeps ==
    SessionInvariant /\ [SessionNext]_sessionVars => SessionInvariant'
<1> SUFFICES ASSUME SessionInvariant, [SessionNext]_sessionVars
             PROVE  SessionInvariant'
  OBVIOUS
<1>1. SessionsFit /\ CapturesFit
  BY SessionParts
<1>2. CASE UNCHANGED sessionVars
  BY <1>2 DEF sessionVars, SessionInvariant, SessionTypeOK, SavedOnce, SessionsAreOfPages, Asks,
       OneAnswer, RecordingsFit, AnswersAreTrue, RecordingGoesOn, AnswersOf, HasSteps
<1>3. ASSUME NEW c \in Call,
             \/ Calls(c) \/ CallFails(c) \/ PageStartsRecording(c) \/ RecordingStarted(c)
             \/ PageStopsRecording(c) \/ NothingIsRecorded(c) \/ RecordingStopped(c) \/ RecordingSaved(c)
             \/ PageArms(c) \/ CaptureStarted(c)
      PROVE  SessionInvariant'
  BY <1>1, <1>3, CallsKeep, PageStartsKeeps, RecordingStartedKeeps, PageStopsKeeps,
     RecordingStoppedKeeps, RecordingSavedKeeps, PageArmsKeeps, CaptureStartedKeeps
<1>4. ASSUME NEW t \in Tab, Clicks(t) \/ TabGoes(t)
      PROVE  SessionInvariant'
  BY <1>1, <1>4, ClickKeeps, TabGoesKeeps
<1>5. ASSUME NEW m \in clicked, CaptureIsHeard(m) \/ CaptureSaved(m)
      PROVE  SessionInvariant'
  BY <1>1, <1>5, CaptureIsHeardKeeps, CaptureSavedKeeps
<1> QED BY <1>2, <1>3, <1>4, <1>5 DEF SessionNext

-----------------------------------------------------------------------------
(* Injections.                                                              *)

ObjectType == [url : Url, content : BOOLEAN, bridge : BOOLEAN, applied : BOOLEAN, crossed : BOOLEAN]

TaskType == [kind : {"none", "inject", "command", "call"}, at : Stages, round : {1, 2},
             object : Object \cup {NoObject}, load : 0 .. MaxLoads, alone : BOOLEAN]

DocumentType == [load : 0 .. MaxLoads, url : Url, content : BOOLEAN, bridge : BOOLEAN, executed : BOOLEAN,
                 slow : BOOLEAN]

InjectionFits == InjectionTypeOK /\ ObjectsAreSo /\ StagesAreSo /\ SecondRoundsFit

(* The object remembered is one of those in use.                            *)
LEMMA InjectionParts ==
    /\ InjectionInvariant => InjectionFits
    /\ InjectionFits => InjectionInvariant
    /\ InjectionFits' => InjectionInvariant'
<1>1. InjectionTypeOK /\ ObjectsAreSo => RemembersTheDocument
  BY DEF InjectionTypeOK, ObjectsAreSo, InUse, RemembersTheDocument, IsSo
<1>2. InjectionTypeOK' /\ ObjectsAreSo' => RemembersTheDocument'
  BY DEF InjectionTypeOK, ObjectsAreSo, InUse, RemembersTheDocument, IsSo
<1> QED BY <1>1, <1>2 DEF InjectionFits, InjectionInvariant

(* An object without a use, and a new one.                                  *)
LEMMA NothingTyped ==
    ASSUME NEW u \in Url
    PROVE  /\ Nothing(u) \in ObjectType /\ Nothing(u).url = u /\ ~Nothing(u).crossed
           /\ ~Nothing(u).content /\ ~Nothing(u).bridge /\ ~Nothing(u).applied
           /\ Unused \in ObjectType /\ ~Unused.crossed
<1>1. (CHOOSE v \in Url : TRUE) \in Url
  OBVIOUS
<1> QED BY <1>1 DEF Nothing, Unused, ObjectType

(* What the types say.                                                      *)
LEMMA InjectionTypes ==
    /\ InjectionTypeOK <=>
         /\ document \in DocumentType /\ autoBridge \in BOOLEAN
         /\ injected \in Object \cup {NoObject}
         /\ known \in [Object -> ObjectType] /\ task \in [Task -> TaskType]
         /\ pageTroubles \in 0 .. MaxPageTroubles
    /\ InjectionTypeOK' <=>
         /\ document' \in DocumentType /\ autoBridge' \in BOOLEAN
         /\ injected' \in Object \cup {NoObject}
         /\ known' \in [Object -> ObjectType] /\ task' \in [Task -> TaskType]
         /\ pageTroubles' \in 0 .. MaxPageTroubles
BY DEF InjectionTypeOK, DocumentType, ObjectType, TaskType

(* What is free.                                                            *)
LEMMA FreeTyped ==
    /\ Free \in TaskType /\ Free.at = "free" /\ Free.kind = "none" /\ Free.object = NoObject
    /\ Free.round = 1 /\ Free.alone
BY InjectionConstants DEF Free, TaskType, Stages

(* At first nothing has been injected.                                      *)
LEMMA InjectionInitHolds == InjectionInit => InjectionInvariant
<1> SUFFICES ASSUME InjectionInit
             PROVE  InjectionInvariant
  OBVIOUS
<1>1. PICK u \in Url : document = Empty(u, 0)
  BY DEF InjectionInit
<1>2. document \in DocumentType
  BY <1>1, InjectionConstants DEF Empty, DocumentType
<1>3. Unused \in ObjectType
  BY NothingTyped
<1>4. \A t \in Task : task[t] = Free
  BY DEF InjectionInit
<1>5. InjectionTypeOK
  BY <1>2, <1>3, InjectionTypes, FreeTyped, InjectionConstants DEF InjectionInit
<1>6. ObjectsAreSo
  BY <1>4, FreeTyped, InjectionConstants DEF InjectionInit, ObjectsAreSo, InUse
<1>7. StagesAreSo /\ SecondRoundsFit
  BY <1>4, FreeTyped DEF StagesAreSo, SecondRoundsFit, At, Busy
<1> QED BY <1>5, <1>6, <1>7, InjectionParts DEF InjectionFits

(* There is an object for a task that has none.                             *)
LEMMA NewObjectIsNew ==
    ASSUME InjectionTypeOK, NEW t \in Task, task[t].object = NoObject
    PROVE  /\ NewObject \in Object /\ NewObject # injected
           /\ \A s \in Task : task[s].object # NewObject
<1>1. PICK held : held = {task[s].object : s \in Task}
  OBVIOUS
<1>2. IsFiniteSet(held) /\ Cardinality(held) <= Cardinality(Task)
  <2>1. PICK f : f = [s \in Task |-> task[s].object]
    OBVIOUS
  <2>2. f \in Surjection(Task, held)
    BY <1>1, <2>1 DEF Surjection
  <2> QED BY <2>2, FS_Surjection, InjectionConstants
<1>3. NoObject \in held
  BY <1>1
<1>4. PICK rest : rest = held \ {NoObject}
  OBVIOUS
<1>5. IsFiniteSet(rest) /\ Cardinality(rest) = Cardinality(held) - 1
  BY <1>2, <1>3, <1>4, FS_RemoveElement
<1>6. PICK used : used = rest \cup {injected}
  OBVIOUS
<1>7. IsFiniteSet(used) /\ (Cardinality(used) = Cardinality(rest) \/ Cardinality(used) = Cardinality(rest) + 1)
  BY <1>5, <1>6, FS_AddElement
<1>8. Cardinality(Task) \in Nat /\ Cardinality(held) \in Nat /\ Cardinality(rest) \in Nat
      /\ Cardinality(used) \in Nat /\ Cardinality(Object) \in Nat
  BY <1>2, <1>5, <1>7, InjectionConstants, FS_CardinalityType
<1>9. Cardinality(used) < Cardinality(Object)
  BY <1>2, <1>5, <1>7, <1>8, InjectionConstants
<1>10. ~(Object \subseteq used)
  <2>1. Object \subseteq used => Cardinality(Object) <= Cardinality(used)
    BY <1>7, FS_Subset
  <2> QED BY <1>8, <1>9, <2>1
<1>11. \E o \in Object : injected # o /\ \A s \in Task : task[s].object # o
  BY <1>1, <1>4, <1>6, <1>10, InjectionConstants
<1> QED BY <1>11 DEF NewObject

(* Only what is not replaced with the document is added to it.              *)
DocumentGrows ==
    /\ document'.url = document.url
    /\ document.content => document'.content
    /\ document.bridge => document'.bridge
    /\ document.executed => document'.executed

(* What was so stays so.                                                    *)
LEMMA StaysSo ==
    ASSUME DocumentGrows, NEW k, IsSo(k)
    PROVE  /\ k.url = document'.url
           /\ k.content => document'.content
           /\ k.bridge => document'.bridge
           /\ k.applied => document'.executed
BY DEF DocumentGrows, IsSo

(* What is said of an object holds after a step.                            *)
IsSoThen(k) ==
    /\ k.url = document'.url
    /\ k.content => document'.content
    /\ k.bridge => document'.bridge
    /\ k.applied => document'.executed

(* A busy task goes on as r: nobody else is disturbed, and the parts hold   *)
(* if they hold of r.                                                       *)
LEMMA TaskMoves ==
    ASSUME InjectionFits, NEW t \in Task, Busy(t), NEW r \in TaskType, task' = [task EXCEPT ![t] = r],
           document' \in DocumentType, DocumentGrows, autoBridge' = autoBridge,
           pageTroubles' \in 0 .. MaxPageTroubles,
           injected' \in Object \cup {NoObject}, known' \in [Object -> ObjectType],
           \A s \in Task \ {t} : task[s].object # NoObject
               => known'[task[s].object].crossed = known[task[s].object].crossed,
           \A p \in Object : (p = injected' \/ p = r.object \/ p \in Others(t)) /\ ~known'[p].crossed
               => IsSoThen(known'[p]),
           r.object = NoObject <=> r.at \in {"free", "look", "dispatch", "heard", "lost"},
           r.kind = "none" <=> r.at = "free",
           r.at \in {"dispatch", "heard", "lost"} => r.kind # "inject",
           r.object # NoObject /\ ~known'[r.object].crossed =>
               /\ r.at = "contentDone" => document'.content
               /\ r.at = "bridgeDone" => document'.bridge
               /\ r.at = "scriptDone" => document'.executed,
           r.at # "free" => r.alone = task[t].alone,
           r.at # "free" /\ r.alone /\ r.round = 2 =>
               /\ r.kind # "inject"
               /\ r.at = "look" => injected' = NoObject
               /\ r.object # NoObject => ~known'[r.object].crossed
               /\ r.at = "dispatch" => document'.content /\ (r.kind = "command" \/ document'.bridge)
               /\ r.at # "lost"
    PROVE  InjectionInvariant'
<1>1. /\ task \in [Task -> TaskType] /\ autoBridge \in BOOLEAN
  BY InjectionTypes DEF InjectionFits
<1>2. /\ task' \in [Task -> TaskType] /\ task'[t] = r
      /\ \A s \in Task \ {t} : task'[s] = task[s]
  BY <1>1
<1>3. InjectionTypeOK'
  BY <1>1, <1>2, InjectionTypes
<1>4. ObjectsAreSo'
  <2>1. ASSUME NEW p \in Object, InUse(p)', ~known'[p].crossed
        PROVE  IsSo(known[p])'
    <3>1. p = injected' \/ p = r.object \/ p \in Others(t)
      BY <1>2, <2>1 DEF InUse, Others
    <3> QED BY <2>1, <3>1 DEF IsSo, IsSoThen
  <2> QED BY <2>1 DEF ObjectsAreSo
<1>5. StagesAreSo'
  <2>1. ASSUME NEW s \in Task \ {t}
        PROVE  /\ task'[s].object = NoObject <=> task'[s].at \in {"free", "look", "dispatch", "heard", "lost"}
               /\ task'[s].kind = "none" <=> task'[s].at = "free"
               /\ task'[s].at \in {"dispatch", "heard", "lost"} => task'[s].kind # "inject"
               /\ task'[s].object # NoObject /\ ~known'[task'[s].object].crossed =>
                     /\ task'[s].at = "contentDone" => document'.content
                     /\ task'[s].at = "bridgeDone" => document'.bridge
                     /\ task'[s].at = "scriptDone" => document'.executed
    BY <1>2 DEF InjectionFits, StagesAreSo, At, DocumentGrows
  <2> QED BY <1>2, <2>1 DEF StagesAreSo, At
<1>6. SecondRoundsFit'
  <2>1. \A s \in Task : Busy(s)' <=> IF s = t THEN r.at # "free" ELSE Busy(s)
    BY <1>2 DEF Busy
  <2>2. \A s \in Task \ {t} : Busy(s)' => ~task'[s].alone
    BY <1>2, <2>1 DEF InjectionFits, SecondRoundsFit
  <2>3. ASSUME r.at # "free", r.alone
        PROVE  \A s \in Task \ {t} : ~Busy(s)'
    BY <2>1, <2>3 DEF InjectionFits, SecondRoundsFit
  <2> QED BY <1>2, <2>1, <2>2, <2>3 DEF SecondRoundsFit, At, Hears
<1> QED BY <1>3, <1>4, <1>5, <1>6, InjectionParts DEF InjectionFits

(* What a task and its object are.                                          *)
LEMMA TaskOf ==
    ASSUME InjectionFits, NEW t \in Task
    PROVE  /\ document \in DocumentType /\ autoBridge \in BOOLEAN
           /\ injected \in Object \cup {NoObject} /\ known \in [Object -> ObjectType]
           /\ task \in [Task -> TaskType] /\ task[t] \in TaskType
           /\ pageTroubles \in 0 .. MaxPageTroubles /\ NoObject \notin Object
           /\ Unused \in ObjectType
           /\ task[t].object = NoObject <=> task[t].at \in {"free", "look", "dispatch", "heard", "lost"}
           /\ task[t].kind = "none" <=> task[t].at = "free"
           /\ \A s \in Task \ {t} : task[s].object # NoObject => task[s].object \in Others(t) /\ task[s].object \in Object
           /\ \A p \in Object : (p = injected \/ p = task[t].object \/ p \in Others(t)) => InUse(p)
           /\ \A p \in Object : InUse(p) /\ ~known[p].crossed => IsSo(known[p])
<1>1. InjectionTypeOK /\ ObjectsAreSo /\ StagesAreSo
  BY DEF InjectionFits
<1>2. /\ document \in DocumentType /\ autoBridge \in BOOLEAN
      /\ injected \in Object \cup {NoObject} /\ known \in [Object -> ObjectType]
      /\ task \in [Task -> TaskType] /\ pageTroubles \in 0 .. MaxPageTroubles /\ NoObject \notin Object
  BY <1>1, InjectionTypes, InjectionConstants
<1>3. document.url \in Url
  BY <1>2 DEF DocumentType
<1>4. \A s \in Task : task[s] \in TaskType /\ task[s].object \in Object \cup {NoObject}
  BY <1>2 DEF TaskType
<1> QED BY <1>1, <1>2, <1>3, <1>4, NothingTyped DEF StagesAreSo, At, ObjectsAreSo, Others, InUse

(* What is kept of the objects, and what is like new.                       *)
LEMMA KeptIs ==
    ASSUME NEW objects \in [Object -> ObjectType], NEW used, Unused \in ObjectType
    PROVE  /\ Kept(objects, used) \in [Object -> ObjectType]
           /\ \A p \in Object \cap used : Kept(objects, used)[p] = objects[p]
           /\ \A p \in Object \ used : Kept(objects, used)[p] = Unused
BY DEF Kept

(* ensureScriptsInjected() goes on with an object that is so.               *)
LEMMA GoesOnKeeps ==
    ASSUME InjectionFits, NEW t \in Task, Busy(t), ~At(t, "dispatch"),
           NEW o \in Object, NEW objects \in [Object -> ObjectType],
           UNCHANGED <<document, autoBridge, pageTroubles>>, GoesOn(t, o, objects),
           \A p \in Object : p # o /\ (p = injected \/ p \in Others(t)) => objects[p] = known[p],
           o \in Others(t) => objects[o].crossed = known[o].crossed,
           ~objects[o].crossed => IsSo(objects[o]),
           task[t].alone /\ task[t].round = 2 => ~objects[o].crossed
    PROVE  InjectionInvariant'
<1>0. /\ document \in DocumentType /\ autoBridge \in BOOLEAN
      /\ injected \in Object \cup {NoObject} /\ known \in [Object -> ObjectType]
      /\ task \in [Task -> TaskType] /\ task[t] \in TaskType
      /\ pageTroubles \in 0 .. MaxPageTroubles /\ NoObject \notin Object
      /\ Unused \in ObjectType
      /\ task[t].kind = "none" <=> task[t].at = "free"
      /\ \A s \in Task \ {t} : task[s].object # NoObject => task[s].object \in Others(t) /\ task[s].object \in Object
      /\ \A p \in Object : (p = injected \/ p = task[t].object \/ p \in Others(t)) => InUse(p)
      /\ \A p \in Object : InUse(p) /\ ~known[p].crossed => IsSo(known[p])
  BY TaskOf
<1>1. DocumentGrows /\ \A k : IsSo(k) => IsSoThen(k)
  BY DEF DocumentGrows, IsSo, IsSoThen
<1>2. \A p \in Object : (p = o \/ p = injected \/ p \in Others(t)) /\ ~objects[p].crossed => IsSo(objects[p])
  BY <1>0
<1>3. \A s \in Task \ {t} : task[s].object # NoObject
        => objects[task[s].object].crossed = known[task[s].object].crossed
  BY <1>0
<1>4. task[t].kind \in {"inject", "command", "call"} /\ task[t].at # "free"
  BY <1>0 DEF Busy, TaskType
<1>5. task[t].alone /\ task[t].round = 2 => task[t].kind # "inject"
  BY DEF InjectionFits, SecondRoundsFit
<1>6. CASE NextStage(t, objects[o]) = "set"
  <2>1. PICK K : K = Kept(objects, Others(t) \cup {o})
    OBVIOUS
  <2>2. /\ K \in [Object -> ObjectType]
        /\ \A p \in Object : p = o \/ p \in Others(t) => K[p] = objects[p]
    BY <1>0, <2>1, KeptIs
  <2>3. PICK r : r = IF task[t].kind = "inject" THEN Free ELSE [task[t] EXCEPT !.at = "dispatch", !.object = NoObject]
    OBVIOUS
  <2>4. injected' = o /\ known' = K /\ task' = [task EXCEPT ![t] = r]
    BY <1>0, <1>6, <2>1, <2>3 DEF GoesOn
  <2>5. /\ r \in TaskType /\ r.object = NoObject /\ r.at \in {"free", "dispatch"}
        /\ r.kind = "none" <=> r.at = "free"
        /\ r.at = "dispatch" => /\ r.kind \in {"command", "call"} /\ r.kind = task[t].kind
                                /\ r.alone = task[t].alone /\ r.round = task[t].round
    <3>1. CASE task[t].kind = "inject"
      BY <2>3, <3>1, FreeTyped
    <3>2. CASE task[t].kind # "inject"
      BY <1>0, <1>4, <2>3, <3>2 DEF TaskType, Stages
    <3> QED BY <3>1, <3>2
  <2>6. objects[o].content /\ (WantsBridge(t) => objects[o].bridge)
    <3>1. objects[o].content
      BY <1>6 DEF NextStage
    <3>2. WantsBridge(t) => objects[o].bridge
      BY <1>6, <3>1 DEF NextStage
    <3> QED BY <3>1, <3>2
  <2>7. ASSUME r.at = "dispatch", r.alone, r.round = 2
        PROVE  document'.content /\ (r.kind = "command" \/ document'.bridge)
    <3>1. IsSoThen(objects[o])
      BY <1>1, <2>5, <2>7
    <3> QED BY <2>5, <2>6, <2>7, <3>1 DEF IsSoThen, WantsBridge
  <2>8. \A s \in Task \ {t} : task[s].object # NoObject
          => K[task[s].object].crossed = known[task[s].object].crossed
    BY <1>0, <1>3, <2>2
  <2>9. \A p \in Object : (p = o \/ p = r.object \/ p \in Others(t)) /\ ~K[p].crossed => IsSoThen(K[p])
    BY <1>0, <1>1, <1>2, <2>2, <2>5
  <2>10. injected' \in Object \cup {NoObject} /\ document' = document /\ pageTroubles' = pageTroubles
         /\ autoBridge' = autoBridge
    BY <2>4
  <2>11. /\ document' \in DocumentType /\ autoBridge' = autoBridge
         /\ pageTroubles' \in 0 .. MaxPageTroubles /\ known' \in [Object -> ObjectType]
    BY <1>0, <2>2, <2>4, <2>10
  <2>12. /\ \A s \in Task \ {t} : task[s].object # NoObject
               => known'[task[s].object].crossed = known[task[s].object].crossed
         /\ \A p \in Object : (p = injected' \/ p = r.object \/ p \in Others(t)) /\ ~known'[p].crossed
               => IsSoThen(known'[p])
    BY <2>4, <2>8, <2>9
  <2>13. /\ r.object = NoObject <=> r.at \in {"free", "look", "dispatch", "heard", "lost"}
         /\ r.kind = "none" <=> r.at = "free"
         /\ r.at \in {"dispatch", "heard", "lost"} => r.kind # "inject"
         /\ r.at # "free" => r.alone = task[t].alone
         /\ r.at \notin {"look", "contentDone", "bridgeDone", "scriptDone", "lost"}
    BY <2>5
  <2> QED BY <1>1, <2>4, <2>5, <2>7, <2>10, <2>11, <2>12, <2>13, TaskMoves
<1>7. CASE NextStage(t, objects[o]) # "set"
  <2>1. PICK K : K = Kept(objects, Others(t) \cup {o, injected})
    OBVIOUS
  <2>2. /\ K \in [Object -> ObjectType]
        /\ \A p \in Object : p = o \/ p = injected \/ p \in Others(t) => K[p] = objects[p]
    BY <1>0, <2>1, KeptIs
  <2>3. PICK at : at = NextStage(t, objects[o])
    OBVIOUS
  <2>4. PICK r : r = [task[t] EXCEPT !.at = at, !.object = o]
    OBVIOUS
  <2>5. at \in {"content", "bridge", "script"}
    BY <1>7, <2>3 DEF NextStage
  <2>6. injected' = injected /\ known' = K /\ task' = [task EXCEPT ![t] = r]
    BY <1>0, <1>7, <2>1, <2>3, <2>4 DEF GoesOn
  <2>7. /\ r \in TaskType /\ r.object = o /\ r.at = at /\ r.kind = task[t].kind
        /\ r.alone = task[t].alone /\ r.round = task[t].round
    BY <1>0, <2>4, <2>5 DEF TaskType, Stages
  <2>8. \A s \in Task \ {t} : task[s].object # NoObject
          => K[task[s].object].crossed = known[task[s].object].crossed
    BY <1>0, <1>3, <2>2
  <2>9. \A p \in Object : (p = injected \/ p = r.object \/ p \in Others(t)) /\ ~K[p].crossed => IsSoThen(K[p])
    BY <1>0, <1>1, <1>2, <2>2, <2>7
  <2>10. document' = document /\ pageTroubles' = pageTroubles /\ autoBridge' = autoBridge
    OBVIOUS
  <2>11. K[o] = objects[o]
    BY <2>2
  <2>12. /\ document' \in DocumentType /\ injected' \in Object \cup {NoObject}
         /\ pageTroubles' \in 0 .. MaxPageTroubles /\ known' \in [Object -> ObjectType]
    BY <1>0, <2>2, <2>6, <2>10
  <2>13. /\ \A s \in Task \ {t} : task[s].object # NoObject
               => known'[task[s].object].crossed = known[task[s].object].crossed
         /\ \A p \in Object : (p = injected' \/ p = r.object \/ p \in Others(t)) /\ ~known'[p].crossed
               => IsSoThen(known'[p])
    BY <2>6, <2>8, <2>9
  <2>14. /\ r.object # NoObject /\ r.kind # "none" /\ r.alone = task[t].alone
         /\ r.at \notin {"free", "look", "dispatch", "heard", "lost"}
         /\ r.at \notin {"contentDone", "bridgeDone", "scriptDone"}
    BY <1>0, <1>4, <2>5, <2>7
  <2>15. r.alone /\ r.round = 2 => r.kind # "inject" /\ ~known'[r.object].crossed
    BY <1>5, <2>6, <2>7, <2>11
  <2> QED BY <1>1, <2>6, <2>7, <2>10, <2>12, <2>13, <2>14, <2>15, TaskMoves
<1> QED BY <1>6, <1>7

(* A task gives up.                                                         *)
LEMMA RejectsKeeps ==
    ASSUME InjectionFits, NEW t \in Task, Busy(t), Rejects(t),
           document' \in DocumentType, DocumentGrows,
           UNCHANGED <<autoBridge, injected>>, pageTroubles' \in 0 .. MaxPageTroubles
    PROVE  InjectionInvariant'
<1>0. /\ injected \in Object \cup {NoObject} /\ known \in [Object -> ObjectType]
      /\ task \in [Task -> TaskType] /\ NoObject \notin Object /\ Unused \in ObjectType
      /\ \A s \in Task \ {t} : task[s].object # NoObject => task[s].object \in Others(t) /\ task[s].object \in Object
      /\ \A p \in Object : (p = injected \/ p = task[t].object \/ p \in Others(t)) => InUse(p)
      /\ \A p \in Object : InUse(p) /\ ~known[p].crossed => IsSo(known[p])
  BY TaskOf
<1>1. \A k : IsSo(k) => IsSoThen(k)
  BY DEF DocumentGrows, IsSo, IsSoThen
<1>2. PICK K : K = Kept(known, Others(t) \cup {injected})
  OBVIOUS
<1>3. /\ K \in [Object -> ObjectType]
      /\ \A p \in Object : p = injected \/ p \in Others(t) => K[p] = known[p]
  BY <1>0, <1>2, KeptIs
<1>4. known' = K /\ task' = [task EXCEPT ![t] = Free]
  BY <1>2 DEF Rejects
<1>5. \A s \in Task \ {t} : task[s].object # NoObject
        => K[task[s].object].crossed = known[task[s].object].crossed
  BY <1>0, <1>3
<1>6. \A p \in Object : (p = injected \/ p = Free.object \/ p \in Others(t)) /\ ~K[p].crossed => IsSoThen(K[p])
  BY <1>0, <1>1, <1>3, FreeTyped
<1>7. injected' = injected /\ autoBridge' = autoBridge
  OBVIOUS
<1>8. PICK r : r = Free
  OBVIOUS
<1>9. r \in TaskType /\ r.at = "free" /\ r.kind = "none" /\ r.object = NoObject
  BY <1>8, FreeTyped
<1>10. \A p \in Object : (p = injected \/ p = r.object \/ p \in Others(t)) /\ ~K[p].crossed => IsSoThen(K[p])
  BY <1>6, <1>8
<1>11. /\ injected' \in Object \cup {NoObject}
       /\ known' \in [Object -> ObjectType] /\ task' = [task EXCEPT ![t] = r]
  BY <1>0, <1>3, <1>4, <1>7, <1>8
<1>12. /\ \A s \in Task \ {t} : task[s].object # NoObject
             => known'[task[s].object].crossed = known[task[s].object].crossed
       /\ \A p \in Object : (p = injected' \/ p = r.object \/ p \in Others(t)) /\ ~known'[p].crossed
             => IsSoThen(known'[p])
  BY <1>4, <1>5, <1>7, <1>10
<1> QED BY <1>1, <1>7, <1>9, <1>11, <1>12, TaskMoves

(* A task goes on while what is known stays.                                *)
LEMMA QuietTaskMoves ==
    ASSUME InjectionFits, NEW t \in Task, Busy(t), NEW r \in TaskType, task' = [task EXCEPT ![t] = r],
           document' \in DocumentType, DocumentGrows,
           UNCHANGED <<autoBridge, known, injected, pageTroubles>>,
           r.object = task[t].object \/ r.object = NoObject,
           r.object = NoObject <=> r.at \in {"free", "look", "dispatch", "heard", "lost"},
           r.kind = "none" <=> r.at = "free",
           r.at # "dispatch" /\ r.at # "look",
           r.at = "heard" \/ r.at = "lost" => r.kind # "inject",
           r.at = "lost" => ~(task[t].alone /\ task[t].round = 2),
           r.object # NoObject /\ ~known[r.object].crossed =>
               /\ r.at = "contentDone" => document'.content
               /\ r.at = "bridgeDone" => document'.bridge
               /\ r.at = "scriptDone" => document'.executed,
           r.at # "free" => /\ r.alone = task[t].alone /\ r.round = task[t].round /\ r.kind = task[t].kind
    PROVE  InjectionInvariant'
<1>0. /\ injected \in Object \cup {NoObject} /\ known \in [Object -> ObjectType]
      /\ task \in [Task -> TaskType] /\ NoObject \notin Object
      /\ pageTroubles \in 0 .. MaxPageTroubles
      /\ \A p \in Object : (p = injected \/ p = task[t].object \/ p \in Others(t)) => InUse(p)
      /\ \A p \in Object : InUse(p) /\ ~known[p].crossed => IsSo(known[p])
  BY TaskOf
<1>1. \A k : IsSo(k) => IsSoThen(k)
  BY DEF DocumentGrows, IsSo, IsSoThen
<1>2. /\ injected' = injected /\ known' = known /\ autoBridge' = autoBridge /\ pageTroubles' = pageTroubles
  OBVIOUS
<1>3. \A p \in Object : (p = injected \/ p = r.object \/ p \in Others(t)) /\ ~known[p].crossed => IsSoThen(known[p])
  BY <1>0, <1>1
<1>4. r.at # "free" /\ r.alone /\ r.round = 2 =>
        /\ r.kind # "inject"
        /\ r.object # NoObject => ~known[r.object].crossed
        /\ r.at # "lost"
  BY DEF InjectionFits, SecondRoundsFit
<1> QED BY <1>0, <1>2, <1>3, <1>4, TaskMoves

(* The address is known: the object remembered is taken, or a new one.      *)
LEMMA LooksKeeps ==
    ASSUME InjectionFits, NEW t \in Task, Looks(t)
    PROVE  InjectionInvariant'
<1>0. /\ InjectionTypeOK /\ document.url \in Url /\ task[t].object = NoObject /\ NoObject \notin Object
      /\ injected \in Object \cup {NoObject} /\ known \in [Object -> ObjectType]
      /\ \A p \in Object : (p = injected \/ p \in Others(t)) => InUse(p)
      /\ \A p \in Object : InUse(p) /\ ~known[p].crossed => IsSo(known[p])
  BY TaskOf DEF Looks, At, InjectionFits, DocumentType
<1>1. Busy(t) /\ ~At(t, "dispatch") /\ UNCHANGED <<document, autoBridge, pageTroubles>>
  BY DEF Busy, At, Looks
<1>2. CASE injected # NoObject /\ known[injected].url = document.url
  <2>1. GoesOn(t, injected, known) /\ injected \in Object
    BY <1>0, <1>2 DEF Looks
  <2>2. ~(task[t].alone /\ task[t].round = 2)
    BY <1>1, <1>2 DEF InjectionFits, SecondRoundsFit, Looks
  <2> QED BY <1>0, <1>1, <2>1, <2>2, GoesOnKeeps
<1>3. CASE ~(injected # NoObject /\ known[injected].url = document.url)
  <2>1. PICK o : o = NewObject
    OBVIOUS
  <2>2. o \in Object /\ o # injected /\ \A s \in Task : task[s].object # o
    BY <1>0, <2>1, NewObjectIsNew
  <2>3. PICK n : n = Nothing(document.url)
    OBVIOUS
  <2>4. n \in ObjectType /\ ~n.crossed /\ IsSo(n)
    BY <1>0, <2>3, NothingTyped DEF IsSo
  <2>5. PICK objects : objects = [known EXCEPT ![o] = n]
    OBVIOUS
  <2>6. /\ objects \in [Object -> ObjectType] /\ objects[o] = n
        /\ \A p \in Object : p # o => objects[p] = known[p]
    BY <1>0, <2>2, <2>4, <2>5
  <2>7. GoesOn(t, o, objects)
    BY <1>3, <2>1, <2>3, <2>5 DEF Looks
  <2>8. o \notin Others(t)
    BY <2>2 DEF Others
  <2> QED BY <1>1, <2>2, <2>4, <2>6, <2>7, <2>8, GoesOnKeeps
<1> QED BY <1>2, <1>3

(* Something has been injected, or has run: the task goes on, and notes it. *)
LEMMA NotesKeep ==
    ASSUME InjectionFits, NEW t \in Task, Executed(t) \/ ScriptDone(t)
    PROVE  InjectionInvariant'
<1>1. PICK o : o = task[t].object
  OBVIOUS
<1>2. task[t].at \in {"contentDone", "bridgeDone", "scriptDone"}
  BY DEF Executed, ScriptDone, At
<1>3. /\ o \in Object /\ known \in [Object -> ObjectType] /\ known[o] \in ObjectType
      /\ ~known[o].crossed => IsSo(known[o])
  <2>1. task[t].object \in Object \cup {NoObject}
    BY TaskOf DEF TaskType
  <2>2. o \in Object
    BY <1>1, <1>2, <2>1, TaskOf
  <2>3. known \in [Object -> ObjectType] /\ InUse(o) /\ (InUse(o) /\ ~known[o].crossed => IsSo(known[o]))
    BY <1>1, <2>2, TaskOf
  <2> QED BY <2>2, <2>3
<1>4. /\ ~known[o].crossed /\ task[t].at = "contentDone" => document.content
      /\ ~known[o].crossed /\ task[t].at = "bridgeDone" => document.bridge
      /\ ~known[o].crossed /\ task[t].at = "scriptDone" => document.executed
  BY <1>1, <1>3, InjectionConstants DEF InjectionFits, StagesAreSo, At
<1>5. PICK n : n = CASE task[t].at = "contentDone" -> [known[o] EXCEPT !.content = TRUE]
                     [] task[t].at = "bridgeDone" -> [known[o] EXCEPT !.bridge = TRUE]
                     [] OTHER -> [known[o] EXCEPT !.applied = TRUE]
  OBVIOUS
<1>6. n \in ObjectType /\ n.crossed = known[o].crossed /\ (~n.crossed => IsSo(n))
  <2>1. CASE task[t].at = "contentDone"
    BY <1>3, <1>4, <1>5, <2>1 DEF ObjectType, IsSo
  <2>2. CASE task[t].at = "bridgeDone"
    BY <1>3, <1>4, <1>5, <2>2 DEF ObjectType, IsSo
  <2>3. CASE task[t].at = "scriptDone"
    BY <1>3, <1>4, <1>5, <2>3 DEF ObjectType, IsSo
  <2> QED BY <1>2, <2>1, <2>2, <2>3
<1>7. PICK objects : objects = [known EXCEPT ![o] = n]
  OBVIOUS
<1>8. /\ objects \in [Object -> ObjectType] /\ objects[o] = n
      /\ \A p \in Object : p # o => objects[p] = known[p]
  BY <1>3, <1>6, <1>7
<1>9. GoesOn(t, o, objects)
  <2>1. CASE At(t, "contentDone")
    <3>1. objects = [known EXCEPT ![o].content = TRUE]
      BY <1>5, <1>7, <2>1 DEF At
    <3> QED BY <1>1, <2>1, <3>1 DEF Executed, ScriptDone, At
  <2>2. CASE At(t, "bridgeDone")
    <3>1. objects = [known EXCEPT ![o].bridge = TRUE]
      BY <1>5, <1>7, <2>2 DEF At
    <3> QED BY <1>1, <2>2, <3>1 DEF Executed, ScriptDone, At
  <2>3. CASE At(t, "scriptDone")
    <3>1. objects = [known EXCEPT ![o].applied = TRUE]
      BY <1>5, <1>7, <2>3 DEF At
    <3> QED BY <1>1, <2>3, <3>1 DEF Executed, ScriptDone, At
  <2> QED BY <1>2, <2>1, <2>2, <2>3 DEF At
<1>10. /\ Busy(t) /\ ~At(t, "dispatch") /\ UNCHANGED <<document, autoBridge, pageTroubles>>
       /\ task[t].alone /\ task[t].round = 2 => ~objects[o].crossed
  <2>1. Busy(t) /\ ~At(t, "dispatch")
    BY <1>2 DEF Busy, At
  <2>2. UNCHANGED <<document, autoBridge, pageTroubles>>
    BY DEF Executed, ScriptDone
  <2>3. task[t].alone /\ task[t].round = 2 => ~known[o].crossed
    BY <1>1, <1>3, <2>1, InjectionConstants DEF InjectionFits, SecondRoundsFit
  <2> QED BY <1>6, <1>8, <2>1, <2>2, <2>3
<1> QED BY <1>3, <1>6, <1>8, <1>9, <1>10, GoesOnKeeps

(* A script or the bridge is injected.                                      *)
LEMMA ExecutesKeeps ==
    ASSUME InjectionFits, NEW t \in Task, Executes(t)
    PROVE  InjectionInvariant'
<1>0. /\ document \in DocumentType /\ task[t] \in TaskType
      /\ task[t].object = NoObject <=> task[t].at \in {"free", "look", "dispatch", "heard", "lost"}
      /\ task[t].kind = "none" <=> task[t].at = "free"
  BY TaskOf
<1>1. task[t].at \in {"content", "bridge"} /\ Busy(t)
  BY DEF Executes, At, Busy
<1>2. PICK r : r = [task[t] EXCEPT !.at = IF task[t].at = "content" THEN "contentDone" ELSE "bridgeDone"]
  OBVIOUS
<1>3. task' = [task EXCEPT ![t] = r] /\ UNCHANGED <<autoBridge, known, injected, pageTroubles>>
  BY <1>2 DEF Executes
<1>4. /\ r \in TaskType /\ r.object = task[t].object /\ r.kind = task[t].kind
      /\ r.alone = task[t].alone /\ r.round = task[t].round
      /\ r.at = IF task[t].at = "content" THEN "contentDone" ELSE "bridgeDone"
  BY <1>0, <1>2 DEF TaskType, Stages
<1>5. /\ document' \in DocumentType /\ DocumentGrows
      /\ task[t].at = "content" => document'.content
      /\ task[t].at = "bridge" => document'.bridge
  BY <1>0 DEF Executes, At, DocumentType, DocumentGrows
<1> QED BY <1>0, <1>1, <1>3, <1>4, <1>5, QuietTaskMoves

(* The path script is sent, or the command.                                 *)
LEMMA SendsScriptKeeps ==
    ASSUME InjectionFits, NEW t \in Task, SendsScript(t)
    PROVE  InjectionInvariant'
<1>0. /\ document \in DocumentType /\ task[t] \in TaskType
      /\ task[t].object = NoObject <=> task[t].at \in {"free", "look", "dispatch", "heard", "lost"}
      /\ task[t].kind = "none" <=> task[t].at = "free"
  BY TaskOf
<1>1. /\ task[t].at = "script" /\ Busy(t)
      /\ UNCHANGED <<document, autoBridge, known, injected, pageTroubles>>
  BY DEF SendsScript, At, Busy
<1>2. PICK at : at = CASE ~Hears("call") -> "unheard"
                       [] Hears("call") /\ document.executed -> "scriptDone"
                       [] OTHER -> "running"
  OBVIOUS
<1>3. at \in {"unheard", "scriptDone", "running"} /\ (at = "scriptDone" => document.executed)
  BY <1>2
<1>4. PICK r : r = [task[t] EXCEPT !.at = at, !.load = document.load]
  OBVIOUS
<1>5. task' = [task EXCEPT ![t] = r]
  BY <1>2, <1>4 DEF SendsScript
<1>6. /\ r \in TaskType /\ r.object = task[t].object /\ r.kind = task[t].kind
      /\ r.alone = task[t].alone /\ r.round = task[t].round /\ r.at = at
  BY <1>0, <1>3, <1>4 DEF TaskType, Stages, DocumentType
<1>7. document' \in DocumentType /\ DocumentGrows /\ document' = document
  BY <1>0, <1>1 DEF DocumentGrows
<1> QED BY <1>0, <1>1, <1>3, <1>5, <1>6, <1>7, QuietTaskMoves

(* A command is sent to the page.                                           *)
LEMMA DispatchesKeeps ==
    ASSUME InjectionFits, NEW t \in Task, Dispatches(t)
    PROVE  InjectionInvariant'
<1>0. /\ document \in DocumentType /\ task[t] \in TaskType
      /\ task[t].object = NoObject <=> task[t].at \in {"free", "look", "dispatch", "heard", "lost"}
      /\ task[t].kind = "none" <=> task[t].at = "free"
  BY TaskOf
<1>1. /\ task[t].at = "dispatch" /\ Busy(t) /\ task[t].kind # "inject"
      /\ UNCHANGED <<document, autoBridge, known, injected, pageTroubles>>
  BY DEF Dispatches, At, Busy, InjectionFits, StagesAreSo
<1>2. PICK at : at = IF Hears(task[t].kind) THEN "heard" ELSE "lost"
  OBVIOUS
<1>3. at \in {"heard", "lost"} /\ (at = "lost" => ~(task[t].alone /\ task[t].round = 2))
  BY <1>1, <1>2 DEF InjectionFits, SecondRoundsFit, At
<1>4. PICK r : r = [task[t] EXCEPT !.at = at, !.load = document.load]
  OBVIOUS
<1>5. task' = [task EXCEPT ![t] = r]
  BY <1>2, <1>4 DEF Dispatches
<1>6. /\ r \in TaskType /\ r.object = task[t].object /\ r.kind = task[t].kind
      /\ r.alone = task[t].alone /\ r.round = task[t].round /\ r.at = at
  BY <1>0, <1>3, <1>4 DEF TaskType, Stages, DocumentType
<1>7. document' \in DocumentType /\ DocumentGrows
  BY <1>0, <1>1 DEF DocumentGrows
<1>8. r.kind # "inject" /\ r.object = NoObject /\ r.kind # "none"
  BY <1>0, <1>1, <1>6
<1> QED BY <1>1, <1>3, <1>5, <1>6, <1>7, <1>8, QuietTaskMoves

(* The path script comes to its end in the document it was sent to.         *)
LEMMA ScriptEndsKeeps ==
    ASSUME InjectionFits, NEW t \in Task, ScriptEnds(t)
    PROVE  InjectionInvariant'
<1>0. /\ document \in DocumentType /\ task[t] \in TaskType
      /\ task[t].object = NoObject <=> task[t].at \in {"free", "look", "dispatch", "heard", "lost"}
      /\ task[t].kind = "none" <=> task[t].at = "free"
  BY TaskOf
<1>1. /\ task[t].at = "running" /\ Busy(t)
      /\ UNCHANGED <<autoBridge, known, injected, pageTroubles>>
  BY DEF ScriptEnds, At, Busy
<1>2. PICK r : r = [task[t] EXCEPT !.at = "scriptDone", !.load = 0]
  OBVIOUS
<1>3. task' = [task EXCEPT ![t] = r] /\ document' = [document EXCEPT !.executed = TRUE]
  BY <1>2 DEF ScriptEnds
<1>4. /\ r \in TaskType /\ r.object = task[t].object /\ r.kind = task[t].kind
      /\ r.alone = task[t].alone /\ r.round = task[t].round
      /\ r.at = "scriptDone"
  <2>1. 0 \in 0 .. MaxLoads /\ "scriptDone" \in Stages
    BY InjectionConstants DEF Stages
  <2> QED BY <1>0, <1>2, <2>1 DEF TaskType
<1>5. document' \in DocumentType /\ DocumentGrows /\ document'.executed
  BY <1>0, <1>3 DEF DocumentGrows, DocumentType
<1> QED BY <1>0, <1>1, <1>3, <1>4, <1>5, QuietTaskMoves

(* Nobody is there to answer the path script, or nobody waits any more.     *)
LEMMA ScriptStopsKeeps ==
    ASSUME InjectionFits, NEW t \in Task, ScriptIsLost(t) \/ ScriptIsSlow(t)
    PROVE  InjectionInvariant'
<1>0. document \in DocumentType /\ pageTroubles \in 0 .. MaxPageTroubles
  BY TaskOf
<1>1. Busy(t) /\ Rejects(t) /\ UNCHANGED <<autoBridge, injected>>
  BY DEF ScriptIsLost, ScriptIsSlow, At, Busy
<1>2. pageTroubles' \in 0 .. MaxPageTroubles
  BY <1>0, InjectionConstants DEF ScriptIsLost, ScriptIsSlow
<1>3. document' \in DocumentType /\ DocumentGrows
  BY <1>0 DEF ScriptIsLost, ScriptIsSlow, DocumentType, DocumentGrows
<1> QED BY <1>1, <1>2, <1>3, RejectsKeeps

(* The page answers, or the task fails for good.                            *)
LEMMA TaskEndsKeeps ==
    ASSUME InjectionFits, NEW t \in Task, PageAnswers(t) \/ GivesUp(t) \/ InjectionFails(t)
    PROVE  InjectionInvariant'
<1>0. document \in DocumentType /\ pageTroubles \in 0 .. MaxPageTroubles
  BY TaskOf
<1>1. Busy(t)
  BY DEF PageAnswers, GivesUp, Fails, InjectionFails, At, Busy
<1>2. document' \in DocumentType /\ DocumentGrows
  BY <1>0 DEF PageAnswers, GivesUp, InjectionFails, DocumentGrows
<1>3. CASE PageAnswers(t)
  <2>1. PICK r : r = Free
    OBVIOUS
  <2>2. /\ task' = [task EXCEPT ![t] = r] /\ r \in TaskType /\ r.at = "free" /\ r.kind = "none"
        /\ r.object = NoObject
    BY <1>3, <2>1, FreeTyped DEF PageAnswers
  <2>3. UNCHANGED <<document, autoBridge, known, injected, pageTroubles>>
    BY <1>3 DEF PageAnswers
  <2> QED BY <1>1, <1>2, <2>2, <2>3, QuietTaskMoves
<1>4. CASE GivesUp(t)
  BY <1>0, <1>1, <1>2, <1>4, RejectsKeeps DEF GivesUp
<1>5. CASE InjectionFails(t)
  <2>1. pageTroubles' \in 0 .. MaxPageTroubles
    BY <1>0, <1>5, InjectionConstants DEF InjectionFails
  <2> QED BY <1>1, <1>2, <1>5, <2>1, RejectsKeeps DEF InjectionFails
<1> QED BY <1>3, <1>4, <1>5

(* sendPageCommand() forgets what it knows and tries again.                 *)
LEMMA TriesAgainKeeps ==
    ASSUME InjectionFits, NEW t \in Task, TriesAgain(t)
    PROVE  InjectionInvariant'
<1>0. /\ document \in DocumentType /\ autoBridge \in BOOLEAN
      /\ injected \in Object \cup {NoObject} /\ known \in [Object -> ObjectType]
      /\ task \in [Task -> TaskType] /\ task[t] \in TaskType
      /\ pageTroubles \in 0 .. MaxPageTroubles /\ NoObject \notin Object
      /\ Unused \in ObjectType
      /\ task[t].object = NoObject <=> task[t].at \in {"free", "look", "dispatch", "heard", "lost"}
      /\ task[t].kind = "none" <=> task[t].at = "free"
      /\ \A s \in Task \ {t} : task[s].object # NoObject => task[s].object \in Others(t) /\ task[s].object \in Object
      /\ \A p \in Object : (p = injected \/ p = task[t].object \/ p \in Others(t)) => InUse(p)
      /\ \A p \in Object : InUse(p) /\ ~known[p].crossed => IsSo(known[p])
  BY TaskOf
<1>1. /\ task[t].at \in {"lost", "heard"} /\ Busy(t) /\ task[t].kind # "inject"
      /\ injected' = NoObject /\ UNCHANGED <<document, autoBridge, pageTroubles>>
  BY DEF TriesAgain, Fails, At, Busy, InjectionFits, StagesAreSo
<1>2. DocumentGrows /\ \A k : IsSo(k) => IsSoThen(k)
  BY <1>1 DEF DocumentGrows, IsSo, IsSoThen
<1>3. PICK K : K = Kept(known, Others(t))
  OBVIOUS
<1>4. /\ K \in [Object -> ObjectType]
      /\ \A p \in Object : p \in Others(t) => K[p] = known[p]
  BY <1>0, <1>3, KeptIs
<1>5. PICK r : r = [task[t] EXCEPT !.at = "look", !.round = 2, !.load = 0]
  OBVIOUS
<1>6. known' = K /\ task' = [task EXCEPT ![t] = r]
  BY <1>3, <1>5 DEF TriesAgain
<1>7. /\ r \in TaskType /\ r.object = NoObject /\ r.kind = task[t].kind /\ r.at = "look"
      /\ r.alone = task[t].alone
  <2>1. 0 \in 0 .. MaxLoads /\ "look" \in Stages
    BY InjectionConstants DEF Stages
  <2> QED BY <1>0, <1>1, <1>5, <2>1 DEF TaskType
<1>8. \A s \in Task \ {t} : task[s].object # NoObject
        => K[task[s].object].crossed = known[task[s].object].crossed
  BY <1>0, <1>4
<1>9. \A p \in Object : (p = NoObject \/ p = r.object \/ p \in Others(t)) /\ ~K[p].crossed => IsSoThen(K[p])
  BY <1>0, <1>2, <1>4, <1>7
<1>10. document' = document /\ autoBridge' = autoBridge /\ pageTroubles' = pageTroubles
       /\ injected' \in Object \cup {NoObject}
  BY <1>1
<1> QED BY <1>0, <1>1, <1>2, <1>4, <1>6, <1>7, <1>8, <1>9, <1>10, TaskMoves

(* A call of the worker begins; an injection may forget another address.    *)
LEMMA BeginsKeeps ==
    ASSUME InjectionFits, NEW t \in Task, BeginsCommand(t) \/ BeginsInjection(t)
    PROVE  InjectionInvariant'
<1>0. /\ document \in DocumentType /\ autoBridge \in BOOLEAN
      /\ injected \in Object \cup {NoObject} /\ known \in [Object -> ObjectType]
      /\ task \in [Task -> TaskType] /\ task[t] \in TaskType
      /\ pageTroubles \in 0 .. MaxPageTroubles /\ NoObject \notin Object
      /\ Unused \in ObjectType
      /\ \A s \in Task \ {t} : task[s].object # NoObject => task[s].object \in Others(t) /\ task[s].object \in Object
      /\ \A p \in Object : (p = injected \/ p = task[t].object \/ p \in Others(t)) => InUse(p)
      /\ \A p \in Object : InUse(p) /\ ~known[p].crossed => IsSo(known[p])
  BY TaskOf
<1>1. PICK kind \in {"inject", "command", "call"} : Begins(t, kind)
  BY DEF BeginsCommand, BeginsInjection
<1>2. PICK r : r = [Free EXCEPT !.kind = kind, !.at = "look", !.alone = \A s \in Task : ~Busy(s)]
  OBVIOUS
<1>3. /\ r.kind = kind /\ r.at = "look" /\ r.round = 1 /\ r.object = NoObject /\ r \in TaskType
      /\ r.alone <=> \A s \in Task : ~Busy(s)
  <2>1. (\A s \in Task : ~Busy(s)) \in BOOLEAN
    OBVIOUS
  <2>2. 0 \in 0 .. MaxLoads /\ "look" \in Stages
    BY InjectionConstants DEF Stages
  <2> QED BY <1>1, <1>2, <2>1, <2>2 DEF Free, TaskType
<1>4. /\ ~Busy(t)
      /\ task' = [s \in Task |-> IF s = t THEN r ELSE [task[s] EXCEPT !.alone = ~Busy(s)]]
  BY <1>1, <1>2 DEF Begins
<1>5. /\ task'[t] = r /\ task' \in [Task -> TaskType]
      /\ \A s \in Task \ {t} :
            /\ task'[s].kind = task[s].kind /\ task'[s].at = task[s].at
            /\ task'[s].object = task[s].object
            /\ task'[s].alone <=> ~Busy(s)
  <2>1. \A s \in Task : [task[s] EXCEPT !.alone = ~Busy(s)] \in TaskType
    BY <1>0 DEF TaskType
  <2>2. \A s \in Task \ {t} : task'[s] = [task[s] EXCEPT !.alone = ~Busy(s)] /\ task[s] \in TaskType
    BY <1>0, <1>4
  <2>3. task'[t] = r /\ task' \in [Task -> TaskType]
    BY <1>3, <1>4, <2>1
  <2> QED BY <2>2, <2>3 DEF TaskType
<1>6. /\ injected' \in {injected, NoObject} /\ known' \in [Object -> ObjectType]
      /\ \A p \in Object : p = injected' \/ p \in Others(t) => known'[p] = known[p]
  <2>1. CASE UNCHANGED <<known, injected>>
    BY <1>0, <2>1
  <2>2. CASE injected' = NoObject /\ known' = Kept(known, Others(t))
    BY <1>0, <2>2, KeptIs
  <2> QED BY <2>1, <2>2 DEF BeginsCommand, BeginsInjection
<1>7. UNCHANGED <<document, autoBridge, pageTroubles>>
  BY DEF BeginsCommand, BeginsInjection
<1>8. InjectionTypeOK'
  BY <1>0, <1>5, <1>6, <1>7, InjectionTypes
<1>9. ObjectsAreSo'
  <2>1. ASSUME NEW p \in Object, InUse(p)', ~known'[p].crossed
        PROVE  IsSo(known[p])'
    <3>1. p = injected' \/ p \in Others(t)
      BY <1>0, <1>3, <1>5, <2>1 DEF InUse, Others
    <3>2. known'[p] = known[p] /\ InUse(p)
      BY <1>0, <1>6, <3>1
    <3> QED BY <1>0, <1>7, <2>1, <3>2 DEF IsSo
  <2> QED BY <2>1 DEF ObjectsAreSo
<1>10. StagesAreSo'
  <2>1. \A s \in Task \ {t} : task'[s].object # NoObject
          => known'[task'[s].object].crossed = known[task[s].object].crossed
    BY <1>0, <1>5, <1>6
  <2>2. ASSUME NEW s \in Task \ {t}
        PROVE  /\ task'[s].object = NoObject <=> task'[s].at \in {"free", "look", "dispatch", "heard", "lost"}
               /\ task'[s].kind = "none" <=> task'[s].at = "free"
               /\ task'[s].at \in {"dispatch", "heard", "lost"} => task'[s].kind # "inject"
               /\ task'[s].object # NoObject /\ ~known'[task'[s].object].crossed =>
                     /\ task'[s].at = "contentDone" => document'.content
                     /\ task'[s].at = "bridgeDone" => document'.bridge
                     /\ task'[s].at = "scriptDone" => document'.executed
    BY <1>5, <1>7, <2>1 DEF InjectionFits, StagesAreSo, At
  <2> QED BY <1>1, <1>3, <1>5, <2>2 DEF StagesAreSo, At
<1>11. SecondRoundsFit'
  <2>1. \A s \in Task \ {t} : Busy(s)' <=> Busy(s)
    BY <1>5 DEF Busy
  <2> QED BY <1>3, <1>5, <2>1 DEF SecondRoundsFit
<1> QED BY <1>8, <1>9, <1>10, <1>11, InjectionParts DEF InjectionFits

(* The document grows, whatever the tasks do.                               *)
LEMMA GrowingKeeps ==
    ASSUME InjectionFits, document' \in DocumentType, DocumentGrows,
           UNCHANGED <<autoBridge, known, injected, task, pageTroubles>>
    PROVE  InjectionInvariant'
<1>1. InjectionTypeOK'
  BY InjectionTypes DEF InjectionFits
<1>2. ObjectsAreSo'
  BY DEF InjectionFits, ObjectsAreSo, InUse, IsSo, DocumentGrows
<1>3. StagesAreSo'
  BY DEF InjectionFits, StagesAreSo, At, DocumentGrows
<1>4. SecondRoundsFit'
  BY DEF InjectionFits, SecondRoundsFit, At, Busy, Hears, DocumentGrows
<1> QED BY <1>1, <1>2, <1>3, <1>4, InjectionParts DEF InjectionFits

(* The registered content script runs.                                      *)
LEMMA RegisteredScriptKeeps ==
    ASSUME InjectionFits, RegisteredScriptRuns
    PROVE  InjectionInvariant'
<1>1. document \in DocumentType
  BY InjectionTypes DEF InjectionFits
<1>2. /\ document' = [document EXCEPT !.content = TRUE]
      /\ UNCHANGED <<autoBridge, known, injected, task, pageTroubles>>
  BY DEF RegisteredScriptRuns
<1>3. document' \in DocumentType /\ DocumentGrows
  BY <1>1, <1>2 DEF DocumentType, DocumentGrows
<1> QED BY <1>2, <1>3, GrowingKeeps

(* A path script that nobody waits for comes to its end.                    *)
LEMMA SlowScriptKeeps ==
    ASSUME InjectionFits, SlowScriptEnds
    PROVE  InjectionInvariant'
<1>1. document \in DocumentType
  BY InjectionTypes DEF InjectionFits
<1>2. PICK executed \in {document.executed, TRUE}, slow \in BOOLEAN :
         document' = [document EXCEPT !.slow = slow, !.executed = executed]
  BY DEF SlowScriptEnds
<1>3. UNCHANGED <<autoBridge, known, injected, task, pageTroubles>>
  BY DEF SlowScriptEnds
<1>4. document' \in DocumentType /\ DocumentGrows
  BY <1>1, <1>2 DEF DocumentType, DocumentGrows
<1> QED BY <1>3, <1>4, GrowingKeeps

(* The document is replaced: the worker forgets, and what tasks hold is     *)
(* crossed.                                                                 *)
LEMMA LoadsKeeps ==
    ASSUME InjectionFits, NEW u \in Url, Loads(u)
    PROVE  InjectionInvariant'
<1>0. /\ document \in DocumentType /\ autoBridge \in BOOLEAN
      /\ known \in [Object -> ObjectType] /\ task \in [Task -> TaskType]
      /\ pageTroubles \in 0 .. MaxPageTroubles /\ NoObject \notin Object
      /\ Unused \in ObjectType
  BY InjectionTypes, NothingTyped, InjectionConstants DEF InjectionFits
<1>1. /\ document.load < MaxLoads /\ document' = Empty(u, document.load + 1)
      /\ injected' = NoObject
      /\ task' = [t \in Task |-> [task[t] EXCEPT !.alone = ~Busy(t)]]
      /\ known' = [o \in Object |-> IF \E t \in Task : task[t].object = o
                                    THEN [known[o] EXCEPT !.crossed = TRUE] ELSE Unused]
      /\ UNCHANGED <<autoBridge, pageTroubles>>
  BY DEF Loads
<1>2. document' \in DocumentType
  <2>1. document.load + 1 \in 0 .. MaxLoads
    BY <1>0, <1>1, InjectionConstants DEF DocumentType
  <2> QED BY <1>1, <2>1 DEF Empty, DocumentType
<1>3. /\ task' \in [Task -> TaskType]
      /\ \A t \in Task : /\ task'[t].kind = task[t].kind /\ task'[t].at = task[t].at
                         /\ task'[t].object = task[t].object
                         /\ task'[t].alone <=> ~Busy(t)
  <2>1. ASSUME NEW t \in Task
        PROVE  /\ [task[t] EXCEPT !.alone = ~Busy(t)] \in TaskType
               /\ task'[t] = [task[t] EXCEPT !.alone = ~Busy(t)] /\ task[t] \in TaskType
    <3>1. task[t] \in TaskType /\ Busy(t) \in BOOLEAN /\ (~Busy(t)) \in BOOLEAN
      BY <1>0 DEF Busy
    <3>2. [task[t] EXCEPT !.alone = ~Busy(t)] \in TaskType
      BY <3>1 DEF TaskType
    <3> QED BY <1>1, <3>1, <3>2
  <2>2. \A t \in Task : task'[t] = [task[t] EXCEPT !.alone = ~Busy(t)] /\ task[t] \in TaskType
    BY <2>1
  <2>3. task' \in [Task -> TaskType]
    BY <1>1, <2>1
  <2> QED BY <2>2, <2>3 DEF TaskType
<1>4. /\ known' \in [Object -> ObjectType]
      /\ \A o \in Object : (\E t \in Task : task[t].object = o) => known'[o].crossed
  <2>1. \A o \in Object : [known[o] EXCEPT !.crossed = TRUE] \in ObjectType
                          /\ [known[o] EXCEPT !.crossed = TRUE].crossed
    BY <1>0 DEF ObjectType
  <2> QED BY <1>0, <1>1, <2>1
<1>5. InjectionTypeOK'
  BY <1>0, <1>1, <1>2, <1>3, <1>4, InjectionTypes
<1>6. ObjectsAreSo'
  <2>1. ASSUME NEW o \in Object, InUse(o)'
        PROVE  known'[o].crossed
    <3>1. injected' # o
      BY <1>0, <1>1
    <3>2. \E t \in Task : task[t].object = o
      BY <1>3, <2>1, <3>1 DEF InUse
    <3> QED BY <1>4, <3>2
  <2> QED BY <2>1 DEF ObjectsAreSo
<1>7. StagesAreSo'
  <2>1. \A t \in Task : task[t].object # NoObject => known'[task[t].object].crossed
    BY <1>0, <1>4 DEF TaskType
  <2> QED BY <1>3, <2>1 DEF InjectionFits, StagesAreSo, At
<1>8. SecondRoundsFit'
  BY <1>3 DEF SecondRoundsFit, Busy
<1> QED BY <1>5, <1>6, <1>7, <1>8, InjectionParts DEF InjectionFits

(* Every step keeps it.                                                     *)
LEMMA InjectionNextKeeps ==
    InjectionInvariant /\ [InjectionNext]_injectionVars => InjectionInvariant'
<1> SUFFICES ASSUME InjectionInvariant, [InjectionNext]_injectionVars
             PROVE  InjectionInvariant'
  OBVIOUS
<1>1. InjectionFits
  BY InjectionParts
<1>2. CASE UNCHANGED injectionVars
  BY <1>1, <1>2, InjectionParts DEF injectionVars, InjectionFits, InjectionTypeOK, ObjectsAreSo, InUse, IsSo,
     StagesAreSo, SecondRoundsFit, At, Busy, Hears
<1>3. ASSUME NEW t \in Task, TaskSteps(t)
      PROVE  InjectionInvariant'
  BY <1>1, <1>3, LooksKeeps, ExecutesKeeps, NotesKeep, SendsScriptKeeps, ScriptEndsKeeps,
     ScriptStopsKeeps, DispatchesKeeps, TaskEndsKeeps, TriesAgainKeeps DEF TaskSteps
<1>4. ASSUME NEW t \in Task, BeginsCommand(t) \/ BeginsInjection(t) \/ InjectionFails(t)
      PROVE  InjectionInvariant'
  BY <1>1, <1>4, BeginsKeeps, TaskEndsKeeps
<1> QED BY <1>1, <1>2, <1>3, <1>4, RegisteredScriptKeeps, SlowScriptKeeps,
       LoadsKeeps DEF InjectionNext

(* A command that is alone and in its second round was heard.               *)
LEMMA SecondRoundsAreHeard ==
    InjectionInvariant => \A t \in Task : task[t].alone /\ GivesUp(t) => At(t, "heard")
<1>1. ASSUME InjectionInvariant, NEW t \in Task, task[t].alone, GivesUp(t)
      PROVE  At(t, "heard")
  <2>1. SecondRoundsFit /\ Busy(t)
    BY <1>1, InjectionParts DEF InjectionFits, GivesUp, Fails, At, Busy
  <2> QED BY <1>1, <2>1 DEF SecondRoundsFit, GivesUp, Fails
<1> QED BY <1>1

-----------------------------------------------------------------------------
(* The clients in Go, Python, Rust, C# and Java.                            *)

(* The reader of one session turns.                                         *)
LEMMA ReaderTurned ==
    ASSUME SdkTypeOK, NEW s \in ClientSession, NEW state \in Reader, ReaderTurns(s, state)
    PROVE  /\ reader' \in [ClientSession -> Reader] /\ reader'[s] = state
           /\ \A t \in ClientSession \ {s} : reader'[t] = reader[t]
BY DEF SdkTypeOK, ReaderTurns

(* A session is made, and its reader with it.                               *)
LEMMA SessionMade ==
    ASSUME SdkTypeOK, NEW state \in Reader, MakesSession(state)
    PROVE  /\ made' \in 0 .. MaxSessions /\ made' = made + 1 /\ made' \in ClientSession
           /\ reader' \in [ClientSession -> Reader] /\ reader'[made'] = state
           /\ \A t \in ClientSession \ {made'} : reader'[t] = reader[t]
BY SdkConstants DEF SdkTypeOK, MakesSession, ClientSession

(* Every step of the Go client keeps what it knows.                         *)
LEMMA GoKeeps ==
    ASSUME SdkTypeOK, GoFits, GoNext
    PROVE  SdkTypeOK' /\ GoFits'
<1> USE DEF NoClientSession
<1>0. /\ Go /\ language' = language /\ carrier' = carrier /\ Go'
      /\ made \in Nat /\ 0 \notin ClientSession
  BY SdkConstants DEF GoNext, Go, SdkTypeOK, ClientSession
<1>1. ASSUME GoMakesSession
      PROVE  SdkTypeOK' /\ GoFits'
  <2>1. "reads" \in Reader /\ MakesSession("reads")
    BY <1>1 DEF Reader, GoMakesSession
  <2>2. /\ made' \in ClientSession /\ made' = made + 1 /\ made' \in 0 .. MaxSessions
        /\ reader' \in [ClientSession -> Reader] /\ reader'[made'] = "reads"
        /\ \A t \in ClientSession \ {made'} : reader'[t] = reader[t]
    BY <2>1, SessionMade
  <2>3. /\ current' = made' /\ current = 0 /\ underWay' = [op |-> "connected", session |-> made']
        /\ astray' = (astray \/ Notifying # {}) /\ Idle
        /\ UNCHANGED <<connected, registeredOn, emitted, spent>>
    BY <1>1, <2>2 DEF GoMakesSession, NoClientSession
  <2>4. SdkTypeOK'
    BY <1>0, <2>2, <2>3 DEF SdkTypeOK, Op
  <2> QED BY <1>0, <2>2, <2>3, <2>4 DEF GoFits, Reads, In, Idle, Notifying, Registered
<1>2. ASSUME GoConnects
      PROVE  SdkTypeOK' /\ GoFits'
  BY <1>0, <1>2
     DEF GoConnects, CallReturns, NoCall, SdkTypeOK, Op, GoFits, Reads, In, Idle, Notifying,
         Registered
<1>3. ASSUME GoRegister
      PROVE  SdkTypeOK' /\ GoFits'
  <2>1. CASE StartsRegister(current)
    BY <1>0, <2>1 DEF StartsRegister, SdkTypeOK, Op, GoFits, Reads, In, Idle, Notifying, Registered
  <2>2. CASE RegisterFails
    BY <1>0, <2>2 DEF RegisterFails, CallReturns, NoCall, SdkTypeOK, Op, GoFits, Reads, In, Notifying,
                      Registered
  <2>3. CASE RegisterSucceeds
    <3>1. SdkTypeOK'
      BY <1>0, <2>3 DEF RegisterSucceeds, CallReturns, NoCall, SdkTypeOK, Op
    <3>2. /\ underWay' = NoCall /\ registeredOn' = underWay.session /\ In("registering")
          /\ astray' = (astray \/ ~connected)
          /\ UNCHANGED <<connected, current, made, reader>>
      BY <2>3 DEF RegisterSucceeds, CallReturns
    <3> QED BY <1>0, <3>1, <3>2 DEF NoCall, GoFits, Reads, In, Notifying, Registered
  <2> QED BY <1>3, <2>1, <2>2, <2>3 DEF GoRegister
<1>4. ASSUME GoDetaches
      PROVE  SdkTypeOK' /\ GoFits'
  BY <1>0, <1>4 DEF GoDetaches, SdkTypeOK, Op, Reader, GoFits, Reads, In, Idle, Notifying, Registered
<1>5. ASSUME GoDisconnects
      PROVE  SdkTypeOK' /\ GoFits'
  BY <1>0, <1>5
     DEF GoDisconnects, CallReturns, ResetFlags, NoCall, SdkTypeOK, Op, GoFits, Reads, In, Idle,
         Notifying, Registered
<1>6. ASSUME NEW s \in ClientSession, GoHandles(s)
      PROVE  SdkTypeOK' /\ GoFits'
  BY <1>0, <1>6
     DEF GoHandles, Handles, Answered, ReaderTurns, Reader, SdkTypeOK, GoFits, Reads, In, Idle,
         Notifying, Registered
<1>7. ASSUME NEW s \in ClientSession, GoExits(s)
      PROVE  SdkTypeOK' /\ GoFits'
  BY <1>0, <1>7
     DEF GoExits, ReaderTurns, Reader, SdkTypeOK, GoFits, Reads, In, Idle, Notifying, Registered
<1>8. ASSUME NEW s \in ClientSession, GoNotifies(s)
      PROVE  SdkTypeOK' /\ GoFits'
  BY <1>0, <1>8
     DEF GoNotifies, ResetFlags, ReaderTurns, Reader, SdkTypeOK, GoFits, Reads, In, Idle,
         Notifying, Registered
<1> QED BY <1>1, <1>2, <1>3, <1>4, <1>5, <1>6, <1>7, <1>8
        DEF GoNext, GoHttpConnects, GoWebSocketConnects, GoHttpReaderEnds, GoWebSocketReaderEnds

(* ... which is what is asked of it.                                        *)
LEMMA GoKnows ==
    ASSUME SdkTypeOK, GoFits, Go
    PROVE  FlagsFollowSession /\ NoReaderIsLeft
BY SdkConstants
   DEF SdkTypeOK, GoFits, FlagsFollowSession, NoReaderIsLeft, Quiet, Idle, In, Reads, Notifying,
       Unfinished, Registered, NoClientSession, ClientSession

(* Every step of the Python client keeps what it knows.                     *)
LEMMA PythonKeeps ==
    ASSUME SdkTypeOK, PythonFits, PythonNext
    PROVE  SdkTypeOK' /\ PythonFits'
<1> USE DEF NoClientSession
<1>0. /\ Python /\ language' = language /\ carrier' = carrier /\ Python'
      /\ made \in Nat /\ 0 \notin ClientSession
  BY SdkConstants DEF PythonNext, Python, SdkTypeOK, ClientSession
<1>1. ASSUME PythonConnectsAgain
      PROVE  SdkTypeOK' /\ PythonFits'
  BY <1>0, <1>1 DEF PythonConnectsAgain, SdkTypeOK, PythonFits, Idle, In, Reads, Registered
<1>2. ASSUME PythonMakesSession
      PROVE  SdkTypeOK' /\ PythonFits'
  <2>1. "reads" \in Reader /\ MakesSession("reads")
    BY <1>2 DEF Reader, PythonMakesSession
  <2>2. /\ made' \in ClientSession /\ made' = made + 1 /\ made' \in 0 .. MaxSessions
        /\ reader' \in [ClientSession -> Reader] /\ reader'[made'] = "reads"
        /\ \A t \in ClientSession \ {made'} : reader'[t] = reader[t]
    BY <2>1, SessionMade
  <2>3. /\ current' = made' /\ current = 0 /\ connected' = TRUE /\ Idle
        /\ astray' = (astray /\ Registered) /\ UNCHANGED <<registeredOn, underWay, emitted, spent>>
    BY <1>2, <2>2 DEF PythonMakesSession
  <2>4. SdkTypeOK'
    BY <1>0, <2>2, <2>3 DEF SdkTypeOK, Op
  <2> QED BY <1>0, <2>2, <2>3, <2>4 DEF PythonFits, Idle, In, Reads, Registered
<1>3. ASSUME PythonRegister
      PROVE  SdkTypeOK' /\ PythonFits'
  <2>1. CASE StartsRegister(current)
    BY <1>0, <2>1 DEF StartsRegister, SdkTypeOK, Op, PythonFits, Idle, In, Reads, Registered
  <2>2. CASE RegisterFails
    BY <1>0, <2>2
       DEF RegisterFails, CallReturns, NoCall, SdkTypeOK, Op, PythonFits, Idle, In, Reads,
           Registered
  <2>3. CASE RegisterSucceeds
    <3>1. SdkTypeOK'
      BY <1>0, <2>3 DEF RegisterSucceeds, CallReturns, NoCall, SdkTypeOK, Op
    <3>2. /\ underWay' = NoCall /\ registeredOn' = underWay.session /\ In("registering")
          /\ astray' = (astray \/ ~connected)
          /\ UNCHANGED <<connected, current, made, reader, emitted, spent>>
      BY <2>3 DEF RegisterSucceeds, CallReturns
    <3> QED BY <1>0, <3>1, <3>2 DEF NoCall, PythonFits, Idle, In, Reads, Registered
  <2> QED BY <1>3, <2>1, <2>2, <2>3 DEF PythonRegister
<1>4. ASSUME PythonDisconnectsClosed
      PROVE  SdkTypeOK' /\ PythonFits'
  BY <1>0, <1>4
     DEF PythonDisconnectsClosed, ResetFlags, SdkTypeOK, PythonFits, Idle, In, Reads, Registered
<1>5. ASSUME NEW state \in {"over", "stopping"}, PythonDetaches(state)
      PROVE  SdkTypeOK' /\ PythonFits'
  BY <1>0, <1>5
     DEF PythonDetaches, ReaderTurns, SdkTypeOK, Op, Reader, PythonFits, Idle, In, Reads,
         Registered
<1>6. ASSUME PythonHttpCloseFails
      PROVE  SdkTypeOK' /\ PythonFits'
  BY <1>0, <1>6
     DEF PythonHttpCloseFails, CallReturns, NoCall, SdkTypeOK, Op, Reader, PythonFits, Idle, In,
         Reads, Registered
<1>7. ASSUME PythonDisconnects
      PROVE  SdkTypeOK' /\ PythonFits'
  BY <1>0, <1>7
     DEF PythonDisconnects, CallReturns, ResetFlags, NoCall, SdkTypeOK, Op, Reader, PythonFits,
         Idle, In, Reads, Registered
<1>8. ASSUME NEW s \in ClientSession, PythonHandles(s)
      PROVE  SdkTypeOK' /\ PythonFits'
  BY <1>0, <1>8
     DEF PythonHandles, Handles, Answered, ReaderTurns, SdkTypeOK, Op, Reader, PythonFits, Idle,
         In, Reads, Registered
<1>9. ASSUME NEW s \in ClientSession, PythonExits(s)
      PROVE  SdkTypeOK' /\ PythonFits'
  BY <1>0, <1>9
     DEF PythonExits, ResetFlags, ReaderTurns, SdkTypeOK, Op, Reader, PythonFits, Idle, In, Reads,
         Registered
<1> QED BY <1>1, <1>2, <1>3, <1>4, <1>5, <1>6, <1>7, <1>8, <1>9
   DEF PythonNext, PythonHttpConnects, PythonWebSocketConnects, PythonHttpCloses,
       PythonWebSocketCloses, PythonHttpReaderEnds, PythonWebSocketReaderEnds

(* ... which is what is asked of it.                                        *)
LEMMA PythonKnows ==
    ASSUME SdkTypeOK, PythonFits, Python
    PROVE  FlagsFollowSession /\ NoReaderIsLeft
BY SdkConstants
   DEF SdkTypeOK, PythonFits, FlagsFollowSession, NoReaderIsLeft, Quiet, Idle, In, Reads, Notifying,
       Unfinished, Registered, NoClientSession, ClientSession

(* Every step of the Rust client keeps what it knows.                       *)
LEMMA RustKeeps ==
    ASSUME SdkTypeOK, RustFits, RustNext
    PROVE  SdkTypeOK' /\ RustFits'
<1> USE DEF NoClientSession
<1>0. /\ Rust /\ language' = language /\ carrier' = carrier /\ Rust'
      /\ made \in Nat /\ 0 \notin ClientSession
  BY SdkConstants DEF RustNext, Rust, SdkTypeOK, ClientSession
<1>1. ASSUME RustMakesSession
      PROVE  SdkTypeOK' /\ RustFits'
  <2>1. "reads" \in Reader /\ MakesSession("reads")
    BY <1>1 DEF Reader, RustMakesSession
  <2>2. /\ made' \in ClientSession /\ made' = made + 1 /\ made' \in 0 .. MaxSessions
        /\ reader' \in [ClientSession -> Reader] /\ reader'[made'] = "reads"
        /\ \A t \in ClientSession \ {made'} : reader'[t] = reader[t]
    BY <2>1, SessionMade
  <2>3. /\ current' = made' /\ connected' = TRUE /\ Idle
        /\ astray' = (astray \/ Unfinished # {} \/ Registered)
        /\ UNCHANGED <<registeredOn, underWay, emitted, spent>>
    BY <1>1, <2>2 DEF RustMakesSession
  <2>4. SdkTypeOK'
    BY <1>0, <2>2, <2>3 DEF SdkTypeOK, Op
  <2> QED BY <1>0, <2>2, <2>3, <2>4 DEF RustFits, Idle, In, Reads, Unfinished, Registered
<1>2. ASSUME RustRegister
      PROVE  SdkTypeOK' /\ RustFits'
  <2>1. CASE StartsRegister(current)
    BY <1>0, <2>1 DEF StartsRegister, SdkTypeOK, Op, RustFits, Idle, In, Reads, Unfinished, Registered
  <2>2. CASE RegisterFails
    BY <1>0, <2>2
       DEF RegisterFails, CallReturns, NoCall, SdkTypeOK, Op, RustFits, Idle, In, Reads,
           Unfinished, Registered
  <2>3. CASE RegisterSucceeds
    <3>1. SdkTypeOK'
      BY <1>0, <2>3 DEF RegisterSucceeds, CallReturns, NoCall, SdkTypeOK, Op
    <3>2. /\ underWay' = NoCall /\ registeredOn' = underWay.session /\ In("registering")
          /\ astray' = (astray \/ ~connected)
          /\ UNCHANGED <<connected, current, made, reader, emitted, spent>>
      BY <2>3 DEF RegisterSucceeds, CallReturns
    <3> QED BY <1>0, <3>1, <3>2 DEF NoCall, RustFits, Idle, In, Reads, Unfinished, Registered
  <2> QED BY <1>2, <2>1, <2>2, <2>3 DEF RustRegister
<1>3. ASSUME RustStartsDisconnect
      PROVE  SdkTypeOK' /\ RustFits'
  BY <1>0, <1>3
     DEF RustStartsDisconnect, ResetFlags, SdkTypeOK, Op, Reader, RustFits, Idle, In, Reads,
         Unfinished, Registered
<1>4. ASSUME RustDisconnects
      PROVE  SdkTypeOK' /\ RustFits'
  BY <1>0, <1>4
     DEF RustDisconnects, CallReturns, NoCall, ReaderTurns, SdkTypeOK, Op, Reader, RustFits, Idle,
         In, Reads, Unfinished, Registered
<1>5. ASSUME RustWebSocketCloseFails
      PROVE  SdkTypeOK' /\ RustFits'
  BY <1>0, <1>5
     DEF RustWebSocketCloseFails, CallReturns, NoCall, SdkTypeOK, Op, Reader, RustFits, Idle, In,
         Reads, Unfinished, Registered
<1>6. ASSUME NEW s \in ClientSession, RustReaderEnds(s)
      PROVE  SdkTypeOK' /\ RustFits'
  BY <1>0, <1>6
     DEF RustReaderEnds, ReaderTurns, SdkTypeOK, Op, Reader, RustFits, Idle, In, Reads,
         Unfinished, Registered
<1>7. ASSUME NEW s \in ClientSession, RustNotifies(s)
      PROVE  SdkTypeOK' /\ RustFits'
  BY <1>0, <1>7
     DEF RustNotifies, ResetFlags, ReaderTurns, SdkTypeOK, Op, Reader, RustFits, Idle, In, Reads,
         Unfinished, Registered
<1> QED BY <1>1, <1>2, <1>3, <1>4, <1>5, <1>6, <1>7
   DEF RustNext, RustHttpConnects, RustWebSocketConnects, RustHttpDisconnects,
       RustWebSocketDisconnects, RustHttpReaderEnds, RustWebSocketReaderEnds

(* ... which is what is asked of it.                                        *)
LEMMA RustKnows ==
    ASSUME SdkTypeOK, RustFits, Rust
    PROVE  FlagsFollowSession /\ NoReaderIsLeft
BY SdkConstants
   DEF SdkTypeOK, RustFits, FlagsFollowSession, NoReaderIsLeft, Quiet, Idle, In, Reads, Notifying,
       Unfinished, Registered, NoClientSession, ClientSession

(* Every step of the C# client keeps what it knows.                         *)
LEMMA DotnetKeeps ==
    ASSUME SdkTypeOK, DotnetFits, DotnetNext
    PROVE  SdkTypeOK' /\ DotnetFits'
<1> USE DEF NoClientSession
<1>0. /\ Dotnet /\ language' = language /\ carrier' = carrier /\ Dotnet'
      /\ made \in Nat /\ 0 \notin ClientSession
  BY SdkConstants DEF DotnetNext, Dotnet, SdkTypeOK, ClientSession
<1>1. ASSUME DotnetHttpAsks
      PROVE  SdkTypeOK' /\ DotnetFits'
  BY <1>0, <1>1
     DEF DotnetHttpAsks, SdkTypeOK, Op, Reader, DotnetFits, Idle, In, Reads, Unfinished,
         Notifying, Registered
<1>2. ASSUME DotnetHttpAnswerIsLost
      PROVE  SdkTypeOK' /\ DotnetFits'
  BY <1>0, <1>2
     DEF DotnetHttpAnswerIsLost, CallReturns, NoCall, SdkTypeOK, Op, Reader, DotnetFits, Idle, In,
         Reads, Unfinished, Notifying, Registered
<1>3. ASSUME DotnetHttpConnects \/ DotnetWebSocketConnects
      PROVE  SdkTypeOK' /\ DotnetFits'
  <2>1. "reads" \in Reader /\ MakesSession("reads")
    BY <1>3 DEF Reader, DotnetHttpConnects, DotnetWebSocketConnects, DotnetMakesSession
  <2>2. /\ made' \in ClientSession /\ made' = made + 1 /\ made' \in 0 .. MaxSessions
        /\ reader' \in [ClientSession -> Reader] /\ reader'[made'] = "reads"
        /\ \A t \in ClientSession \ {made'} : reader'[t] = reader[t]
    BY <2>1, SessionMade
  <2>3. /\ current' = made' /\ underWay' = [op |-> "connected", session |-> made']
        /\ astray' = (astray \/ Unfinished # {}) /\ UNCHANGED <<connected, registeredOn, spent>>
        /\ \/ In("connecting") /\ emitted' = emitted
           \/ Idle /\ emitted' = FALSE
    BY <1>3, <2>2 DEF DotnetHttpConnects, DotnetWebSocketConnects, DotnetMakesSession
  <2>4. SdkTypeOK'
    BY <1>0, <2>2, <2>3 DEF SdkTypeOK, Op
  <2>5. CASE astray'
    BY <1>0, <2>2, <2>3, <2>4, <2>5 DEF DotnetFits, Idle, In
  <2>6. CASE ~astray'
    <3>1. ~astray /\ Unfinished = {}
      BY <2>3, <2>6
    <3>2. \A t \in ClientSession : reader[t] \in {"none", "over"}
      BY <3>1 DEF Unfinished
    <3>3. ~connected /\ ~Registered
      BY <1>0, <2>3, <3>1, <3>2 DEF DotnetFits, Idle, In, Reads, Notifying
    <3>4. \A t \in Unfinished' : t = made'
      BY <2>2, <3>2 DEF Unfinished
    <3>5. \A t \in ClientSession : Reads(t)' => t = made'
      BY <2>2, <3>2 DEF Reads
    <3>6. ~connected' /\ ~Registered'
      BY <2>3, <3>3 DEF Registered
    <3>7. ~emitted'
      BY <1>0, <2>3, <3>1 DEF DotnetFits
    <3> QED BY <1>0, <2>2, <2>3, <2>4, <3>4, <3>5, <3>6, <3>7 DEF DotnetFits, In
  <2> QED BY <2>5, <2>6
<1>4. ASSUME DotnetConnects
      PROVE  SdkTypeOK' /\ DotnetFits'
  <2>1. /\ In("connected") /\ underWay' = NoCall /\ connected' = TRUE
        /\ astray' = (astray \/ reader[underWay.session] = "over")
        /\ UNCHANGED <<registeredOn, current, made, reader, emitted, spent>>
    BY <1>4 DEF DotnetConnects, CallReturns
  <2>2. SdkTypeOK'
    BY <1>0, <2>1 DEF SdkTypeOK, Op, NoCall
  <2>3. /\ underWay.session \in ClientSession
        /\ reader[underWay.session] \in {"reads", "notifies", "over"}
    BY <1>0, <2>1 DEF DotnetFits
  <2>4. ~astray' => ~emitted /\ \E s \in ClientSession : Reads(s) \/ s \in Notifying
    BY <1>0, <2>1, <2>3 DEF DotnetFits, Reads, Notifying
  <2> QED BY <1>0, <2>1, <2>2, <2>3, <2>4 DEF DotnetFits, NoCall, In, Reads, Unfinished, Notifying, Registered
<1>5. ASSUME DotnetRegister
      PROVE  SdkTypeOK' /\ DotnetFits'
  <2>1. CASE StartsRegister(current)
    BY <1>0, <2>1
       DEF StartsRegister, SdkTypeOK, Op, DotnetFits, Idle, In, Reads, Unfinished, Notifying,
           Registered
  <2>2. CASE RegisterFails
    BY <1>0, <2>2
       DEF RegisterFails, CallReturns, NoCall, SdkTypeOK, Op, DotnetFits, Idle, In, Reads,
           Unfinished, Notifying, Registered
  <2>3. CASE RegisterSucceeds
    <3>1. SdkTypeOK'
      BY <1>0, <2>3 DEF RegisterSucceeds, CallReturns, NoCall, SdkTypeOK, Op
    <3>2. /\ underWay' = NoCall /\ registeredOn' = underWay.session /\ In("registering")
          /\ astray' = (astray \/ ~connected)
          /\ UNCHANGED <<connected, current, made, reader, emitted, spent>>
      BY <2>3 DEF RegisterSucceeds, CallReturns
    <3> QED BY <1>0, <3>1, <3>2 DEF NoCall, DotnetFits, Idle, In, Reads, Unfinished, Notifying, Registered
  <2> QED BY <1>5, <2>1, <2>2, <2>3 DEF DotnetRegister
<1>6. ASSUME DotnetDetaches
      PROVE  SdkTypeOK' /\ DotnetFits'
  BY <1>0, <1>6
     DEF DotnetDetaches, SdkTypeOK, Op, Reader, DotnetFits, Idle, In, Reads, Unfinished,
         Notifying, Registered
<1>7. ASSUME DotnetDisconnects
      PROVE  SdkTypeOK' /\ DotnetFits'
  BY <1>0, <1>7
     DEF DotnetDisconnects, CallReturns, ResetFlags, NoCall, SdkTypeOK, Op, Reader, DotnetFits,
         Idle, In, Reads, Unfinished, Notifying, Registered
<1>8. ASSUME DotnetWebSocketCloseFails
      PROVE  SdkTypeOK' /\ DotnetFits'
  BY <1>0, <1>8
     DEF DotnetWebSocketCloseFails, CallReturns, DotnetEmitsClose, ResetFlags, NoCall, SdkTypeOK,
         Op, Reader, DotnetFits, Idle, In, Reads, Unfinished, Notifying, Registered
<1>9. ASSUME NEW s \in ClientSession, DotnetHttpReaderEnds(s)
      PROVE  SdkTypeOK' /\ DotnetFits'
  BY <1>0, <1>9
     DEF DotnetHttpReaderEnds, ReaderTurns, SdkTypeOK, Op, Reader, DotnetFits, Idle, In, Reads,
         Unfinished, Notifying, Registered
<1>10. ASSUME NEW s \in ClientSession, DotnetWebSocketReaderEnds(s)
      PROVE  SdkTypeOK' /\ DotnetFits'
  BY <1>0, <1>10
     DEF DotnetWebSocketReaderEnds, ReaderTurns, SdkTypeOK, Op, Reader, DotnetFits, Idle, In,
         Reads, Unfinished, Notifying, Registered
<1>11. ASSUME NEW s \in ClientSession, DotnetNotifies(s)
      PROVE  SdkTypeOK' /\ DotnetFits'
  <2>1. /\ reader[s] = "notifies" /\ reader' \in [ClientSession -> Reader] /\ reader'[s] = "over"
        /\ \A t \in ClientSession \ {s} : reader'[t] = reader[t]
        /\ UNCHANGED <<current, made, underWay, spent, astray>> /\ emitted' = TRUE
        /\ emitted => UNCHANGED <<connected, registeredOn>>
        /\ ~emitted => connected' = FALSE /\ registeredOn' = 0
    BY <1>11, ReaderTurned DEF DotnetNotifies, DotnetEmitsClose, ResetFlags, Reader
  <2>2. SdkTypeOK'
    BY <1>0, <2>1 DEF SdkTypeOK
  <2>3. \A t \in ClientSession : reader'[t] \in {"none", "reads", "stopping", "notifies", "over"}
    BY <1>0, <2>1 DEF DotnetFits
  <2>4. ASSUME ~astray
        PROVE  ~connected' /\ ~Registered' /\ \A t \in ClientSession : ~Reads(t)'
    <3>1. CASE emitted
      BY <1>0, <2>1, <2>4, <3>1 DEF DotnetFits, Reads, Registered
    <3>2. CASE ~emitted
      <4>1. \A t \in ClientSession \ {s} : t \notin Unfinished
        BY <1>0, <2>1, <2>4, <3>2 DEF DotnetFits, Unfinished
      <4> QED BY <2>1, <3>2, <4>1 DEF Reads, Registered, Unfinished
    <3> QED BY <3>1, <3>2
  <2>5. In("connected") => /\ underWay.session \in ClientSession
                           /\ reader'[underWay.session] \in {"reads", "notifies", "over"}
    BY <1>0, <2>1 DEF DotnetFits
  <2>6. ASSUME ~astray
        PROVE  /\ ~In("connecting")
               /\ In("connected") => reader'[underWay.session] = "over"
    <3>1. ~In("connecting")
      BY <1>0, <2>1, <2>6 DEF DotnetFits, Unfinished
    <3>2. ASSUME In("connected"), ~emitted
          PROVE  reader'[underWay.session] = "over"
      BY <1>0, <2>1, <2>6, <3>2 DEF DotnetFits, Unfinished
    <3>3. ASSUME In("connected"), emitted
          PROVE  reader'[underWay.session] = "over"
      BY <1>0, <2>1, <2>6, <3>3 DEF DotnetFits
    <3> QED BY <3>1, <3>2, <3>3
  <2> QED BY <1>0, <2>1, <2>2, <2>3, <2>4, <2>5, <2>6 DEF DotnetFits, In
<1> QED BY <1>1, <1>2, <1>3, <1>4, <1>5, <1>6, <1>7, <1>8, <1>9, <1>10, <1>11 DEF DotnetNext

(* ... which is what is asked of it.                                        *)
LEMMA DotnetKnows ==
    ASSUME SdkTypeOK, DotnetFits, Dotnet
    PROVE  FlagsFollowSession /\ NoReaderIsLeft
BY SdkConstants
   DEF SdkTypeOK, DotnetFits, FlagsFollowSession, NoReaderIsLeft, Quiet, Idle, In, Reads, Notifying,
       Unfinished, Registered, NoClientSession, ClientSession

(* Every step of the Java client keeps what it knows.                       *)
LEMMA JavaKeeps ==
    ASSUME SdkTypeOK, JavaFits, JavaNext
    PROVE  SdkTypeOK' /\ JavaFits'
<1> USE DEF NoClientSession
<1>0. /\ Java /\ language' = language /\ carrier' = carrier /\ Java'
      /\ made \in Nat /\ 0 \notin ClientSession
  BY SdkConstants DEF JavaNext, Java, SdkTypeOK, ClientSession
<1>1. ASSUME JavaWebSocketOpens
      PROVE  SdkTypeOK' /\ JavaFits'
  <2>1. "reads" \in Reader /\ MakesSession("reads")
    BY <1>1 DEF Reader, JavaWebSocketOpens
  <2>2. /\ made' \in ClientSession /\ made' = made + 1 /\ made' \in 0 .. MaxSessions
        /\ reader' \in [ClientSession -> Reader] /\ reader'[made'] = "reads"
        /\ \A t \in ClientSession \ {made'} : reader'[t] = reader[t]
    BY <2>1, SessionMade
  <2>3. /\ underWay' = [op |-> "connecting", session |-> made'] /\ Idle
        /\ carrier = "websocket" /\ astray' = (astray \/ Unfinished # {})
        /\ UNCHANGED <<connected, registeredOn, current, emitted, spent>>
    BY <1>1, <2>2 DEF JavaWebSocketOpens
  <2>4. SdkTypeOK'
    BY <1>0, <2>2, <2>3 DEF SdkTypeOK, Op
  <2>5. CASE astray'
    BY <1>0, <2>2, <2>3, <2>4, <2>5 DEF JavaFits, Idle, In
  <2>6. CASE ~astray'
    <3>1. ~astray /\ Unfinished = {}
      BY <2>3, <2>6
    <3>2. \A t \in ClientSession : reader[t] \in {"none", "over"}
      BY <3>1 DEF Unfinished
    <3>3. ~connected /\ ~Registered
      BY <1>0, <2>3, <3>1, <3>2 DEF JavaFits, Idle, In, Reads, Notifying
    <3>4. \A t \in Unfinished' : t = made'
      BY <2>2, <3>2 DEF Unfinished
    <3>5. \A t \in ClientSession : Reads(t)' => t = made'
      BY <2>2, <3>2 DEF Reads
    <3>6. ~connected' /\ ~Registered'
      BY <2>3, <3>3 DEF Registered
    <3> QED BY <1>0, <2>2, <2>3, <2>4, <3>4, <3>5, <3>6 DEF JavaFits, In
  <2> QED BY <2>5, <2>6
<1>2. ASSUME JavaWebSocketConnects
      PROVE  SdkTypeOK' /\ JavaFits'
  <2>1. /\ In("connecting") /\ underWay' = [op |-> "connected", session |-> underWay.session]
        /\ current' = underWay.session /\ astray' = (astray \/ reader[underWay.session] # "reads")
        /\ UNCHANGED <<connected, registeredOn, made, reader, emitted, spent>>
    BY <1>0, <1>2 DEF JavaWebSocketConnects, In, SdkTypeOK
  <2>2. underWay.session \in ClientSession
    BY <1>0, <2>1 DEF JavaFits
  <2>3. SdkTypeOK'
    BY <1>0, <2>1, <2>2 DEF SdkTypeOK, Op
  <2>4. reader[underWay.session] \in {"queued", "reads", "notifies", "over"}
    BY <1>0, <2>1 DEF JavaFits
  <2> QED BY <1>0, <2>1, <2>2, <2>3, <2>4 DEF JavaFits, In, Reads, Unfinished, Notifying, Registered
<1>3. ASSUME JavaHttpConnects
      PROVE  SdkTypeOK' /\ JavaFits'
  <2>1. "queued" \in Reader /\ MakesSession("queued")
    BY <1>3 DEF Reader, JavaHttpConnects
  <2>2. /\ made' \in ClientSession /\ made' = made + 1 /\ made' \in 0 .. MaxSessions
        /\ reader' \in [ClientSession -> Reader] /\ reader'[made'] = "queued"
        /\ \A t \in ClientSession \ {made'} : reader'[t] = reader[t]
    BY <2>1, SessionMade
  <2>3. /\ current' = made' /\ underWay' = [op |-> "connected", session |-> made'] /\ Idle
        /\ ~spent /\ astray' = (astray \/ Unfinished # {})
        /\ UNCHANGED <<connected, registeredOn, emitted, spent>>
    BY <1>3, <2>2 DEF JavaHttpConnects
  <2>4. SdkTypeOK'
    BY <1>0, <2>2, <2>3 DEF SdkTypeOK, Op
  <2>5. CASE astray'
    BY <1>0, <2>2, <2>3, <2>4, <2>5 DEF JavaFits, Idle, In
  <2>6. CASE ~astray'
    <3>1. ~astray /\ Unfinished = {}
      BY <2>3, <2>6
    <3>2. \A t \in ClientSession : reader[t] \in {"none", "over"}
      BY <3>1 DEF Unfinished
    <3>3. ~connected /\ ~Registered
      BY <1>0, <2>3, <3>1, <3>2 DEF JavaFits, Idle, In, Reads, Notifying
    <3>4. \A t \in Unfinished' : t = made'
      BY <2>2, <3>2 DEF Unfinished
    <3>5. \A t \in ClientSession : Reads(t)' => t = made'
      BY <2>2, <3>2 DEF Reads
    <3>6. ~connected' /\ ~Registered'
      BY <2>3, <3>3 DEF Registered
    <3> QED BY <1>0, <2>2, <2>3, <2>4, <3>4, <3>5, <3>6 DEF JavaFits, In
  <2> QED BY <2>5, <2>6
<1>4. ASSUME JavaHttpConnectIsRejected
      PROVE  SdkTypeOK' /\ JavaFits'
  <2>1. "over" \in Reader /\ MakesSession("over")
    BY <1>4 DEF Reader, JavaHttpConnectIsRejected
  <2>2. /\ made' \in ClientSession /\ made' = made + 1 /\ made' \in 0 .. MaxSessions
        /\ reader' \in [ClientSession -> Reader] /\ reader'[made'] = "over"
        /\ \A t \in ClientSession \ {made'} : reader'[t] = reader[t]
    BY <2>1, SessionMade
  <2>3. /\ current' = made' /\ Idle /\ spent
        /\ UNCHANGED <<connected, registeredOn, underWay, emitted, spent, astray>>
    BY <1>4, <2>2 DEF JavaHttpConnectIsRejected
  <2>4. SdkTypeOK'
    BY <1>0, <2>2, <2>3 DEF SdkTypeOK, Op
  <2> QED BY <1>0, <2>2, <2>3, <2>4 DEF JavaFits, Idle, In, Reads, Unfinished, Notifying, Registered
<1>5. ASSUME JavaConnects
      PROVE  SdkTypeOK' /\ JavaFits'
  <2>1. /\ In("connected") /\ underWay' = NoCall /\ connected' = TRUE
        /\ astray' = (astray \/ reader[underWay.session] = "over")
        /\ UNCHANGED <<registeredOn, current, made, reader, emitted, spent>>
    BY <1>5 DEF JavaConnects, CallReturns
  <2>2. SdkTypeOK'
    BY <1>0, <2>1 DEF SdkTypeOK, Op, NoCall
  <2>3. /\ underWay.session \in ClientSession /\ ~spent
        /\ reader[underWay.session] \in {"queued", "reads", "notifies", "over"}
    BY <1>0, <2>1 DEF JavaFits, In
  <2>4. ~astray' => \E s \in ClientSession : Reads(s) \/ s \in Notifying
    BY <2>1, <2>3 DEF Reads, Notifying
  <2> QED BY <1>0, <2>1, <2>2, <2>3, <2>4 DEF JavaFits, NoCall, In, Reads, Unfinished, Notifying, Registered
<1>6. ASSUME JavaRegister
      PROVE  SdkTypeOK' /\ JavaFits'
  <2>1. CASE StartsRegister(current)
    BY <1>0, <2>1
       DEF StartsRegister, SdkTypeOK, Op, JavaFits, Idle, In, Reads, Unfinished, Notifying,
           Registered
  <2>2. CASE RegisterFails
    BY <1>0, <2>2
       DEF RegisterFails, CallReturns, NoCall, SdkTypeOK, Op, JavaFits, Idle, In, Reads,
           Unfinished, Notifying, Registered
  <2>3. CASE RegisterSucceeds
    <3>1. SdkTypeOK'
      BY <1>0, <2>3 DEF RegisterSucceeds, CallReturns, NoCall, SdkTypeOK, Op
    <3>2. /\ underWay' = NoCall /\ registeredOn' = underWay.session /\ In("registering")
          /\ astray' = (astray \/ ~connected)
          /\ UNCHANGED <<connected, current, made, reader, emitted, spent>>
      BY <2>3 DEF RegisterSucceeds, CallReturns
    <3> QED BY <1>0, <3>1, <3>2 DEF NoCall, JavaFits, Idle, In, Reads, Unfinished, Notifying, Registered
  <2> QED BY <1>6, <2>1, <2>2, <2>3 DEF JavaRegister
<1>7. ASSUME JavaDetaches
      PROVE  SdkTypeOK' /\ JavaFits'
  BY <1>0, <1>7
     DEF JavaDetaches, SdkTypeOK, Op, Reader, JavaFits, Idle, In, Reads, Unfinished, Notifying,
         Registered
<1>8. ASSUME JavaWebSocketDisconnects
      PROVE  SdkTypeOK' /\ JavaFits'
  BY <1>0, <1>8
     DEF JavaWebSocketDisconnects, CallReturns, ResetFlags, NoCall, SdkTypeOK, Op, Reader,
         JavaFits, Idle, In, Reads, Unfinished, Notifying, Registered
<1>9. ASSUME JavaWebSocketCloseFails
      PROVE  SdkTypeOK' /\ JavaFits'
  BY <1>0, <1>9
     DEF JavaWebSocketCloseFails, CallReturns, NoCall, SdkTypeOK, Op, Reader, JavaFits, Idle, In,
         Reads, Unfinished, Notifying, Registered
<1>10. ASSUME JavaHttpDisconnects
      PROVE  SdkTypeOK' /\ JavaFits'
  BY <1>0, <1>10
     DEF JavaHttpDisconnects, CallReturns, ResetFlags, NoCall, SdkTypeOK, Op, Reader, JavaFits,
         Idle, In, Reads, Unfinished, Notifying, Registered
<1>11. ASSUME NEW s \in ClientSession, JavaHttpReaderStarts(s)
      PROVE  SdkTypeOK' /\ JavaFits'
  BY <1>0, <1>11
     DEF JavaHttpReaderStarts, ReaderTurns, SdkTypeOK, Op, Reader, JavaFits, Idle, In, Reads,
         Unfinished, Notifying, Registered
<1>12. ASSUME NEW s \in ClientSession, JavaEnds(s)
      PROVE  SdkTypeOK' /\ JavaFits'
  BY <1>0, <1>12
     DEF JavaEnds, ReaderTurns, SdkTypeOK, Op, Reader, JavaFits, Idle, In, Reads, Unfinished,
         Notifying, Registered
<1>13. ASSUME NEW s \in ClientSession, JavaNotifies(s)
      PROVE  SdkTypeOK' /\ JavaFits'
  <2>1. /\ reader[s] = "notifies" /\ reader' \in [ClientSession -> Reader] /\ reader'[s] = "over"
        /\ \A t \in ClientSession \ {s} : reader'[t] = reader[t]
        /\ UNCHANGED <<current, made, underWay, emitted, spent, astray>>
        /\ ~connected' /\ connected' \in BOOLEAN /\ registeredOn' = 0
    BY <1>13, ReaderTurned DEF JavaNotifies, ResetFlags, Reader
  <2>2. SdkTypeOK'
    BY <1>0, <2>1 DEF SdkTypeOK
  <2>3. \A t \in ClientSession : reader'[t] # "handles"
    BY <1>0, <2>1 DEF JavaFits
  <2>4. ASSUME ~astray, ~In("closing"), NEW t \in ClientSession, Reads(t)'
        PROVE  FALSE
    <3>1. t # s /\ Reads(t)
      BY <2>1, <2>4 DEF Reads
    <3>2. connected \/ In("connecting") \/ In("connected")
      BY <1>0, <2>4, <3>1 DEF JavaFits
    <3>3. s \in Unfinished /\ t \in Unfinished
      BY <2>1, <3>1 DEF Unfinished, Reads
    <3> QED BY <1>0, <2>4, <3>1, <3>2, <3>3 DEF JavaFits
  <2>5. \A t \in Unfinished' : t \in Unfinished
    BY <2>1 DEF Unfinished
  <2>6. In("connecting") \/ In("connected") =>
           /\ underWay.session \in ClientSession
           /\ reader'[underWay.session] \in {"queued", "reads", "notifies", "over"}
    BY <1>0, <2>1 DEF JavaFits
  <2> QED BY <1>0, <2>1, <2>2, <2>3, <2>4, <2>5, <2>6 DEF JavaFits, In, Registered
<1> QED BY <1>1, <1>2, <1>3, <1>4, <1>5, <1>6, <1>7, <1>8, <1>9, <1>10, <1>11, <1>12, <1>13
   DEF JavaNext, JavaHttpReaderEnds, JavaWebSocketReaderEnds

(* ... which is what is asked of it.                                        *)
LEMMA JavaKnows ==
    ASSUME SdkTypeOK, JavaFits, Java
    PROVE  FlagsFollowSession /\ NoReaderIsLeft
BY SdkConstants
   DEF SdkTypeOK, JavaFits, FlagsFollowSession, NoReaderIsLeft, Quiet, Idle, In, Reads, Notifying,
       Unfinished, Registered, NoClientSession, ClientSession

(* What is kept, whatever the language.                                     *)
LanguagesFit == SdkTypeOK /\ GoFits /\ PythonFits /\ RustFits /\ DotnetFits /\ JavaFits

(* At first there is no session in any language.                            *)
LEMMA LanguagesInitHold == SdkInit => LanguagesFit
<1> SUFFICES ASSUME SdkInit
             PROVE  LanguagesFit
  OBVIOUS
<1>1. SdkTypeOK
  <2>1. reader \in [ClientSession -> Reader]
    BY DEF SdkInit, Reader
  <2>2. underWay \in [op : Op, session : ClientSession \cup {NoClientSession}]
    BY DEF SdkInit, NoCall, NoClientSession, Op
  <2>3. made \in 0 .. MaxSessions
    BY SdkConstants DEF SdkInit
  <2> QED BY <2>1, <2>2, <2>3 DEF SdkInit, SdkTypeOK, NoClientSession
<1>2. /\ \A s \in ClientSession : reader[s] = "none"
      /\ current = NoClientSession /\ ~connected /\ ~Registered
      /\ ~emitted /\ ~spent /\ underWay.op = "none" /\ underWay.session = NoClientSession
      /\ 0 \notin ClientSession
  BY DEF SdkInit, NoCall, Registered, ClientSession
<1>3. Unfinished = {} /\ Notifying = {} /\ \A s \in ClientSession : ~Reads(s)
  BY <1>2 DEF Unfinished, Notifying, Reads
<1> QED BY <1>1, <1>2, <1>3
        DEF LanguagesFit, GoFits, PythonFits, RustFits, DotnetFits, JavaFits, In, Idle, NoClientSession

(* Whatever its language, a client for which this holds knows its sessions. *)
LEMMA LanguagesKnow == LanguagesFit => LanguagesInvariant
<1> SUFFICES ASSUME LanguagesFit
             PROVE  LanguagesInvariant
  OBVIOUS
<1>1. SdkTypeOK /\ GoFits /\ PythonFits /\ RustFits /\ DotnetFits /\ JavaFits
  BY DEF LanguagesFit
<1>2. Go \/ Python \/ Rust \/ Dotnet \/ Java
  BY <1>1 DEF SdkTypeOK, Language, Go, Python, Rust, Dotnet, Java
<1>3. FlagsFollowSession /\ NoReaderIsLeft
  BY <1>1, <1>2, GoKnows, PythonKnows, RustKnows, DotnetKnows, JavaKnows
<1> QED BY <1>1, <1>3 DEF LanguagesInvariant, SdkInvariant

(* A step of a client in one language says nothing of the other four.       *)
LEMMA LanguagesKeep ==
    ASSUME LanguagesFit, [GoNext \/ PythonNext \/ RustNext \/ DotnetNext \/ JavaNext]_sdkVars
    PROVE  LanguagesFit'
<1> USE DEF Go, Python, Rust, Dotnet, Java
<1>0. SdkTypeOK /\ GoFits /\ PythonFits /\ RustFits /\ DotnetFits /\ JavaFits
  BY DEF LanguagesFit
<1>1. CASE UNCHANGED sdkVars
  BY <1>0, <1>1 DEF sdkVars, LanguagesFit, SdkTypeOK, GoFits, PythonFits, RustFits, DotnetFits, JavaFits,
     Idle, In, Registered, Reads, Unfinished, Notifying
<1>2. CASE GoNext
  <2>1. language' = language /\ Go
    BY <1>2 DEF GoNext
  <2>2. PythonFits' /\ RustFits' /\ DotnetFits' /\ JavaFits'
    BY <2>1 DEF PythonFits, RustFits, DotnetFits, JavaFits
  <2> QED BY <1>0, <1>2, <2>2, GoKeeps DEF LanguagesFit
<1>3. CASE PythonNext
  <2>1. language' = language /\ Python
    BY <1>3 DEF PythonNext
  <2>2. GoFits' /\ RustFits' /\ DotnetFits' /\ JavaFits'
    BY <2>1 DEF GoFits, RustFits, DotnetFits, JavaFits
  <2> QED BY <1>0, <1>3, <2>2, PythonKeeps DEF LanguagesFit
<1>4. CASE RustNext
  <2>1. language' = language /\ Rust
    BY <1>4 DEF RustNext
  <2>2. GoFits' /\ PythonFits' /\ DotnetFits' /\ JavaFits'
    BY <2>1 DEF GoFits, PythonFits, DotnetFits, JavaFits
  <2> QED BY <1>0, <1>4, <2>2, RustKeeps DEF LanguagesFit
<1>5. CASE DotnetNext
  <2>1. language' = language /\ Dotnet
    BY <1>5 DEF DotnetNext
  <2>2. GoFits' /\ PythonFits' /\ RustFits' /\ JavaFits'
    BY <2>1 DEF GoFits, PythonFits, RustFits, JavaFits
  <2> QED BY <1>0, <1>5, <2>2, DotnetKeeps DEF LanguagesFit
<1>6. CASE JavaNext
  <2>1. language' = language /\ Java
    BY <1>6 DEF JavaNext
  <2>2. GoFits' /\ PythonFits' /\ RustFits' /\ DotnetFits'
    BY <2>1 DEF GoFits, PythonFits, RustFits, DotnetFits
  <2> QED BY <1>0, <1>6, <2>2, JavaKeeps DEF LanguagesFit
<1> QED BY <1>1, <1>2, <1>3, <1>4, <1>5, <1>6

-----------------------------------------------------------------------------
(* Messages.                                                                *)

(* What a path becomes in the message: the guards let it pass, and it says  *)
(* what was given.                                                          *)
PathIsMeant(o) ==
    LET d == Described(o)
    IN  /\ \/ IsPathDescriptor(d)
           \/ o.type = "endpoint" /\ o.method \notin KnownMethod
           \/ speaks = "java" /\ o.type = "skill" /\ o.contentType = "null"
        /\ Plain(d.inputSchema) = IF o.type = "skill" THEN "nothing" ELSE Plain(o.inputSchema)
        /\ Plain(d.outputSchema) = IF o.type = "skill" THEN "nothing" ELSE Plain(o.outputSchema)
        /\ \/ Plain(d.description) = Plain(o.description)
           \/ o.content = "prose" /\ d.description = "text"
           \/ o.content = "headings" /\ speaks = "dotnet"

(* In every language.                                                       *)
LEMMA PathsAreMeant ==
    ASSUME speaks \in Speaks, NEW o \in GivenPath, Takes(o)
    PROVE  PathIsMeant(o)
<1> USE DEF PathIsMeant, IsPathDescriptor, IfPresent, IsString, IsJsonObject, KnownMethod, Descriptor,
            Prose, Plain, Sent, Filled, Or, OrFilled
<1>1. ASSUME o.type = "endpoint"
      PROVE  PathIsMeant(o)
  <2>1. /\ o.description \in Text /\ o.inputSchema \in Structure /\ o.outputSchema \in Structure
        /\ o.contentType \in Text
    BY <1>1 DEF GivenPath
  <2>2. CASE speaks = "typescript"
    <3>1. Described(o) = TypescriptEndpoint(o) /\ TypescriptTakes(o)
      BY <1>1, <2>2 DEF Described, Of, Takes
    <3> QED BY <1>1, <2>1, <2>2, <3>1 DEF Text, Structure, TypescriptEndpoint, TypescriptTakes
  <2>3. CASE speaks = "go"
    <3>1. Described(o) = GoEndpoint(o) /\ GoTakes(o)
      BY <1>1, <2>3 DEF Described, Of, Takes
    <3> QED BY <1>1, <2>1, <2>3, <3>1 DEF Text, Structure, GoEndpoint, GoTakes
  <2>4. CASE speaks = "python"
    <3>1. Described(o) = PythonEndpoint(o) /\ PythonTakes(o)
      BY <1>1, <2>4 DEF Described, Of, Takes
    <3> QED BY <1>1, <2>1, <2>4, <3>1 DEF Text, Structure, PythonEndpoint, PythonTakes
  <2>5. CASE speaks = "rust"
    <3>1. Described(o) = RustEndpoint(o) /\ RustTakes(o)
      BY <1>1, <2>5 DEF Described, Of, Takes
    <3> QED BY <1>1, <2>1, <2>5, <3>1 DEF Text, Structure, RustEndpoint, RustTakes
  <2>6. CASE speaks = "dotnet"
    <3>1. Described(o) = DotnetEndpoint(o) /\ DotnetTakes(o)
      BY <1>1, <2>6 DEF Described, Of, Takes
    <3> QED BY <1>1, <2>1, <2>6, <3>1 DEF Text, Structure, DotnetEndpoint, DotnetTakes
  <2>7. CASE speaks = "java"
    <3>1. Described(o) = JavaEndpoint(o) /\ JavaTakes(o)
      BY <1>1, <2>7 DEF Described, Of, Takes
    <3> QED BY <1>1, <2>1, <2>7, <3>1 DEF Text, Structure, JavaEndpoint, JavaTakes
  <2> QED BY <2>2, <2>3, <2>4, <2>5, <2>6, <2>7 DEF Speaks
<1>2. ASSUME o.type = "skill"
      PROVE  PathIsMeant(o)
  <2>1. /\ o.description \in Text /\ o.contentType \in Text \cup {"null"}
        /\ o.content \in {"prose", "headings", "handler"}
    BY <1>2 DEF GivenPath
  <2>2. CASE speaks = "typescript"
    <3>1. Described(o) = TypescriptSkill(o) /\ TypescriptTakes(o)
      BY <1>2, <2>2 DEF Described, Of, Takes
    <3> QED BY <1>2, <2>1, <2>2, <3>1 DEF Text, Structure, TypescriptSkill, TypescriptTakes
  <2>3. CASE speaks = "go"
    <3>1. Described(o) = GoSkill(o) /\ GoTakes(o)
      BY <1>2, <2>3 DEF Described, Of, Takes
    <3> QED BY <1>2, <2>1, <2>3, <3>1 DEF Text, Structure, GoSkill, GoTakes
  <2>4. CASE speaks = "python"
    <3>1. Described(o) = PythonSkill(o) /\ PythonTakes(o)
      BY <1>2, <2>4 DEF Described, Of, Takes
    <3> QED BY <1>2, <2>1, <2>4, <3>1 DEF Text, Structure, PythonSkill, PythonTakes
  <2>5. CASE speaks = "rust"
    <3>1. Described(o) = RustSkill(o) /\ RustTakes(o)
      BY <1>2, <2>5 DEF Described, Of, Takes
    <3> QED BY <1>2, <2>1, <2>5, <3>1 DEF Text, Structure, RustSkill, RustTakes
  <2>6. CASE speaks = "dotnet"
    <3>1. Described(o) = DotnetSkill(o) /\ DotnetTakes(o)
      BY <1>2, <2>6 DEF Described, Of, Takes
    <3> QED BY <1>2, <2>1, <2>6, <3>1 DEF Text, Structure, DotnetSkill, DotnetTakes
  <2>7. CASE speaks = "java"
    <3>1. Described(o) = JavaSkill(o) /\ JavaTakes(o)
      BY <1>2, <2>7 DEF Described, Of, Takes
    <3> QED BY <1>2, <2>1, <2>7, <3>1 DEF Text, Structure, JavaSkill, JavaTakes
  <2> QED BY <2>2, <2>3, <2>4, <2>5, <2>6, <2>7 DEF Speaks
<1>3. ASSUME o.type = "prompt"
      PROVE  PathIsMeant(o)
  <2>1. /\ o.description \in Text /\ o.inputSchema \in Structure /\ o.outputSchema \in Structure
        /\ o.content \in {"prose", "headings", "handler"}
    BY <1>3 DEF GivenPath
  <2>2. CASE speaks = "typescript"
    <3>1. Described(o) = TypescriptPrompt(o) /\ TypescriptTakes(o)
      BY <1>3, <2>2 DEF Described, Of, Takes
    <3> QED BY <1>3, <2>1, <2>2, <3>1 DEF Text, Structure, TypescriptPrompt, TypescriptTakes
  <2>3. CASE speaks = "go"
    <3>1. Described(o) = GoPrompt(o) /\ GoTakes(o)
      BY <1>3, <2>3 DEF Described, Of, Takes
    <3> QED BY <1>3, <2>1, <2>3, <3>1 DEF Text, Structure, GoPrompt, GoTakes
  <2>4. CASE speaks = "python"
    <3>1. Described(o) = PythonPrompt(o) /\ PythonTakes(o)
      BY <1>3, <2>4 DEF Described, Of, Takes
    <3> QED BY <1>3, <2>1, <2>4, <3>1 DEF Text, Structure, PythonPrompt, PythonTakes
  <2>5. CASE speaks = "rust"
    <3>1. Described(o) = RustPrompt(o) /\ RustTakes(o)
      BY <1>3, <2>5 DEF Described, Of, Takes
    <3> QED BY <1>3, <2>1, <2>5, <3>1 DEF Text, Structure, RustPrompt, RustTakes
  <2>6. CASE speaks = "dotnet"
    <3>1. Described(o) = DotnetPrompt(o) /\ DotnetTakes(o)
      BY <1>3, <2>6 DEF Described, Of, Takes
    <3> QED BY <1>3, <2>1, <2>6, <3>1 DEF Text, Structure, DotnetPrompt, DotnetTakes
  <2>7. CASE speaks = "java"
    <3>1. Described(o) = JavaPrompt(o) /\ JavaTakes(o)
      BY <1>3, <2>7 DEF Described, Of, Takes
    <3> QED BY <1>3, <2>1, <2>7, <3>1 DEF Text, Structure, JavaPrompt, JavaTakes
  <2> QED BY <2>2, <2>3, <2>4, <2>5, <2>6, <2>7 DEF Speaks
<1> QED BY <1>1, <1>2, <1>3 DEF GivenPath

(* ... what a client says of itself, overridden or not: with a name and an *)
(* id, and nothing lost.                                                    *)
ClientIsMeant(info, over) ==
    LET c == ClientOf(info, over)
        given(f) == IF over[f] = "unset" THEN info[f] ELSE over[f]
    IN  /\ IsString(c.id) /\ IsString(c.name)
        /\ \A f \in DOMAIN c : Plain(c[f]) = Plain(given(f))

(* In every language.                                                       *)
LEMMA ClientsAreMeant ==
    ASSUME speaks \in Speaks, NEW info \in GivenInfo, NEW over \in GivenOver
    PROVE  ClientIsMeant(info, over)
<1>1. /\ DOMAIN info = {"id", "name", "description", "version", "platform", "metadata"}
      /\ info.id \in {"blank", "text"} /\ info.name \in {"blank", "text"} /\ info.description \in Text
      /\ info.version \in Text /\ info.platform \in Text /\ info.metadata \in Structure
      /\ over.id \in Text /\ over.name \in Text /\ over.description \in Text
      /\ over.version \in Text /\ over.platform \in Text /\ over.metadata \in Structure
  BY DEF GivenInfo, GivenOver
<1>2. CASE speaks = "typescript"
  <2>1. ClientOf(info, over) = TypescriptClient(info, over)
    BY <1>2 DEF ClientOf
  <2> QED BY <1>1, <2>1 DEF TypescriptClient, Client, Overridden, ClientIsMeant, IsString, Plain, Sent, Filled, Text, Structure
<1>3. CASE speaks = "go"
  <2>1. ClientOf(info, over) = GoClientDescriptor(info, over)
    BY <1>3 DEF ClientOf
  <2> QED BY <1>1, <2>1 DEF GoClientDescriptor, Client, Overridden, ClientIsMeant, IsString, Plain, Sent, Filled, Text, Structure
<1>4. CASE speaks = "python"
  <2>1. ClientOf(info, over) = PythonClientDescriptor(info, over)
    BY <1>4 DEF ClientOf
  <2> QED BY <1>1, <2>1 DEF PythonClientDescriptor, Client, Overridden, ClientIsMeant, IsString, Plain, Sent, Filled, Text, Structure
<1>5. CASE speaks = "rust"
  <2>1. ClientOf(info, over) = RustClientDescriptor(info, over)
    BY <1>5 DEF ClientOf
  <2> QED BY <1>1, <2>1 DEF RustClientDescriptor, Client, Overridden, ClientIsMeant, IsString, Plain, Sent, Filled, Text, Structure
<1>6. CASE speaks = "dotnet"
  <2>1. ClientOf(info, over) = DotnetClientDescriptor(info, over)
    BY <1>6 DEF ClientOf
  <2> QED BY <1>1, <2>1 DEF DotnetClientDescriptor, Client, Overridden, ClientIsMeant, IsString, Plain, Sent, Filled, Text, Structure
<1>7. CASE speaks = "java"
  <2>1. ClientOf(info, over) = JavaClientDescriptor(info, over)
    BY <1>7 DEF ClientOf
  <2> QED BY <1>1, <2>1 DEF JavaClientDescriptor, Client, Overridden, ClientIsMeant, IsString, Plain, Sent, Filled, Text, Structure
<1> QED BY <1>2, <1>3, <1>4, <1>5, <1>6, <1>7 DEF Speaks

(* ... the authentication that goes along.                                  *)
AuthMeans(sent, given) ==
    \A f \in DOMAIN sent : Plain(sent[f]) = Plain(given[f])

(* In every language.                                                       *)
LEMMA AuthIsMeant ==
    ASSUME speaks \in Speaks, NEW a \in GivenAuth
    PROVE  IsAuthContext(AuthSent(a)) /\ AuthMeans(AuthSent(a), a)
<1>1. /\ a.scheme \in Text /\ a.token \in Text
      /\ a.headers \in {"unset", "empty", "texts"} /\ a.metadata \in Structure
  BY DEF GivenAuth
<1>2. CASE speaks = "typescript"
  <2>1. AuthSent(a) = TypescriptAuth(a)
    BY <1>2 DEF AuthSent
  <2> QED BY <1>1, <2>1 DEF TypescriptAuth, Auth, AuthMeans, IsAuthContext, IfPresent, IsString, IsStringRecord, IsJsonObject,
       Plain, Sent, Filled, Text, Structure
<1>3. CASE speaks = "go"
  <2>1. AuthSent(a) = GoAuth(a)
    BY <1>3 DEF AuthSent
  <2> QED BY <1>1, <2>1 DEF GoAuth, Auth, AuthMeans, IsAuthContext, IfPresent, IsString, IsStringRecord, IsJsonObject,
       Plain, Sent, Filled, Text, Structure
<1>4. CASE speaks = "python"
  <2>1. AuthSent(a) = PythonAuth(a)
    BY <1>4 DEF AuthSent
  <2> QED BY <1>1, <2>1 DEF PythonAuth, Auth, AuthMeans, IsAuthContext, IfPresent, IsString, IsStringRecord, IsJsonObject,
       Plain, Sent, Filled, Text, Structure
<1>5. CASE speaks = "rust"
  <2>1. AuthSent(a) = RustAuth(a)
    BY <1>5 DEF AuthSent
  <2> QED BY <1>1, <2>1 DEF RustAuth, Auth, AuthMeans, IsAuthContext, IfPresent, IsString, IsStringRecord, IsJsonObject,
       Plain, Sent, Filled, Text, Structure
<1>6. CASE speaks = "dotnet"
  <2>1. AuthSent(a) = DotnetAuth(a)
    BY <1>6 DEF AuthSent
  <2> QED BY <1>1, <2>1 DEF DotnetAuth, Auth, AuthMeans, IsAuthContext, IfPresent, IsString, IsStringRecord, IsJsonObject,
       Plain, Sent, Filled, Text, Structure
<1>7. CASE speaks = "java"
  <2>1. AuthSent(a) = JavaAuth(a)
    BY <1>7 DEF AuthSent
  <2> QED BY <1>1, <2>1 DEF JavaAuth, Auth, AuthMeans, IsAuthContext, IfPresent, IsString, IsStringRecord, IsJsonObject,
       Plain, Sent, Filled, Text, Structure
<1> QED BY <1>2, <1>3, <1>4, <1>5, <1>6, <1>7 DEF Speaks

(* What the server makes of what a caller gives.                            *)
LEMMA AskedIsTyped ==
    ASSUME NEW asked \in Asked
    PROVE  asked = <<>> \/ \E q \in CallOf : asked = <<CallMessage(q)>>
BY DEF Asked, AtMostOne

AskedAuth == [scheme : {"absent", "blank", "text"}, token : {"absent", "blank", "text"},
              headers : {"absent", "empty", "texts"}, metadata : {"absent", "empty", "object"}]

(* ... has one of these forms.                                              *)
LEMMA MessageIsTyped ==
    ASSUME NEW q \in CallOf
    PROVE  LET m == CallMessage(q)
           IN  /\ m \in Message
               /\ m.query \in {"absent", "empty", "object"} /\ m.headers \in {"absent", "empty", "texts"}
               /\ m.body \in {"absent", "null", "blank", "text", "empty", "texts", "object"}
               /\ \/ m.auth = <<>>
                  \/ \E a \in AskedAuth :
                        m.auth = <<a>>
<1>1. /\ q.query \in Structure /\ q.headers \in {"unset", "empty", "texts"}
      /\ q.body \in {"unset", "null", "blank", "text", "empty", "texts", "object"}
      /\ q.auth = <<>> \/ \E a \in GivenAuth : q.auth = <<a>>
  BY WireConstants DEF AtMostOne
<1>2. CASE q.auth = <<>>
  <2>1. CallMessage(q).auth = <<>>
    BY <1>2 DEF CallMessage, Auth
  <2> QED BY <1>1, <2>1 DEF CallMessage, Message, Sent, Structure, Kind, Auth
<1>3. ASSUME NEW g \in GivenAuth, q.auth = <<g>>
      PROVE  \E a \in AskedAuth :
                a \in SentAuth /\ CallMessage(q).auth = <<a>>
  <2>1. CallMessage(q).auth = <<[scheme |-> Sent(g.scheme), token |-> Sent(g.token),
                                 headers |-> Sent(g.headers), metadata |-> Sent(g.metadata)]>>
    BY <1>3 DEF CallMessage, Auth
  <2>2. /\ Sent(g.scheme) \in {"absent", "blank", "text"} /\ Sent(g.token) \in {"absent", "blank", "text"}
        /\ Sent(g.headers) \in {"absent", "empty", "texts"} /\ Sent(g.metadata) \in {"absent", "empty", "object"}
    BY DEF GivenAuth, Sent, Structure, Text
  <2> QED BY <2>1, <2>2 DEF AskedAuth, SentAuth, Kind
<1>4. /\ CallMessage(q).query \in {"absent", "empty", "object"}
      /\ CallMessage(q).headers \in {"absent", "empty", "texts"}
      /\ CallMessage(q).body \in {"absent", "null", "blank", "text", "empty", "texts", "object"}
      /\ CallMessage(q).auth \in Seq(SentAuth) => CallMessage(q) \in Message
  BY <1>1 DEF CallMessage, Message, Sent, Structure, Kind, Auth
<1>5. ASSUME NEW g \in GivenAuth, q.auth = <<g>>
      PROVE  CallMessage(q).auth \in Seq(SentAuth)
  <2>1. PICK a \in AskedAuth : a \in SentAuth /\ CallMessage(q).auth = <<a>>
    BY <1>3, <1>5
  <2> QED BY <2>1
<1> QED BY <1>1, <1>2, <1>3, <1>4, <1>5

(* What a handler is given of it is what was asked.                         *)
RequestMeans(r, m) ==
    LET body(v) == IF v \in {"absent", "unset", "null"} THEN "nothing" ELSE v
    IN  /\ Plain(r.queries) = Plain(m.query) /\ Plain(r.headers) = Plain(m.headers)
        /\ body(r.body) = body(m.body)
        /\ r.auth = <<>> <=> m.auth = <<>>
        /\ \A j \in DOMAIN m.auth : \A f \in DOMAIN m.auth[j] : Plain(r.auth[j][f]) = Plain(m.auth[j][f])

(* In every language.                                                       *)
LEMMA RequestsAreMeant ==
    ASSUME speaks \in Speaks, NEW q \in CallOf
    PROVE  RequestOf(CallMessage(q)) \in Handed /\ RequestMeans(RequestOf(CallMessage(q)), CallMessage(q))
<1>1. PICK m : /\ m = CallMessage(q)
               /\ m.query \in {"absent", "empty", "object"} /\ m.headers \in {"absent", "empty", "texts"}
               /\ m.body \in {"absent", "null", "blank", "text", "empty", "texts", "object"}
               /\ \/ m.auth = <<>>
                  \/ \E a \in AskedAuth :
                        m.auth = <<a>>
  BY MessageIsTyped
<1>2. CASE speaks = "typescript"
  <2>1. RequestOf(m) = TypescriptRequest(m)
    BY <1>2 DEF RequestOf
  <2>2. CASE m.auth = <<>>
    BY <1>1, <2>1, <2>2
       DEF TypescriptRequest, Request, AuthOf, Auth, RequestMeans, Handed, HandedAuth, HandedKind, Kind,
           Plain, Got, OrNull, OrEmpty, OrEmptyTexts, IsString, IsJsonObject, IsStringRecord
  <2>3. ASSUME NEW a \in AskedAuth, m.auth = <<a>>
        PROVE  RequestOf(m) \in Handed /\ RequestMeans(RequestOf(m), m)
    <3>1. PICK b : /\ TypescriptRequest(m).auth = <<b>> /\ b \in HandedAuth
                   /\ \A f \in DOMAIN a : Plain(b[f]) = Plain(a[f])
      BY <2>3 DEF TypescriptRequest, Request, AuthOf, Auth, AskedAuth, HandedAuth, HandedKind, Kind,
                  Plain, Got, OrEmpty, IsString, IsJsonObject
    <3>2. \A j \in DOMAIN m.auth : m.auth[j] = a /\ TypescriptRequest(m).auth[j] = b
      BY <2>3, <3>1
    <3>3. TypescriptRequest(m).auth \in Seq(HandedAuth) /\ TypescriptRequest(m).auth # <<>> /\ m.auth # <<>>
      BY <2>3, <3>1
    <3>4. /\ DOMAIN TypescriptRequest(m) = {"queries", "headers", "body", "auth"}
          /\ TypescriptRequest(m) = [queries |-> TypescriptRequest(m).queries, headers |-> TypescriptRequest(m).headers,
                  body |-> TypescriptRequest(m).body, auth |-> TypescriptRequest(m).auth]
          /\ TypescriptRequest(m).queries = OrEmpty(m.query) /\ TypescriptRequest(m).headers = OrEmptyTexts(m.headers)
      BY DEF TypescriptRequest, Request
    <3>5. TypescriptRequest(m).body = Got(m.body)
      BY DEF TypescriptRequest, Request
    <3> QED BY <1>1, <2>1, <3>1, <3>2, <3>3, <3>4, <3>5
            DEF RequestMeans, Handed, HandedKind, Kind, Plain, Got, OrNull, OrEmpty, OrEmptyTexts,
                IsJsonObject, IsStringRecord
  <2> QED BY <1>1, <2>2, <2>3
<1>3. CASE speaks = "go"
  <2>1. RequestOf(m) = GoRequest(m)
    BY <1>3 DEF RequestOf
  <2>2. CASE m.auth = <<>>
    BY <1>1, <2>1, <2>2
       DEF GoRequest, Request, AuthOf, Auth, RequestMeans, Handed, HandedAuth, HandedKind, Kind,
           Plain, Got, OrNull, OrEmpty, OrEmptyTexts, IsString, IsJsonObject, IsStringRecord
  <2>3. ASSUME NEW a \in AskedAuth, m.auth = <<a>>
        PROVE  RequestOf(m) \in Handed /\ RequestMeans(RequestOf(m), m)
    <3>1. PICK b : /\ GoRequest(m).auth = <<b>> /\ b \in HandedAuth
                   /\ \A f \in DOMAIN a : Plain(b[f]) = Plain(a[f])
      BY <2>3 DEF GoRequest, Request, AuthOf, Auth, AskedAuth, HandedAuth, HandedKind, Kind,
                  Plain, Got, OrEmpty, IsString, IsJsonObject
    <3>2. \A j \in DOMAIN m.auth : m.auth[j] = a /\ GoRequest(m).auth[j] = b
      BY <2>3, <3>1
    <3>3. GoRequest(m).auth \in Seq(HandedAuth) /\ GoRequest(m).auth # <<>> /\ m.auth # <<>>
      BY <2>3, <3>1
    <3>4. /\ DOMAIN GoRequest(m) = {"queries", "headers", "body", "auth"}
          /\ GoRequest(m) = [queries |-> GoRequest(m).queries, headers |-> GoRequest(m).headers,
                  body |-> GoRequest(m).body, auth |-> GoRequest(m).auth]
          /\ GoRequest(m).queries = OrEmpty(m.query) /\ GoRequest(m).headers = OrEmptyTexts(m.headers)
      BY DEF GoRequest, Request
    <3>5. GoRequest(m).body = OrNull(m.body)
      BY DEF GoRequest, Request
    <3> QED BY <1>1, <2>1, <3>1, <3>2, <3>3, <3>4, <3>5
            DEF RequestMeans, Handed, HandedKind, Kind, Plain, Got, OrNull, OrEmpty, OrEmptyTexts,
                IsJsonObject, IsStringRecord
  <2> QED BY <1>1, <2>2, <2>3
<1>4. CASE speaks = "python"
  <2>1. RequestOf(m) = PythonRequest(m)
    BY <1>4 DEF RequestOf
  <2>2. CASE m.auth = <<>>
    BY <1>1, <2>1, <2>2
       DEF PythonRequest, Request, AuthOf, Auth, RequestMeans, Handed, HandedAuth, HandedKind, Kind,
           Plain, Got, OrNull, OrEmpty, OrEmptyTexts, IsString, IsJsonObject, IsStringRecord
  <2>3. ASSUME NEW a \in AskedAuth, m.auth = <<a>>
        PROVE  RequestOf(m) \in Handed /\ RequestMeans(RequestOf(m), m)
    <3>1. PICK b : /\ PythonRequest(m).auth = <<b>> /\ b \in HandedAuth
                   /\ \A f \in DOMAIN a : Plain(b[f]) = Plain(a[f])
      BY <2>3 DEF PythonRequest, Request, AuthOf, Auth, AskedAuth, HandedAuth, HandedKind, Kind,
                  Plain, Got, OrEmpty, IsString, IsJsonObject
    <3>2. \A j \in DOMAIN m.auth : m.auth[j] = a /\ PythonRequest(m).auth[j] = b
      BY <2>3, <3>1
    <3>3. PythonRequest(m).auth \in Seq(HandedAuth) /\ PythonRequest(m).auth # <<>> /\ m.auth # <<>>
      BY <2>3, <3>1
    <3>4. /\ DOMAIN PythonRequest(m) = {"queries", "headers", "body", "auth"}
          /\ PythonRequest(m) = [queries |-> PythonRequest(m).queries, headers |-> PythonRequest(m).headers,
                  body |-> PythonRequest(m).body, auth |-> PythonRequest(m).auth]
          /\ PythonRequest(m).queries = OrEmpty(m.query) /\ PythonRequest(m).headers = OrEmptyTexts(m.headers)
      BY DEF PythonRequest, Request
    <3>5. PythonRequest(m).body = OrNull(m.body)
      BY DEF PythonRequest, Request
    <3> QED BY <1>1, <2>1, <3>1, <3>2, <3>3, <3>4, <3>5
            DEF RequestMeans, Handed, HandedKind, Kind, Plain, Got, OrNull, OrEmpty, OrEmptyTexts,
                IsJsonObject, IsStringRecord
  <2> QED BY <1>1, <2>2, <2>3
<1>5. CASE speaks = "rust"
  <2>1. RequestOf(m) = RustRequest(m)
    BY <1>5 DEF RequestOf
  <2>2. CASE m.auth = <<>>
    BY <1>1, <2>1, <2>2
       DEF RustRequest, Request, AuthOf, Auth, RequestMeans, Handed, HandedAuth, HandedKind, Kind,
           Plain, Got, OrNull, OrEmpty, OrEmptyTexts, IsString, IsJsonObject, IsStringRecord
  <2>3. ASSUME NEW a \in AskedAuth, m.auth = <<a>>
        PROVE  RequestOf(m) \in Handed /\ RequestMeans(RequestOf(m), m)
    <3>1. PICK b : /\ RustRequest(m).auth = <<b>> /\ b \in HandedAuth
                   /\ \A f \in DOMAIN a : Plain(b[f]) = Plain(a[f])
      BY <2>3 DEF RustRequest, Request, AuthOf, Auth, AskedAuth, HandedAuth, HandedKind, Kind,
                  Plain, Got, OrEmpty, IsString, IsJsonObject
    <3>2. \A j \in DOMAIN m.auth : m.auth[j] = a /\ RustRequest(m).auth[j] = b
      BY <2>3, <3>1
    <3>3. RustRequest(m).auth \in Seq(HandedAuth) /\ RustRequest(m).auth # <<>> /\ m.auth # <<>>
      BY <2>3, <3>1
    <3>4. /\ DOMAIN RustRequest(m) = {"queries", "headers", "body", "auth"}
          /\ RustRequest(m) = [queries |-> RustRequest(m).queries, headers |-> RustRequest(m).headers,
                  body |-> RustRequest(m).body, auth |-> RustRequest(m).auth]
          /\ RustRequest(m).queries = OrEmpty(m.query) /\ RustRequest(m).headers = OrEmptyTexts(m.headers)
      BY DEF RustRequest, Request
    <3>5. RustRequest(m).body = IF m.body \in {"absent", "null"} THEN "unset" ELSE m.body
      BY DEF RustRequest, Request
    <3> QED BY <1>1, <2>1, <3>1, <3>2, <3>3, <3>4, <3>5
            DEF RequestMeans, Handed, HandedKind, Kind, Plain, Got, OrNull, OrEmpty, OrEmptyTexts,
                IsJsonObject, IsStringRecord
  <2> QED BY <1>1, <2>2, <2>3
<1>6. CASE speaks = "dotnet"
  <2>1. RequestOf(m) = DotnetRequest(m)
    BY <1>6 DEF RequestOf
  <2>2. CASE m.auth = <<>>
    BY <1>1, <2>1, <2>2
       DEF DotnetRequest, Request, AuthOf, Auth, RequestMeans, Handed, HandedAuth, HandedKind, Kind,
           Plain, Got, OrNull, OrEmpty, OrEmptyTexts, IsString, IsJsonObject, IsStringRecord
  <2>3. ASSUME NEW a \in AskedAuth, m.auth = <<a>>
        PROVE  RequestOf(m) \in Handed /\ RequestMeans(RequestOf(m), m)
    <3>1. PICK b : /\ DotnetRequest(m).auth = <<b>> /\ b \in HandedAuth
                   /\ \A f \in DOMAIN a : Plain(b[f]) = Plain(a[f])
      BY <2>3 DEF DotnetRequest, Request, AuthOf, Auth, AskedAuth, HandedAuth, HandedKind, Kind,
                  Plain, Got, OrEmpty, IsString, IsJsonObject
    <3>2. \A j \in DOMAIN m.auth : m.auth[j] = a /\ DotnetRequest(m).auth[j] = b
      BY <2>3, <3>1
    <3>3. DotnetRequest(m).auth \in Seq(HandedAuth) /\ DotnetRequest(m).auth # <<>> /\ m.auth # <<>>
      BY <2>3, <3>1
    <3>4. /\ DOMAIN DotnetRequest(m) = {"queries", "headers", "body", "auth"}
          /\ DotnetRequest(m) = [queries |-> DotnetRequest(m).queries, headers |-> DotnetRequest(m).headers,
                  body |-> DotnetRequest(m).body, auth |-> DotnetRequest(m).auth]
          /\ DotnetRequest(m).queries = OrEmpty(m.query) /\ DotnetRequest(m).headers = OrEmptyTexts(m.headers)
      BY DEF DotnetRequest, Request
    <3>5. DotnetRequest(m).body = OrNull(m.body)
      BY DEF DotnetRequest, Request
    <3> QED BY <1>1, <2>1, <3>1, <3>2, <3>3, <3>4, <3>5
            DEF RequestMeans, Handed, HandedKind, Kind, Plain, Got, OrNull, OrEmpty, OrEmptyTexts,
                IsJsonObject, IsStringRecord
  <2> QED BY <1>1, <2>2, <2>3
<1>7. CASE speaks = "java"
  <2>1. RequestOf(m) = JavaRequest(m)
    BY <1>7 DEF RequestOf
  <2>2. CASE m.auth = <<>>
    BY <1>1, <2>1, <2>2
       DEF JavaRequest, Request, AuthOf, Auth, RequestMeans, Handed, HandedAuth, HandedKind, Kind,
           Plain, Got, OrNull, OrEmpty, OrEmptyTexts, IsString, IsJsonObject, IsStringRecord
  <2>3. ASSUME NEW a \in AskedAuth, m.auth = <<a>>
        PROVE  RequestOf(m) \in Handed /\ RequestMeans(RequestOf(m), m)
    <3>1. PICK b : /\ JavaRequest(m).auth = <<b>> /\ b \in HandedAuth
                   /\ \A f \in DOMAIN a : Plain(b[f]) = Plain(a[f])
      BY <2>3 DEF JavaRequest, Request, AuthOf, Auth, AskedAuth, HandedAuth, HandedKind, Kind,
                  Plain, Got, OrEmpty, IsString, IsJsonObject
    <3>2. \A j \in DOMAIN m.auth : m.auth[j] = a /\ JavaRequest(m).auth[j] = b
      BY <2>3, <3>1
    <3>3. JavaRequest(m).auth \in Seq(HandedAuth) /\ JavaRequest(m).auth # <<>> /\ m.auth # <<>>
      BY <2>3, <3>1
    <3>4. /\ DOMAIN JavaRequest(m) = {"queries", "headers", "body", "auth"}
          /\ JavaRequest(m) = [queries |-> JavaRequest(m).queries, headers |-> JavaRequest(m).headers,
                  body |-> JavaRequest(m).body, auth |-> JavaRequest(m).auth]
          /\ JavaRequest(m).queries = OrEmpty(m.query) /\ JavaRequest(m).headers = OrEmptyTexts(m.headers)
      BY DEF JavaRequest, Request
    <3>5. JavaRequest(m).body = OrNull(m.body)
      BY DEF JavaRequest, Request
    <3> QED BY <1>1, <2>1, <3>1, <3>2, <3>3, <3>4, <3>5
            DEF RequestMeans, Handed, HandedKind, Kind, Plain, Got, OrNull, OrEmpty, OrEmptyTexts,
                IsJsonObject, IsStringRecord
  <2> QED BY <1>1, <2>2, <2>3
<1> QED BY <1>2, <1>3, <1>4, <1>5, <1>6, <1>7 DEF Speaks

(* How a handler ends is told the server, unless the ending is silent.      *)
Results == {Result, Unwritable} \cup {Failure(t) : t \in Kind}

(* In every language.                                                       *)
LEMMA AnswersAreHeard ==
    ASSUME speaks \in Speaks, by \in {"websocket", "http"}, NEW ending \in Ending, EndsWith(ending)
    PROVE  /\ AnswerOf(ending) \in Seq(Results)
           /\ ~Silent(ending) => /\ DOMAIN AnswerOf(ending) = {1}
                                 /\ AnswerOf(ending)[1].written
                                 /\ IsCallClientResult(AnswerOf(ending)[1])
<1>1. /\ \A x : <<x>>[1] = x /\ DOMAIN <<x>> = {1}
      /\ \A x \in Results : <<x>> \in Seq(Results)
      /\ <<>> \in Seq(Results)
      /\ Result \in Results /\ Unwritable \in Results /\ Failure("text") \in Results
      /\ Failure("blank") \in Results /\ Failure("null") \in Results
      /\ Result.written /\ IsCallClientResult(Result)
      /\ \A t \in {"text", "blank"} : Failure(t).written /\ IsCallClientResult(Failure(t))
  BY DEF Results, Kind, Result, Unwritable, Failure, IsCallClientResult, IsString
<1>2. CASE speaks = "typescript"
  <2>1. AnswerOf(ending) = TypescriptAnswer(by, ending)
    BY <1>2 DEF AnswerOf
  <2>2. \/ AnswerOf(ending) = <<>> /\ Silent(ending)
        \/ AnswerOf(ending) \in {<<Unwritable>>, <<Failure("null")>>} /\ Silent(ending)
        \/ AnswerOf(ending) \in {<<Result>>, <<Failure("text")>>, <<Failure("blank")>>}
    BY <1>2, <2>1 DEF TypescriptAnswer, Ending, EndsWith, Silent, Said
  <2> QED BY <1>1, <2>2
<1>3. CASE speaks = "go"
  <2>1. AnswerOf(ending) = GoAnswer(by, ending)
    BY <1>3 DEF AnswerOf
  <2>2. \/ AnswerOf(ending) = <<>> /\ Silent(ending)
        \/ AnswerOf(ending) \in {<<Unwritable>>, <<Failure("null")>>} /\ Silent(ending)
        \/ AnswerOf(ending) \in {<<Result>>, <<Failure("text")>>, <<Failure("blank")>>}
    BY <1>3, <2>1 DEF GoAnswer, Ending, EndsWith, Silent, Said
  <2> QED BY <1>1, <2>2
<1>4. CASE speaks = "python"
  <2>1. AnswerOf(ending) = PythonAnswer(by, ending)
    BY <1>4 DEF AnswerOf
  <2>2. \/ AnswerOf(ending) = <<>> /\ Silent(ending)
        \/ AnswerOf(ending) \in {<<Unwritable>>, <<Failure("null")>>} /\ Silent(ending)
        \/ AnswerOf(ending) \in {<<Result>>, <<Failure("text")>>, <<Failure("blank")>>}
    BY <1>4, <2>1 DEF PythonAnswer, Ending, EndsWith, Silent, Said
  <2> QED BY <1>1, <2>2
<1>5. CASE speaks = "rust"
  <2>1. AnswerOf(ending) = RustAnswer(by, ending)
    BY <1>5 DEF AnswerOf
  <2>2. \/ AnswerOf(ending) = <<>> /\ Silent(ending)
        \/ AnswerOf(ending) \in {<<Unwritable>>, <<Failure("null")>>} /\ Silent(ending)
        \/ AnswerOf(ending) \in {<<Result>>, <<Failure("text")>>, <<Failure("blank")>>}
    BY <1>5, <2>1 DEF RustAnswer, Ending, EndsWith, Silent, Said
  <2> QED BY <1>1, <2>2
<1>6. CASE speaks = "dotnet"
  <2>1. AnswerOf(ending) = DotnetAnswer(by, ending)
    BY <1>6 DEF AnswerOf
  <2>2. \/ AnswerOf(ending) = <<>> /\ Silent(ending)
        \/ AnswerOf(ending) \in {<<Unwritable>>, <<Failure("null")>>} /\ Silent(ending)
        \/ AnswerOf(ending) \in {<<Result>>, <<Failure("text")>>, <<Failure("blank")>>}
    BY <1>6, <2>1 DEF DotnetAnswer, Ending, EndsWith, Silent, Said
  <2> QED BY <1>1, <2>2
<1>7. CASE speaks = "java"
  <2>1. AnswerOf(ending) = JavaAnswer(by, ending)
    BY <1>7 DEF AnswerOf
  <2>2. \/ AnswerOf(ending) = <<>> /\ Silent(ending)
        \/ AnswerOf(ending) \in {<<Unwritable>>, <<Failure("null")>>} /\ Silent(ending)
        \/ AnswerOf(ending) \in {<<Result>>, <<Failure("text")>>, <<Failure("blank")>>}
    BY <1>7, <2>1 DEF JavaAnswer, Ending, EndsWith, Silent, Said
  <2> QED BY <1>1, <2>2
<1> QED BY <1>2, <1>3, <1>4, <1>5, <1>6, <1>7 DEF Speaks

(* What is kept of the messages.                                            *)
WireFits ==
    /\ WireTypeOK /\ RegistrationIsMade /\ CallsAreMade
    /\ AnswersAreMade /\ SilenceEndsSessions /\ AnswersReachTheServer

(* Messages that are made by the six languages mean what was given.         *)
LEMMA MessagesMean == WireFits => WireInvariant
<1> SUFFICES ASSUME WireFits
             PROVE  WireInvariant
  OBVIOUS
<1>1. speaks \in Speaks
  BY DEF WireFits, WireTypeOK
<1>2. ASSUME NEW i \in DOMAIN lastRegister
      PROVE  LET r == lastRegister[i].given
                 m == lastRegister[i].message
             IN  /\ PathIsMeant(r.path) /\ ClientIsMeant(r.info, r.over)
                 /\ m.path = Described(r.path) /\ m.client = ClientOf(r.info, r.over)
                 /\ \/ m.auth = <<>> /\ r.auth = <<>>
                    \/ \E a \in GivenAuth : r.auth = <<a>> /\ m.auth = <<AuthSent(a)>>
  <2>1. PICK r : /\ r = lastRegister[i].given /\ r \in Registration /\ Takes(r.path)
                 /\ lastRegister[i].message = RegisterMessage(r)
    BY DEF WireFits, RegistrationIsMade
  <2>2. /\ r.path \in GivenPath /\ r.info \in GivenInfo /\ r.over \in GivenOver
        /\ r.auth = <<>> \/ \E a \in GivenAuth : r.auth = <<a>>
    BY <2>1, WireConstants DEF AtMostOne
  <2>3. PathIsMeant(r.path) /\ ClientIsMeant(r.info, r.over)
    BY <1>1, <2>1, <2>2, PathsAreMeant, ClientsAreMeant
  <2>4. /\ RegisterMessage(r).path = Described(r.path) /\ RegisterMessage(r).client = ClientOf(r.info, r.over)
        /\ RegisterMessage(r).auth = IF r.auth = <<>> THEN <<>> ELSE <<AuthSent(r.auth[1])>>
    BY DEF RegisterMessage
  <2>5. \A a : <<a>> # <<>> /\ <<a>>[1] = a
    OBVIOUS
  <2>6. \/ RegisterMessage(r).auth = <<>> /\ r.auth = <<>>
        \/ \E a \in GivenAuth : r.auth = <<a>> /\ RegisterMessage(r).auth = <<AuthSent(a)>>
    BY <2>2, <2>4, <2>5
  <2> QED BY <2>1, <2>3, <2>4, <2>6
<1>3. \A a : <<a>> # <<>> /\ DOMAIN <<a>> = {1} /\ <<a>>[1] = a
  OBVIOUS
<1>4. \A a \in GivenAuth : IsAuthContext(AuthSent(a)) /\ AuthMeans(AuthSent(a), a)
  BY <1>1, AuthIsMeant
<1>5. RegistrationsPass
  <2> SUFFICES ASSUME NEW i \in DOMAIN lastRegister
               PROVE  LET path == lastRegister[i].given.path
                      IN  \/ IsRegisterClient(lastRegister[i].message)
                          \/ path.type = "endpoint" /\ path.method \notin KnownMethod
                          \/ speaks = "java" /\ path.type = "skill" /\ path.contentType = "null"
    BY DEF RegistrationsPass
  <2>1. \A j \in DOMAIN lastRegister[i].message.auth : IsAuthContext(lastRegister[i].message.auth[j])
    BY <1>2, <1>3, <1>4
  <2> QED BY <1>2, <2>1 DEF PathIsMeant, ClientIsMeant, IsRegisterClient
<1>6. SaysWhatWasGiven
  <2> SUFFICES ASSUME NEW i \in DOMAIN lastRegister
               PROVE  LET r == lastRegister[i].given
                          m == lastRegister[i].message
                          given(f) == IF r.over[f] = "unset" THEN r.info[f] ELSE r.over[f]
                      IN  /\ \A f \in DOMAIN m.client : Plain(m.client[f]) = Plain(given(f))
                          /\ \A f \in {"inputSchema", "outputSchema"} :
                                Plain(m.path[f]) = IF r.path.type = "skill" THEN "nothing" ELSE Plain(r.path[f])
                          /\ \/ Plain(m.path.description) = Plain(r.path.description)
                             \/ r.path.content = "prose" /\ m.path.description = "text"
                             \/ r.path.content = "headings" /\ speaks = "dotnet"
                          /\ m.auth = <<>> <=> r.auth = <<>>
                          /\ \A j \in DOMAIN m.auth : \A f \in DOMAIN m.auth[j] :
                                Plain(m.auth[j][f]) = Plain(r.auth[j][f])
    BY DEF SaysWhatWasGiven
  <2>1. PICK r, m : r = lastRegister[i].given /\ m = lastRegister[i].message
    OBVIOUS
  <2>2. m.auth = <<>> <=> r.auth = <<>>
    BY <1>2, <1>3, <2>1
  <2>3. \A j \in DOMAIN m.auth : \A f \in DOMAIN m.auth[j] : Plain(m.auth[j][f]) = Plain(r.auth[j][f])
    BY <1>2, <1>3, <1>4, <2>1 DEF AuthMeans
  <2>4. \A f \in DOMAIN m.client : Plain(m.client[f]) = Plain(IF r.over[f] = "unset" THEN r.info[f] ELSE r.over[f])
    BY <1>2, <2>1 DEF ClientIsMeant
  <2>5. /\ \A f \in {"inputSchema", "outputSchema"} :
              Plain(m.path[f]) = IF r.path.type = "skill" THEN "nothing" ELSE Plain(r.path[f])
        /\ \/ Plain(m.path.description) = Plain(r.path.description)
           \/ r.path.content = "prose" /\ m.path.description = "text"
           \/ r.path.content = "headings" /\ speaks = "dotnet"
    BY <1>2, <2>1 DEF PathIsMeant
  <2> QED BY <2>1, <2>2, <2>3, <2>4, <2>5
<1>7. HandlersGetTheCall
  <2>1. ASSUME NEW k \in RoutedCall, NEW i \in DOMAIN calls[k].given
        PROVE  RequestMeans(calls[k].given[i], calls[k].asked[i])
    <3>1. /\ calls[k].asked \in Asked /\ calls[k].given = <<RequestOf(calls[k].asked[1])>>
          /\ calls[k].asked # <<>>
      BY <2>1 DEF WireFits, CallsAreMade
    <3>2. PICK q \in CallOf : calls[k].asked = <<CallMessage(q)>>
      BY <3>1, AskedIsTyped
    <3> QED BY <1>1, <1>3, <2>1, <3>1, <3>2, RequestsAreMeant
  <2> QED BY <2>1 DEF HandlersGetTheCall, RequestMeans
<1> QED BY <1>5, <1>6, <1>7 DEF WireFits, WireInvariant

(* At first nothing is said.                                                *)
LEMMA WireInitHolds == WireInit => WireFits
<1> SUFFICES ASSUME WireInit
             PROVE  WireFits
  OBVIOUS
<1>1. <<>> \in Asked
  BY DEF Asked, AtMostOne
<1>2. WireTypeOK
  BY DEF WireInit, WireTypeOK, Uncalled, CallIn
<1>3. \A k \in RoutedCall : calls[k] = Uncalled /\ invocation[k] = "none"
  BY DEF WireInit
<1>4. AnswersReachTheServer
  <2>1. \A k \in RoutedCall : calls[k].phase = "none"
    BY <1>3 DEF Uncalled, CallIn
  <2>2. \A k \in RoutedCall : AnswerKept(k)
    BY <2>1 DEF AnswerKept
  <2> QED BY <2>2 DEF AnswersReachTheServer
<1>5. AnswersAreMade
  BY <1>3 DEF WireInit, AnswersAreMade, Uncalled, CallIn
<1> QED BY <1>1, <1>2, <1>3, <1>4, <1>5
        DEF WireInit, WireFits, RegistrationIsMade, CallsAreMade, SilenceEndsSessions, Uncalled, CallIn

(* As long as the SDK is the same, so is what it makes of anything.         *)
LEMMA SameLanguage ==
    ASSUME UNCHANGED <<speaks, by>>
    PROVE  /\ \A x : Silent(x)' <=> Silent(x)
           /\ \A x : EndsWith(x)' <=> EndsWith(x)
           /\ \A x : AnswerOf(x)' = AnswerOf(x)
           /\ \A x : ToAnswers(x)' = ToAnswers(x)
           /\ \A x : RequestOf(x)' = RequestOf(x)
           /\ \A x : RegisterMessage(x)' = RegisterMessage(x)
           /\ \A x : Takes(x)' <=> Takes(x)
<1>1. \A x : Silent(x)' <=> Silent(x)
  BY DEF Silent
<1>2. \A x : EndsWith(x)' <=> EndsWith(x)
  BY DEF EndsWith
<1>3. \A x : AnswerOf(x)' = AnswerOf(x)
  BY DEF AnswerOf
<1>4. \A x : ToAnswers(x)' = ToAnswers(x)
  BY <1>3 DEF ToAnswers
<1>5. \A x : RequestOf(x)' = RequestOf(x)
  BY DEF RequestOf
<1>6. \A x : RegisterMessage(x)' = RegisterMessage(x)
  BY DEF RegisterMessage, ClientOf, Described, Of, AuthSent
<1>7. \A x : Takes(x)' <=> Takes(x)
  BY DEF Takes
<1> QED BY <1>1, <1>2, <1>3, <1>4, <1>5, <1>6, <1>7

(* A registration that is not touched stays.                                *)
LEMMA RegistrationStays ==
    ASSUME RegistrationIsMade, UNCHANGED <<speaks, by>>, UNCHANGED lastRegister \/ lastRegister' = <<>>
    PROVE  RegistrationIsMade'
BY SameLanguage DEF RegistrationIsMade

(* Calls that are not touched stay.                                         *)
LEMMA CallsStay ==
    ASSUME CallsAreMade, UNCHANGED <<speaks, by, calls>>
    PROVE  CallsAreMade'
BY SameLanguage DEF CallsAreMade

(* What is left of a queue when its first has been taken.                   *)
LEMMA TailOf ==
    ASSUME NEW S, NEW q \in Seq(S), q # <<>>
    PROVE  /\ Tail(q) \in Seq(S) /\ Head(q) \in S /\ 1 \in DOMAIN q /\ Head(q) = q[1]
           /\ \A n \in DOMAIN Tail(q) : \E m \in DOMAIN q : Tail(q)[n] = q[m]
           /\ \A n \in DOMAIN q : n = 1 \/ \E m \in DOMAIN Tail(q) : Tail(q)[m] = q[n]
<1>1. Tail(q) \in Seq(S) /\ Head(q) \in S /\ Head(q) = q[1] /\ Len(q) \in Nat /\ Len(q) > 0
  OBVIOUS
<1>2. DOMAIN q = 1 .. Len(q) /\ DOMAIN Tail(q) = 1 .. Len(q) - 1
  BY <1>1
<1>3. \A n \in 1 .. Len(q) - 1 : Tail(q)[n] = q[n + 1] /\ n + 1 \in 1 .. Len(q)
  BY <1>1, <1>2
<1>4. \A n \in 1 .. Len(q) : n = 1 \/ (n - 1 \in 1 .. Len(q) - 1 /\ q[n] = Tail(q)[n - 1])
  BY <1>1, <1>3
<1>5. \A n \in DOMAIN Tail(q) : \E m \in DOMAIN q : Tail(q)[n] = q[m]
  BY <1>2, <1>3
<1>6. \A n \in DOMAIN q : n = 1 \/ \E m \in DOMAIN Tail(q) : Tail(q)[m] = q[n]
  BY <1>2, <1>4
<1>7. 1 \in DOMAIN q
  BY <1>1, <1>2
<1> QED BY <1>1, <1>5, <1>6, <1>7

(* An answer on its way is of a call.                                       *)
LEMMA AnswerIsOfCall ==
    ASSUME WireTypeOK, NEW n \in DOMAIN answers
    PROVE  answers[n].call \in RoutedCall
<1>1. PICK R : answers \in Seq(R) /\ \A x \in R : x.call \in RoutedCall
  <2>1. \A x \in [call : RoutedCall, message : {Result, Unwritable} \cup {Failure(t) : t \in Kind}] :
           x.call \in RoutedCall
    OBVIOUS
  <2> QED BY <2>1 DEF WireTypeOK
<1>2. answers[n] \in R
  BY <1>1
<1> QED BY <1>1, <1>2

(* An answer that is refused or cannot be written is of a silent ending.    *)
LEMMA OnlySilenceIsRefused ==
    ASSUME WireFits, NEW i \in DOMAIN answers,
           ~answers[i].message.written \/ ~IsCallClientResult(answers[i].message)
    PROVE  \E k \in RoutedCall : Silent(calls[k].ending)
<1>1. PICK k \in RoutedCall, ending \in Ending \cup {"none"} :
         /\ k = answers[i].call /\ ending = calls[k].ending /\ calls[k].phase = "ended"
         /\ answers[i].message \in ToAnswers(ending)
  <2>1. answers[i].call \in RoutedCall
    BY AnswerIsOfCall DEF WireFits
  <2>2. calls[answers[i].call].ending \in Ending \cup {"none"}
    BY <2>1 DEF WireFits, WireTypeOK
  <2> QED BY <2>1, <2>2 DEF WireFits, AnswersAreMade
<1>2. ending \in Ending /\ EndsWith(ending)
  BY <1>1 DEF WireFits, AnswersAreMade
<1>3. speaks \in Speaks /\ by \in {"websocket", "http"}
  BY DEF WireFits, WireTypeOK
<1>4. CASE Silent(ending)
  BY <1>1, <1>4
<1>5. CASE ~Silent(ending)
  BY <1>1, <1>2, <1>3, <1>5, AnswersAreHeard DEF ToAnswers
<1> QED BY <1>4, <1>5

(* What is about calls that are not touched stays with their answers.       *)
LEMMA AnswersStay ==
    ASSUME WireFits, UNCHANGED <<speaks, by, calls>>,
           \A n \in DOMAIN answers' : \E m \in DOMAIN answers : answers'[n] = answers[m],
           \A k \in RoutedCall : invocation[k] = "none" <=> invocation'[k] = "none"
    PROVE  AnswersAreMade'
BY SameLanguage DEF WireFits, AnswersAreMade

(* Registering.                                                             *)
LEMMA RegisterKeeps ==
    ASSUME WireFits, NEW r \in Registration, Register(r)
    PROVE  WireFits'
<1>1. /\ UNCHANGED <<speaks, by, calls, answers, invocation>> /\ Takes(r.path)
      /\ lastRegister' = <<[given |-> r, message |-> RegisterMessage(r)]>>
      /\ session' \in {"open", "registered", "over"} /\ \A k \in RoutedCall : invocation[k] = "none"
  BY DEF Register, WireFits, WireTypeOK
<1>2. WireTypeOK' /\ CallsAreMade' /\ AnswersAreMade'
  BY <1>1, CallsStay, AnswersStay DEF WireFits, WireTypeOK
<1>3. RegistrationIsMade'
  BY <1>1, SameLanguage DEF RegistrationIsMade
<1>4. SilenceEndsSessions'
  BY <1>1 DEF SilenceEndsSessions
<1>5. AnswersReachTheServer'
  BY <1>1, SameLanguage DEF WireFits, AnswersReachTheServer, AnswerKept
<1> QED BY <1>2, <1>3, <1>4, <1>5 DEF WireFits

(* A call is sent to the client.                                            *)
LEMMA RouteCallKeeps ==
    ASSUME WireFits, NEW k \in RoutedCall, NEW q \in CallOf, RouteCall(k, q)
    PROVE  WireFits'
<1>1. /\ UNCHANGED <<speaks, by, session, answers>> /\ session = "registered" /\ invocation[k] = "none"
      /\ lastRegister' = <<>> /\ invocation' = [invocation EXCEPT ![k] = "pending"]
      /\ calls' = [calls EXCEPT ![k] = [phase |-> "asked", asked |-> <<CallMessage(q)>>, given |-> <<>>,
                                        ending |-> "none"]]
  BY DEF RouteCall, CallIn
<1>2. <<CallMessage(q)>> \in Asked /\ <<CallMessage(q)>> \in Seq(Message) /\ <<CallMessage(q)>> # <<>>
  BY MessageIsTyped DEF Asked, AtMostOne
<1>3. calls[k].phase = "none" /\ calls[k].ending = "none" /\ ~Silent("none")
  BY <1>1 DEF WireFits, AnswersAreMade, Silent
<1>4. WireTypeOK'
  <2>1. [phase |-> "asked", asked |-> <<CallMessage(q)>>, given |-> <<>>, ending |-> "none"]
           \in [phase : {"none", "asked", "runs", "ended"}, asked : Seq(Message), given : Seq(Handed),
               ending : Ending \cup {"none"}]
    BY <1>2
  <2> QED BY <1>1, <2>1 DEF WireFits, WireTypeOK
<1>5. \A j \in RoutedCall : /\ j # k => calls'[j] = calls[j] /\ invocation'[j] = invocation[j]
                            /\ j = k => /\ calls'[j].phase = "asked" /\ calls'[j].ending = "none"
                                        /\ calls'[j].asked = <<CallMessage(q)>> /\ calls'[j].given = <<>>
                                        /\ invocation'[j] = "pending"
  BY <1>1 DEF WireFits, WireTypeOK
<1>6. CallsAreMade'
  BY <1>1, <1>2, <1>5, SameLanguage DEF WireFits, CallsAreMade
<1>7. AnswersAreMade'
  BY <1>1, <1>3, <1>5, SameLanguage DEF WireFits, AnswersAreMade
<1>8. SilenceEndsSessions'
  BY <1>1, <1>3, <1>5, SameLanguage DEF WireFits, SilenceEndsSessions
<1>9. AnswersReachTheServer'
  <2>1. ASSUME \A j \in RoutedCall : (~Silent(calls[j].ending))', NEW j \in RoutedCall
        PROVE  AnswerKept(j)'
    <3>1. \A l \in RoutedCall : ~Silent(calls[l].ending)
      BY <1>1, <1>3, <1>5, <2>1, SameLanguage
    <3>2. AnswerKept(j)
      BY <3>1 DEF WireFits, AnswersReachTheServer
    <3> QED BY <1>1, <1>5, <3>2 DEF AnswerKept
  <2> QED BY <2>1 DEF AnswersReachTheServer
<1> QED BY <1>1, <1>4, <1>6, <1>7, <1>8, <1>9, RegistrationStays DEF WireFits

(* A handler is given the call.                                             *)
LEMMA HandlerRunsKeeps ==
    ASSUME WireFits, NEW k \in RoutedCall, HandlerRuns(k)
    PROVE  WireFits'
<1>1. /\ UNCHANGED <<speaks, by, session, lastRegister, answers, invocation>> /\ calls[k].phase = "asked"
      /\ calls' = [calls EXCEPT ![k] = [phase |-> "runs", asked |-> calls[k].asked,
                                        given |-> <<RequestOf(calls[k].asked[1])>>, ending |-> "none"]]
  BY DEF HandlerRuns, CallIn
<1>2. PICK q \in CallOf : calls[k].asked = <<CallMessage(q)>>
  BY <1>1, AskedIsTyped DEF WireFits, CallsAreMade
<1>3. RequestOf(calls[k].asked[1]) \in Handed
  <2>1. calls[k].asked[1] = CallMessage(q)
    BY <1>2
  <2> QED BY <2>1, RequestsAreMeant DEF WireFits, WireTypeOK
<1>4. calls[k].phase # "ended" /\ calls[k].ending = "none"
  BY <1>1 DEF WireFits, AnswersAreMade
<1>5. WireTypeOK'
  <2>1. <<RequestOf(calls[k].asked[1])>> \in Seq(Handed)
    BY <1>3
  <2>3. [phase |-> "runs", asked |-> calls[k].asked, given |-> <<RequestOf(calls[k].asked[1])>>,
         ending |-> "none"]
           \in [phase : {"none", "asked", "runs", "ended"}, asked : Seq(Message), given : Seq(Handed),
               ending : Ending \cup {"none"}]
    BY <2>1 DEF WireFits, WireTypeOK
  <2>2. calls' \in [RoutedCall -> [phase : {"none", "asked", "runs", "ended"}, asked : Seq(Message),
                                   given : Seq(Handed), ending : Ending \cup {"none"}]]
    BY <1>1, <2>3 DEF WireFits, WireTypeOK
  <2> QED BY <1>1, <2>2 DEF WireFits, WireTypeOK
<1>6. \A j \in RoutedCall : /\ j # k => calls'[j] = calls[j]
                            /\ j = k => /\ calls'[j].phase = "runs" /\ calls'[j].ending = "none"
                                        /\ calls'[j].asked = calls[j].asked
                                        /\ calls'[j].given = <<RequestOf(calls[j].asked[1])>>
  BY <1>1, <1>4 DEF WireFits, WireTypeOK
<1>7. \A j \in RoutedCall : calls'[j].ending = calls[j].ending
  BY <1>4, <1>6
<1>8. CallsAreMade'
  <2>1. ASSUME NEW j \in RoutedCall
        PROVE  /\ calls'[j].asked \in Asked
               /\ calls'[j].given = <<>> \/ calls'[j].given = <<RequestOf(calls'[j].asked[1])>>
               /\ calls'[j].given # <<>> \/ calls'[j].phase = "asked" => calls'[j].asked # <<>>
    <3>1. CASE j = k
      <4>1. calls[k].asked \in Asked /\ calls[k].asked # <<>>
        BY <1>1 DEF WireFits, CallsAreMade
      <4>2. calls'[k].asked = calls[k].asked /\ calls'[k].given = <<RequestOf(calls[k].asked[1])>>
        BY <1>6
      <4> QED BY <3>1, <4>1, <4>2
    <3>2. CASE j # k
      BY <1>6, <3>2 DEF WireFits, CallsAreMade
    <3> QED BY <3>1, <3>2
  <2> QED BY <1>1, <2>1, SameLanguage DEF CallsAreMade
<1>9. AnswersAreMade'
  <2>1. ASSUME NEW n \in DOMAIN answers
        PROVE  /\ calls'[answers[n].call].phase = "ended"
               /\ answers[n].message \in ToAnswers(calls'[answers[n].call].ending)
    <3>1. /\ answers[n].call \in RoutedCall /\ calls[answers[n].call].phase = "ended"
          /\ answers[n].message \in ToAnswers(calls[answers[n].call].ending)
      BY AnswerIsOfCall DEF WireFits, AnswersAreMade
    <3> QED BY <1>4, <1>6, <3>1
  <2>2. ASSUME NEW j \in RoutedCall
        PROVE  /\ calls'[j].phase = "none" <=> invocation'[j] = "none"
               /\ calls'[j].phase = "ended" <=> calls'[j].ending # "none"
               /\ calls'[j].phase = "ended" => EndsWith(calls'[j].ending)
    <3>1. /\ calls[j].phase = "none" <=> invocation[j] = "none"
          /\ calls[j].phase = "ended" <=> calls[j].ending # "none"
          /\ calls[j].phase = "ended" => EndsWith(calls[j].ending)
      BY DEF WireFits, AnswersAreMade
    <3> QED BY <1>1, <1>4, <1>6, <3>1
  <2>3. /\ \A x : EndsWith(x)' <=> EndsWith(x)
        /\ \A x : ToAnswers(x)' = ToAnswers(x)
    BY <1>1, SameLanguage
  <2> QED BY <1>1, <2>1, <2>2, <2>3 DEF AnswersAreMade
<1>10. SilenceEndsSessions'
  BY <1>1, <1>7, SameLanguage DEF WireFits, SilenceEndsSessions
<1>11. AnswersReachTheServer'
  <2>1. ASSUME \A j \in RoutedCall : (~Silent(calls[j].ending))', NEW j \in RoutedCall
        PROVE  AnswerKept(j)'
    <3>1. AnswerKept(j)
      BY <1>1, <1>7, <2>1, SameLanguage DEF WireFits, AnswersReachTheServer
    <3> QED BY <1>1, <1>6, <3>1 DEF AnswerKept
  <2> QED BY <2>1 DEF AnswersReachTheServer
<1> QED BY <1>1, <1>5, <1>8, <1>9, <1>10, <1>11, RegistrationStays DEF WireFits

(* What is in a queue when more is put behind it.                           *)
LEMMA PutBehind ==
    ASSUME NEW S, NEW q \in Seq(S), NEW b \in Seq(S)
    PROVE  /\ q \o b \in Seq(S)
           /\ \A n \in DOMAIN (q \o b) : \/ \E m \in DOMAIN q : (q \o b)[n] = q[m]
                                         \/ \E m \in DOMAIN b : (q \o b)[n] = b[m]
           /\ \A m \in DOMAIN q : m \in DOMAIN (q \o b) /\ (q \o b)[m] = q[m]
           /\ \A m \in DOMAIN b : \E n \in DOMAIN (q \o b) : (q \o b)[n] = b[m]
<1>1. /\ q \o b \in Seq(S) /\ Len(q) \in Nat /\ DOMAIN q = 1 .. Len(q)
      /\ Len(b) \in Nat /\ DOMAIN b = 1 .. Len(b)
      /\ Len(q \o b) = Len(q) + Len(b) /\ DOMAIN (q \o b) = 1 .. Len(q) + Len(b)
  OBVIOUS
<1>2. /\ \A m \in 1 .. Len(q) : (q \o b)[m] = q[m]
      /\ \A m \in 1 .. Len(b) : (q \o b)[Len(q) + m] = b[m]
  BY <1>1
<1>3. \A n \in 1 .. Len(q) + Len(b) :
         n \in 1 .. Len(q) \/ (n - Len(q) \in 1 .. Len(b) /\ (q \o b)[n] = b[n - Len(q)])
  <2>1. \A n \in 1 .. Len(q) + Len(b) :
           n \in 1 .. Len(q) \/ (n - Len(q) \in 1 .. Len(b) /\ n = Len(q) + (n - Len(q)))
    BY <1>1
  <2> QED BY <1>2, <2>1
<1>4. \A m \in 1 .. Len(b) : Len(q) + m \in 1 .. Len(q) + Len(b)
  BY <1>1
<1>5. \A m \in 1 .. Len(q) : m \in 1 .. Len(q) + Len(b)
  BY <1>1
<1>6. \A n \in DOMAIN (q \o b) : \/ \E m \in DOMAIN q : (q \o b)[n] = q[m]
                                 \/ \E m \in DOMAIN b : (q \o b)[n] = b[m]
  BY <1>1, <1>2, <1>3
<1>7. \A m \in DOMAIN b : \E n \in DOMAIN (q \o b) : (q \o b)[n] = b[m]
  BY <1>1, <1>2, <1>4
<1>8. \A m \in DOMAIN q : m \in DOMAIN (q \o b) /\ (q \o b)[m] = q[m]
  BY <1>1, <1>2, <1>5
<1> QED BY <1>1, <1>6, <1>7, <1>8

(* A handler ends.                                                          *)
LEMMA HandlerEndsKeeps ==
    ASSUME WireFits, NEW k \in RoutedCall, NEW ending \in Ending, HandlerEnds(k, ending)
    PROVE  WireFits'
<1>1. /\ UNCHANGED <<speaks, by, lastRegister, invocation>> /\ calls[k].phase = "runs" /\ EndsWith(ending)
      /\ calls' = [calls EXCEPT ![k] = [phase |-> "ended", asked |-> <<>>, given |-> <<>>, ending |-> ending]]
      /\ \/ session = "over" /\ UNCHANGED <<session, answers>>
         \/ session' = "over" /\ answers' = <<>> /\ speaks = "java" /\ ending = "throws"
         \/ session # "over" /\ session' = session
            /\ answers' = answers \o [i \in DOMAIN AnswerOf(ending) |-> [call |-> k, message |-> AnswerOf(ending)[i]]]
  BY DEF HandlerEnds, CallIn
<1>2. speaks \in Speaks /\ by \in {"websocket", "http"}
  BY DEF WireFits, WireTypeOK
<1>3. /\ AnswerOf(ending) \in Seq(Results)
      /\ ~Silent(ending) => DOMAIN AnswerOf(ending) = {1}
  BY <1>1, <1>2, AnswersAreHeard
<1>4. answers \in Seq([call : RoutedCall, message : Results])
  BY DEF WireFits, WireTypeOK, Results
<1>5. /\ answers' \in Seq([call : RoutedCall, message : Results])
      /\ \A n \in DOMAIN answers' :
            \/ \E m \in DOMAIN answers : answers'[n] = answers[m]
            \/ \E m \in DOMAIN AnswerOf(ending) : answers'[n] = [call |-> k, message |-> AnswerOf(ending)[m]]
      /\ ~Silent(ending) /\ session # "over" =>
            /\ \A m \in DOMAIN answers : m \in DOMAIN answers' /\ answers'[m] = answers[m]
            /\ \E n \in DOMAIN answers' : answers'[n].call = k
  <2>1. CASE session = "over" /\ UNCHANGED <<session, answers>>
    BY <1>4, <2>1
  <2>2. CASE session' = "over" /\ answers' = <<>> /\ speaks = "java" /\ ending = "throws"
    BY <2>2 DEF Silent
  <2>3. CASE /\ session # "over" /\ session' = session
             /\ answers' = answers \o [i \in DOMAIN AnswerOf(ending) |-> [call |-> k, message |-> AnswerOf(ending)[i]]]
    <3>1. PICK a, b : /\ a = AnswerOf(ending) /\ b = [i \in DOMAIN a |-> [call |-> k, message |-> a[i]]]
                      /\ answers' = answers \o b
      BY <2>3
    <3>0. PICK S : S = [call : RoutedCall, message : Results]
      OBVIOUS
    <3>2. b \in Seq(S)
      <4>1. DOMAIN a = 1 .. Len(a) /\ Len(a) \in Nat /\ \A i \in 1 .. Len(a) : a[i] \in Results
        BY <1>3, <3>1
      <4> QED BY <3>0, <3>1, <4>1
    <3>6. answers \in Seq(S)
      BY <1>4, <3>0
    <3>3. \A m \in DOMAIN b : m \in DOMAIN a /\ b[m] = [call |-> k, message |-> a[m]] /\ b[m].call = k
      BY <3>1
    <3>4. /\ answers' \in Seq(S)
          /\ \A n \in DOMAIN answers' : \/ \E m \in DOMAIN answers : answers'[n] = answers[m]
                                        \/ \E m \in DOMAIN b : answers'[n] = b[m]
          /\ \A m \in DOMAIN answers : m \in DOMAIN answers' /\ answers'[m] = answers[m]
          /\ \A m \in DOMAIN b : \E n \in DOMAIN answers' : answers'[n] = b[m]
      <4>1. /\ answers \o b \in Seq(S)
            /\ \A n \in DOMAIN (answers \o b) : \/ \E m \in DOMAIN answers : (answers \o b)[n] = answers[m]
                                                \/ \E m \in DOMAIN b : (answers \o b)[n] = b[m]
            /\ \A m \in DOMAIN answers : m \in DOMAIN (answers \o b) /\ (answers \o b)[m] = answers[m]
            /\ \A m \in DOMAIN b : \E n \in DOMAIN (answers \o b) : (answers \o b)[n] = b[m]
        BY ONLY <3>2, <3>6, PutBehind
      <4>2. answers' = answers \o b
        BY <3>1
      <4> QED BY ONLY <4>1, <4>2
    <3>5. ASSUME ~Silent(ending)
          PROVE  \E n \in DOMAIN answers' : answers'[n].call = k
      <4>1. 1 \in DOMAIN b
        BY <1>3, <3>1, <3>5
      <4> QED BY <3>3, <3>4, <4>1
    <3>7. answers' \in Seq([call : RoutedCall, message : Results])
      BY ONLY <3>0, <3>4
    <3>8. \A n \in DOMAIN answers' :
            \/ \E m \in DOMAIN answers : answers'[n] = answers[m]
            \/ \E m \in DOMAIN AnswerOf(ending) : answers'[n] = [call |-> k, message |-> AnswerOf(ending)[m]]
      BY ONLY <3>1, <3>3, <3>4
    <3>9. \A m \in DOMAIN answers : m \in DOMAIN answers' /\ answers'[m] = answers[m]
      BY ONLY <3>4
    <3> QED BY ONLY <3>5, <3>7, <3>8, <3>9
  <2> QED BY <1>1, <2>1, <2>2, <2>3
<1>6. WireTypeOK'
  <2>1. [phase |-> "ended", asked |-> <<>>, given |-> <<>>, ending |-> ending]
           \in [phase : {"none", "asked", "runs", "ended"}, asked : Seq(Message), given : Seq(Handed),
               ending : Ending \cup {"none"}]
    OBVIOUS
  <2>2. calls' \in [RoutedCall -> [phase : {"none", "asked", "runs", "ended"}, asked : Seq(Message),
                                   given : Seq(Handed), ending : Ending \cup {"none"}]]
    BY <1>1, <2>1 DEF WireFits, WireTypeOK
  <2>3. session' \in {"open", "registered", "over"}
    BY <1>1 DEF WireFits, WireTypeOK
  <2> QED BY <1>1, <1>5, <2>2, <2>3 DEF WireFits, WireTypeOK, Results
<1>7. /\ calls[k].ending = "none" /\ invocation[k] # "none" /\ ending # "none"
      /\ ~Silent("none")
  BY <1>1 DEF WireFits, AnswersAreMade, Silent, Ending
<1>8. \A j \in RoutedCall : /\ j # k => calls'[j] = calls[j]
                            /\ j = k => /\ calls'[j].phase = "ended" /\ calls'[j].ending = ending
                                        /\ calls'[j].asked = <<>> /\ calls'[j].given = <<>>
  BY <1>1 DEF WireFits, WireTypeOK
<1>9. CallsAreMade'
  <2>1. <<>> \in Asked
    BY DEF Asked, AtMostOne
  <2> QED BY <1>1, <1>8, <2>1, SameLanguage DEF WireFits, CallsAreMade
<1>10. AnswersAreMade'
  <2>1. ASSUME NEW n \in DOMAIN answers'
        PROVE  /\ calls'[answers'[n].call].phase = "ended"
               /\ answers'[n].message \in ToAnswers(calls'[answers'[n].call].ending)
    <3>1. CASE \E m \in DOMAIN answers : answers'[n] = answers[m]
      <4>1. PICK m \in DOMAIN answers : answers'[n] = answers[m]
        BY <3>1
      <4>2. /\ answers[m].call \in RoutedCall /\ calls[answers[m].call].phase = "ended"
            /\ answers[m].message \in ToAnswers(calls[answers[m].call].ending)
        BY AnswerIsOfCall DEF WireFits, AnswersAreMade
      <4> QED BY <1>1, <1>8, <4>1, <4>2
    <3>2. CASE \E m \in DOMAIN AnswerOf(ending) : answers'[n] = [call |-> k, message |-> AnswerOf(ending)[m]]
      BY <1>8, <3>2 DEF ToAnswers
    <3> QED BY <1>5, <3>1, <3>2
  <2>2. \A j \in RoutedCall : /\ calls'[j].phase = "none" <=> invocation'[j] = "none"
                              /\ calls'[j].phase = "ended" <=> calls'[j].ending # "none"
                              /\ calls'[j].phase = "ended" => EndsWith(calls'[j].ending)
    BY <1>1, <1>7, <1>8 DEF WireFits, AnswersAreMade
  <2> QED BY <1>1, <2>1, <2>2, SameLanguage DEF AnswersAreMade
<1>11. ASSUME \A j \in RoutedCall : (~Silent(calls[j].ending))'
       PROVE  /\ ~Silent(ending) /\ \A j \in RoutedCall : ~Silent(calls[j].ending)
              /\ session # "over" /\ session' = session
  <2>1. ~Silent(ending) /\ \A j \in RoutedCall : ~Silent(calls[j].ending)
    BY <1>1, <1>7, <1>8, <1>11, SameLanguage
  <2>2. session # "over"
    BY <1>7, <2>1 DEF WireFits, SilenceEndsSessions
  <2>3. ~(speaks = "java" /\ ending = "throws")
    BY <2>1 DEF Silent
  <2> QED BY <1>1, <2>1, <2>2, <2>3
<1>12. SilenceEndsSessions'
  BY <1>1, <1>11 DEF WireFits, SilenceEndsSessions
<1>13. AnswersReachTheServer'
  <2>1. ASSUME \A j \in RoutedCall : (~Silent(calls[j].ending))', NEW j \in RoutedCall
        PROVE  AnswerKept(j)'
    <3>1. ~Silent(ending) /\ session # "over" /\ AnswerKept(j)
      BY <1>11, <2>1 DEF WireFits, AnswersReachTheServer
    <3> QED BY <1>1, <1>5, <1>8, <3>1 DEF AnswerKept
  <2> QED BY <2>1 DEF AnswersReachTheServer
<1> QED BY <1>1, <1>6, <1>9, <1>10, <1>12, <1>13, RegistrationStays DEF WireFits

(* A queue in which nothing waits.                                          *)
LEMMA EmptyQueue == <<>> \in Seq([call : RoutedCall, message : Results]) /\ DOMAIN <<>> = {}
OBVIOUS

(* A queue, and what is behind its first.                                   *)
LEMMA AnswerQueue ==
    ASSUME WireTypeOK, answers # <<>>
    PROVE  /\ Tail(answers) \in Seq([call : RoutedCall, message : Results])
           /\ 1 \in DOMAIN answers /\ Head(answers) = answers[1] /\ Head(answers).call \in RoutedCall
           /\ \A n \in DOMAIN Tail(answers) : \E m \in DOMAIN answers : Tail(answers)[n] = answers[m]
           /\ \A n \in DOMAIN answers : n = 1 \/ \E m \in DOMAIN Tail(answers) : Tail(answers)[m] = answers[n]
<1>1. PICK S : S = [call : RoutedCall, message : Results]
  OBVIOUS
<1>2. answers \in Seq(S)
  BY <1>1 DEF WireTypeOK, Results
<1>3. /\ Tail(answers) \in Seq(S) /\ 1 \in DOMAIN answers /\ Head(answers) = answers[1]
      /\ \A n \in DOMAIN Tail(answers) : \E m \in DOMAIN answers : Tail(answers)[n] = answers[m]
      /\ \A n \in DOMAIN answers : n = 1 \/ \E m \in DOMAIN Tail(answers) : Tail(answers)[m] = answers[n]
  BY ONLY <1>2, answers # <<>>, TailOf
<1> QED BY <1>1, <1>3, AnswerIsOfCall

(* An answer comes to the server.                                           *)
LEMMA AnswerTakenKeeps == ASSUME WireFits, AnswerTaken PROVE WireFits'
<1>1. /\ answers # <<>> /\ answers' = Tail(answers) /\ UNCHANGED <<speaks, by, session, lastRegister, calls>>
      /\ invocation' = [invocation EXCEPT ![Head(answers).call] = IF @ = "pending" THEN "answered" ELSE @]
  BY DEF AnswerTaken
<1>2. PICK k \in RoutedCall : k = Head(answers).call
  BY <1>1, AnswerQueue DEF WireFits
<1>3. /\ calls[k].phase = "ended" /\ invocation[k] # "none"
      /\ invocation[k] \in {"none", "pending", "answered", "rejected", "timed out"}
  BY <1>1, <1>2, AnswerQueue DEF WireFits, AnswersAreMade, WireTypeOK
<1>4. \A j \in RoutedCall : /\ j # k => invocation'[j] = invocation[j]
                            /\ j = k => \/ invocation'[j] = "answered"
                                        \/ invocation'[j] = invocation[j] /\ invocation[j] # "pending"
  BY <1>1, <1>2 DEF WireFits, WireTypeOK
<1>5. WireTypeOK'
  <2>1. invocation' \in [RoutedCall -> {"none", "pending", "answered", "rejected", "timed out"}]
    BY <1>1, <1>2 DEF WireFits, WireTypeOK
  <2> QED BY <1>1, <2>1, AnswerQueue DEF WireFits, WireTypeOK, Results
<1>6. AnswersAreMade'
  <2>1. \A j \in RoutedCall : invocation[j] = "none" <=> invocation'[j] = "none"
    BY <1>3, <1>4
  <2> QED BY <1>1, <2>1, AnswerQueue, AnswersStay DEF WireFits
<1>7. SilenceEndsSessions'
  BY <1>1, <1>3, <1>4, SameLanguage DEF WireFits, SilenceEndsSessions
<1>8. AnswersReachTheServer'
  <2>1. ASSUME \A j \in RoutedCall : (~Silent(calls[j].ending))', NEW j \in RoutedCall
        PROVE  AnswerKept(j)'
    <3>1. AnswerKept(j) /\ \A l \in RoutedCall : invocation[l] # "rejected"
      BY <1>1, <2>1, SameLanguage DEF WireFits, AnswersReachTheServer, SilenceEndsSessions
    <3>2. CASE j = k
      BY <1>1, <1>3, <1>4, <3>1, <3>2 DEF AnswerKept
    <3>3. CASE j # k
      <4>1. invocation'[j] = invocation[j]
        BY <1>4, <3>3
      <4>2. \A n \in DOMAIN answers : answers[n].call = j =>
               \E m \in DOMAIN Tail(answers) : Tail(answers)[m].call = j
        BY <1>1, <1>2, <3>3, AnswerQueue DEF WireFits
      <4> QED BY <1>1, <3>1, <4>1, <4>2 DEF AnswerKept
    <3> QED BY <3>2, <3>3
  <2> QED BY <2>1 DEF AnswersReachTheServer
<1> QED BY <1>1, <1>5, <1>6, <1>7, <1>8, CallsStay, RegistrationStays DEF WireFits

(* An answer that does not come to the server, whatever it ends.            *)
LEMMA AnswerLostKeeps ==
    ASSUME WireFits, answers # <<>>, ~Head(answers).message.written \/ ~IsCallClientResult(Head(answers).message),
           UNCHANGED <<speaks, by, lastRegister, calls>>, session' \in {"over", session},
           answers' \in {<<>>, Tail(answers)},
           invocation' \in [RoutedCall -> {"none", "pending", "answered", "rejected", "timed out"}],
           \A k \in RoutedCall : invocation[k] = "none" <=> invocation'[k] = "none"
    PROVE  WireFits'
<1>1. PICK k \in RoutedCall : Silent(calls[k].ending)
  BY AnswerQueue, OnlySilenceIsRefused DEF WireFits
<1>2. ~(\A j \in RoutedCall : (~Silent(calls[j].ending))')
  BY <1>1, SameLanguage
<1>3. /\ answers' \in Seq([call : RoutedCall, message : Results])
      /\ \A n \in DOMAIN answers' : \E m \in DOMAIN answers : answers'[n] = answers[m]
  <2>1. CASE answers' = <<>>
    BY ONLY <2>1, EmptyQueue
  <2>2. CASE answers' = Tail(answers)
    BY <2>2, AnswerQueue DEF WireFits
  <2> QED BY <2>1, <2>2
<1>4. WireTypeOK' /\ AnswersAreMade'
  <2>1. WireTypeOK'
    BY <1>3 DEF WireFits, WireTypeOK, Results
  <2> QED BY <1>3, <2>1, AnswersStay
<1>5. SilenceEndsSessions' /\ AnswersReachTheServer'
  BY <1>2 DEF SilenceEndsSessions, AnswersReachTheServer
<1> QED BY <1>3, <1>4, <1>5, CallsStay, RegistrationStays DEF WireFits

(* An answer is refused.                                                    *)
LEMMA AnswerRefusedKeeps == ASSUME WireFits, AnswerRefused PROVE WireFits'
<1>1. \A k \in RoutedCall : invocation[k] \in {"none", "pending", "answered", "rejected", "timed out"}
  BY DEF WireFits, WireTypeOK
<1>2. /\ invocation' \in [RoutedCall -> {"none", "pending", "answered", "rejected", "timed out"}]
      /\ \A k \in RoutedCall : invocation[k] = "none" <=> invocation'[k] = "none"
  BY <1>1 DEF AnswerRefused, Refused
<1> QED BY <1>2, AnswerLostKeeps DEF AnswerRefused, Refused

(* An answer cannot be written.                                             *)
LEMMA AnswerNotWrittenKeeps == ASSUME WireFits, AnswerNotWritten PROVE WireFits'
<1>1. invocation \in [RoutedCall -> {"none", "pending", "answered", "rejected", "timed out"}]
  BY DEF WireFits, WireTypeOK
<1> QED BY <1>1, AnswerLostKeeps DEF AnswerNotWritten

(* A call times out.                                                        *)
LEMMA CallTimesOutKeeps ==
    ASSUME WireFits, NEW k \in RoutedCall, CallTimesOut(k)
    PROVE  WireFits'
<1>1. /\ UNCHANGED <<speaks, by, session, lastRegister, calls, answers>> /\ invocation[k] = "pending"
      /\ invocation' = [invocation EXCEPT ![k] = "timed out"]
  BY DEF CallTimesOut
<1>2. \A j \in RoutedCall : /\ j # k => invocation'[j] = invocation[j]
                            /\ j = k => invocation'[j] = "timed out"
  BY <1>1 DEF WireFits, WireTypeOK
<1>3. WireTypeOK'
  BY <1>1 DEF WireFits, WireTypeOK
<1>4. AnswersAreMade'
  BY <1>1, <1>2, AnswersStay DEF WireFits
<1>5. SilenceEndsSessions'
  BY <1>1, <1>2, SameLanguage DEF WireFits, SilenceEndsSessions
<1>6. AnswersReachTheServer'
  <2>1. ASSUME \A j \in RoutedCall : (~Silent(calls[j].ending))', NEW j \in RoutedCall
        PROVE  AnswerKept(j)'
    <3>1. AnswerKept(j)
      BY <1>1, <2>1, SameLanguage DEF WireFits, AnswersReachTheServer
    <3> QED BY <1>1, <1>2, <3>1 DEF AnswerKept
  <2> QED BY <2>1 DEF AnswersReachTheServer
<1> QED BY <1>1, <1>3, <1>4, <1>5, <1>6, CallsStay, RegistrationStays DEF WireFits

(* Nothing is said.                                                         *)
LEMMA SilenceKeeps == ASSUME WireFits, UNCHANGED wireVars PROVE WireFits'
<1>1. AnswersAreMade'
  BY AnswersStay DEF WireFits, wireVars
<1>2. SilenceEndsSessions'
  BY SameLanguage DEF WireFits, wireVars, SilenceEndsSessions
<1>3. AnswersReachTheServer'
  BY SameLanguage DEF WireFits, wireVars, AnswersReachTheServer, AnswerKept
<1>4. WireTypeOK'
  BY DEF WireFits, wireVars, WireTypeOK
<1> QED BY <1>1, <1>2, <1>3, <1>4, CallsStay, RegistrationStays DEF WireFits, wireVars

(* Whatever the client and its server say next.                             *)
LEMMA WireNextKeeps == WireFits /\ [WireNext]_wireVars => WireFits'
<1> SUFFICES ASSUME WireFits, [WireNext]_wireVars
             PROVE  WireFits'
  OBVIOUS
<1>1. CASE Registers
  BY <1>1, RegisterKeeps DEF Registers
<1>2. CASE Exchanges
  BY <1>2, RouteCallKeeps, HandlerRunsKeeps, HandlerEndsKeeps, CallTimesOutKeeps, AnswerTakenKeeps,
     AnswerRefusedKeeps, AnswerNotWrittenKeeps DEF Exchanges
<1>3. CASE UNCHANGED wireVars
  BY <1>3, SilenceKeeps
<1> QED BY <1>1, <1>2, <1>3 DEF WireNext

-----------------------------------------------------------------------------
(* Catalogs.                                                                *)

(* Of the numbers of a set, one is the least.                               *)
LEMMA LeastOf ==
    ASSUME NEW T \in SUBSET Nat, T # {}
    PROVE  \E n \in T : \A m \in T : n <= m
<1> DEFINE R == {p \in Nat \X Nat : p[1] < p[2]}
<1>1. \A x, y \in Nat : y < x => <<y, x>> \in R
  OBVIOUS
<1>2. IsWellFoundedOn(R, Nat)
  BY NatLessThanWellFounded DEF OpToRel
<1> HIDE DEF R
<1>3. PICK x \in T : \A y \in T : <<y, x>> \notin R
  BY <1>2, WFMin
<1>4. \A y \in T : ~(y < x)
  BY <1>1, <1>3
<1> QED BY <1>4

(* A set of numbers with zero and with the next of each has all.            *)
LEMMA AllNumbers ==
    ASSUME NEW S, 0 \in S, \A n \in Nat : n \in S => n + 1 \in S
    PROVE  Nat \subseteq S
<1>1. ASSUME NEW k \in Nat, k \notin S
      PROVE  FALSE
  <2>1. PICK n \in Nat \ S : \A m \in Nat \ S : n <= m
    <3>1. Nat \ S \in SUBSET Nat /\ Nat \ S # {}
       BY <1>1
    <3> QED BY <3>1, LeastOf
  <2>2. n # 0 /\ n - 1 \in Nat
    BY <2>1
  <2>3. n - 1 \in S
    BY <2>1, <2>2
  <2> QED BY <2>1, <2>2, <2>3
<1> QED BY <1>1

(* What a walk has found after each of so many entries.                     *)
FoundBy(best, len, es, m, match) ==
    best = [n \in 0 .. len |-> IF n = 0 THEN Unresolved ELSE Better(best[n - 1], es[n], m, match[n])]

(* A walk finds something after every entry.                                *)
LEMMA WalkFinds ==
    ASSUME NEW N \in Nat, NEW es, NEW m, NEW match
    PROVE  \E best : FoundBy(best, N, es, m, match)
<1> DEFINE S == {k \in Nat : \E best : FoundBy(best, k, es, m, match)}
<1>1. 0 \in S
  <2>1. [n \in 0 .. 0 |-> Unresolved] = [n \in 0 .. 0 |-> IF n = 0 THEN Unresolved ELSE
                           Better([j \in 0 .. 0 |-> Unresolved][n - 1], es[n], m, match[n])]
    <3>1. \A n \in 0 .. 0 : n = 0
      OBVIOUS
    <3> QED BY <3>1
  <2> QED BY <2>1 DEF FoundBy
<1>2. ASSUME NEW k \in Nat, k \in S
      PROVE  k + 1 \in S
  <2>1. PICK best : best = [n \in 0 .. k |-> IF n = 0 THEN Unresolved
                                             ELSE Better(best[n - 1], es[n], m, match[n])]
    BY <1>2 DEF FoundBy
  <2> DEFINE next == [n \in 0 .. k + 1 |-> IF n = k + 1 THEN Better(best[k], es[k + 1], m, match[k + 1])
                                           ELSE best[n]]
  <2>2. \A n \in 0 .. k + 1 : \/ n = 0 /\ n # k + 1 /\ n \in 0 .. k
                              \/ n # 0 /\ n # k + 1 /\ n \in 0 .. k /\ n - 1 \in 0 .. k + 1 /\ n - 1 # k + 1
                              \/ n # 0 /\ n = k + 1 /\ n - 1 = k /\ k \in 0 .. k + 1 /\ k # k + 1
    OBVIOUS
  <2>3. ASSUME NEW n \in 0 .. k + 1
        PROVE  next[n] = IF n = 0 THEN Unresolved ELSE Better(next[n - 1], es[n], m, match[n])
    <3>1. CASE n = 0 /\ n # k + 1 /\ n \in 0 .. k
      BY <2>1, <3>1
    <3>2. CASE n # 0 /\ n # k + 1 /\ n \in 0 .. k /\ n - 1 \in 0 .. k + 1 /\ n - 1 # k + 1
      <4>1. best[n] = Better(best[n - 1], es[n], m, match[n])
        BY <2>1, <3>2
      <4>2. next[n] = best[n] /\ next[n - 1] = best[n - 1]
        BY <3>2
      <4> HIDE DEF next
      <4> QED BY <3>2, <4>1, <4>2
    <3>3. CASE n # 0 /\ n = k + 1 /\ n - 1 = k /\ k \in 0 .. k + 1 /\ k # k + 1
      <4>1. next[n] = Better(best[k], es[k + 1], m, match[k + 1]) /\ next[n - 1] = best[k]
        BY <3>3
      <4> HIDE DEF next
      <4> QED BY <3>3, <4>1
    <3> QED BY <2>2, <3>1, <3>2, <3>3
  <2>4. next = [n \in 0 .. k + 1 |-> IF n = 0 THEN Unresolved ELSE Better(next[n - 1], es[n], m, match[n])]
    <3>1. next = [n \in 0 .. k + 1 |-> next[n]]
      OBVIOUS
    <3> HIDE DEF next
    <3> QED BY <2>3, <3>1
  <2> HIDE DEF next
  <2>5. k + 1 \in Nat
    OBVIOUS
  <2>6. FoundBy(next, k + 1, es, m, match)
    BY <2>4 DEF FoundBy
  <2> QED BY <2>5, <2>6
<1> HIDE DEF S
<1>3. N \in S
  BY <1>1, <1>2, AllNumbers
<1> QED BY <1>3 DEF S

(* A walk is what it has found after the last entry.                        *)
LEMMA WalkIs ==
    ASSUME NEW es, NEW m, NEW match, Len(es) \in Nat
    PROVE  \E best : FoundBy(best, Len(es), es, m, match) /\ Walk(es, m, match) = best[Len(es)]
<1> DEFINE found == CHOOSE best : FoundBy(best, Len(es), es, m, match)
<1>1. FoundBy(found, Len(es), es, m, match)
  BY WalkFinds
<1>2. Walk(es, m, match) = found[Len(es)]
  BY Zenon DEF Walk, FoundBy
<1> HIDE DEF found
<1> QED BY <1>1, <1>2

(* Of two matches of as many segments, the more specific is so at the first *)
(* place where they differ.                                                 *)
LEMMA MoreSpecificIs ==
    ASSUME NEW L \in Nat, NEW a \in [1 .. L -> 0 .. 2], NEW b \in [1 .. L -> 0 .. 2]
    PROVE  MoreSpecific(a, b) <=> \E i \in 1 .. L : a[i] > b[i] /\ \A j \in 1 .. i - 1 : a[j] = b[j]
<1>1. DOMAIN a = 1 .. L /\ DOMAIN b = 1 .. L /\ \A i \in 1 .. L : \A j \in 1 .. i - 1 : j \in 1 .. L
  OBVIOUS
<1> QED BY <1>1 DEF MoreSpecific

(* Nothing is more specific than what is more specific than it.             *)
LEMMA NotBothMoreSpecific ==
    ASSUME NEW L \in Nat, NEW a \in [1 .. L -> 0 .. 2], NEW b \in [1 .. L -> 0 .. 2],
           MoreSpecific(a, b)
    PROVE  ~MoreSpecific(b, a)
<1>1. PICK i \in 1 .. L : a[i] > b[i] /\ \A n \in 1 .. i - 1 : a[n] = b[n]
  BY MoreSpecificIs
<1>2. ASSUME NEW j \in 1 .. L, b[j] > a[j], \A n \in 1 .. j - 1 : b[n] = a[n]
      PROVE  FALSE
  <2>1. \/ i = j \/ i \in 1 .. j - 1 \/ j \in 1 .. i - 1
    OBVIOUS
  <2>2. a[i] \in 0 .. 2 /\ b[i] \in 0 .. 2 /\ a[j] \in 0 .. 2 /\ b[j] \in 0 .. 2
    OBVIOUS
  <2> QED BY <1>1, <1>2, <2>1, <2>2
<1> QED BY <1>2, MoreSpecificIs

(* Nothing is more specific than itself.                                    *)
LEMMA NotMoreThanItself ==
    ASSUME NEW L \in Nat, NEW a \in [1 .. L -> 0 .. 2]
    PROVE  ~MoreSpecific(a, a)
<1>1. \A i \in 1 .. L : ~(a[i] > a[i])
  OBVIOUS
<1> QED BY <1>1, MoreSpecificIs

(* What is more specific than a match is more specific than what is not.    *)
LEMMA MoreSpecificThanLess ==
    ASSUME NEW L \in Nat, NEW a \in [1 .. L -> 0 .. 2], NEW b \in [1 .. L -> 0 .. 2],
           NEW c \in [1 .. L -> 0 .. 2], MoreSpecific(a, b), ~MoreSpecific(c, b)
    PROVE  MoreSpecific(a, c)
<1>1. PICK i \in 1 .. L : a[i] > b[i] /\ \A n \in 1 .. i - 1 : a[n] = b[n]
  BY MoreSpecificIs
<1>2. CASE \A n \in 1 .. L : b[n] = c[n]
  BY <1>1, <1>2, MoreSpecificIs
<1>3. CASE \E n \in 1 .. L : b[n] # c[n]
  <2>1. PICK k \in 1 .. L : b[k] # c[k] /\ \A n \in 1 .. L : b[n] # c[n] => k <= n
    <3>1. {n \in 1 .. L : b[n] # c[n]} \in SUBSET Nat /\ {n \in 1 .. L : b[n] # c[n]} # {}
      BY <1>3
    <3> QED BY <3>1, LeastOf
  <2>2. \A n \in 1 .. k - 1 : n \in 1 .. L /\ b[n] = c[n]
    BY <2>1
  <2>3. ~(c[k] > b[k])
    BY <2>2, MoreSpecificIs
  <2>4. c[k] < b[k]
    <3>1. b[k] \in 0 .. 2 /\ c[k] \in 0 .. 2
      OBVIOUS
    <3> QED BY <2>1, <2>3, <3>1
  <2>5. /\ a[i] \in 0 .. 2 /\ b[i] \in 0 .. 2 /\ c[i] \in 0 .. 2
        /\ a[k] \in 0 .. 2 /\ b[k] \in 0 .. 2 /\ c[k] \in 0 .. 2
    OBVIOUS
  <2>6. CASE i < k
    <3>1. i \in 1 .. k - 1 /\ \A n \in 1 .. i - 1 : n \in 1 .. k - 1
      BY <2>6
    <3>2. a[i] > c[i] /\ \A n \in 1 .. i - 1 : a[n] = c[n]
      BY <1>1, <2>2, <3>1
    <3> QED BY <3>2, MoreSpecificIs
  <2>7. CASE i = k
    <3>1. a[i] > c[i] /\ \A n \in 1 .. i - 1 : a[n] = c[n]
      BY <1>1, <2>2, <2>4, <2>5, <2>7
    <3> QED BY <3>1, MoreSpecificIs
  <2>8. CASE i > k
    <3>1. k \in 1 .. i - 1 /\ \A n \in 1 .. k - 1 : n \in 1 .. i - 1
      BY <2>8
    <3>2. a[k] = b[k] /\ \A n \in 1 .. k - 1 : a[n] = c[n]
      BY <1>1, <2>2, <3>1
    <3>3. a[k] > c[k]
      BY <2>4, <2>5, <3>2
    <3> QED BY <3>2, <3>3, MoreSpecificIs
  <2> QED BY <2>6, <2>7, <2>8
<1> QED BY <1>2, <1>3

(* A match of a path says how specific it is at each of its segments.       *)
LEMMA MatchIs ==
    ASSUME NEW pattern \in Seq(STRING), NEW path \in Seq(STRING)
    PROVE  LET match == TypeScriptMatch(pattern, path)
           IN  Matched(match) => /\ match.specificity \in [1 .. Len(path) -> 0 .. 2]
                                 /\ Len(path) \in Nat
                                 /\ IsConcrete("typescript", path) /\ IsPattern("typescript", pattern)
<1>1. Len(pattern) \in Nat /\ Len(path) \in Nat /\ DOMAIN pattern = 1 .. Len(pattern)
  OBVIOUS
<1>2. ~Matched(NoMatch)
  BY DEF Matched, NoMatch
<1>3. CASE IsPattern("typescript", pattern) /\ IsConcrete("typescript", path)
  <2>1. TypeScriptMatch(pattern, path) = MatchSegments(pattern, path)
    BY <1>3 DEF TypeScriptMatch, MatchBy, Split, TypeScriptSplit
  <2>2. CASE Len(pattern) = Len(path) /\ \A i \in DOMAIN pattern : pattern[i] \in ParamPart \/ pattern[i] = path[i]
    <3>1. MatchSegments(pattern, path).specificity
            = [i \in DOMAIN pattern |-> IF pattern[i] \in ParamPart THEN 0 ELSE IF pattern[i] \in Reserved THEN 1 ELSE 2]
      BY <2>2 DEF MatchSegments
    <3>2. [i \in DOMAIN pattern |-> IF pattern[i] \in ParamPart THEN 0 ELSE IF pattern[i] \in Reserved THEN 1 ELSE 2]
            \in [1 .. Len(path) -> 0 .. 2]
      BY <1>1, <2>2
    <3> QED BY <1>1, <1>3, <2>1, <3>1, <3>2
  <2>3. CASE ~(Len(pattern) = Len(path)
               /\ \A i \in DOMAIN pattern : pattern[i] \in ParamPart \/ pattern[i] = path[i])
    BY <1>2, <2>1, <2>3 DEF MatchSegments
  <2> QED BY <2>2, <2>3
<1>4. CASE ~(IsPattern("typescript", pattern) /\ IsConcrete("typescript", path))
  BY <1>2, <1>4 DEF TypeScriptMatch, MatchBy
<1> QED BY <1>3, <1>4

(* Of the entries walked so far that match, the one that is found is the    *)
(* first of the most specific.                                              *)
FirstBest(n, es, m, match, found) ==
    LET matches == {i \in 1 .. n : MatchesMethod(es[i], m) /\ Matched(match[i])}
    IN  \/ matches = {} /\ found = Unresolved
        \/ \E i \in matches :
              /\ found = [entry |-> es[i], match |-> match[i]]
              /\ \A j \in matches : /\ ~MoreSpecific(match[j].specificity, match[i].specificity)
                                    /\ j < i => MoreSpecific(match[i].specificity, match[j].specificity)

(* One entry more.                                                          *)
LEMMA BetterIsFirstBest ==
    ASSUME NEW n \in Nat, NEW es, NEW m, NEW match, NEW found, NEW L \in Nat,
           \A i \in 1 .. n + 1 : Matched(match[i]) => match[i].specificity \in [1 .. L -> 0 .. 2],
           FirstBest(n, es, m, match, found)
    PROVE  FirstBest(n + 1, es, m, match, Better(found, es[n + 1], m, match[n + 1]))
<1> DEFINE hit(i) == MatchesMethod(es[i], m) /\ Matched(match[i])
<1> DEFINE better == Better(found, es[n + 1], m, match[n + 1])
<1>1. n + 1 \in 1 .. n + 1 /\ \A i \in 1 .. n + 1 : i = n + 1 \/ (i \in 1 .. n /\ i < n + 1)
  OBVIOUS
<1>2. \A i \in 1 .. n : i \in 1 .. n + 1 /\ i # n + 1 /\ ~(n + 1 < i)
  OBVIOUS
<1>3. CASE ~hit(n + 1)
  <2>1. better = found
    BY <1>3 DEF Better
  <2> QED BY <1>1, <1>2, <1>3, <2>1 DEF FirstBest
<1>4. CASE hit(n + 1) /\ \A i \in 1 .. n : ~hit(i)
  <2>1. found = Unresolved
    BY <1>4 DEF FirstBest
  <2>2. better = [entry |-> es[n + 1], match |-> match[n + 1]]
    BY <1>4, <2>1 DEF Better, Unresolved, NoMatch, Matched
  <2>3. ~MoreSpecific(match[n + 1].specificity, match[n + 1].specificity)
    BY <1>1, <1>4, NotMoreThanItself
  <2> QED BY <1>1, <1>4, <2>2, <2>3 DEF FirstBest
<1>5. ASSUME hit(n + 1), NEW k \in 1 .. n, hit(k), found = [entry |-> es[k], match |-> match[k]],
             \A j \in 1 .. n : hit(j) =>
                /\ ~MoreSpecific(match[j].specificity, match[k].specificity)
                /\ j < k => MoreSpecific(match[k].specificity, match[j].specificity)
      PROVE  FirstBest(n + 1, es, m, match, better)
  <2>1. CASE MoreSpecific(match[n + 1].specificity, match[k].specificity)
    <3>1. better = [entry |-> es[n + 1], match |-> match[n + 1]]
      BY <1>5, <2>1 DEF Better
    <3>2. ASSUME NEW j \in 1 .. n, hit(j)
          PROVE  /\ MoreSpecific(match[n + 1].specificity, match[j].specificity)
                 /\ ~MoreSpecific(match[j].specificity, match[n + 1].specificity)
      <4>1. /\ match[n + 1].specificity \in [1 .. L -> 0 .. 2] /\ match[k].specificity \in [1 .. L -> 0 .. 2]
            /\ match[j].specificity \in [1 .. L -> 0 .. 2]
        BY <1>1, <1>2, <1>5, <3>2
      <4>2. MoreSpecific(match[n + 1].specificity, match[j].specificity)
        <5>1. ~MoreSpecific(match[j].specificity, match[k].specificity)
          BY <1>5, <3>2
        <5> QED BY ONLY <2>1, <4>1, <5>1, MoreSpecificThanLess, L \in Nat
      <4> QED BY <4>1, <4>2, NotBothMoreSpecific
    <3>3. ~MoreSpecific(match[n + 1].specificity, match[n + 1].specificity)
      BY <1>1, <1>5, NotMoreThanItself
    <3> QED BY <1>1, <1>5, <3>1, <3>2, <3>3 DEF FirstBest
  <2>2. CASE ~MoreSpecific(match[n + 1].specificity, match[k].specificity)
    <3>1. better = found
      BY <1>5, <2>2 DEF Better
    <3> QED BY <1>1, <1>2, <1>5, <2>2, <3>1 DEF FirstBest
  <2> QED BY <2>1, <2>2
<1>6. \/ ~hit(n + 1)
      \/ hit(n + 1) /\ \A i \in 1 .. n : ~hit(i)
      \/ hit(n + 1) /\ \E k \in 1 .. n :
            /\ hit(k) /\ found = [entry |-> es[k], match |-> match[k]]
            /\ \A j \in 1 .. n : hit(j) =>
                 /\ ~MoreSpecific(match[j].specificity, match[k].specificity)
                 /\ j < k => MoreSpecific(match[k].specificity, match[j].specificity)
  BY DEF FirstBest
<1> QED BY <1>3, <1>4, <1>5, <1>6

(* A walk finds the first of the most specific.                             *)
LEMMA WalkFindsFirstBest ==
    ASSUME NEW es, NEW m, NEW match, NEW L \in Nat, Len(es) \in Nat,
           \A i \in 1 .. Len(es) : Matched(match[i]) => match[i].specificity \in [1 .. L -> 0 .. 2]
    PROVE  FirstBest(Len(es), es, m, match, Walk(es, m, match))
<1>1. PICK best : FoundBy(best, Len(es), es, m, match) /\ Walk(es, m, match) = best[Len(es)]
  BY WalkIs
<1>2. /\ best[0] = Unresolved
      /\ \A n \in 1 .. Len(es) : best[n] = Better(best[n - 1], es[n], m, match[n])
  <2>1. 0 \in 0 .. Len(es) /\ \A n \in 1 .. Len(es) : n \in 0 .. Len(es) /\ n # 0
    OBVIOUS
  <2> QED BY <1>1, <2>1 DEF FoundBy
<1> DEFINE S == {n \in Nat : n <= Len(es) => FirstBest(n, es, m, match, best[n])}
<1>3. 0 \in S
  BY <1>2 DEF FirstBest
<1>4. ASSUME NEW n \in Nat, n \in S
      PROVE  n + 1 \in S
  <2>1. CASE n + 1 <= Len(es)
    <3>1. /\ n + 1 \in 1 .. Len(es) /\ (n + 1) - 1 = n /\ n <= Len(es)
          /\ \A i \in 1 .. n + 1 : i \in 1 .. Len(es)
      BY <2>1
    <3>2. best[n + 1] = Better(best[n], es[n + 1], m, match[n + 1])
      BY <1>2, <3>1
    <3>3. FirstBest(n + 1, es, m, match, best[n + 1])
      BY <1>4, <3>1, <3>2, BetterIsFirstBest
    <3> QED BY <3>3
  <2>2. CASE ~(n + 1 <= Len(es))
    BY <2>2
  <2> QED BY <2>1, <2>2
<1> HIDE DEF S
<1>5. Len(es) \in S
  BY <1>3, <1>4, AllNumbers
<1> QED BY <1>1, <1>5 DEF S

(* An entry is none that is missing.                                        *)
LEMMA EntryIsSome == \A e \in Entry : e # NoEntry /\ e.path \in Seq(STRING) /\ e.type # "none"
BY CatalogConstants DEF Entry, NoEntry

(* The server resolves a call with a catalog of entries.                    *)
LEMMA ServerWalks ==
    ASSUME NEW es \in Seq(Entry), NEW m, NEW p \in Seq(STRING)
    PROVE  FirstBest(Len(es), es, m, [i \in DOMAIN es |-> TypeScriptMatch(es[i].path, p)],
                     TypeScriptResolve(es, m, p))
<1> DEFINE match == [i \in DOMAIN es |-> TypeScriptMatch(es[i].path, p)]
<1>1. Len(es) \in Nat /\ DOMAIN es = 1 .. Len(es) /\ \A i \in 1 .. Len(es) : es[i] \in Entry
  OBVIOUS
<1>2. Len(p) \in Nat
  OBVIOUS
<1>3. \A i \in 1 .. Len(es) : match[i] = TypeScriptMatch(es[i].path, p)
  BY <1>1
<1>4. \A i \in 1 .. Len(es) : Matched(match[i]) => match[i].specificity \in [1 .. Len(p) -> 0 .. 2]
  BY <1>1, <1>3, MatchIs, EntryIsSome
<1>5. TypeScriptResolve(es, m, p) = Walk(es, m, match)
  BY DEF TypeScriptResolve
<1> HIDE DEF match
<1>6. FirstBest(Len(es), es, m, match, Walk(es, m, match))
  BY <1>1, <1>2, <1>4, WalkFindsFirstBest
<1> QED BY <1>5, <1>6 DEF match

(* An entry matches.                                                        *)
SomeMatch(es, m, p) == \E i \in DOMAIN es : MatchesMethod(es[i], m) /\ Matched(TypeScriptMatch(es[i].path, p))

(* What is resolved is the first of the most specific that match.           *)
ResolvesBest(es, m, p, resolved) ==
    LET match == [i \in DOMAIN es |-> TypeScriptMatch(es[i].path, p)]
        matches == {i \in DOMAIN es : MatchesMethod(es[i], m) /\ Matched(match[i])}
    IN  \/ matches = {} /\ resolved = NoEntry
        \/ \E i \in matches :
              /\ es[i] = resolved
              /\ \A j \in matches :
                    /\ ~MoreSpecific(match[j].specificity, match[i].specificity)
                    /\ j < i => MoreSpecific(match[i].specificity, match[j].specificity)

(* What a server that has the entries resolves.                             *)
LEMMA ServerFinds ==
    ASSUME NEW es \in Seq(Entry), NEW m \in Method, NEW p \in Called
    PROVE  /\ ResolvesBest(es, m, p, TypeScriptResolve(es, m, p).entry)
           /\ TypeScriptResolve(es, m, p).entry # NoEntry <=> SomeMatch(es, m, p)
<1> DEFINE match == [i \in DOMAIN es |-> TypeScriptMatch(es[i].path, p)]
<1>1. p \in Seq(STRING) /\ DOMAIN es = 1 .. Len(es) /\ \A i \in DOMAIN es : es[i] # NoEntry
  BY CatalogConstants, EntryIsSome
<1>2. FirstBest(Len(es), es, m, match, TypeScriptResolve(es, m, p))
  BY <1>1, ServerWalks
<1>3. \A i \in DOMAIN es : match[i] = TypeScriptMatch(es[i].path, p)
  OBVIOUS
<1> HIDE DEF match
<1>4. \/ /\ {i \in DOMAIN es : MatchesMethod(es[i], m) /\ Matched(match[i])} = {}
         /\ TypeScriptResolve(es, m, p).entry = NoEntry
      \/ \E i \in {n \in DOMAIN es : MatchesMethod(es[n], m) /\ Matched(match[n])} :
            /\ es[i] = TypeScriptResolve(es, m, p).entry
            /\ \A j \in {n \in DOMAIN es : MatchesMethod(es[n], m) /\ Matched(match[n])} :
                  /\ ~MoreSpecific(match[j].specificity, match[i].specificity)
                  /\ j < i => MoreSpecific(match[i].specificity, match[j].specificity)
  BY <1>1, <1>2 DEF FirstBest, Unresolved
<1>5. TypeScriptResolve(es, m, p).entry # NoEntry <=> SomeMatch(es, m, p)
  BY <1>1, <1>3, <1>4 DEF SomeMatch
<1>6. ResolvesBest(es, m, p, TypeScriptResolve(es, m, p).entry)
  BY <1>4 DEF match, ResolvesBest
<1> QED BY <1>5, <1>6

(* What the server resolves and what it lists, whatever it has got.         *)
LEMMA ServerIndexIsRight ==
    ASSUME NEW es \in Seq(Entry)
    PROVE  /\ Paths = es => ServerResolvesBest /\ ListingsAgree
           /\ Paths' = es => ServerResolvesBest' /\ ListingsAgree'
<1>1. ASSUME NEW m, NEW p
      PROVE  /\ m \in {IF e.type = "endpoint" THEN e.method ELSE "GET" :
                         e \in {f \in ToSet(es) : Matched(TypeScriptMatch(f.path, p))}}
                <=> SomeMatch(es, m, p)
             /\ (\E e \in ToSet(es) : MatchesMethod(e, m) /\ Matched(TypeScriptMatch(e.path, p)))
                <=> SomeMatch(es, m, p)
  BY DEF ToSet, MatchesMethod, SomeMatch
<1>2. ASSUME Paths = es
      PROVE  ServerResolvesBest /\ ListingsAgree
  <2>1. \A m, p : ResolveTarget(m, p) = TypeScriptResolve(es, m, p)
    BY <1>2 DEF ResolveTarget, TypeScriptResolve
  <2>2. ServerResolvesBest
    <3>1. ServerResolvesBest <=> \A m \in Method, p \in Called :
                                   ResolvesBest(es, m, p, ResolveTarget(m, p).entry)
      BY <1>2 DEF ServerResolvesBest, ResolvesBest
    <3> QED BY <2>1, <3>1, ServerFinds
  <2>3. ListingsAgree
    <3>1. \A m, p : HasTarget(m, p) <=> TypeScriptResolve(es, m, p).entry # NoEntry
      BY <2>1 DEF HasTarget
    <3>2. \A m, p : FindsClient(m, p) <=> \E e \in ToSet(es) :
                       MatchesMethod(e, m) /\ Matched(TypeScriptMatch(e.path, p))
      BY <1>2 DEF FindsClient
    <3>3. \A p : ListAllowedMethods(p) = {IF e.type = "endpoint" THEN e.method ELSE "GET" :
                    e \in {f \in ToSet(es) : Matched(TypeScriptMatch(f.path, p))}}
      BY <1>2 DEF ListAllowedMethods
    <3>4. \A m \in Method, p \in Called : /\ HasTarget(m, p) <=> SomeMatch(es, m, p)
                                          /\ FindsClient(m, p) <=> SomeMatch(es, m, p)
                                          /\ m \in ListAllowedMethods(p) <=> SomeMatch(es, m, p)
      BY <1>1, <3>1, <3>2, <3>3, ServerFinds
    <3> QED BY <3>4 DEF ListingsAgree
  <2> QED BY <2>2, <2>3
<1>3. ASSUME Paths' = es
      PROVE  ServerResolvesBest' /\ ListingsAgree'
  <2>1. \A m, p : ResolveTarget(m, p)' = TypeScriptResolve(es, m, p)
    BY <1>3 DEF ResolveTarget, TypeScriptResolve
  <2>2. ServerResolvesBest'
    <3>1. ServerResolvesBest' <=> \A m \in Method, p \in Called :
                                   ResolvesBest(es, m, p, ResolveTarget(m, p)'.entry)
      BY <1>3 DEF ServerResolvesBest, ResolvesBest
    <3> QED BY <2>1, <3>1, ServerFinds
  <2>3. ListingsAgree'
    <3>1. \A m, p : HasTarget(m, p)' <=> TypeScriptResolve(es, m, p).entry # NoEntry
      BY <2>1 DEF HasTarget
    <3>2. \A m, p : FindsClient(m, p)' <=> \E e \in ToSet(es) :
                       MatchesMethod(e, m) /\ Matched(TypeScriptMatch(e.path, p))
      BY <1>3 DEF FindsClient
    <3>3. \A p : ListAllowedMethods(p)' = {IF e.type = "endpoint" THEN e.method ELSE "GET" :
                    e \in {f \in ToSet(es) : Matched(TypeScriptMatch(f.path, p))}}
      BY <1>3 DEF ListAllowedMethods
    <3>4. \A m \in Method, p \in Called : /\ HasTarget(m, p)' <=> SomeMatch(es, m, p)
                                          /\ FindsClient(m, p)' <=> SomeMatch(es, m, p)
                                          /\ m \in ListAllowedMethods(p)' <=> SomeMatch(es, m, p)
      BY <1>1, <3>1, <3>2, <3>3, ServerFinds
    <3> QED BY <3>4 DEF ListingsAgree
  <2> QED BY <2>2, <2>3
<1> QED BY <1>2, <1>3

(* A path that is one in TypeScript is split alike everywhere.              *)
LEMMA SplitsAlike ==
    ASSUME NEW s \in Sdk, NEW p \in Seq(STRING), NEW params \in SUBSET ParamPart,
           IsPath("typescript", p, params)
    PROVE  Split(s, p) = p /\ IsPath(s, p, params)
<1>1. /\ p # <<>> /\ Len(p) \in Nat /\ Len(p) > 0 /\ DOMAIN p = 1 .. Len(p)
      /\ \A i \in DOMAIN p : p[i] \in StaticPart \cup params \/ (p[i] \in Reserved /\ i = Len(p))
  BY DEF IsPath, TypeScriptIsPath, AreSegments, TypeScriptSplit
<1>2. \A i \in DOMAIN p : p[i] # ""
  BY <1>1, PathConstants DEF Reserved
<1>3. {i \in DOMAIN p : p[i] # ""} = 1 .. Len(p) /\ 1 .. Len(p) # {}
  <2>1. {i \in DOMAIN p : p[i] # ""} = DOMAIN p
    BY <1>2
  <2>2. 1 \in 1 .. Len(p)
    BY <1>1
  <2> QED BY <1>1, <2>1, <2>2
<1>4. (CHOOSE i \in 1 .. Len(p) : \A j \in 1 .. Len(p) : i <= j) = 1
  <2>1. 1 \in 1 .. Len(p) /\ \A j \in 1 .. Len(p) : 1 <= j
    BY <1>1
  <2>2. \A i \in 1 .. Len(p) : (\A j \in 1 .. Len(p) : i <= j) => i = 1
    BY <2>1
  <2> QED BY <2>1, <2>2
<1>5. (CHOOSE i \in 1 .. Len(p) : \A j \in 1 .. Len(p) : i >= j) = Len(p)
  <2>1. Len(p) \in 1 .. Len(p) /\ \A j \in 1 .. Len(p) : Len(p) >= j
    BY <1>1
  <2>2. \A i \in 1 .. Len(p) : (\A j \in 1 .. Len(p) : i >= j) => i = Len(p)
    BY <2>1
  <2> QED BY <2>1, <2>2
<1>6. SubSeq(p, 1, Len(p)) = p
  BY <1>1
<1>7. DotnetSplit(p) = p
  BY <1>3, <1>4, <1>6 DEF DotnetSplit
<1>8. JavaSplit(p) = p
  BY <1>3, <1>5, <1>6 DEF JavaSplit
<1>9. Split(s, p) = p
  BY <1>7, <1>8 DEF Split, Sdk, TypeScriptSplit, GoSplit, PythonSplit, RustSplit
<1>10. AreSegments(p, StaticPart \cup params) /\ AreSegments(p, StaticPart \cup LinedPart \cup params)
  BY <1>1 DEF AreSegments
<1>11. IsPath(s, p, params)
  BY <1>7, <1>8, <1>10 DEF IsPath, Sdk, TypeScriptSplit, GoSplit, PythonSplit, RustSplit, TypeScriptIsPath,
     GoIsPath, PythonIsPath, RustIsPath, DotnetIsPath, JavaIsPath
<1> QED BY <1>9, <1>11

(* What is matched in TypeScript is matched alike everywhere.               *)
LEMMA MatchesAlike ==
    ASSUME NEW s \in Sdk, NEW pattern \in Seq(STRING), NEW path \in Seq(STRING),
           IsPattern("typescript", pattern), IsConcrete("typescript", path)
    PROVE  MatchBy(s, pattern, path) = TypeScriptMatch(pattern, path)
<1>1. ParamPart \in SUBSET ParamPart /\ {} \in SUBSET ParamPart
  OBVIOUS
<1>2. Split(s, pattern) = pattern /\ IsPattern(s, pattern)
  BY <1>1, SplitsAlike DEF IsPattern
<1>3. Split(s, path) = path /\ IsConcrete(s, path)
  BY <1>1, SplitsAlike DEF IsConcrete
<1>4. MatchBy(s, pattern, path) = MatchSegments(pattern, path)
  BY <1>2, <1>3 DEF MatchBy
<1>5. TypeScriptMatch(pattern, path) = MatchSegments(pattern, path)
  BY DEF MatchBy, TypeScriptMatch, Split, TypeScriptSplit
<1> QED BY <1>4, <1>5

(* A client resolves a call with its entries as the server does.            *)
LEMMA ClientResolvesAlike ==
    ASSUME NEW es \in Seq(Entry), IsCatalog(es), sdk \in Sdk, NEW m, NEW p \in Seq(STRING),
           IsConcrete("typescript", p)
    PROVE  ResolveEntry(es, m, p) = TypeScriptResolve(es, m, p)
<1> DEFINE match == [i \in DOMAIN es |-> TypeScriptMatch(es[i].path, p)]
<1>1. ASSUME NEW i \in DOMAIN es, NEW s \in Sdk
      PROVE  MatchBy(s, es[i].path, p) = TypeScriptMatch(es[i].path, p)
  <2>1. es[i].path \in Seq(STRING) /\ IsPattern("typescript", es[i].path)
    BY EntryIsSome DEF IsCatalog
  <2> QED BY <2>1, MatchesAlike
<1>2. /\ [i \in DOMAIN es |-> GoMatch(es[i].path, p)] = match
      /\ [i \in DOMAIN es |-> PythonMatch(es[i].path, p)] = match
      /\ [i \in DOMAIN es |-> RustMatch(es[i].path, p)] = match
      /\ [i \in DOMAIN es |-> DotnetMatch(es[i].path, p)] = match
      /\ [i \in DOMAIN es |-> JavaMatch(es[i].path, p)] = match
  <2>1. \A i \in DOMAIN es : /\ GoMatch(es[i].path, p) = TypeScriptMatch(es[i].path, p)
                             /\ PythonMatch(es[i].path, p) = TypeScriptMatch(es[i].path, p)
                             /\ RustMatch(es[i].path, p) = TypeScriptMatch(es[i].path, p)
                             /\ DotnetMatch(es[i].path, p) = TypeScriptMatch(es[i].path, p)
                             /\ JavaMatch(es[i].path, p) = TypeScriptMatch(es[i].path, p)
    BY <1>1 DEF Sdk, GoMatch, PythonMatch, RustMatch, DotnetMatch, JavaMatch
  <2> QED BY <2>1
<1>3. TypeScriptResolve(es, m, p) = Walk(es, m, match)
  BY DEF TypeScriptResolve
<1> HIDE DEF match
<1> QED BY <1>2, <1>3 DEF Sdk, ResolveEntry, TypeScriptResolve, GoResolve, PythonResolve, RustResolve,
        DotnetResolve, JavaResolve

(* An entry takes the place of what has its key.                            *)
LEMMA KeysAreKeys ==
    /\ \A e, f : SameKey(e, f) <=> SameKey(f, e)
    /\ \A e, f, g : SameKey(e, f) /\ SameKey(f, g) => SameKey(e, g)
BY DEF SameKey

(* No two entries of a registry have the same key.                          *)
Distinct(es) == \A i, j \in DOMAIN es : i # j => ~SameKey(es[i], es[j])

(* Exposing keeps keys apart.                                               *)
LEMMA PuttingKeepsKeys ==
    ASSUME NEW es \in Seq(Entry), Distinct(es), NEW e \in Entry
    PROVE  PutInPlace(es, e) \in Seq(Entry) /\ Distinct(PutInPlace(es, e))
<1>1. Len(es) \in Nat /\ DOMAIN es = 1 .. Len(es) /\ \A i \in DOMAIN es : es[i] \in Entry
  OBVIOUS
<1>2. CASE \E i \in DOMAIN es : SameKey(es[i], e)
  <2> DEFINE put == [i \in DOMAIN es |-> IF SameKey(es[i], e) THEN e ELSE es[i]]
  <2>1. PutInPlace(es, e) = put
    BY <1>2 DEF PutInPlace
  <2>2. put \in Seq(Entry)
    BY <1>1
  <2>3. DOMAIN put = DOMAIN es /\ \A i \in DOMAIN es : put[i] = IF SameKey(es[i], e) THEN e ELSE es[i]
    OBVIOUS
  <2> HIDE DEF put
  <2>4. ASSUME NEW i \in DOMAIN es, NEW j \in DOMAIN es, i # j
        PROVE  ~SameKey(put[i], put[j])
    <3>1. ~SameKey(es[i], es[j]) /\ ~SameKey(es[j], es[i])
      BY <2>4 DEF Distinct
    <3>2. /\ \/ put[i] = e /\ SameKey(es[i], e)
             \/ put[i] = es[i] /\ ~SameKey(es[i], e)
          /\ \/ put[j] = e /\ SameKey(es[j], e)
             \/ put[j] = es[j] /\ ~SameKey(es[j], e)
      BY <2>3
    <3> QED BY ONLY <3>1, <3>2, KeysAreKeys
  <2>5. Distinct(put)
    BY <2>3, <2>4 DEF Distinct
  <2> QED BY <2>1, <2>2, <2>5
<1>3. CASE ~\E i \in DOMAIN es : SameKey(es[i], e)
  <2>1. PutInPlace(es, e) = Append(es, e)
    BY <1>3 DEF PutInPlace
  <2>2. /\ Append(es, e) \in Seq(Entry) /\ DOMAIN Append(es, e) = 1 .. Len(es) + 1
        /\ \A i \in 1 .. Len(es) : Append(es, e)[i] = es[i]
        /\ Append(es, e)[Len(es) + 1] = e
    BY <1>1
  <2>3. \A i \in 1 .. Len(es) + 1 : i = Len(es) + 1 \/ i \in 1 .. Len(es)
    BY <1>1
  <2>4. ASSUME NEW i \in 1 .. Len(es) + 1, NEW j \in 1 .. Len(es) + 1, i # j
        PROVE  ~SameKey(Append(es, e)[i], Append(es, e)[j])
    <3>1. \A n \in 1 .. Len(es) : ~SameKey(es[n], e) /\ ~SameKey(e, es[n])
      BY <1>1, <1>3, KeysAreKeys
    <3>2. CASE i \in 1 .. Len(es) /\ j \in 1 .. Len(es)
      BY <1>1, <2>2, <2>4, <3>2 DEF Distinct
    <3>3. CASE i = Len(es) + 1 /\ j \in 1 .. Len(es)
      BY <2>2, <3>1, <3>3
    <3>4. CASE j = Len(es) + 1 /\ i \in 1 .. Len(es)
      BY <2>2, <3>1, <3>4
    <3> QED BY <2>3, <2>4, <3>2, <3>3, <3>4
  <2>5. Distinct(Append(es, e))
    BY <2>2, <2>4 DEF Distinct
  <2> QED BY <2>1, <2>2, <2>5
<1> QED BY <1>2, <1>3

(* Taking an entry out keeps keys apart.                                    *)
LEMMA RemovingKeepsKeys ==
    ASSUME NEW es \in Seq(Entry), Distinct(es), NEW k \in DOMAIN es
    PROVE  RemoveAt(es, k) \in Seq(Entry) /\ Distinct(RemoveAt(es, k)) /\ Len(RemoveAt(es, k)) <= Len(es)
<1>1. Len(es) \in Nat /\ DOMAIN es = 1 .. Len(es) /\ k \in 1 .. Len(es) /\ \A i \in DOMAIN es : es[i] \in Entry
  OBVIOUS
<1>2. PICK a, b : a = SubSeq(es, 1, k - 1) /\ b = SubSeq(es, k + 1, Len(es))
  OBVIOUS
<1>3. /\ a \in Seq(Entry) /\ Len(a) = k - 1 /\ \A i \in 1 .. k - 1 : a[i] = es[i]
      /\ b \in Seq(Entry) /\ Len(b) = Len(es) - k /\ \A i \in 1 .. Len(es) - k : b[i] = es[k + i]
  <2>1. a \in Seq(Entry) /\ Len(a) = k - 1 /\ \A i \in 1 .. k - 1 : a[i] = es[i]
    BY <1>1, <1>2
  <2>2. b = [i \in 1 .. Len(es) - k |-> es[k + i]]
    <3>1. (Len(es) - (k + 1)) + 1 = Len(es) - k /\ \A i \in 1 .. Len(es) - k : i + (k + 1) - 1 = k + i
      BY <1>1
    <3> QED BY <1>1, <1>2, <3>1
  <2>3. Len(es) - k \in Nat /\ \A i \in 1 .. Len(es) - k : es[k + i] \in Entry
    <3>1. Len(es) - k \in Nat /\ \A i \in 1 .. Len(es) - k : k + i \in DOMAIN es
      BY <1>1
    <3> QED BY <1>1, <3>1
  <2>4. b \in Seq(Entry) /\ Len(b) = Len(es) - k
    <3> DEFINE n == Len(es) - k
    <3>1. n \in Nat /\ \A i \in 1 .. n : es[k + i] \in Entry
      BY <2>3
    <3>2. b = [i \in 1 .. n |-> es[k + i]]
      BY <2>2
    <3> HIDE DEF n
    <3>3. b \in Seq(Entry) /\ Len(b) = n
      BY ONLY <3>1, <3>2
    <3> QED BY ONLY <3>3 DEF n
  <2>5. \A i \in 1 .. Len(es) - k : b[i] = es[k + i]
    BY ONLY <2>2
  <2> QED BY ONLY <2>1, <2>4, <2>5
<1>4. /\ a \o b \in Seq(Entry) /\ Len(a \o b) = Len(es) - 1 /\ DOMAIN (a \o b) = 1 .. Len(es) - 1
      /\ \A i \in 1 .. Len(a) + Len(b) : (a \o b)[i] = IF i <= Len(a) THEN a[i] ELSE b[i - Len(a)]
  <2>1. /\ a \o b \in Seq(Entry) /\ Len(a \o b) = Len(a) + Len(b) /\ DOMAIN (a \o b) = 1 .. Len(a) + Len(b)
        /\ \A i \in 1 .. Len(a) + Len(b) : (a \o b)[i] = IF i <= Len(a) THEN a[i] ELSE b[i - Len(a)]
    <3>1. a \in Seq(Entry) /\ b \in Seq(Entry)
      BY <1>3
    <3> QED BY ONLY <3>1
  <2>2. Len(a) + Len(b) = Len(es) - 1
    BY <1>1, <1>3
  <2> QED BY <2>1, <2>2
<1>5. ASSUME NEW i \in 1 .. Len(es) - 1
      PROVE  \/ i < k /\ (a \o b)[i] = es[i]
             \/ i >= k /\ (a \o b)[i] = es[i + 1]
  <2>1. i \in 1 .. Len(a) + Len(b) /\ (i <= Len(a) <=> i < k)
    BY <1>1, <1>3
  <2>2. CASE i < k
    <3>1. i \in 1 .. k - 1
      BY <1>1, <2>2
    <3> QED BY <1>3, <1>4, <2>1, <2>2, <3>1
  <2>3. CASE ~(i < k)
    <3>1. i - (k - 1) \in 1 .. Len(es) - k /\ k + (i - (k - 1)) = i + 1 /\ i >= k
      BY <1>1, <2>3
    <3>2. (a \o b)[i] = b[i - (k - 1)]
      BY <1>3, <1>4, <2>1, <2>3
    <3>3. b[i - (k - 1)] = es[k + (i - (k - 1))]
      BY <1>3, <3>1
    <3> QED BY <3>1, <3>2, <3>3
  <2> QED BY <2>2, <2>3
<1>6. ASSUME NEW i \in 1 .. Len(es) - 1
      PROVE  \E n \in 1 .. Len(es) : (a \o b)[i] = es[n] /\ ((i < k /\ n = i) \/ (i >= k /\ n = i + 1))
  <2>1. i \in 1 .. Len(es) /\ i + 1 \in 1 .. Len(es)
    BY <1>1
  <2> QED BY <1>5, <2>1
<1>7. \A i, j \in 1 .. Len(es) - 1 : i # j => ~SameKey((a \o b)[i], (a \o b)[j])
  <2> SUFFICES ASSUME NEW i \in 1 .. Len(es) - 1, NEW j \in 1 .. Len(es) - 1, i # j
               PROVE  ~SameKey((a \o b)[i], (a \o b)[j])
    OBVIOUS
  <2>1. PICK n \in 1 .. Len(es) : (a \o b)[i] = es[n] /\ ((i < k /\ n = i) \/ (i >= k /\ n = i + 1))
    BY <1>6
  <2>2. PICK o \in 1 .. Len(es) : (a \o b)[j] = es[o] /\ ((j < k /\ o = j) \/ (j >= k /\ o = j + 1))
    BY <1>6
  <2>3. n # o
    BY <1>1, <2>1, <2>2
  <2> QED BY <1>1, <2>1, <2>2, <2>3 DEF Distinct
<1>8. RemoveAt(es, k) = a \o b
  BY <1>2 DEF RemoveAt
<1>9. Distinct(a \o b)
  BY <1>4, <1>7 DEF Distinct
<1>10. Len(es) - 1 <= Len(es)
  BY <1>1
<1> QED BY <1>4, <1>8, <1>9, <1>10

(* Unexposing keeps keys apart.                                             *)
LEMMA UnexposingKeepsKeys ==
    ASSUME NEW es \in Seq(Entry), Distinct(es), NEW hits \in SUBSET DOMAIN es
    PROVE  WithoutFirst(es, hits) \in Seq(Entry) /\ Distinct(WithoutFirst(es, hits))
<1>1. CASE hits = {}
  BY <1>1 DEF WithoutFirst
<1>2. CASE hits # {}
  <2>1. hits \in SUBSET Nat
    OBVIOUS
  <2>2. \E i \in hits : \A j \in hits : i <= j
    BY <1>2, <2>1, LeastOf
  <2> DEFINE first == CHOOSE i \in hits : \A j \in hits : i <= j
  <2>3. first \in DOMAIN es
    BY <2>2
  <2>4. WithoutFirst(es, hits) = RemoveAt(es, first)
    BY <1>2 DEF WithoutFirst
  <2> HIDE DEF first
  <2> QED BY <2>3, <2>4, RemovingKeepsKeys
<1> QED BY <1>1, <1>2

(* At first nothing is exposed.                                             *)
LEMMA CatalogInitHolds == CatalogInit => CatalogInvariant
<1> SUFFICES ASSUME CatalogInit
             PROVE  CatalogInvariant
  OBVIOUS
<1>1. Paths = <<>> /\ <<>> \in Seq(Entry) /\ <<>> \in Seq(Seq(Entry)) /\ Len(<<>>) = 0
  BY DEF CatalogInit, Paths
<1>2. CatalogTypeOK
  BY <1>1, CatalogConstants DEF CatalogInit, CatalogTypeOK
<1>3. ServerResolvesBest /\ ListingsAgree
  BY <1>1, ServerIndexIsRight
<1>4. KeysAreUnique /\ CallsReachTheirEntry /\ CallsWereResolved
  BY <1>1 DEF CatalogInit, KeysAreUnique, CallsReachTheirEntry, CallsWereResolved, IsCatalog
<1> QED BY <1>2, <1>3, <1>4 DEF CatalogInvariant

(* The registry changes.                                                    *)
LEMMA ChangesKeep ==
    ASSUME CatalogInvariant, NEW es, Changes(es), es \in Seq(Entry), Distinct(es)
    PROVE  CatalogInvariant'
<1>1. /\ UNCHANGED <<sdk, uplink, catalog, call, handled>> /\ entries' = es /\ Len(es) <= MaxEntries
      /\ changes < MaxChanges /\ changes' = changes + 1
  BY DEF Changes
<1>2. Paths' = Paths
  BY <1>1 DEF Paths
<1>3. CatalogTypeOK'
  BY <1>1, <1>2, CatalogConstants DEF CatalogInvariant, CatalogTypeOK
<1>4. ServerResolvesBest' /\ ListingsAgree'
  BY <1>2, ServerIndexIsRight DEF CatalogInvariant, CatalogTypeOK
<1>5. KeysAreUnique'
  BY <1>1 DEF KeysAreUnique, Distinct
<1>6. CallsReachTheirEntry' /\ CallsWereResolved'
  BY <1>1, <1>2 DEF CatalogInvariant, CallsReachTheirEntry, CallsWereResolved
<1> QED BY <1>3, <1>4, <1>5, <1>6 DEF CatalogInvariant

(* The client exposes or takes back.                                        *)
LEMMA RegistryKeeps ==
    ASSUME CatalogInvariant, Expose \/ Unexpose
    PROVE  CatalogInvariant'
<1>1. /\ sdk \in Sdk /\ entries \in Seq(Entry) /\ Distinct(entries)
  BY DEF CatalogInvariant, CatalogTypeOK, KeysAreUnique, Distinct
<1>2. CASE Expose
  <2>1. PICK e \in Entry : Changes(ExposeIn(entries, e))
    BY <1>2 DEF Expose
  <2>2. ExposeIn(entries, e) = PutInPlace(entries, e)
    BY <1>1 DEF Sdk, ExposeIn, TypeScriptExpose, GoExpose, PythonExpose, RustExpose, DotnetExpose, JavaExpose
  <2>3. ExposeIn(entries, e) \in Seq(Entry) /\ Distinct(ExposeIn(entries, e))
    BY <1>1, <2>2, PuttingKeepsKeys
  <2> QED BY <2>1, <2>3, ChangesKeep
<1>3. CASE Unexpose
  <2>1. PICK p \in Exposed, m \in Method \cup {"none"} : sdk # "java" /\ Changes(UnexposeIn(entries, p, m))
    BY <1>3 DEF Unexpose
  <2>2. \E hits \in SUBSET DOMAIN entries : UnexposeIn(entries, p, m) = WithoutFirst(entries, hits)
    BY <1>1, <2>1 DEF Sdk, UnexposeIn, TypeScriptUnexpose, GoUnexpose, PythonUnexpose, RustUnexpose,
       DotnetUnexpose
  <2>3. UnexposeIn(entries, p, m) \in Seq(Entry) /\ Distinct(UnexposeIn(entries, p, m))
    BY <1>1, <2>2, UnexposingKeepsKeys
  <2> QED BY <2>1, <2>3, ChangesKeep
<1> QED BY <1>2, <1>3

(* The catalog leaves the client.                                           *)
LEMMA SyncCatalogKeeps ==
    ASSUME CatalogInvariant, SyncCatalog
    PROVE  CatalogInvariant'
<1>1. /\ UNCHANGED <<sdk, entries, catalog, call, handled, changes>> /\ uplink' = Append(uplink, entries)
  BY DEF SyncCatalog
<1>2. Paths' = Paths
  BY <1>1 DEF Paths
<1>3. Append(uplink, entries) \in Seq(Seq(Entry))
  BY DEF CatalogInvariant, CatalogTypeOK
<1>4. CatalogTypeOK'
  BY <1>1, <1>2, <1>3 DEF CatalogInvariant, CatalogTypeOK
<1>5. ServerResolvesBest' /\ ListingsAgree'
  BY <1>2, ServerIndexIsRight DEF CatalogInvariant, CatalogTypeOK
<1>6. KeysAreUnique' /\ CallsReachTheirEntry' /\ CallsWereResolved'
  BY <1>1, <1>2 DEF CatalogInvariant, KeysAreUnique, CallsReachTheirEntry, CallsWereResolved
<1> QED BY <1>4, <1>5, <1>6 DEF CatalogInvariant

(* The catalog comes to the server.                                         *)
LEMMA ReceiveCatalogKeeps ==
    ASSUME CatalogInvariant, ReceiveCatalog
    PROVE  CatalogInvariant'
<1>1. /\ uplink # <<>> /\ UNCHANGED <<sdk, entries, handled, changes>>
      /\ \/ IsCatalog(Head(uplink)) /\ catalog' = Head(uplink) /\ uplink' = Tail(uplink) /\ UNCHANGED call
         \/ catalog' = NoCatalog /\ uplink' = <<>> /\ call' = <<>>
  BY DEF ReceiveCatalog
<1>2. Head(uplink) \in Seq(Entry) /\ Tail(uplink) \in Seq(Seq(Entry))
  <2>1. PICK S : S = Seq(Entry)
    OBVIOUS
  <2>2. uplink \in Seq(S)
    BY <2>1 DEF CatalogInvariant, CatalogTypeOK
  <2>3. Head(uplink) \in S /\ Tail(uplink) \in Seq(S)
    BY ONLY <1>1, <2>2
  <2> QED BY <2>1, <2>3
<1>3. <<>> \in Seq(Entry) /\ <<>> \in Seq(Seq(Entry)) /\ IsCatalog(<<>>)
  BY DEF IsCatalog
<1>4. Paths' \in Seq(Entry) /\ uplink' \in Seq(Seq(Entry)) /\ IsCatalog(Paths)'
  BY <1>1, <1>2, <1>3 DEF Paths, IsCatalog
<1>5. CatalogTypeOK'
  BY <1>1, <1>4 DEF CatalogInvariant, CatalogTypeOK
<1>6. ServerResolvesBest' /\ ListingsAgree'
  BY <1>4, ServerIndexIsRight
<1>7. KeysAreUnique' /\ CallsReachTheirEntry'
  BY <1>1 DEF CatalogInvariant, KeysAreUnique, CallsReachTheirEntry
<1>8. CallsWereResolved'
  BY <1>1, <1>4 DEF CatalogInvariant, CallsWereResolved
<1> QED BY <1>5, <1>6, <1>7, <1>8 DEF CatalogInvariant

(* The server resolves a call and sends it.                                 *)
LEMMA InvokeKeeps ==
    ASSUME CatalogInvariant, NEW m \in Method, NEW p \in Called, Invoke(m, p)
    PROVE  CatalogInvariant'
<1>1. /\ UNCHANGED <<sdk, entries, uplink, catalog, handled, changes>> /\ ResolveTarget(m, p).entry # NoEntry
      /\ call' = <<[method |-> m, path |-> p, entry |-> ResolveTarget(m, p).entry,
                    params |-> ResolveTarget(m, p).match.params, catalog |-> catalog]>>
  BY DEF Invoke
<1>2. Paths' = Paths /\ Paths \in Seq(Entry)
  BY <1>1 DEF Paths, CatalogInvariant, CatalogTypeOK
<1>3. CatalogTypeOK'
  BY <1>1, <1>2 DEF CatalogInvariant, CatalogTypeOK
<1>4. ServerResolvesBest' /\ ListingsAgree'
  BY <1>2, ServerIndexIsRight DEF CatalogInvariant, CatalogTypeOK
<1>5. KeysAreUnique' /\ CallsReachTheirEntry'
  BY <1>1 DEF CatalogInvariant, KeysAreUnique, CallsReachTheirEntry
<1>6. catalog # NoCatalog
  <2>1. CASE catalog = NoCatalog
    <3>1. Paths = <<>> /\ Len(<<>>) = 0
      BY <2>1 DEF Paths
    <3>2. p \in Seq(STRING) /\ ResolveTarget(m, p) = TypeScriptResolve(Paths, m, p)
      BY CatalogConstants DEF ResolveTarget, TypeScriptResolve
    <3>3. ResolveTarget(m, p) = Unresolved
      <4>1. FirstBest(Len(Paths), Paths, m, [i \in DOMAIN Paths |-> TypeScriptMatch(Paths[i].path, p)],
                      ResolveTarget(m, p))
        BY <1>2, <3>2, ServerWalks
      <4> QED BY <3>1, <4>1 DEF FirstBest
    <3> QED BY <1>1, <3>3 DEF Unresolved
  <2> QED BY <2>1
<1>7. CallsWereResolved'
  <2>1. Paths = catalog
    BY <1>6 DEF Paths
  <2>2. ResolveTarget(m, p) = TypeScriptResolve(catalog, m, p)
    BY <2>1 DEF ResolveTarget, TypeScriptResolve
  <2> QED BY <1>1, <1>2, <2>1, <2>2 DEF CatalogInvariant, CallsWereResolved
<1> QED BY <1>3, <1>4, <1>5, <1>7 DEF CatalogInvariant

(* The client handles a call.                                               *)
LEMMA HandleCallKeeps ==
    ASSUME CatalogInvariant, HandleCall
    PROVE  CatalogInvariant'
<1>1. PICK c, resolved :
        /\ c = Head(call) /\ resolved = ResolveEntry(entries, c.method, c.path) /\ call # <<>> /\ call' = <<>>
        /\ handled' = IF resolved.entry = NoEntry THEN <<>>
                      ELSE <<[call |-> c, entry |-> resolved.entry, params |-> HandlerParams(c, resolved),
                              current |-> c.catalog = entries]>>
        /\ UNCHANGED <<sdk, entries, uplink, catalog, changes>>
  BY DEF HandleCall
<1>2. call = <<c>>
  BY <1>1 DEF CatalogInvariant, CatalogTypeOK
<1>3. /\ c.catalog \in Seq(Entry) /\ IsCatalog(c.catalog) /\ c.method \in Method /\ c.path \in Called
      /\ c.entry # NoEntry /\ c.entry = TypeScriptResolve(c.catalog, c.method, c.path).entry
      /\ c.params = TypeScriptResolve(c.catalog, c.method, c.path).match.params
  <2>1. 1 \in DOMAIN call /\ call[1] = c
    BY <1>2
  <2> QED BY <2>1 DEF CatalogInvariant, CallsWereResolved
<1>4. ASSUME c.catalog = entries
      PROVE  resolved.entry = c.entry /\ HandlerParams(c, resolved) = c.params
  <2>1. c.path \in Seq(STRING)
    BY <1>3, CatalogConstants
  <2>2. IsConcrete("typescript", c.path)
    <3> DEFINE match == [i \in DOMAIN c.catalog |-> TypeScriptMatch(c.catalog[i].path, c.path)]
    <3>1. FirstBest(Len(c.catalog), c.catalog, c.method, match, TypeScriptResolve(c.catalog, c.method, c.path))
      BY <1>3, <2>1, ServerWalks
    <3>2. Len(c.catalog) \in Nat /\ DOMAIN c.catalog = 1 .. Len(c.catalog)
          /\ \A i \in DOMAIN c.catalog : c.catalog[i] \in Entry
      BY <1>3
    <3>3. \A i \in DOMAIN c.catalog : match[i] = TypeScriptMatch(c.catalog[i].path, c.path)
      OBVIOUS
    <3> HIDE DEF match
    <3>4. \E i \in DOMAIN c.catalog : Matched(match[i])
      <4>1. TypeScriptResolve(c.catalog, c.method, c.path) # Unresolved
        BY <1>3 DEF Unresolved
      <4> QED BY <3>1, <3>2, <4>1 DEF FirstBest
    <3> QED BY <2>1, <3>2, <3>3, <3>4, MatchIs, EntryIsSome
  <2>3. resolved = TypeScriptResolve(c.catalog, c.method, c.path)
    BY <1>1, <1>3, <1>4, <2>1, <2>2, ClientResolvesAlike DEF CatalogInvariant, CatalogTypeOK
  <2> QED BY <1>3, <2>3 DEF HandlerParams
<1>5. Paths' = Paths
  BY <1>1 DEF Paths
<1>6. CatalogTypeOK'
  <2>1. \A x : <<x>>[1] = x
    OBVIOUS
  <2> QED BY <1>1, <1>5, <2>1 DEF CatalogInvariant, CatalogTypeOK
<1>7. ServerResolvesBest' /\ ListingsAgree'
  BY <1>5, ServerIndexIsRight DEF CatalogInvariant, CatalogTypeOK
<1>8. KeysAreUnique' /\ CallsWereResolved'
  BY <1>1, <1>5 DEF CatalogInvariant, KeysAreUnique, CallsWereResolved
<1>9. CallsReachTheirEntry'
  <2>1. CASE handled' = <<>>
    BY <2>1 DEF CallsReachTheirEntry
  <2>2. CASE handled' = <<[call |-> c, entry |-> resolved.entry, params |-> HandlerParams(c, resolved),
                           current |-> c.catalog = entries]>>
    <3>1. PICK h : /\ handled' = <<h>> /\ h.current = (c.catalog = entries) /\ h.entry = resolved.entry
                   /\ h.call = c /\ h.params = HandlerParams(c, resolved)
      BY <2>2
    <3>2. \A i \in DOMAIN handled' : handled'[i] = h
      BY <3>1
    <3>3. h.current => h.entry = h.call.entry /\ h.params = h.call.params
      BY <1>4, <3>1
    <3> QED BY <3>2, <3>3 DEF CallsReachTheirEntry
  <2> QED BY <1>1, <2>1, <2>2
<1> QED BY <1>6, <1>7, <1>8, <1>9 DEF CatalogInvariant

(* Whatever happens to the catalog next.                                    *)
LEMMA CatalogNextKeeps == CatalogInvariant /\ [CatalogNext]_catalogVars => CatalogInvariant'
<1> SUFFICES ASSUME CatalogInvariant, [CatalogNext]_catalogVars
             PROVE  CatalogInvariant'
  OBVIOUS
<1>1. CASE UNCHANGED catalogVars
  <2>1. Paths' = Paths
    BY <1>1 DEF catalogVars, Paths
  <2>2. ServerResolvesBest' /\ ListingsAgree'
    BY <2>1, ServerIndexIsRight DEF CatalogInvariant, CatalogTypeOK
  <2>3. CatalogTypeOK' /\ KeysAreUnique' /\ CallsReachTheirEntry' /\ CallsWereResolved'
    BY <1>1, <2>1 DEF CatalogInvariant, catalogVars, CatalogTypeOK, KeysAreUnique, CallsReachTheirEntry,
       CallsWereResolved
  <2> QED BY <2>2, <2>3 DEF CatalogInvariant
<1>2. CASE CatalogNext
  BY <1>2, RegistryKeeps, SyncCatalogKeeps, ReceiveCatalogKeeps, InvokeKeeps, HandleCallKeeps DEF CatalogNext
<1> QED BY <1>1, <1>2

-----------------------------------------------------------------------------
(* The parts together.                                                      *)

bookkeepingVars == <<part, catalogVars, sdkVars, wireVars, injectionVars, sessionVars, telemetryVars>>

(* A step is one of the parts proved about, or leaves them alone.           *)
LEMMA BookkeepingSteps ==
    [BookkeepingNext]_bookkeepingVars =>
       /\ [CatalogNext]_catalogVars
       /\ [WireNext]_wireVars
       /\ [GoNext \/ PythonNext \/ RustNext \/ DotnetNext \/ JavaNext]_sdkVars
       /\ [InjectionNext]_injectionVars
       /\ [SessionNext]_sessionVars
       /\ [TelemetryNext]_telemetryVars
<1> SUFFICES ASSUME [BookkeepingNext]_bookkeepingVars
             PROVE  /\ [CatalogNext]_catalogVars
                    /\ [WireNext]_wireVars
                    /\ [GoNext \/ PythonNext \/ RustNext \/ DotnetNext \/ JavaNext]_sdkVars
                    /\ [InjectionNext]_injectionVars
                    /\ [SessionNext]_sessionVars
                    /\ [TelemetryNext]_telemetryVars
  OBVIOUS
<1>1. CASE UNCHANGED bookkeepingVars
  BY <1>1 DEF bookkeepingVars
<1>2. CASE BookkeepingNext
  BY <1>2 DEF BookkeepingNext, MCWireNext, WireNext
<1> QED BY <1>1, <1>2

(* Whatever language it is written in, and however often it has connected,  *)
(* a client that is left alone is connected as long as the session it holds *)
(* is read, registered on no other, and no other session is read: unless    *)
(* the end of a session crossed one of its calls.                           *)
THEOREM SessionsAreKnown == BookkeepingSpec => []LanguagesInvariant
<1>1. BookkeepingInit => LanguagesFit
  BY LanguagesInitHold DEF BookkeepingInit
<1>2. LanguagesFit /\ [BookkeepingNext]_bookkeepingVars => LanguagesFit'
  BY BookkeepingSteps, LanguagesKeep
<1> QED BY <1>1, <1>2, LanguagesKnow, PTL DEF BookkeepingSpec, bookkeepingVars

(* However often a client registers and in whatever order its calls are     *)
(* made, and whatever applications and callers give at once.                *)
THEOREM MessagesKeepMeaning == WireSpec => []WireInvariant
<1>1. WireInit => WireFits
  BY WireInitHolds
<1>2. WireFits /\ [WireNext]_wireVars => WireFits'
  BY WireNextKeeps
<1> QED BY <1>1, <1>2, MessagesMean, PTL DEF WireSpec

(* In six languages, what an application says of its client reaches the     *)
(* server and what a caller asks reaches the handler as it was meant, an    *)
(* answer is lost only when the handler ends in a way its SDK has no form   *)
(* for; and with the catalog the server has, whatever the SDK, a call is    *)
(* handled by the first of the most specific entries that match.            *)
THEOREM MeaningIsKept == BookkeepingSpec => []MeaningInvariant
<1>1. BookkeepingInit => CatalogInvariant /\ WireFits
  BY CatalogInitHolds, WireInitHolds DEF BookkeepingInit
<1>2. CatalogInvariant /\ WireFits /\ [BookkeepingNext]_bookkeepingVars => CatalogInvariant' /\ WireFits'
  BY BookkeepingSteps, CatalogNextKeeps, WireNextKeeps
<1>3. CatalogInvariant /\ WireFits => MeaningInvariant
  BY MessagesMean DEF MeaningInvariant
<1> QED BY <1>1, <1>2, <1>3, PTL DEF BookkeepingSpec, bookkeepingVars

(* The extension remembers what is so of its pages, its recordings and the  *)
(* invocations it has stored.                                               *)
THEOREM PagesAreRemembered == BookkeepingSpec => []PagesInvariant
<1>1. BookkeepingInit => PagesInvariant
  BY InjectionInitHolds, SessionInitHolds, TelemetryInitHolds DEF BookkeepingInit, PagesInvariant
<1>2. PagesInvariant /\ [BookkeepingNext]_bookkeepingVars => PagesInvariant'
  BY BookkeepingSteps, InjectionNextKeeps, SessionNextKeeps, TelemetryNextKeeps DEF PagesInvariant
<1> QED BY <1>1, <1>2, PTL DEF BookkeepingSpec, bookkeepingVars

(* A command that meets no other call and no other document is sent again   *)
(* to a page that hears it, whatever had been remembered wrongly before:    *)
(* only the page can make its second round reject.                          *)
THEOREM CommandsAreHeard == BookkeepingSpec => CommandsHeal
<1>1. PagesInvariant /\ [BookkeepingNext]_bookkeepingVars
        => [\A t \in Task : task[t].alone /\ GivesUp(t) => At(t, "heard")]_injectionVars
  BY SecondRoundsAreHeard DEF PagesInvariant
<1> QED BY <1>1, PagesAreRemembered, PTL DEF BookkeepingSpec, bookkeepingVars, CommandsHeal
=============================================================================
