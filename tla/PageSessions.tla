---------------------------- MODULE PageSessions ----------------------------
(* Recordings and selector captures of the extension: the one session of    *)
(* each kind that the worker knows, and the recorders and armed pages of    *)
(* the tabs (route-sessions.ts, page/content-script/recording.ts).          *)
EXTENDS Naturals, FiniteSets

CONSTANTS
    Tab,
    NoTab,        \* no session
    Call,         \* calls of the popup, at a time
    MaxRecordings,  \* bound: recordings that pages start
    MaxCaptures     \* bound: times that pages are armed

ASSUME SessionConstants == NoTab \notin Tab /\ MaxRecordings \in Nat /\ MaxCaptures \in Nat

VARIABLES
    recorder,         \* the recording that runs in the page of a tab, 0 for none
    armed,            \* the capture that is armed in it, 0 for none
    activeRecording,  \* the tab whose recording the worker knows
    captureSession,   \* selectorCaptureSession: the tab whose capture it knows
    popup,            \* the calls of the popup
    clicked,          \* captures on their way from a page to the worker
    recorded,         \* history: how often the recordings have been saved
    started           \* how many recordings and captures have been started

sessionVars == <<recorder, armed, activeRecording, captureSession, popup, clicked, recorded, started>>

Hung == [op |-> "none", tab |-> NoTab, id |-> 0]

Ops == {"none", "start", "started", "stop", "stopped", "arm", "armed", "save"}

SessionTypeOK ==
    /\ recorder \in [Tab -> 0 .. MaxRecordings] /\ armed \in [Tab -> 0 .. MaxCaptures]
    /\ activeRecording \in Tab \cup {NoTab} /\ captureSession \in Tab \cup {NoTab}
    /\ popup \in [Call -> [op : Ops, tab : Tab \cup {NoTab}, id : 0 .. MaxRecordings + MaxCaptures]]
    /\ clicked \subseteq [tab : Tab, id : 1 .. MaxCaptures, heard : BOOLEAN]
    /\ recorded \in [1 .. MaxRecordings -> Nat]
    /\ started \in [recordings : 0 .. MaxRecordings, captures : 0 .. MaxCaptures]

SessionInit ==
    /\ recorder = [t \in Tab |-> 0] /\ armed = [t \in Tab |-> 0]
    /\ activeRecording = NoTab /\ captureSession = NoTab
    /\ popup = [c \in Call |-> Hung] /\ clicked = {}
    /\ recorded = [i \in 1 .. MaxRecordings |-> 0]
    /\ started = [recordings |-> 0, captures |-> 0]

Ended(c) == popup' = [popup EXCEPT ![c] = Hung]

Becomes(c, op, tab, id) == popup' = [popup EXCEPT ![c] = [op |-> op, tab |-> tab, id |-> id]]

(* What a page sends arrives in the order it was sent: it is asked again    *)
(* when it has answered, and its answers and clicks do not overtake.        *)
AnswersOf(tab) == {c \in Call : popup[c].op \in {"started", "stopped", "armed"} /\ popup[c].tab = tab}

Asks(tab) == AnswersOf(tab) = {}

-----------------------------------------------------------------------------
(* The popup asks for something in the active tab.                          *)
Calls(c) ==
    /\ popup[c].op = "none"
    /\ \/ \E t \in Tab, op \in {"start", "arm"} : Becomes(c, op, t, 0)
       \/ activeRecording # NoTab /\ Becomes(c, "stop", activeRecording, 0)
    /\ UNCHANGED <<recorder, armed, activeRecording, captureSession, clicked, recorded, started>>

(* A page cannot be reached, or its client is not configured any more.      *)
CallFails(c) ==
    /\ popup[c].op \in {"start", "stop", "arm", "save"} /\ Ended(c)
    /\ UNCHANGED <<recorder, armed, activeRecording, captureSession, clicked, recorded, started>>

(* startRecording(): in the page, and in the worker when the page has       *)
(* answered.  A recording that ran in the page is dropped.                  *)
PageStartsRecording(c) ==
    /\ popup[c].op = "start" /\ Asks(popup[c].tab) /\ started.recordings < MaxRecordings
    /\ started' = [started EXCEPT !.recordings = @ + 1]
    /\ recorder' = [recorder EXCEPT ![popup[c].tab] = started.recordings + 1]
    /\ Becomes(c, "started", popup[c].tab, 0)
    /\ UNCHANGED <<armed, activeRecording, captureSession, clicked, recorded>>

RecordingStarted(c) ==
    /\ popup[c].op = "started" /\ activeRecording' = popup[c].tab /\ Ended(c)
    /\ UNCHANGED <<recorder, armed, captureSession, clicked, recorded, started>>

(* Mutant: the page hands its steps out and goes on recording.              *)
PageStopsForNow(c) ==
    /\ popup[c].op = "stop" /\ Asks(popup[c].tab) /\ recorder[popup[c].tab] # 0
    /\ Becomes(c, "stopped", popup[c].tab, recorder[popup[c].tab])
    /\ UNCHANGED <<recorder, armed, activeRecording, captureSession, clicked, recorded, started>>

(* stopRecording() in the page, which fails where nothing is recorded.      *)
PageStopsRecording(c) ==
    /\ popup[c].op = "stop" /\ Asks(popup[c].tab) /\ recorder[popup[c].tab] # 0
    /\ recorder' = [recorder EXCEPT ![popup[c].tab] = 0]
    /\ Becomes(c, "stopped", popup[c].tab, recorder[popup[c].tab])
    /\ UNCHANGED <<armed, activeRecording, captureSession, clicked, recorded, started>>

NothingIsRecorded(c) ==
    /\ popup[c].op = "stop" /\ Asks(popup[c].tab) /\ recorder[popup[c].tab] = 0 /\ Ended(c)
    /\ UNCHANGED <<recorder, armed, activeRecording, captureSession, clicked, recorded, started>>

(* The worker has the steps: there is no session any more, whichever it     *)
(* was, and the recording is saved.                                         *)
RecordingStopped(c) ==
    /\ popup[c].op = "stopped" /\ activeRecording' = NoTab /\ Becomes(c, "save", NoTab, popup[c].id)
    /\ UNCHANGED <<recorder, armed, captureSession, clicked, recorded, started>>

RecordingSaved(c) ==
    /\ popup[c].op = "save" /\ recorded' = [recorded EXCEPT ![popup[c].id] = @ + 1] /\ Ended(c)
    /\ UNCHANGED <<recorder, armed, activeRecording, captureSession, clicked, started>>

(* startSelectorCapture(); a capture that was armed is not any more.        *)
PageArms(c) ==
    /\ popup[c].op = "arm" /\ Asks(popup[c].tab) /\ started.captures < MaxCaptures
    /\ started' = [started EXCEPT !.captures = @ + 1]
    /\ armed' = [armed EXCEPT ![popup[c].tab] = started.captures + 1]
    /\ Becomes(c, "armed", popup[c].tab, started.captures + 1)
    /\ UNCHANGED <<recorder, activeRecording, captureSession, clicked, recorded>>

CaptureStarted(c) ==
    /\ popup[c].op = "armed" /\ (\A m \in clicked : m.tab = popup[c].tab /\ m.id < popup[c].id => m.heard)
    /\ captureSession' = popup[c].tab /\ Ended(c)
    /\ UNCHANGED <<recorder, armed, activeRecording, clicked, recorded, started>>

(* The click that is captured: told to the worker, who is not waited for.   *)
Clicks(t) ==
    /\ armed[t] # 0 /\ clicked' = clicked \cup {[tab |-> t, id |-> armed[t], heard |-> FALSE]}
    /\ armed' = [armed EXCEPT ![t] = 0]
    /\ UNCHANGED <<recorder, activeRecording, captureSession, popup, recorded, started>>

(* handleSelectorCapturedMessage(): refused from any tab but that of the    *)
(* session, which lasts until the capture is saved.                         *)
CaptureIsHeard(m) ==
    /\ ~m.heard /\ \A c \in AnswersOf(m.tab) : popup[c].op = "armed" => popup[c].id > m.id
    /\ clicked' = IF captureSession = m.tab THEN (clicked \ {m}) \cup {[m EXCEPT !.heard = TRUE]}
                                            ELSE clicked \ {m}
    /\ UNCHANGED <<recorder, armed, activeRecording, captureSession, popup, recorded, started>>

CaptureSaved(m) ==
    /\ m.heard /\ clicked' = clicked \ {m}
    /\ captureSession' = NoTab
    /\ UNCHANGED <<recorder, armed, activeRecording, popup, recorded, started>>

(* A tab begins to load or is closed: what its page has not answered stays  *)
(* unanswered.  handleTabRemoved().                                         *)
TabGoes(t) ==
    /\ recorder' = [recorder EXCEPT ![t] = 0] /\ armed' = [armed EXCEPT ![t] = 0]
    /\ activeRecording' = IF activeRecording = t THEN NoTab ELSE activeRecording
    /\ captureSession' = IF captureSession = t THEN NoTab ELSE captureSession
    /\ popup' = [c \in Call |-> IF c \in AnswersOf(t) THEN Hung ELSE popup[c]]
    /\ UNCHANGED <<clicked, recorded, started>>

SessionNext ==
    \/ \E c \in Call :
          \/ Calls(c) \/ CallFails(c) \/ PageStartsRecording(c) \/ RecordingStarted(c)
          \/ PageStopsRecording(c) \/ NothingIsRecorded(c) \/ RecordingStopped(c) \/ RecordingSaved(c)
          \/ PageArms(c) \/ CaptureStarted(c)
    \/ \E t \in Tab : Clicks(t) \/ TabGoes(t)
    \/ \E m \in clicked : CaptureIsHeard(m) \/ CaptureSaved(m)

SessionSpec == SessionInit /\ [][SessionNext]_sessionVars

-----------------------------------------------------------------------------
(* Properties.                                                              *)

(* However many stops are asked for at once, a recording is saved at most   *)
(* once.                                                                    *)
SavedOnce == \A i \in DOMAIN recorded : recorded[i] <= 1

(* A session that the worker shows goes on in its page, unless the page is  *)
(* about to answer or a click is under way.                                 *)
SessionsAreOfPages ==
    /\ activeRecording # NoTab /\ Asks(activeRecording) => recorder[activeRecording] # 0
    /\ captureSession # NoTab =>
          armed[captureSession] # 0 \/ \E m \in clicked : m.tab = captureSession

(* A page has one answer on its way at most.                                *)
OneAnswer == \A t \in Tab : \A c, d \in AnswersOf(t) : c = d

HasSteps(c) == popup[c].op \in {"stopped", "save"}

(* A recording runs in one page, or one call has its steps, or it is saved. *)
RecordingsFit ==
    /\ \A t \in Tab : recorder[t] # 0 =>
          /\ recorder[t] <= started.recordings /\ recorded[recorder[t]] = 0
          /\ \A u \in Tab : recorder[u] = recorder[t] => u = t
    /\ \A c \in Call : HasSteps(c) =>
          /\ popup[c].id \in 1 .. started.recordings /\ recorded[popup[c].id] = 0
          /\ \A t \in Tab : recorder[t] # popup[c].id
          /\ \A d \in Call : HasSteps(d) /\ popup[d].id = popup[c].id => d = c
    /\ \A i \in DOMAIN recorded : recorded[i] > 0 => i <= started.recordings

(* What a page is about to answer is so, and nothing it sent later has been *)
(* heard.                                                                   *)
AnswersAreTrue ==
    \A c \in Call :
       /\ popup[c].op = "started" => recorder[popup[c].tab] # 0
       /\ popup[c].op = "armed" =>
             \/ armed[popup[c].tab] = popup[c].id
             \/ \E m \in clicked : m.tab = popup[c].tab /\ m.id = popup[c].id /\ ~m.heard
       /\ popup[c].op # "none" /\ popup[c].op # "save" => popup[c].tab \in Tab
       /\ popup[c].op = "armed" => popup[c].id > 0

(* The recording that the worker knows goes on, or it is about to hear of   *)
(* its end.                                                                 *)
RecordingGoesOn ==
    activeRecording # NoTab =>
       \/ recorder[activeRecording] # 0
       \/ \E c \in AnswersOf(activeRecording) : popup[c].op = "stopped"

(* The last four parts make it inductive.                                   *)
SessionInvariant ==
    /\ SessionTypeOK /\ SavedOnce /\ SessionsAreOfPages
    /\ OneAnswer /\ RecordingsFit /\ AnswersAreTrue /\ RecordingGoesOn
=============================================================================
