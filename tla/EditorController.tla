-------------------------- MODULE EditorController --------------------------
(* The controller of the VS Code extension (extension-controller.ts): its   *)
(* calls are queued and run one after the other; the closing of a transport *)
(* is queued with them, and a timer tries a lost connection again.          *)
EXTENDS Naturals, Sequences

CONSTANTS
    MaxClients,    \* bound: clients made
    MaxAsks,       \* bound: commands of the user and changes of the settings
    MaxDowns       \* bound: times the server goes down or refuses

ASSUME EditorConstants == MaxClients \in Nat \ {0} /\ MaxAsks \in Nat /\ MaxDowns \in Nat

VARIABLES
    settings,     \* autoConnect, autoReconnect
    tasks,        \* queue: the head is the task that runs
    step,         \* how far it is
    editor,       \* client, state
    connections,  \* the connections made: open, closing or closed
    expected,     \* expectedClientClosures
    reconnects,   \* reconnectTimer
    serverUp,
    asks,         \* what is left of the bounds
    downs,
    lost          \* history: a connection closed unexpectedly with automatic
                  \* reconnects on, and nobody has asked for anything since

editorVars == <<settings, tasks, step, editor, connections, expected, reconnects, serverUp, asks, downs, lost>>

None == 0

EditorTask == [do : {"connect", "disconnect", "apply", "closed"}, client : 0 .. MaxClients]

EditorState == {"idle", "connecting", "connected", "waiting", "error"}

EditorTypeOK ==
    /\ settings \in [autoConnect : BOOLEAN, autoReconnect : BOOLEAN]
    /\ tasks \in Seq(EditorTask) /\ step \in {"idle", "dispose", "establish", "connecting"}
    /\ editor \in [client : 0 .. MaxClients, state : EditorState]
    /\ connections \in Seq({"opening", "open", "closing", "closed"}) /\ Len(connections) <= MaxClients
    /\ expected \subseteq 1 .. MaxClients /\ reconnects \in BOOLEAN /\ serverUp \in BOOLEAN
    /\ asks \in 0 .. MaxAsks /\ downs \in 0 .. MaxDowns /\ lost \in BOOLEAN

Queued(do, client) == Append(tasks, [do |-> do, client |-> client])

(* initialize(): connects if that is set.                                   *)
EditorInit ==
    /\ settings \in [autoConnect : BOOLEAN, autoReconnect : BOOLEAN]
    /\ tasks = IF settings.autoConnect THEN <<[do |-> "connect", client |-> None]>> ELSE <<>>
    /\ step = "idle" /\ editor = [client |-> None, state |-> "idle"] /\ connections = <<>>
    /\ expected = {} /\ reconnects = FALSE /\ serverUp \in BOOLEAN
    /\ asks = MaxAsks /\ downs = MaxDowns /\ lost = FALSE

-----------------------------------------------------------------------------
(* The tasks.                                                               *)

TaskEnds == tasks' = Tail(tasks) /\ step' = "idle"

(* connect(), disconnect() and applyConfiguration() begin with              *)
(* disposeClient(), which stops the timer and asks the client, if there is  *)
(* one, to disconnect.                                                      *)
Disposes ==
    /\ step = "idle" /\ tasks # <<>> /\ Head(tasks).do # "closed"
    /\ reconnects' = FALSE /\ editor' = [editor EXCEPT !.client = None]
    /\ IF editor.client = None
       THEN UNCHANGED <<expected, connections>>
       ELSE /\ expected' = expected \cup {editor.client}
            /\ connections' = [connections EXCEPT ![editor.client] = IF @ = "open" THEN "closing" ELSE @]
    /\ step' = "dispose"
    /\ UNCHANGED <<settings, tasks, serverUp, asks, downs, lost>>

(* The client has disconnected; what is asked for is a connection, or none. *)
Disposed ==
    /\ step = "dispose"
    /\ editor' = [editor EXCEPT !.state = "idle"]
    /\ IF Head(tasks).do = "connect" \/ (Head(tasks).do = "apply" /\ settings.autoConnect)
       THEN step' = "establish" /\ UNCHANGED tasks
       ELSE TaskEnds
    /\ UNCHANGED <<settings, connections, expected, reconnects, serverUp, asks, downs, lost>>

(* Mutant: the connection is made by a client that is kept at once.         *)
EstablishesAtOnce ==
    /\ step = "establish" /\ Len(connections) < MaxClients
    /\ editor' = [client |-> Len(connections) + 1, state |-> "connecting"]
    /\ connections' = Append(connections, "opening") /\ step' = "connecting"
    /\ UNCHANGED <<settings, tasks, expected, reconnects, serverUp, asks, downs, lost>>

(* establishConnection(), to the await of connect().                        *)
Establishes ==
    /\ step = "establish" /\ Len(connections) < MaxClients
    /\ editor' = [editor EXCEPT !.state = "connecting"]
    /\ connections' = Append(connections, "opening") /\ step' = "connecting"
    /\ UNCHANGED <<settings, tasks, expected, reconnects, serverUp, asks, downs, lost>>

Opens ==
    /\ step = "connecting" /\ serverUp /\ connections[Len(connections)] = "opening"
    /\ connections' = [connections EXCEPT ![Len(connections)] = "open"]
    /\ UNCHANGED <<settings, tasks, step, editor, expected, reconnects, serverUp, asks, downs, lost>>

(* connect() has returned, and register() sends on an open connection.      *)
Established ==
    /\ step = "connecting" /\ connections[Len(connections)] = "open"
    /\ editor' = [client |-> Len(connections), state |-> "connected"]
    /\ lost' = FALSE /\ TaskEnds
    /\ UNCHANGED <<settings, connections, expected, reconnects, serverUp, asks, downs>>

(* The server cannot be reached, or the connection is lost before it is     *)
(* registered: nothing is tried again.                                      *)
DoesNotEstablish ==
    /\ step = "connecting"
    /\ \/ connections[Len(connections)] = "closed"
       \/ connections[Len(connections)] = "opening" /\ ~serverUp
    /\ connections' = [connections EXCEPT ![Len(connections)] = "closed"]
    /\ editor' = [client |-> None, state |-> "error"] /\ TaskEnds
    /\ UNCHANGED <<settings, expected, reconnects, serverUp, asks, downs, lost>>

OtherwiseAsked == \E i \in 2 .. Len(tasks) : tasks[i].do \in {"disconnect", "apply"}

(* Mutant: the timer is set and the client is not forgotten.                *)
HandlesCloseKeeping ==
    /\ step = "idle" /\ tasks # <<>> /\ Head(tasks).do = "closed" /\ TaskEnds
    /\ LET c == Head(tasks).client
       IN  IF c \in expected \/ editor.client # c
           THEN expected' = expected \ {c} /\ UNCHANGED <<editor, reconnects, lost>>
           ELSE /\ reconnects' = (reconnects \/ (settings.autoConnect /\ settings.autoReconnect))
                /\ editor' = [editor EXCEPT !.state = "waiting"]
                /\ lost' = (settings.autoConnect /\ settings.autoReconnect /\ ~OtherwiseAsked)
                /\ UNCHANGED expected
    /\ UNCHANGED <<settings, connections, serverUp, asks, downs>>

(* handleTransportClose() and scheduleReconnect(): unless the closing was   *)
(* expected, or another client is there by now.                             *)
HandlesClose ==
    /\ step = "idle" /\ tasks # <<>> /\ Head(tasks).do = "closed" /\ TaskEnds
    /\ LET c == Head(tasks).client
           again == settings.autoConnect /\ settings.autoReconnect
       IN  IF c \in expected \/ editor.client # c
           THEN expected' = expected \ {c} /\ UNCHANGED <<editor, reconnects, lost>>
           ELSE /\ editor' = [client |-> None, state |-> IF again THEN "waiting" ELSE "error"]
                /\ reconnects' = (reconnects \/ again) /\ lost' = (again /\ ~OtherwiseAsked) /\ UNCHANGED expected
    /\ UNCHANGED <<settings, connections, serverUp, asks, downs>>

-----------------------------------------------------------------------------
(* What the tasks are queued by.                                            *)

(* Mutant: a timer that fires while a task runs is lost.                    *)
FiresUnheard ==
    /\ reconnects /\ reconnects' = FALSE
    /\ tasks' = IF tasks = <<>> THEN Queued("connect", None) ELSE tasks
    /\ UNCHANGED <<settings, step, editor, connections, expected, serverUp, asks, downs, lost>>

(* The timer of scheduleReconnect().                                        *)
ReconnectFires ==
    /\ reconnects /\ reconnects' = FALSE /\ tasks' = Queued("connect", None)
    /\ UNCHANGED <<settings, step, editor, connections, expected, serverUp, asks, downs, lost>>

UserAsks ==
    /\ asks > 0 /\ asks' = asks - 1
    /\ \E do \in {"connect", "disconnect"} : tasks' = Queued(do, None)
    /\ lost' = FALSE
    /\ UNCHANGED <<settings, step, editor, connections, expected, reconnects, serverUp, downs>>

SettingsChange ==
    /\ asks > 0 /\ asks' = asks - 1
    /\ settings' \in [autoConnect : BOOLEAN, autoReconnect : BOOLEAN] \ {settings}
    /\ tasks' = Queued("apply", None) /\ lost' = FALSE
    /\ UNCHANGED <<step, editor, connections, expected, reconnects, serverUp, downs>>

(* A connection is over, at its own end or with the server; the observed    *)
(* transport tells the controller, and its client first.                    *)
ConnectionEnds(c) ==
    /\ connections[c] = "closing" \/ (connections[c] = "open" /\ ~serverUp)
    /\ connections' = [connections EXCEPT ![c] = "closed"] /\ tasks' = Queued("closed", c)
    /\ UNCHANGED <<settings, step, editor, expected, reconnects, serverUp, asks, downs, lost>>

ServerGoesDown ==
    /\ serverUp /\ downs > 0 /\ downs' = downs - 1 /\ serverUp' = FALSE
    /\ UNCHANGED <<settings, tasks, step, editor, connections, expected, reconnects, asks, lost>>

ServerComesBack ==
    /\ ~serverUp /\ serverUp' = TRUE
    /\ UNCHANGED <<settings, tasks, step, editor, connections, expected, reconnects, asks, downs, lost>>

TaskStep ==
    Disposes \/ Disposed \/ Establishes \/ Opens \/ Established \/ DoesNotEstablish \/ HandlesClose

EditorNext ==
    \/ TaskStep \/ ReconnectFires \/ UserAsks \/ SettingsChange \/ ServerGoesDown \/ ServerComesBack
    \/ \E c \in DOMAIN connections : ConnectionEnds(c)

(* Tasks go on, timers fire, closed sockets are reported and the server     *)
(* comes back.                                                              *)
EditorFairness ==
    /\ WF_editorVars(TaskStep) /\ WF_editorVars(ReconnectFires) /\ WF_editorVars(ServerComesBack)
    /\ WF_editorVars(\E c \in DOMAIN connections : ConnectionEnds(c))

EditorSpec == EditorInit /\ [][EditorNext]_editorVars /\ EditorFairness

-----------------------------------------------------------------------------
(* Properties.                                                              *)

NoTask == tasks = <<>>

(* No connection is left open that the controller does not have.            *)
OneConnection ==
    \A c \in DOMAIN connections :
       connections[c] \in {"opening", "open"} =>
          c = editor.client \/ (step = "connecting" /\ c = Len(connections))

(* What the status says when no task is queued: it waits exactly when the   *)
(* timer runs, it is connected when its client is or when that is just      *)
(* being lost, and no late closing is taken for that of another client.     *)
StatusIsTrue ==
    NoTask => /\ (editor.state = "waiting") = reconnects
              /\ (editor.state = "connected") = (editor.client # None)
              /\ editor.state # "connecting"
              /\ editor.client # None => connections[editor.client] = "open"
              /\ \A c \in expected : connections[c] = "closing"

CloseQueued(c) == \E i \in DOMAIN tasks : tasks[i].do = "closed" /\ tasks[i].client = c

(* A task that has begun stays at the head, and what is told about is over. *)
TasksFit ==
    /\ step # "idle" => tasks # <<>> /\ Head(tasks).do # "closed"
    /\ \A i \in DOMAIN tasks : tasks[i].do = "closed" =>
          tasks[i].client \in DOMAIN connections /\ connections[tasks[i].client] = "closed"

(* The controller has a client only between its tasks; one it has, and one  *)
(* whose closing it expects, will be told about when it is over.            *)
ClientFits ==
    /\ step # "idle" => editor.client = None
    /\ step = "connecting" => connections # <<>>
    /\ editor.client # None =>
          /\ editor.client \in DOMAIN connections \ expected
          /\ connections[editor.client] = "open" \/ CloseQueued(editor.client)
    /\ \A c \in expected : c \in DOMAIN connections /\ (connections[c] = "closing" \/ CloseQueued(c))

(* The status while tasks run, and the timer.                               *)
StateFits ==
    /\ editor.state = "connecting" <=> step = "connecting"
    /\ editor.client # None => editor.state = "connected"
    /\ editor.state = "connected" => editor.client # None \/ step = "dispose"
    /\ reconnects => editor.state = "waiting" /\ step = "idle"
    /\ editor.state = "waiting" => reconnects \/ \E i \in DOMAIN tasks : tasks[i].do # "closed"

(* The last three parts make it inductive, and the status true.             *)
EditorInvariant ==
    EditorTypeOK /\ OneConnection /\ StatusIsTrue /\ TasksFit /\ ClientFits /\ StateFits

(* A connection that was lost while automatic reconnects were on is made    *)
(* again, unless somebody asks for something else or the one attempt fails  *)
(* and the status says so.                                                  *)
LossIsTriedAgain == []<>(~lost \/ editor.state = "error")
=============================================================================
