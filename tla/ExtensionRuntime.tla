-------------------------- MODULE ExtensionRuntime --------------------------
(* The background worker of the browser extension: the configuration it     *)
(* reads from the browser's storage, the refresh that connects a client for *)
(* everything enabled in it (runtime.ts, clients.ts), the edits that reach  *)
(* the worker as calls (workspace-clients.ts), and the options page, which  *)
(* writes the storage itself and then asks for a refresh.                   *)
EXTENDS Naturals, Sequences

CONSTANTS
    Client,       \* ids of clients that may be configured
    Required,     \* the workspace management client: there always is one
    NoConfig,     \* the worker has not read the configuration
    MaxEdits,     \* bound: edits of the worker
    MaxSaves,     \* bound: saves of the options page
    MaxTroubles   \* bound: connections that fail or break, failing
                  \* registrations and stops of the worker

ASSUME ExtensionConstants ==
    /\ Required \subseteq Client /\ Required # {}
    /\ NoConfig \notin [Client -> {"absent", "on", "off"}]
    /\ MaxEdits \in Nat /\ MaxSaves \in Nat /\ MaxTroubles \in Nat

VARIABLES
    stored,   \* the configuration in storage
    config,   \* currentConfig
    refresh,  \* refreshPromise: how far the running refresh is, and what it read
    dialing,  \* the clients it is still connecting
    clients,  \* the clients the worker holds
    links,    \* how many connections of a client are open
    state,    \* clientStates
    timer,    \* reconnectTimer
    writes,   \* writes on their way to the storage
    calls,    \* calls of refresh() to come that nobody waits for
    page,     \* the options page and its draft
    missed,   \* history: since the configuration was last read, a refresh
              \* failed or was asked for in vain
    budget    \* what is left of the bounds

extensionVars == <<stored, config, refresh, dialing, clients, links, state, timer, writes, calls,
                   page, missed, budget>>

Setting == {"absent", "on", "off"}

Config == {f \in [Client -> Setting] : \A c \in Required : f[c] = "on"}

Stage == {"idle", "reading", "registering", "injecting", "closing", "connecting"}

(* A lost connection leaves "connected" as it is: see ConnectionBreaks.     *)
ConnectionState == {"none", "disabled", "connecting", "connected", "error"}

PageState == {"closed", "editing", "saving", "saved", "waiting", "told"}

Writer == {"edit", "update", "page"}

ExtensionTypeOK ==
    /\ stored \in Config /\ config \in Config \cup {NoConfig}
    /\ refresh \in [at : Stage, config : Config \cup {NoConfig}]
    /\ dialing \subseteq Client /\ clients \subseteq Client
    /\ links \in [Client -> Nat] /\ state \in [Client -> ConnectionState]
    /\ timer \in BOOLEAN /\ calls \in Nat /\ missed \in BOOLEAN
    /\ writes \in Seq([by : Writer, config : Config])
    /\ page \in [at : PageState, draft : Config \cup {NoConfig}]
    /\ budget \in [edits : 0 .. MaxEdits, saves : 0 .. MaxSaves, troubles : 0 .. MaxTroubles]

NoRefresh == [at |-> "idle", config |-> NoConfig]

(* With the first event, a worker that has started calls refresh().         *)
ExtensionStarts(started) ==
    /\ stored \in Config /\ config = NoConfig
    /\ refresh = NoRefresh /\ dialing = {} /\ clients = {}
    /\ links = [c \in Client |-> 0] /\ state = [c \in Client |-> "none"]
    /\ timer = FALSE /\ writes = <<>>
    /\ calls = (IF started THEN 1 ELSE 0) /\ missed = ~started
    /\ page = [at |-> "closed", draft |-> NoConfig]
    /\ budget = [edits |-> MaxEdits, saves |-> MaxSaves, troubles |-> MaxTroubles]

ExtensionInit == ExtensionStarts(TRUE)

Spend(what) == budget[what] > 0 /\ budget' = [budget EXCEPT ![what] = @ - 1]

-----------------------------------------------------------------------------
(* refresh().                                                               *)

(* Mutant: whoever asks starts a refresh, one that runs or not.             *)
StartsAnyway(new) ==
    /\ refresh' = [at |-> "reading", config |-> NoConfig]
    /\ UNCHANGED missed

(* While a refresh runs, its promise is returned: in vain if it has read    *)
(* the configuration already and there is something new.                    *)
StartsOrJoins(new) ==
    IF refresh.at = "idle"
    THEN refresh' = [at |-> "reading", config |-> NoConfig] /\ UNCHANGED missed
    ELSE missed' = (missed \/ (refresh.at # "reading" /\ new)) /\ UNCHANGED refresh

(* The running refresh has read something else, or an edit has replaced     *)
(* what it has put into currentConfig.                                      *)
SomethingIsNew ==
    refresh.config # stored \/ (refresh.at # "registering" /\ config # stored)

(* storage.onChanged, the timer of an edit, and the events of the worker.   *)
RefreshIsCalled ==
    /\ calls > 0 /\ calls' = calls - 1
    /\ StartsOrJoins(SomethingIsNew)
    /\ UNCHANGED <<stored, config, dialing, clients, links, state, timer, writes, page, budget>>

(* runtime:refresh, sent by the page.                                       *)
PageAsks ==
    /\ page.at = "saved" /\ page' = [page EXCEPT !.at = "waiting"]
    /\ StartsOrJoins(SomethingIsNew)
    /\ UNCHANGED <<stored, config, dialing, clients, links, state, timer, writes, calls, budget>>

(* The refresh is over, and whoever waited for it goes on.  The page says   *)
(* that the workspace is saved and the runtime refreshed.                   *)
RefreshEnds(ok) ==
    /\ refresh' = NoRefresh
    /\ page' = IF page.at = "waiting" THEN [page EXCEPT !.at = IF ok THEN "told" ELSE "editing"]
                                      ELSE page

ReadsConfig ==
    /\ refresh.at = "reading"
    /\ refresh' = [at |-> "registering", config |-> stored]
    /\ state' = [c \in Client |-> IF stored[c] = "absent" THEN "none" ELSE state[c]]
    /\ missed' = FALSE
    /\ UNCHANGED <<stored, config, dialing, clients, links, timer, writes, calls, page, budget>>

(* syncContentScriptRegistration().                                         *)
Registers ==
    /\ refresh.at = "registering"
    /\ config' = refresh.config
    /\ refresh' = [refresh EXCEPT !.at = "injecting"]
    /\ UNCHANGED <<stored, dialing, clients, links, state, timer, writes, calls, page, missed, budget>>

RegistrationFails ==
    /\ refresh.at = "registering" /\ Spend("troubles")
    /\ RefreshEnds(FALSE) /\ missed' = TRUE
    /\ UNCHANGED <<stored, config, dialing, clients, links, state, timer, writes, calls>>

(* bootstrapOpenTabs(), and disconnectAllClients() up to its await.         *)
StartsToClose ==
    /\ refresh.at = "injecting"
    /\ refresh' = [refresh EXCEPT !.at = "closing"]
    /\ timer' = FALSE /\ clients' = {}
    /\ links' = [c \in Client |-> IF c \in clients THEN 0 ELSE links[c]]
    /\ UNCHANGED <<stored, config, dialing, state, writes, calls, page, missed, budget>>

Enabled(f) == {c \in Client : f[c] = "on"}

(* syncClients(): every enabled client at once.                             *)
StartsToConnect ==
    /\ refresh.at = "closing"
    /\ refresh' = [refresh EXCEPT !.at = "connecting"]
    /\ dialing' = dialing \cup Enabled(refresh.config)
    /\ state' = [c \in Client |-> CASE refresh.config[c] = "on" -> "connecting"
                                    [] refresh.config[c] = "off" -> "disabled"
                                    [] OTHER -> state[c]]
    /\ UNCHANGED <<stored, config, clients, links, timer, writes, calls, page, missed, budget>>

DialingEnds(c) ==
    /\ dialing' = dialing \ {c}
    /\ IF dialing = {c} /\ refresh.at = "connecting" THEN RefreshEnds(TRUE) ELSE UNCHANGED <<refresh, page>>

(* connectBackgroundClient(), connectRouteClient().                         *)
Connects(c) ==
    /\ c \in dialing /\ DialingEnds(c)
    /\ clients' = clients \cup {c}
    /\ links' = [links EXCEPT ![c] = @ + 1]
    /\ state' = [state EXCEPT ![c] = "connected"]
    /\ UNCHANGED <<stored, config, timer, writes, calls, missed, budget>>

(* Mutant: a client that does not connect is left alone.                    *)
DoesNotConnectQuietly(c) ==
    /\ c \in dialing /\ DialingEnds(c) /\ Spend("troubles")
    /\ state' = [state EXCEPT ![c] = "error"]
    /\ UNCHANGED <<stored, config, clients, links, timer, writes, calls, missed>>

(* scheduleReconnect() does nothing when no client is enabled.              *)
DoesNotConnect(c) ==
    /\ c \in dialing /\ DialingEnds(c) /\ Spend("troubles")
    /\ state' = [state EXCEPT ![c] = "error"]
    /\ timer' = (timer \/ (config # NoConfig /\ Enabled(config) # {}))
    /\ UNCHANGED <<stored, config, clients, links, writes, calls, missed>>

(* The timer may fire while the refresh that set it still runs: in vain.    *)
ReconnectTimerFires ==
    /\ timer /\ timer' = FALSE
    /\ StartsOrJoins(refresh.at = "connecting")
    /\ UNCHANGED <<stored, config, dialing, clients, links, state, writes, calls, page, budget>>

(* A transport has one close handler: the client sets its own after the     *)
(* worker has, so that the worker is not told, and the client was made      *)
(* without the option to reconnect.                                         *)
ConnectionBreaks(c) ==
    /\ c \in clients /\ links[c] > 0 /\ Spend("troubles")
    /\ links' = [links EXCEPT ![c] = 0]
    /\ UNCHANGED <<stored, config, refresh, dialing, clients, state, timer, writes, calls, page, missed>>

(* The browser stops the worker and starts it again with the next event.    *)
(* What it had asked to be written is written.                              *)
WorkerStops ==
    /\ Spend("troubles")
    /\ config' = NoConfig /\ refresh' = NoRefresh /\ dialing' = {} /\ clients' = {}
    /\ links' = [c \in Client |-> 0] /\ state' = [c \in Client |-> "none"]
    /\ timer' = FALSE /\ missed' = FALSE /\ calls' = 1
    /\ stored' = IF writes = <<>> THEN stored ELSE writes[Len(writes)].config
    /\ writes' = <<>>
    /\ page' = CASE page.at = "saving" -> [page EXCEPT !.at = "saved"]
                 [] page.at = "waiting" -> [page EXCEPT !.at = "editing"]
                 [] OTHER -> page

-----------------------------------------------------------------------------
(* Edits.                                                                   *)

(* What the calls make of a configuration; the required client stays.       *)
Creates(f) ==
    {[f EXCEPT ![c] = s] : c \in {d \in Client : f[d] = "absent"}, s \in {"on", "off"}}

Changeable(f) == {c \in Client \ Required : f[c] # "absent"}

Updates(f) == {f} \cup {[f EXCEPT ![c] = s] : c \in Changeable(f), s \in {"on", "off"}}

Deletes(f) == {[f EXCEPT ![c] = "absent"] : c \in Changeable(f)}

AddsExposeRule(f) == {f}  \* rules are not in the model

Edits(f) == Creates(f) \cup Updates(f) \cup Deletes(f) \cup AddsExposeRule(f)

(* getConfig().                                                             *)
Base == IF config = NoConfig THEN stored ELSE config

(* The edits go by way of persistWorkspaceConfig(), and those of            *)
(* updateRouteClient() leave the refresh to the storage.                    *)
WorkerEdits ==
    /\ Spend("edits")
    /\ \E f \in Edits(Base), by \in {"edit", "update"} :
          writes' = Append(writes, [by |-> by, config |-> f])
    /\ UNCHANGED <<stored, config, refresh, dialing, clients, links, state, timer, calls, page, missed>>

(* loadWorkspaceConfig() of the page.                                       *)
PageOpens ==
    /\ page.at = "closed"
    /\ page' = [at |-> "editing", draft |-> stored]
    /\ UNCHANGED <<stored, config, refresh, dialing, clients, links, state, timer, writes, calls,
                   missed, budget>>

(* handleSave(): the whole draft.                                           *)
PageSaves ==
    /\ page.at \in {"editing", "told"} /\ Spend("saves")
    /\ \E f \in Edits(page.draft) :
          /\ page' = [at |-> "saving", draft |-> f]
          /\ writes' = Append(writes, [by |-> "page", config |-> f])
    /\ UNCHANGED <<stored, config, refresh, dialing, clients, links, state, timer, calls, missed>>

(* A write is done: storage.onChanged calls refresh(), and an edit of the   *)
(* worker goes on with what it has saved.  What is the same in the model    *)
(* may still be a change.                                                   *)
WriteIsDone ==
    /\ writes # <<>> /\ writes' = Tail(writes)
    /\ LET w == Head(writes) IN
          /\ stored' = w.config
          /\ config' = IF w.by = "page" THEN config ELSE w.config
          /\ \E onChanged \in {1} \cup (IF w.config = stored THEN {0} ELSE {}) :
                calls' = calls + onChanged + (IF w.by = "edit" THEN 1 ELSE 0)
          /\ page' = IF w.by = "page" THEN [page EXCEPT !.at = "saved"] ELSE page
    /\ UNCHANGED <<refresh, dialing, clients, links, state, timer, missed, budget>>

ExtensionNext ==
    \/ RefreshIsCalled \/ PageAsks \/ ReadsConfig \/ Registers \/ RegistrationFails
    \/ StartsToClose \/ StartsToConnect \/ ReconnectTimerFires \/ WorkerStops
    \/ WorkerEdits \/ PageOpens \/ PageSaves \/ WriteIsDone
    \/ \E c \in Client : Connects(c) \/ DoesNotConnect(c) \/ ConnectionBreaks(c)

(* The browser answers, timers fire, and a connection is made or is not.    *)
ExtensionFairness ==
    /\ WF_extensionVars(RefreshIsCalled) /\ WF_extensionVars(PageAsks)
    /\ WF_extensionVars(WriteIsDone) /\ WF_extensionVars(ReconnectTimerFires)
    /\ WF_extensionVars(ReadsConfig \/ Registers \/ StartsToClose \/ StartsToConnect)
    /\ WF_extensionVars(\E c \in Client : Connects(c) \/ DoesNotConnect(c))

ExtensionSpec == ExtensionInit /\ [][ExtensionNext]_extensionVars /\ ExtensionFairness

-----------------------------------------------------------------------------
(* Properties.                                                              *)

NothingUnderWay == refresh = NoRefresh /\ calls = 0 /\ writes = <<>> /\ ~missed

(* A client that is enabled in f is held or will be tried again, and no     *)
(* other one is held.                                                       *)
Runs(f, c, again) ==
    /\ f[c] = "on" => \/ state[c] = "connected" /\ c \in clients
                      \/ state[c] = "error" /\ c \notin clients /\ again
    /\ f[c] = "off" => state[c] = "disabled" /\ c \notin clients
    /\ f[c] = "absent" => state[c] = "none" /\ c \notin clients

(* When nothing is under way, the worker runs what is stored, unless a      *)
(* refresh has failed or was asked for in vain.                             *)
RunsWhatIsStored ==
    NothingUnderWay => config = stored /\ \A c \in Client : Runs(stored, c, timer)

(* A client has one connection, and none that the worker could not close.   *)
NoConnectionIsLeft ==
    \A c \in Client : links[c] <= 1 /\ (links[c] = 1 => c \in clients)

(* Only a refresh that connects is connecting clients, none that the worker *)
(* holds.                                                                   *)
DialingFits ==
    /\ dialing # {} => refresh.at = "connecting"
    /\ dialing \cap clients = {}
    /\ refresh.at = "closing" => clients = {}

HasRead == refresh.at \notin {"idle", "reading"}

HasApplied == refresh.at \in {"injecting", "closing", "connecting"}

(* What a refresh has read, and what it has made of it so far.              *)
RefreshFits ==
    /\ HasRead <=> refresh.config # NoConfig
    /\ HasApplied => config # NoConfig
    /\ HasRead => \A c \in Client : refresh.config[c] = "absent" => state[c] = "none"
    /\ refresh.at = "connecting" =>
          \A c \in Client : IF c \in dialing THEN refresh.config[c] = "on"
                                             ELSE Runs(refresh.config, c, timer \/ missed)

(* What is stored is what was read last, unless a refresh has been called   *)
(* for, is to be, or is missed.                                             *)
NothingOverlooked ==
    calls = 0 /\ ~missed =>
       /\ HasRead => refresh.config = stored
       /\ HasApplied => config = stored
       /\ refresh.at = "idle" => config = stored /\ \A c \in Client : Runs(stored, c, timer)

(* What the page saves is what it has loaded and changed.                   *)
PageFits ==
    /\ page.at # "closed" => page.draft \in Config
    /\ \A i \in DOMAIN writes : writes[i].by = "page" => page.at # "closed"

(* The last four parts make it inductive.                                   *)
ExtensionInvariant ==
    /\ ExtensionTypeOK /\ RunsWhatIsStored /\ NoConnectionIsLeft
    /\ DialingFits /\ RefreshFits /\ NothingOverlooked /\ PageFits

(* A client that could not connect is tried again, and a save of the page   *)
(* comes to an end.                                                         *)
ConnectsAgain ==
    /\ \A c \in Client : []<>(state[c] # "error" \/ missed)
    /\ []<>(page.at \in {"closed", "editing", "told"})
=============================================================================
