----------------------------- MODULE StateStore -----------------------------
(* The files in which a server shows its state: MdpFilesystemStateStore     *)
(* with its write chain, and the life of the process around it, runCli():   *)
(* start-up, the events that queue a write, the reconcile queue, shutdown.  *)
(* A write takes the state as it is when its turn comes and replaces four   *)
(* files side by side; one that fails lets the next turn begin.             *)
EXTENDS Naturals, Sequences, FiniteSets

CONSTANTS
    File,             \* the files of JSON_FILES; all of them are written alike
    MaxEvents,        \* bound: changes of the clients and of the cluster
    MaxWriteFailures  \* bound: file writes that fail

ASSUME StoreConstants == File # {} /\ MaxEvents \in Nat /\ MaxWriteFailures \in Nat

VARIABLES
    state,     \* what snapshot() returns: the services, and a version for everything
    process,   \* where runCli() is
    chain,     \* writeChain: turns that wait, the writes of the turn under way
    stray,     \* writes of turns that failed, still under way
    awaited,   \* turns until the one that runCli() awaits is over, 0 if it awaits none
    reconcile, \* reconcileProxyPromise: the reconciles that are not over
    captured,  \* how many of them shutdown() waits for
    files,     \* the state each file shows
    events, writeFailures

storeVars == <<state, process, chain, stray, awaited, reconcile, captured, files, events,
               writeFailures>>

Services ==
    [transport : {"starting", "listening", "stopped"},
     mcpBridge : {"starting", "connected", "stopped"},
     cluster   : {"disabled", "starting", "running", "stopped"},
     proxy     : {"inactive", "connecting", "following", "stopped"}]

State == [services : Services, version : Nat]

Missing == [services |-> [transport |-> "starting", mcpBridge |-> "starting",
                          cluster |-> "starting", proxy |-> "inactive"], version |-> 0]

Write == [file : File, state : State]

(* "closing" awaits what shutdown() or a failed start closes, "stopping"    *)
(* the write of markStopped().                                              *)
Process == {"new", "opening", "opened", "listening", "bridged", "settling", "running",
            "closing", "stopping", "exited", "dead"}

StoreTypeOK ==
    /\ state \in State /\ process \in Process
    /\ chain \in [turns : Nat, writes : SUBSET Write]
    /\ stray \subseteq Write /\ files \in [File -> State]
    /\ awaited \in Nat /\ captured \in Nat
    /\ reconcile \in Seq({"alone", "new", "follow"})
    /\ events \in 0 .. MaxEvents /\ writeFailures \in 0 .. MaxWriteFailures

StoreInit ==
    /\ state = [Missing EXCEPT !.version = 1]
    /\ process = "new"
    /\ chain = [turns |-> 0, writes |-> {}] /\ stray = {}
    /\ awaited = 0 /\ reconcile = <<>> /\ captured = 0
    /\ files = [f \in File |-> Missing]
    /\ events = 0 /\ writeFailures = 0

-----------------------------------------------------------------------------
(* The store.                                                               *)

Changed(s) == [state EXCEPT !.services = s, !.version = @ + 1]

Lives == process \notin {"new", "exited", "dead"}

(* queueWrite(): the change is made at once and a turn is added.            *)
QueueWrite(s) ==
    /\ state' = Changed(s)
    /\ chain' = [chain EXCEPT !.turns = @ + 1]

(* Mutant: the turn that is added is not counted.                           *)
TurnsBefore == chain.turns + (IF chain.writes = {} THEN 0 ELSE 1)

(* Turns that are not over, the one that is added included.                 *)
TurnsLeft == chain.turns + 1 + (IF chain.writes = {} THEN 0 ELSE 1)

(* Mutant: a turn does not wait for the one before.                         *)
TakeTurnAtOnce ==
    /\ Lives /\ chain.turns > 0
    /\ chain' = [turns |-> chain.turns - 1,
                 writes |-> chain.writes \cup [file : File, state : {state}]]
    /\ UNCHANGED <<state, process, stray, awaited, reconcile, captured, files, events,
                   writeFailures>>

(* persistSnapshot(): the turn takes the state of now.                      *)
TakeTurn ==
    /\ Lives /\ chain.turns > 0 /\ chain.writes = {}
    /\ chain' = [turns |-> chain.turns - 1, writes |-> [file : File, state : {state}]]
    /\ UNCHANGED <<state, process, stray, awaited, reconcile, captured, files, events,
                   writeFailures>>

(* What follows the turn that runCli() awaits.                              *)
TurnEnds(ok) ==
    /\ awaited' = IF awaited = 0 THEN 0 ELSE awaited - 1
    /\ process' = IF awaited # 1 THEN process
                  ELSE IF process = "stopping" THEN "exited"
                  ELSE IF ok THEN "opened" ELSE "dead"

(* writeJsonFile() is done: the rename.                                     *)
FinishWrite(w) ==
    /\ Lives /\ w \in chain.writes
    /\ files' = [files EXCEPT ![w.file] = w.state]
    /\ chain' = [chain EXCEPT !.writes = @ \ {w}]
    /\ IF chain.writes = {w} THEN TurnEnds(TRUE) ELSE UNCHANGED <<awaited, process>>
    /\ UNCHANGED <<state, stray, reconcile, captured, events, writeFailures>>

FinishStray(w) ==
    /\ Lives /\ w \in stray
    /\ files' = [files EXCEPT ![w.file] = w.state]
    /\ stray' = stray \ {w}
    /\ UNCHANGED <<state, process, chain, awaited, reconcile, captured, events, writeFailures>>

(* One write fails, and with it the turn; the others go on.                 *)
WriteFails(w) ==
    /\ Lives /\ w \in chain.writes
    /\ writeFailures < MaxWriteFailures /\ writeFailures' = writeFailures + 1
    /\ stray' = stray \cup (chain.writes \ {w})
    /\ chain' = [chain EXCEPT !.writes = {}]
    /\ TurnEnds(FALSE)
    /\ UNCHANGED <<state, reconcile, captured, files, events>>

-----------------------------------------------------------------------------
(* runCli().                                                                *)

Becomes(from, to, s) ==
    /\ process = from /\ process' = to
    /\ QueueWrite(s)
    /\ UNCHANGED <<stray, captured, files, events, writeFailures>>

Opens == Becomes("new", "opening", state.services) /\ awaited' = 1 /\ UNCHANGED reconcile

Standalone ==
    /\ process = "new" /\ state.services.cluster = "starting"
    /\ state' = [state EXCEPT !.services.cluster = "disabled"]
    /\ UNCHANGED <<process, chain, stray, awaited, reconcile, captured, files, events,
                   writeFailures>>

Listens ==
    /\ Becomes("opened", "listening", [state.services EXCEPT !.transport = "listening"])
    /\ UNCHANGED <<awaited, reconcile>>

BridgeConnects ==
    /\ Becomes("listening", "bridged", [state.services EXCEPT !.mcpBridge = "connected"])
    /\ UNCHANGED <<awaited, reconcile>>

Clustered == state.services.cluster # "disabled"

(* clusterManager.start() is over.                                          *)
ClusterStarts ==
    /\ Clustered
    /\ Becomes("bridged", "settling", [state.services EXCEPT !.cluster = "running"])
    /\ \E k \in {"alone", "new"} : reconcile' = Append(reconcile, k)
    /\ UNCHANGED awaited

(* The first reconciles are awaited before the process heeds signals.       *)
Settles ==
    /\ \/ process = "settling" /\ reconcile = <<>>
       \/ process = "bridged" /\ ~Clustered
    /\ process' = "running"
    /\ UNCHANGED <<state, chain, stray, awaited, reconcile, captured, files, events,
                   writeFailures>>

(* A signal, or an error while the server starts, which waits for no        *)
(* reconcile.                                                               *)
ShutsDown ==
    /\ process \in {"opened", "listening", "bridged", "settling", "running"}
    /\ process' = "closing"
    /\ captured' = IF process = "running" THEN Len(reconcile) ELSE 0
    /\ UNCHANGED <<state, chain, stray, awaited, reconcile, files, events, writeFailures>>

(* markStopped().                                                           *)
Stops ==
    /\ captured = 0
    /\ Becomes("closing", "stopping",
               [transport |-> "stopped", mcpBridge |-> "stopped", proxy |-> "stopped",
                cluster |-> IF Clustered THEN "stopped" ELSE "disabled"])
    /\ awaited' = TurnsLeft
    /\ UNCHANGED reconcile

Event(s) ==
    /\ events < MaxEvents /\ events' = events + 1
    /\ QueueWrite(s)
    /\ UNCHANGED <<process, stray, awaited, captured, files, writeFailures>>

(* A client registers, changes or leaves: syncRegistry().                   *)
RegistryChanges ==
    /\ process \in {"listening", "bridged", "settling", "running", "closing"}
    /\ Event(state.services)
    /\ UNCHANGED reconcile

(* onStateChange of a cluster manager that is not closed yet.               *)
ClusterChanges ==
    /\ process \in {"bridged", "settling", "running", "closing"} /\ Clustered
    /\ Event([state.services EXCEPT !.cluster = "running"])
    /\ \/ UNCHANGED reconcile
       \/ \E k \in {"alone", "follow", "new"} : reconcile' = Append(reconcile, k)

(* queueProxyReconcile(): a new leader is followed when its proxy has       *)
(* synced ("follow"), that of a leader that stayed the same at once; so the *)
(* head of the queue goes on or is over.                                    *)
ReconcileTo(status, rest, done) ==
    /\ QueueWrite([state.services EXCEPT !.proxy = status])
    /\ reconcile' = rest
    /\ captured' = IF done /\ captured > 0 THEN captured - 1 ELSE captured
    /\ UNCHANGED <<process, stray, awaited, files, events, writeFailures>>

Reconciles ==
    /\ Lives /\ reconcile # <<>>
    /\ \/ Head(reconcile) = "alone" /\ ReconcileTo("inactive", Tail(reconcile), TRUE)
       \/ Head(reconcile) = "follow" /\ ReconcileTo("following", Tail(reconcile), TRUE)
       \/ /\ Head(reconcile) = "new"
          /\ ReconcileTo("connecting", <<"follow">> \o Tail(reconcile), FALSE)

-----------------------------------------------------------------------------
FilesChange == TakeTurn \/ \E w \in chain.writes \cup stray : FinishWrite(w) \/ FinishStray(w)

StoreNext ==
    \/ FilesChange \/ \E w \in chain.writes : WriteFails(w)
    \/ Opens \/ Standalone \/ Listens \/ BridgeConnects \/ ClusterStarts \/ Settles
    \/ ShutsDown \/ Stops
    \/ RegistryChanges \/ ClusterChanges \/ Reconciles

(* The file system answers.                                                 *)
StoreFairness == WF_storeVars(FilesChange)

StoreSpec == StoreInit /\ [][StoreNext]_storeVars /\ StoreFairness

-----------------------------------------------------------------------------
(* Properties.                                                              *)

Stopped(s) ==
    s.transport = "stopped" /\ s.mcpBridge = "stopped" /\ s.cluster \in {"stopped", "disabled"}

(* docs/server/state-store.md: the services are `stopped` after shutdown.   *)
(* Nothing that was queued before, and nothing that a reconcile, a client   *)
(* or the cluster still queues, makes the files of a server that has exited *)
(* say otherwise, unless one could not be written.  (The status of the      *)
(* proxy is left out: a late reconcile may set it.)                         *)
StoppedAfterShutdown ==
    process = "exited" /\ writeFailures = 0
        => \A f \in File \ {"clients", "routes"} : Stopped(files[f].services)

(* A turn that is awaited is still to end.                                  *)
AwaitedTurnsCome ==
    /\ awaited <= chain.turns + (IF chain.writes = {} THEN 0 ELSE 1)
    /\ process \in {"opening", "stopping"} <=> awaited > 0 /\ process # "dead"
    /\ captured <= Len(reconcile)

(* Nothing that comes after markStopped() sets what it has set.             *)
StopIsFinal == process \in {"stopping", "exited"} => Stopped(state.services)

(* The turn that shutdown() awaits shows what markStopped() has set: each   *)
(* file shows it already or is still to be written.                         *)
LastTurnShowsStop ==
    writeFailures = 0 /\ process = "stopping" /\ awaited = 1 /\ chain.writes # {}
        => /\ \A w \in chain.writes : Stopped(w.state.services)
           /\ \A f \in File : \/ Stopped(files[f].services)
                             \/ \E w \in chain.writes : w.file = f

(* A turn writes one state, which no file is ahead of, and leaves nothing   *)
(* behind when none of its writes fails.                                    *)
TurnsAreInOrder ==
    writeFailures = 0 =>
       /\ stray = {}
       /\ \A f \in File : files[f].version <= state.version
       /\ \A w \in chain.writes :
             /\ w.state.version <= state.version
             /\ \A f \in File : files[f].version <= w.state.version
             /\ \A v \in chain.writes : v.state.version = w.state.version

StoreInvariant ==
    /\ StoreTypeOK /\ StoppedAfterShutdown /\ AwaitedTurnsCome
    /\ StopIsFinal /\ LastTurnShowsStop /\ TurnsAreInOrder

UpToDate == \A f \in File : files[f].version = state.version

(* As long as no write fails a file never shows an earlier state than       *)
(* before.                                                                  *)
NeverShowsEarlier ==
    [][writeFailures' = 0 => \A f \in File : files'[f].version >= files[f].version]_storeVars

(* And all of them come to show the latest one unless the process ends.     *)
FilesFollowState ==
    /\ NeverShowsEarlier
    /\ []<>(UpToDate \/ writeFailures > 0 \/ ~Lives \/ process = "new")
=============================================================================
