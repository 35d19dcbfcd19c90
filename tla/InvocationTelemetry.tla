------------------------ MODULE InvocationTelemetry ------------------------
(* The record of invocations that the extension keeps of its clients: in    *)
(* memory, and in the browser's storage where a timer and the requests to   *)
(* clear it write (telemetry.ts, telemetry-storage.ts).                     *)
EXTENDS Naturals, Sequences

CONSTANTS
    Invocation,
    Mine,          \* the invocations of one client that is cleared or removed
    MaxClears,     \* bound: requests to clear
    MaxLosses      \* bound: removals of the client and stops of the worker

ASSUME TelemetryConstants == Mine \subseteq Invocation /\ MaxClears \in Nat /\ MaxLosses \in Nat

VARIABLES
    memory,     \* clientTelemetry
    disk,       \* what is in storage
    load,       \* telemetryLoaded, and whether the storage has answered
    persist,    \* telemetryPersistTimer
    queue,      \* writes on their way to the storage
    invoked,    \* the invocations that run
    fresh,      \* the invocations to come
    cleared,    \* history: the invocations that have been cleared
    crossed,    \* history: something was cleared while it was loaded
    left        \* what is left of the bounds

telemetryVars == <<memory, disk, load, persist, queue, invoked, fresh, cleared, crossed, left>>

TelemetryTypeOK ==
    /\ memory \subseteq Invocation /\ disk \subseteq Invocation /\ queue \in Seq(SUBSET Invocation)
    /\ load \in {"no", "loading", "yes"} /\ persist \in BOOLEAN /\ crossed \in BOOLEAN
    /\ invoked \subseteq Invocation /\ fresh \subseteq Invocation /\ cleared \subseteq Invocation
    /\ left \in [clears : 0 .. MaxClears, losses : 0 .. MaxLosses]

TelemetryInit ==
    /\ disk \in SUBSET Invocation /\ fresh = Invocation \ disk
    /\ memory = {} /\ load = "no" /\ persist = FALSE /\ queue = <<>> /\ invoked = {}
    /\ cleared = {} /\ crossed = FALSE
    /\ left = [clears |-> MaxClears, losses |-> MaxLosses]

(* A refresh, or a request to clear, begins with                            *)
(* ensureInvocationTelemetryLoaded().                                       *)
AsksForTelemetry ==
    /\ load = "no" /\ load' = "loading"
    /\ UNCHANGED <<memory, disk, persist, queue, invoked, fresh, cleared, crossed, left>>

(* The storage answers when it has written what came before.                *)
TelemetryIsLoaded ==
    /\ load = "loading" /\ load' = "yes" /\ memory' = disk
    /\ UNCHANGED <<disk, persist, queue, invoked, fresh, cleared, crossed, left>>

(* Clients are connected after the load.                                    *)
InvocationStarts(i) ==
    /\ load = "yes" /\ i \in fresh
    /\ fresh' = fresh \ {i} /\ invoked' = invoked \cup {i}
    /\ UNCHANGED <<memory, disk, load, persist, queue, cleared, crossed, left>>

(* The middleware: recordInvocationTelemetry(), and the timer if there is   *)
(* none.                                                                    *)
InvocationIsRecorded(i) ==
    /\ i \in invoked /\ invoked' = invoked \ {i}
    /\ memory' = memory \cup {i} /\ persist' = TRUE
    /\ UNCHANGED <<disk, load, queue, fresh, cleared, crossed, left>>

TimerPersists ==
    /\ persist /\ persist' = FALSE /\ queue' = Append(queue, memory)
    /\ UNCHANGED <<memory, disk, load, invoked, fresh, cleared, crossed, left>>

TelemetryIsWritten ==
    /\ queue # <<>> /\ disk' = Head(queue) /\ queue' = Tail(queue)
    /\ UNCHANGED <<memory, load, persist, invoked, fresh, cleared, crossed, left>>

Loses(what) == left[what] > 0 /\ left' = [left EXCEPT ![what] = @ - 1]

(* Mutant: what a client has been cleared of is left to the timer.          *)
ClearsInMemory(some) ==
    /\ load # "no" /\ Loses("clears")
    /\ persist' = FALSE /\ memory' = memory \ some
    /\ queue' = IF some = Mine THEN queue ELSE Append(queue, memory \ some)
    /\ cleared' = cleared \cup (some \cap (memory \cup disk))
    /\ crossed' = (crossed \/ load = "loading")
    /\ UNCHANGED <<disk, load, invoked, fresh>>

(* clearInvocationTelemetry() of a client or of all: the timer is stopped   *)
(* and all that is left is written at once.  The load that another call has *)
(* begun is not waited for.                                                 *)
Clears(some) ==
    /\ load # "no" /\ Loses("clears")
    /\ persist' = FALSE /\ memory' = memory \ some /\ queue' = Append(queue, memory \ some)
    /\ cleared' = cleared \cup (some \cap (memory \cup disk))
    /\ crossed' = (crossed \/ load = "loading")
    /\ UNCHANGED <<disk, load, invoked, fresh>>

(* A refresh without the client: pruneInvocationTelemetry().                *)
Prunes ==
    /\ load = "yes" /\ Mine \cap memory # {} /\ Loses("losses")
    /\ memory' = memory \ Mine /\ persist' = TRUE
    /\ UNCHANGED <<disk, load, queue, invoked, fresh, cleared, crossed>>

(* The browser stops the worker; the storage does what it was asked to.     *)
WorkerIsStopped ==
    /\ Loses("losses")
    /\ memory' = {} /\ load' = "no" /\ persist' = FALSE /\ invoked' = {}
    /\ disk' = (IF queue = <<>> THEN disk ELSE queue[Len(queue)]) /\ queue' = <<>>
    /\ UNCHANGED <<fresh, cleared, crossed>>

TelemetryNext ==
    \/ AsksForTelemetry \/ TelemetryIsLoaded \/ TimerPersists \/ TelemetryIsWritten
    \/ \E i \in Invocation : InvocationStarts(i) \/ InvocationIsRecorded(i)
    \/ \E some \in {Mine, Invocation} : Clears(some)
    \/ Prunes \/ WorkerIsStopped

TelemetrySpec == TelemetryInit /\ [][TelemetryNext]_telemetryVars

-----------------------------------------------------------------------------
(* Properties.                                                              *)

(* Nothing is lost on the way to the storage: when no timer runs and        *)
(* nothing is being written, it holds what the worker knows, however timer, *)
(* clearing and removals have crossed.                                      *)
RecordsAreStored == load = "yes" /\ ~persist /\ queue = <<>> /\ ~crossed => disk = memory

(* What has been cleared does not come back, unless it was cleared while it *)
(* was being loaded.                                                        *)
ClearedIsGone ==
    ~crossed => /\ cleared \cap memory = {}
                /\ queue = <<>> => cleared \cap disk = {}

(* What the storage holds when all writes are done.                         *)
Stored == IF queue = <<>> THEN disk ELSE queue[Len(queue)]

(* Until the storage has answered there is nothing to write, unless         *)
(* something was cleared meanwhile.                                         *)
LoadsFirst ==
    /\ load # "yes" => ~persist /\ invoked = {} /\ (~crossed => queue = <<>> /\ memory = {})
    /\ load = "no" => queue = <<>> /\ memory = {}

(* What will be stored is what the worker knows, and nothing cleared is.    *)
StoredInTheEnd ==
    ~crossed => /\ load = "yes" /\ ~persist => Stored = memory
                /\ cleared \cap Stored = {}

(* An invocation that has not been recorded is known nowhere.               *)
RecordedOnce ==
    /\ invoked \cap fresh = {}
    /\ (invoked \cup fresh) \cap (memory \cup disk \cup cleared) = {}
    /\ \A n \in DOMAIN queue : (invoked \cup fresh) \cap queue[n] = {}

(* The last three parts make it inductive.                                  *)
TelemetryInvariant ==
    /\ TelemetryTypeOK /\ RecordsAreStored /\ ClearedIsGone
    /\ LoadsFirst /\ StoredInTheEnd /\ RecordedOnce
=============================================================================
