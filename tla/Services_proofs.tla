--------------------------- MODULE Services_proofs ---------------------------
(* That StoreInvariant is an invariant of StoreSpec and BridgeInvariant one *)
(* of BridgeSpec, for every set of files, clients, peers and calls, and     *)
(* that no file shows an earlier state and no call is answered twice.       *)
EXTENDS StateStore, BridgeCalls, TLAPS

-----------------------------------------------------------------------------
(* The state store.                                                         *)

(* The first states satisfy the invariant.                                  *)
LEMMA StoreStarts == StoreInit => StoreInvariant
<1> SUFFICES ASSUME StoreInit PROVE StoreInvariant
  OBVIOUS
<1>1. Missing \in State /\ Missing.version = 0 /\ Missing.services \in Services
  BY DEF Missing, State, Services
<1>2. /\ state \in State /\ state.version = 1 /\ process = "new"
      /\ chain.turns = 0 /\ chain.writes = {} /\ stray = {}
  BY <1>1 DEF StoreInit, State
<1>3. chain \in [turns : Nat, writes : SUBSET Write]
  BY DEF StoreInit
<1>4. StoreTypeOK
  <2>1. files \in [File -> State]
    BY <1>1 DEF StoreInit
  <2>2. reconcile \in Seq({"alone", "new", "follow"})
    BY DEF StoreInit
  <2>3. events \in 0 .. MaxEvents /\ writeFailures \in 0 .. MaxWriteFailures
    BY StoreConstants DEF StoreInit
  <2>4. awaited \in Nat /\ captured \in Nat
    BY DEF StoreInit
  <2> QED
    BY <1>2, <1>3, <2>1, <2>2, <2>3, <2>4 DEF StoreTypeOK, Process
<1>5. AwaitedTurnsCome
  BY <1>2 DEF StoreInit, AwaitedTurnsCome
<1>6. StoppedAfterShutdown /\ StopIsFinal /\ LastTurnShowsStop
  BY <1>2 DEF StoppedAfterShutdown, StopIsFinal, LastTurnShowsStop
<1>7. TurnsAreInOrder
  <2>1. \A f \in File : files[f].version = 0
    BY <1>1 DEF StoreInit
  <2> QED
    BY <1>2, <2>1 DEF TurnsAreInOrder
<1> QED
  BY <1>4, <1>5, <1>6, <1>7 DEF StoreInvariant

(* A change adds a turn and makes the state newer; nothing is written yet.  *)
LEMMA QueueWriteKeeps ==
    ASSUME StoreInvariant, NEW s \in Services, QueueWrite(s),
           UNCHANGED <<stray, files, writeFailures>>
    PROVE  /\ state' \in State /\ state'.services = s
           /\ chain' \in [turns : Nat, writes : SUBSET Write]
           /\ chain'.turns = chain.turns + 1 /\ chain'.writes = chain.writes
           /\ TurnsAreInOrder'
<1>1. state \in State /\ state.version \in Nat
  BY DEF StoreInvariant, StoreTypeOK, State
<1>2. state' = [state EXCEPT !.services = s, !.version = @ + 1]
  BY DEF QueueWrite, Changed
<1>3. state' \in State /\ state'.services = s /\ state'.version = state.version + 1
  <2>1. state.version + 1 \in Nat
    BY <1>1
  <2>2. PICK n \in Nat : n = state.version + 1
    BY <2>1
  <2>3. state' = [[state EXCEPT !.services = s] EXCEPT !.version = n]
    BY <1>1, <1>2, <2>2 DEF State
  <2> QED
    BY <1>1, <2>2, <2>3 DEF State
<1>4. chain \in [turns : Nat, writes : SUBSET Write] /\ chain.turns + 1 \in Nat
  BY DEF StoreInvariant, StoreTypeOK
<1>5. /\ chain' \in [turns : Nat, writes : SUBSET Write]
      /\ chain'.turns = chain.turns + 1 /\ chain'.writes = chain.writes
  BY <1>4 DEF QueueWrite
<1>6. TurnsAreInOrder'
  <2>1. /\ files \in [File -> State] /\ chain.writes \subseteq Write
    BY DEF StoreInvariant, StoreTypeOK
  <2>2. (\A f \in File : files[f].version \in Nat) /\ \A w \in chain.writes : w.state.version \in Nat
    BY <2>1 DEF State, Write
  <2> QED
    BY <1>1, <1>3, <1>5, <2>2 DEF StoreInvariant, TurnsAreInOrder
<1> QED
  BY <1>3, <1>5, <1>6

(* The services when one of them gets a status.                             *)
LEMMA ServicesChange ==
    ASSUME NEW s \in Services
    PROVE  /\ [s EXCEPT !.transport = "listening"] \in Services
           /\ [s EXCEPT !.mcpBridge = "connected"] \in Services
           /\ [s EXCEPT !.cluster = "running"] \in Services
           /\ \A p \in {"inactive", "connecting", "following", "stopped"} :
                 /\ [s EXCEPT !.proxy = p] \in Services
                 /\ Stopped(s) => Stopped([s EXCEPT !.proxy = p])
BY DEF Services, Stopped

(* When a turn is over, what is awaited is nearer by one turn; the process  *)
(* goes on when it is the turn that is awaited.                             *)
LEMMA TurnEndsKeeps ==
    ASSUME StoreInvariant, chain.writes # {}, NEW ok, TurnEnds(ok),
           chain'.turns = chain.turns, chain'.writes = {}, UNCHANGED <<reconcile, captured>>
    PROVE  /\ awaited' \in Nat /\ process' \in Process /\ AwaitedTurnsCome'
           /\ process' = "stopping" => process = "stopping"
           /\ process' = "exited" => \/ process = "exited"
                                     \/ process = "stopping" /\ awaited = 1
<1>1. /\ awaited \in Nat /\ process \in Process /\ chain.turns \in Nat
      /\ awaited <= chain.turns + 1
      /\ process \in {"opening", "stopping"} <=> awaited > 0 /\ process # "dead"
      /\ captured <= Len(reconcile)
  BY DEF StoreInvariant, StoreTypeOK, AwaitedTurnsCome
<1>2. CASE awaited = 0
  BY <1>1, <1>2 DEF TurnEnds, AwaitedTurnsCome
<1>3. CASE awaited = 1
  <2>1. awaited' = 0
    BY <1>3 DEF TurnEnds
  <2>2. process' \in {"exited", "opened", "dead"} /\ (process' = "exited" => process = "stopping")
    BY <1>3 DEF TurnEnds
  <2> QED
    BY <1>1, <1>3, <2>1, <2>2 DEF AwaitedTurnsCome, Process
<1>4. CASE awaited > 1
  <2>1. awaited' = awaited - 1 /\ process' = process
    BY <1>1, <1>4 DEF TurnEnds
  <2> QED
    BY <1>1, <1>4, <2>1 DEF AwaitedTurnsCome
<1> QED
  BY <1>1, <1>2, <1>3, <1>4

(* A turn takes the state of now.                                           *)
LEMMA TakeTurnKeeps ==
    ASSUME StoreInvariant, TakeTurn
    PROVE  StoreInvariant'
<1>1. /\ state \in State /\ chain.turns \in Nat /\ chain.turns > 0 /\ chain.writes = {}
      /\ files \in [File -> State]
      /\ awaited \in Nat /\ awaited <= chain.turns
  BY DEF StoreInvariant, StoreTypeOK, AwaitedTurnsCome, TakeTurn
<1>2. PICK W : W = [file : File, state : {state}]
  OBVIOUS
<1>3. /\ W \subseteq Write /\ W # {} /\ \A w \in W : w.state = state
      /\ \A f \in File : \E w \in W : w.file = f
  <2>1. \A f \in File : [file |-> f, state |-> state] \in W
    BY <1>2
  <2> QED
    BY <1>1, <1>2, <2>1, StoreConstants DEF Write
<1>4. /\ chain' \in [turns : Nat, writes : SUBSET Write]
      /\ chain'.turns = chain.turns - 1 /\ chain'.writes = W
  <2>1. chain' = [turns |-> chain.turns - 1, writes |-> W] /\ chain.turns - 1 \in Nat
    BY <1>1, <1>2 DEF TakeTurn
  <2> QED
    BY <1>3, <2>1
<1>5. StoreTypeOK'
  BY <1>4 DEF StoreInvariant, StoreTypeOK, TakeTurn
<1>6. AwaitedTurnsCome'
  <2>1. awaited <= chain'.turns + 1 /\ chain'.writes # {}
    BY <1>1, <1>3, <1>4
  <2> QED
    BY <2>1 DEF StoreInvariant, AwaitedTurnsCome, TakeTurn
<1>7. StoppedAfterShutdown' /\ StopIsFinal'
  BY DEF StoreInvariant, StoppedAfterShutdown, StopIsFinal, TakeTurn
<1>8. LastTurnShowsStop'
  <2>1. process = "stopping" => Stopped(state.services)
    BY DEF StoreInvariant, StopIsFinal
  <2> QED
    BY <1>3, <1>4, <2>1 DEF LastTurnShowsStop, TakeTurn
<1>9. TurnsAreInOrder'
  <2>1. state.version \in Nat /\ \A f \in File : files[f].version \in Nat
    BY <1>1 DEF State
  <2>2. \A w \in W : w.state.version = state.version
    BY <1>3
  <2> QED
    BY <1>4, <2>1, <2>2 DEF StoreInvariant, TurnsAreInOrder, TakeTurn
<1> QED
  BY <1>5, <1>6, <1>7, <1>8, <1>9 DEF StoreInvariant

(* One file shows what is written, and none an earlier state than before.   *)
LEMMA WriteLands ==
    ASSUME StoreInvariant, NEW w \in Write, files' = [files EXCEPT ![w.file] = w.state]
    PROVE  /\ files' \in [File -> State]
           /\ \A f \in File : files'[f] = IF f = w.file THEN w.state ELSE files[f]
<1>1. w.file \in File /\ w.state \in State /\ files \in [File -> State]
  BY DEF Write, StoreInvariant, StoreTypeOK
<1> QED
  BY <1>1

(* The last write of a turn ends the turn.                                  *)
LEMMA FinishWriteKeeps ==
    ASSUME StoreInvariant, NEW w, FinishWrite(w)
    PROVE  /\ StoreInvariant'
           /\ writeFailures' = 0 => \A f \in File : files'[f].version >= files[f].version
<1>1. /\ state \in State /\ chain \in [turns : Nat, writes : SUBSET Write]
      /\ files \in [File -> State] /\ w \in chain.writes /\ w \in Write
      /\ UNCHANGED <<state, stray, reconcile, captured, events, writeFailures>>
  BY DEF StoreInvariant, StoreTypeOK, FinishWrite
<1>2. /\ files' \in [File -> State]
      /\ \A f \in File : files'[f] = IF f = w.file THEN w.state ELSE files[f]
  BY <1>1, WriteLands DEF FinishWrite
<1>3. /\ chain' \in [turns : Nat, writes : SUBSET Write]
      /\ chain'.turns = chain.turns /\ chain'.writes = chain.writes \ {w}
  BY <1>1 DEF FinishWrite
<1>4. IF chain.writes = {w} THEN TurnEnds(TRUE) ELSE UNCHANGED <<awaited, process>>
  BY DEF FinishWrite
<1>5. /\ awaited' \in Nat /\ process' \in Process /\ AwaitedTurnsCome'
      /\ process' = "stopping" => process = "stopping"
      /\ process' = "exited" => \/ process = "exited"
                                \/ /\ process = "stopping" /\ awaited = 1
                                   /\ chain.writes = {w}
      /\ chain'.writes # {} => UNCHANGED <<awaited, process>>
  <2>1. CASE chain.writes = {w}
    <3>1. TurnEnds(TRUE) /\ chain.writes # {} /\ chain'.writes = {}
      BY <1>3, <1>4, <2>1
    <3> QED
      BY <1>1, <1>3, <2>1, <3>1, TurnEndsKeeps
  <2>2. CASE chain.writes # {w}
    <3>1. UNCHANGED <<awaited, process>> /\ chain.writes # {} /\ chain'.writes # {}
      BY <1>1, <1>3, <1>4, <2>2
    <3> QED
      BY <1>1, <1>3, <3>1 DEF StoreInvariant, StoreTypeOK, AwaitedTurnsCome
  <2> QED
    BY <2>1, <2>2
<1>6. StoreTypeOK'
  BY <1>1, <1>2, <1>3, <1>5 DEF StoreInvariant, StoreTypeOK
<1>7. Lives
  BY DEF FinishWrite
<1>8. StopIsFinal'
  BY <1>1, <1>5 DEF StoreInvariant, StopIsFinal
<1>9. StoppedAfterShutdown'
  <2> SUFFICES ASSUME process' = "exited", writeFailures = 0, NEW f \in File
               PROVE  Stopped(files'[f].services)
    BY <1>1 DEF StoppedAfterShutdown
  <2>1. process = "stopping" /\ awaited = 1 /\ chain.writes = {w}
    BY <1>5, <1>7 DEF Lives
  <2>2. /\ \A v \in chain.writes : Stopped(v.state.services)
        /\ Stopped(files[f].services) \/ \E v \in chain.writes : v.file = f
    BY <2>1 DEF StoreInvariant, LastTurnShowsStop
  <2> QED
    BY <1>2, <2>1, <2>2
<1>10. LastTurnShowsStop'
  <2> SUFFICES ASSUME writeFailures = 0, process' = "stopping", awaited' = 1, chain'.writes # {}
               PROVE  /\ \A v \in chain'.writes : Stopped(v.state.services)
                      /\ \A f \in File : \/ Stopped(files'[f].services)
                                         \/ \E v \in chain'.writes : v.file = f
    BY <1>1 DEF LastTurnShowsStop
  <2>1. process = "stopping" /\ awaited = 1 /\ chain.writes # {}
    BY <1>1, <1>5
  <2>2. /\ \A v \in chain.writes : Stopped(v.state.services)
        /\ \A f \in File : \/ Stopped(files[f].services)
                           \/ \E v \in chain.writes : v.file = f
    BY <2>1 DEF StoreInvariant, LastTurnShowsStop
  <2>3. ASSUME NEW f \in File
        PROVE  Stopped(files'[f].services) \/ \E v \in chain'.writes : v.file = f
    BY <1>1, <1>2, <1>3, <2>2
  <2> QED
    BY <1>3, <2>2, <2>3
<1>11. /\ TurnsAreInOrder'
       /\ writeFailures' = 0 => \A f \in File : files'[f].version >= files[f].version
  <2> SUFFICES ASSUME writeFailures = 0
               PROVE  TurnsAreInOrder' /\ \A f \in File : files'[f].version >= files[f].version
    BY <1>1 DEF TurnsAreInOrder
  <2>1. /\ state.version \in Nat /\ \A f \in File : files[f].version \in Nat
        /\ \A v \in chain.writes : v.state.version \in Nat
    BY <1>1 DEF State, Write
  <2>2. /\ stray = {} /\ \A f \in File : files[f].version <= state.version
        /\ \A v \in chain.writes :
              /\ v.state.version <= state.version
              /\ \A f \in File : files[f].version <= v.state.version
              /\ \A u \in chain.writes : u.state.version = v.state.version
    BY DEF StoreInvariant, TurnsAreInOrder
  <2>3. \A f \in File : files'[f].version = IF f = w.file THEN w.state.version ELSE files[f].version
    BY <1>2
  <2>4. \A f \in File : files'[f].version >= files[f].version
    BY <1>1, <2>1, <2>2, <2>3
  <2>5. \A f \in File : files'[f].version <= w.state.version
    BY <1>1, <2>1, <2>2, <2>3
  <2>6. \A f \in File : files'[f].version <= state.version
    BY <1>1, <2>1, <2>2, <2>3
  <2>7. \A v \in chain'.writes : v \in chain.writes /\ v.state.version = w.state.version
    BY <1>1, <1>3, <2>2
  <2> QED
    BY <1>1, <2>2, <2>4, <2>5, <2>6, <2>7 DEF TurnsAreInOrder
<1> QED
  BY <1>5, <1>6, <1>8, <1>9, <1>10, <1>11 DEF StoreInvariant

(* A write that was left under way lands after one of its turn failed.      *)
LEMMA FinishStrayKeeps ==
    ASSUME StoreInvariant, NEW w, FinishStray(w)
    PROVE  StoreInvariant' /\ writeFailures' # 0
<1>1. /\ w \in stray /\ w \in Write /\ Lives
      /\ UNCHANGED <<state, process, chain, awaited, reconcile, captured, events, writeFailures>>
  BY DEF StoreInvariant, StoreTypeOK, FinishStray
<1>2. writeFailures # 0
  BY <1>1 DEF StoreInvariant, TurnsAreInOrder
<1>3. files' \in [File -> State] /\ stray' \subseteq Write
  BY <1>1, WriteLands DEF FinishStray, StoreInvariant, StoreTypeOK
<1>4. StoreTypeOK'
  BY <1>1, <1>3 DEF StoreInvariant, StoreTypeOK
<1>5. AwaitedTurnsCome' /\ StopIsFinal'
  BY <1>1 DEF StoreInvariant, AwaitedTurnsCome, StopIsFinal
<1>6. StoppedAfterShutdown' /\ LastTurnShowsStop' /\ TurnsAreInOrder'
  BY <1>1, <1>2 DEF StoppedAfterShutdown, LastTurnShowsStop, TurnsAreInOrder
<1> QED
  BY <1>1, <1>2, <1>4, <1>5, <1>6 DEF StoreInvariant

(* A turn that fails is over at once.                                       *)
LEMMA WriteFailsKeeps ==
    ASSUME StoreInvariant, NEW w, WriteFails(w)
    PROVE  StoreInvariant' /\ writeFailures' # 0
<1>1. /\ w \in chain.writes /\ chain \in [turns : Nat, writes : SUBSET Write]
      /\ stray \subseteq Write /\ writeFailures \in 0 .. MaxWriteFailures
      /\ UNCHANGED <<state, reconcile, captured, files, events>> /\ TurnEnds(FALSE)
      /\ writeFailures < MaxWriteFailures /\ writeFailures' = writeFailures + 1
      /\ stray' = stray \cup (chain.writes \ {w})
  BY DEF StoreInvariant, StoreTypeOK, WriteFails
<1>2. /\ chain' \in [turns : Nat, writes : SUBSET Write]
      /\ chain'.turns = chain.turns /\ chain'.writes = {}
  BY <1>1 DEF WriteFails
<1>3. /\ awaited' \in Nat /\ process' \in Process /\ AwaitedTurnsCome'
      /\ process' = "stopping" => process = "stopping"
      /\ process' = "exited" => process \in {"exited", "stopping"}
  BY <1>1, <1>2, TurnEndsKeeps
<1>4. writeFailures' \in 0 .. MaxWriteFailures /\ writeFailures' # 0
  BY <1>1, StoreConstants
<1>5. StoreTypeOK'
  BY <1>1, <1>2, <1>3, <1>4 DEF StoreInvariant, StoreTypeOK
<1>6. StopIsFinal'
  BY <1>1, <1>3 DEF StoreInvariant, StopIsFinal
<1>7. StoppedAfterShutdown' /\ LastTurnShowsStop' /\ TurnsAreInOrder'
  BY <1>4 DEF StoppedAfterShutdown, LastTurnShowsStop, TurnsAreInOrder
<1> QED
  BY <1>3, <1>4, <1>5, <1>6, <1>7 DEF StoreInvariant

(* Any change of the state, with what the process does next: an awaited     *)
(* turn is one of those that are left, and what comes after markStopped()   *)
(* sets nothing else.                                                       *)
LEMMA ChangeKeeps ==
    ASSUME StoreInvariant, NEW s \in Services, QueueWrite(s),
           UNCHANGED <<stray, files, writeFailures>>,
           process' \in Process, awaited' \in Nat, captured' \in Nat,
           reconcile' \in Seq({"alone", "new", "follow"}), captured' <= Len(reconcile'),
           events' \in 0 .. MaxEvents, awaited' <= TurnsLeft,
           process' \in {"opening", "stopping"} <=> awaited' > 0 /\ process' # "dead",
           process' \in {"stopping", "exited"} => Stopped(s),
           process' = "exited" => process = "exited",
           process' = "stopping" => \/ process = "stopping" /\ awaited' = awaited
                                    \/ awaited' = TurnsLeft
    PROVE  StoreInvariant'
<1>1. /\ state' \in State /\ state'.services = s
      /\ chain' \in [turns : Nat, writes : SUBSET Write]
      /\ chain'.turns = chain.turns + 1 /\ chain'.writes = chain.writes
      /\ TurnsAreInOrder'
  BY QueueWriteKeeps
<1>2. /\ chain.turns \in Nat /\ stray \subseteq Write /\ files \in [File -> State]
      /\ writeFailures \in 0 .. MaxWriteFailures
  BY DEF StoreInvariant, StoreTypeOK
<1>3. StoreTypeOK'
  BY <1>1, <1>2 DEF StoreTypeOK
<1>4. AwaitedTurnsCome'
  <2>1. TurnsLeft = chain'.turns + IF chain'.writes = {} THEN 0 ELSE 1
    BY <1>1, <1>2 DEF TurnsLeft
  <2> QED
    BY <2>1 DEF AwaitedTurnsCome
<1>5. StoppedAfterShutdown' /\ StopIsFinal'
  BY <1>1 DEF StoreInvariant, StoppedAfterShutdown, StopIsFinal
<1>6. LastTurnShowsStop'
  <2>1. CASE process' = "stopping" /\ process = "stopping" /\ awaited' = awaited
    BY <1>1, <2>1 DEF StoreInvariant, LastTurnShowsStop
  <2>2. CASE awaited' = TurnsLeft
    BY <1>1, <1>2, <2>2 DEF LastTurnShowsStop, TurnsLeft
  <2>3. CASE process' # "stopping"
    BY <2>3 DEF LastTurnShowsStop
  <2> QED
    BY <2>1, <2>2, <2>3
<1> QED
  BY <1>1, <1>3, <1>4, <1>5, <1>6 DEF StoreInvariant

(* What the cases below need of the invariant.                              *)
LEMMA StoreFacts ==
    ASSUME StoreInvariant
    PROVE  /\ state \in State /\ state.services \in Services
           /\ process \in Process /\ chain.turns \in Nat
           /\ awaited \in Nat /\ captured \in Nat /\ captured <= Len(reconcile)
           /\ reconcile \in Seq({"alone", "new", "follow"}) /\ Len(reconcile) \in Nat
           /\ events \in 0 .. MaxEvents /\ awaited <= TurnsLeft /\ TurnsLeft \in Nat
           /\ TurnsLeft > 0
           /\ process \in {"opening", "stopping"} <=> awaited > 0 /\ process # "dead"
           /\ process \in {"stopping", "exited"} => Stopped(state.services)
<1>1. /\ state \in State /\ process \in Process /\ chain.turns \in Nat
      /\ awaited \in Nat /\ captured \in Nat
      /\ reconcile \in Seq({"alone", "new", "follow"}) /\ events \in 0 .. MaxEvents
  BY DEF StoreInvariant, StoreTypeOK
<1>2. /\ captured <= Len(reconcile)
      /\ awaited <= chain.turns + (IF chain.writes = {} THEN 0 ELSE 1)
      /\ process \in {"opening", "stopping"} <=> awaited > 0 /\ process # "dead"
  BY DEF StoreInvariant, AwaitedTurnsCome
<1>3. TurnsLeft \in Nat /\ awaited <= TurnsLeft /\ TurnsLeft > 0
  BY <1>1, <1>2 DEF TurnsLeft
<1>4. state.services \in Services
  BY <1>1 DEF State
<1>5. process \in {"stopping", "exited"} => Stopped(state.services)
  BY DEF StoreInvariant, StopIsFinal
<1>6. Len(reconcile) \in Nat
  BY <1>1
<1> QED
  BY <1>1, <1>2, <1>3, <1>4, <1>5, <1>6

(* The reconcile that is queued last.                                       *)
LEMMA ReconcileQueues ==
    ASSUME reconcile \in Seq({"alone", "new", "follow"}), NEW k \in {"alone", "new", "follow"},
           reconcile' = Append(reconcile, k)
    PROVE  /\ reconcile' \in Seq({"alone", "new", "follow"})
           /\ Len(reconcile') = Len(reconcile) + 1 /\ Len(reconcile) \in Nat
OBVIOUS

(* The steps of the start up to the cluster manager.                        *)
LEMMA StartKeeps ==
    ASSUME StoreInvariant, Opens \/ Listens \/ BridgeConnects
    PROVE  StoreInvariant'
<1>1. CASE Opens
  <2>1. /\ process = "new" /\ process' = "opening" /\ QueueWrite(state.services)
        /\ awaited' = 1 /\ UNCHANGED <<reconcile, stray, captured, files, events, writeFailures>>
    BY <1>1 DEF Opens, Becomes
  <2>2. awaited' <= TurnsLeft /\ process' \in Process
    BY <2>1, StoreFacts DEF Process
  <2> QED
    BY <2>1, <2>2, StoreFacts, ChangeKeeps
<1>2. CASE Listens
  <2>1. PICK s \in Services : s = [state.services EXCEPT !.transport = "listening"]
    BY StoreFacts, ServicesChange
  <2>2. /\ process = "opened" /\ process' = "listening" /\ QueueWrite(s)
        /\ UNCHANGED <<awaited, reconcile, stray, captured, files, events, writeFailures>>
    BY <1>2, <2>1 DEF Listens, Becomes
  <2>3. process' \in Process
    BY <2>2 DEF Process
  <2> QED
    BY <2>2, <2>3, StoreFacts, ChangeKeeps
<1>3. CASE BridgeConnects
  <2>1. PICK s \in Services : s = [state.services EXCEPT !.mcpBridge = "connected"]
    BY StoreFacts, ServicesChange
  <2>2. /\ process = "listening" /\ process' = "bridged" /\ QueueWrite(s)
        /\ UNCHANGED <<awaited, reconcile, stray, captured, files, events, writeFailures>>
    BY <1>3, <2>1 DEF BridgeConnects, Becomes
  <2>3. process' \in Process
    BY <2>2 DEF Process
  <2> QED
    BY <2>2, <2>3, StoreFacts, ChangeKeeps
<1> QED
  BY <1>1, <1>2, <1>3

(* The cluster manager starts, or changes, which may queue a reconcile.     *)
LEMMA ClusterKeeps ==
    ASSUME StoreInvariant, ClusterStarts \/ ClusterChanges
    PROVE  StoreInvariant'
<1>1. PICK s \in Services : s = [state.services EXCEPT !.cluster = "running"]
  BY StoreFacts, ServicesChange
<1>2. /\ process \in Process /\ captured \in Nat /\ captured <= Len(reconcile)
      /\ events \in 0 .. MaxEvents
      /\ reconcile \in Seq({"alone", "new", "follow"}) /\ Len(reconcile) \in Nat
  BY StoreFacts
<1>3. /\ QueueWrite(s) /\ UNCHANGED <<stray, captured, files, writeFailures, awaited>>
      /\ \/ UNCHANGED reconcile
         \/ \E k \in {"alone", "new", "follow"} : reconcile' = Append(reconcile, k)
  BY <1>1 DEF ClusterStarts, ClusterChanges, Becomes, Event
<1>4. /\ process' \in {"bridged", "settling", "running", "closing"}
      /\ process \in {"bridged", "settling", "running", "closing"}
      /\ events' \in 0 .. MaxEvents
  <2>1. CASE ClusterStarts
    BY <1>2, <2>1 DEF ClusterStarts, Becomes
  <2>2. CASE ClusterChanges
    BY <1>2, <2>2, StoreConstants DEF ClusterChanges, Event
  <2> QED
    BY <2>1, <2>2
<1>5. reconcile' \in Seq({"alone", "new", "follow"}) /\ captured' <= Len(reconcile')
  <2>1. CASE UNCHANGED reconcile
    BY <1>2, <1>3, <2>1
  <2>2. ASSUME NEW k \in {"alone", "new", "follow"}, reconcile' = Append(reconcile, k)
        PROVE  reconcile' \in Seq({"alone", "new", "follow"}) /\ captured' <= Len(reconcile')
    <3>1. /\ reconcile' \in Seq({"alone", "new", "follow"})
          /\ Len(reconcile') = Len(reconcile) + 1
      BY <1>2, <2>2, ReconcileQueues
    <3> QED
      BY <1>2, <1>3, <3>1
  <2> QED
    BY <1>3, <2>1, <2>2
<1>6. process' \in Process
  BY <1>4 DEF Process
<1> QED
  BY <1>2, <1>3, <1>4, <1>5, <1>6, StoreFacts, ChangeKeeps

(* A change of the registry comes before shutdown() is over.                *)
LEMMA RegistryKeeps ==
    ASSUME StoreInvariant, RegistryChanges
    PROVE  StoreInvariant'
<1>1. /\ process \in {"listening", "bridged", "settling", "running", "closing"}
      /\ QueueWrite(state.services) /\ events < MaxEvents /\ events' = events + 1
      /\ UNCHANGED <<process, stray, awaited, reconcile, captured, files, writeFailures>>
  BY DEF RegistryChanges, Event
<1>2. events' \in 0 .. MaxEvents
  BY <1>1, StoreFacts, StoreConstants
<1> QED
  BY <1>1, <1>2, StoreFacts, ChangeKeeps

(* markStopped(): the turn it adds is the one that is awaited.              *)
LEMMA StopsKeeps ==
    ASSUME StoreInvariant, Stops
    PROVE  StoreInvariant'
<1>1. PICK s : s = [transport |-> "stopped", mcpBridge |-> "stopped", proxy |-> "stopped",
                    cluster |-> IF Clustered THEN "stopped" ELSE "disabled"]
  OBVIOUS
<1>2. s \in Services /\ Stopped(s)
  BY <1>1 DEF Services, Stopped
<1>3. /\ process = "closing" /\ process' = "stopping" /\ QueueWrite(s) /\ awaited' = TurnsLeft
      /\ UNCHANGED <<reconcile, stray, captured, files, events, writeFailures>>
  BY <1>1 DEF Stops, Becomes
<1>4. process' \in Process /\ awaited' \in Nat /\ awaited' > 0
  BY <1>3, StoreFacts DEF Process
<1> QED
  BY <1>2, <1>3, <1>4, StoreFacts, ChangeKeeps

(* The head of the reconciles sets the status of the proxy and nothing else. *)
LEMMA ReconcileToKeeps ==
    ASSUME StoreInvariant, NEW status \in {"inactive", "connecting", "following", "stopped"},
           NEW rest \in Seq({"alone", "new", "follow"}), NEW done \in BOOLEAN, Lives,
           Len(rest) + (IF done THEN 1 ELSE 0) = Len(reconcile),
           ReconcileTo(status, rest, done)
    PROVE  StoreInvariant'
<1>1. PICK s \in Services : s = [state.services EXCEPT !.proxy = status]
  BY StoreFacts, ServicesChange
<1>2. /\ QueueWrite(s) /\ reconcile' = rest
      /\ captured' = IF done /\ captured > 0 THEN captured - 1 ELSE captured
      /\ UNCHANGED <<process, stray, awaited, files, events, writeFailures>>
  BY <1>1 DEF ReconcileTo
<1>3. /\ captured \in Nat /\ captured <= Len(reconcile) /\ Len(rest) \in Nat
      /\ Len(reconcile) \in Nat
  BY StoreFacts
<1>4. captured' \in Nat /\ captured' <= Len(reconcile')
  BY <1>2, <1>3
<1>5. Stopped(state.services) => Stopped(s)
  BY <1>1, StoreFacts, ServicesChange
<1> QED
  BY <1>2, <1>4, <1>5, StoreFacts, ChangeKeeps

(* A reconcile goes on or is over.                                          *)
LEMMA ReconcilesKeeps ==
    ASSUME StoreInvariant, Reconciles
    PROVE  StoreInvariant'
<1>1. /\ Lives /\ reconcile # <<>> /\ reconcile \in Seq({"alone", "new", "follow"})
  BY StoreFacts DEF Reconciles
<1>2. PICK rest : rest = Tail(reconcile)
  OBVIOUS
<1>3. /\ rest \in Seq({"alone", "new", "follow"}) /\ Len(rest) \in Nat
      /\ Len(rest) + 1 = Len(reconcile)
  BY <1>1, <1>2
<1>4. \/ ReconcileTo("inactive", rest, TRUE) \/ ReconcileTo("following", rest, TRUE)
      \/ ReconcileTo("connecting", <<"follow">> \o rest, FALSE)
  BY <1>2 DEF Reconciles
<1>5. CASE ReconcileTo("inactive", rest, TRUE) \/ ReconcileTo("following", rest, TRUE)
  BY <1>1, <1>3, <1>5, ReconcileToKeeps
<1>6. CASE ReconcileTo("connecting", <<"follow">> \o rest, FALSE)
  <2>1. PICK longer : longer = <<"follow">> \o rest
    OBVIOUS
  <2>2. longer \in Seq({"alone", "new", "follow"}) /\ Len(longer) = Len(rest) + 1
    BY <1>3, <2>1
  <2>3. Len(longer) + 0 = Len(reconcile)
    BY <1>3, <2>2
  <2> QED
    BY <1>1, <1>6, <2>1, <2>2, <2>3, ReconcileToKeeps
<1> QED
  BY <1>4, <1>5, <1>6

(* Steps of the process alone, and a server without a cluster.              *)
LEMMA ProcessKeeps ==
    ASSUME StoreInvariant, Standalone \/ Settles \/ ShutsDown
    PROVE  StoreInvariant'
<1>1. UNCHANGED <<chain, stray, awaited, reconcile, files, events, writeFailures>>
  BY DEF Standalone, Settles, ShutsDown
<1>2. /\ state' \in State /\ state'.version = state.version
      /\ state'.services = state.services \/ process' = "new"
  <2>1. CASE Standalone
    <3>1. state \in State
      BY StoreFacts
    <3>2. state' = [state EXCEPT !.services.cluster = "disabled"] /\ process' = "new"
      BY <2>1 DEF Standalone
    <3> QED
      BY <3>1, <3>2 DEF State, Services
  <2>2. CASE Settles \/ ShutsDown
    BY <2>2, StoreFacts DEF Settles, ShutsDown
  <2> QED
    BY <2>1, <2>2
<1>3. /\ process \notin {"opening", "stopping", "exited", "dead"}
      /\ process' \notin {"opening", "stopping", "exited", "dead"} /\ process' \in Process
      /\ captured' \in Nat /\ captured' <= Len(reconcile)
  BY StoreFacts DEF Standalone, Settles, ShutsDown, Process
<1>4. StoreTypeOK'
  BY <1>1, <1>2, <1>3 DEF StoreInvariant, StoreTypeOK
<1>5. AwaitedTurnsCome'
  BY <1>1, <1>3 DEF StoreInvariant, AwaitedTurnsCome
<1>6. StoppedAfterShutdown' /\ StopIsFinal' /\ LastTurnShowsStop'
  BY <1>3 DEF StoppedAfterShutdown, StopIsFinal, LastTurnShowsStop
<1>7. TurnsAreInOrder'
  BY <1>1, <1>2 DEF StoreInvariant, TurnsAreInOrder
<1> QED
  BY <1>4, <1>5, <1>6, <1>7 DEF StoreInvariant

(* Every step keeps the invariant, and no file shows an earlier state.      *)
LEMMA StoreSteps ==
    ASSUME StoreInvariant, [StoreNext]_storeVars
    PROVE  /\ StoreInvariant'
           /\ storeVars' # storeVars =>
                 (writeFailures' = 0 => \A f \in File : files'[f].version >= files[f].version)
<1>1. CASE \E w \in chain.writes \cup stray : FinishWrite(w)
  BY <1>1, FinishWriteKeeps
<1>2. CASE (\E w \in chain.writes \cup stray : FinishStray(w)) \/ \E w \in chain.writes : WriteFails(w)
  BY <1>2, FinishStrayKeeps, WriteFailsKeeps
<1>3. CASE UNCHANGED storeVars
  <2>1. /\ UNCHANGED state /\ UNCHANGED process /\ UNCHANGED chain /\ UNCHANGED stray
        /\ UNCHANGED awaited /\ UNCHANGED reconcile /\ UNCHANGED captured /\ UNCHANGED files
        /\ UNCHANGED events /\ UNCHANGED writeFailures
    BY <1>3 DEF storeVars
  <2>2. StoreTypeOK'
    BY <2>1 DEF StoreInvariant, StoreTypeOK
  <2>3. AwaitedTurnsCome' /\ StoppedAfterShutdown' /\ StopIsFinal'
    BY <2>1 DEF StoreInvariant, AwaitedTurnsCome, StoppedAfterShutdown, StopIsFinal
  <2>4. LastTurnShowsStop' /\ TurnsAreInOrder'
    BY <2>1 DEF StoreInvariant, LastTurnShowsStop, TurnsAreInOrder
  <2> QED
    BY <1>3, <2>2, <2>3, <2>4 DEF StoreInvariant
<1>4. CASE \/ TakeTurn \/ Opens \/ Standalone \/ Listens \/ BridgeConnects \/ ClusterStarts
           \/ Settles \/ ShutsDown \/ Stops \/ RegistryChanges \/ ClusterChanges \/ Reconciles
  <2>1. StoreInvariant'
    BY <1>4, TakeTurnKeeps, StartKeeps, ProcessKeeps, ClusterKeeps, StopsKeeps, RegistryKeeps,
       ReconcilesKeeps
  <2>2. UNCHANGED files
    BY <1>4 DEF TakeTurn, Opens, Standalone, Listens, BridgeConnects, ClusterStarts, Settles,
                ShutsDown, Stops, RegistryChanges, ClusterChanges, Reconciles, Becomes, Event,
                ReconcileTo
  <2>3. \A f \in File : files[f].version \in Nat
    BY DEF StoreInvariant, StoreTypeOK, State
  <2>4. \A f \in File : files'[f].version >= files[f].version
    BY <2>2, <2>3
  <2> QED
    BY <2>1, <2>4
<1> QED
  BY <1>1, <1>2, <1>3, <1>4 DEF StoreNext, FilesChange

(* runCli() never awaits a turn that does not come, and the files of a      *)
(* server that has exited say stopped, whatever is queued after             *)
(* markStopped(): whatever the files are and however many changes come.     *)
THEOREM StoreIsInvariant == StoreSpec => []StoreInvariant
<1>1. StoreInvariant /\ [StoreNext]_storeVars => StoreInvariant'
  BY StoreSteps
<1> QED
  BY <1>1, StoreStarts, PTL DEF StoreSpec

(* writeChain keeps the order of the states: as long as no write fails no   *)
(* file shows an earlier state than before.                                 *)
THEOREM FilesKeepOrder == StoreSpec => NeverShowsEarlier
<1>1. StoreInvariant /\ [StoreNext]_storeVars
      => [writeFailures' = 0 => \A f \in File : files'[f].version >= files[f].version]_storeVars
  BY StoreSteps
<1> QED
  BY <1>1, StoreIsInvariant, PTL DEF StoreSpec, NeverShowsEarlier
-----------------------------------------------------------------------------
(* The bridge calls.                                                        *)

Link == [peer : Peer, outbound : BOOLEAN, state : LinkState, heard : BOOLEAN, held : BOOLEAN]

Message == [call : Call, link : 1 .. MaxLinks, is : {"request", "refused", "failed", "result"}]

Execution ==
    [at : Peer \cup {Self, NoServer}, over : 0 .. MaxLinks, waits : SUBSET Target,
     entries : SUBSET Target]

(* What is known of the servers fits.                                       *)
ServersFit ==
    /\ leader \in Peer \cup {Self, NoServer} /\ known \subseteq Peer /\ leads \subseteq Peer
    /\ stage \in Stage /\ turns \in 0 .. MaxTurns

(* The links are what they were or are made, and none connects again.       *)
LinksGoOn ==
    /\ link' \in Seq(Link) /\ Len(link') <= MaxLinks
    /\ DOMAIN link \subseteq DOMAIN link'
    /\ \A l \in DOMAIN link :
          /\ link'[l].peer = link[l].peer
          /\ link[l].state # "connecting" => link'[l].state # "connecting"

(* All that the invariant says of one call and of the messages about it.    *)
CallFits(c) ==
    /\ outcome[c] = "refused" => run[c] = NoRun /\ \A m \in wire : m.call # c
    /\ outcome[c] = "result" => /\ run[c].waits = {} /\ run[c].entries # {}
                                /\ run[c].at \in {asked[c].peer, Self} \ {NoServer}
    /\ phase[c] = "pending" => asked[c].link # NoLink
    /\ phase[c] \in {"new", "connecting"}
          => asked[c].link = NoLink /\ run[c] = NoRun /\ \A m \in wire : m.call # c
    /\ phase[c] = "done" <=> outcome[c] # "none"
    /\ asked[c].link # NoLink =>
          /\ asked[c].link \in DOMAIN link
          /\ link[asked[c].link].peer = asked[c].peer
          /\ link[asked[c].link].state # "connecting"
    /\ \A m \in wire : m.call = c =>
          /\ m.link = asked[c].link
          /\ \A n \in wire : n.call = c => n = m
          /\ IF m.is \in {"request", "refused"} THEN run[c] = NoRun
             ELSE run[c].at = asked[c].peer /\ run[c].waits = {}
          /\ m.is = "result" => run[c].entries # {}
    /\ run[c] # NoRun =>
          /\ IF run[c].at = Self THEN run[c].waits # {} => phase[c] = "local"
             ELSE /\ asked[c].link # NoLink
                  /\ run[c].at = asked[c].peer /\ run[c].over = asked[c].link
          /\ run[c].waits # {} => \A m \in wire : m.call # c

(* A step leaves a call alone, or takes messages about it away.             *)
CallStays(c) ==
    /\ phase'[c] = phase[c] /\ outcome'[c] = outcome[c]
    /\ asked'[c] = asked[c] /\ run'[c] = run[c]
    /\ \A m \in wire' : m.call = c => m \in wire

(* The link to the leader that a call waits on goes only if close() had     *)
(* forgotten it.                                                            *)
LinkStays(c) ==
    phase[c] = "pending" /\ asked[c].peer = leader'
       => LET l == asked[c].link
          IN  link'[l].state = "gone" => link[l].state = "gone" \/ ~link[l].held

(* A step keeps the answer of a call, and leaves none waiting on a link to  *)
(* the leader that goes.                                                    *)
AnswerStays(c) ==
    /\ phase[c] = "done" => phase'[c] = "done" /\ outcome'[c] = outcome[c]
    /\ phase'[c] = "pending" /\ asked'[c].peer = leader'
          => LET l == asked'[c].link
             IN  link'[l].state = "gone" => link[l].state = "gone" \/ ~link[l].held

(* The invariant is that of each call.                                      *)
LEMMA EachCallFits ==
    ASSUME BridgeInvariant
    PROVE  BridgeTypeOK /\ \A c \in Call : CallFits(c)
<1>1. BridgeTypeOK
  BY DEF BridgeInvariant
<1>2. ASSUME NEW c \in Call
      PROVE  CallFits(c)
  BY DEF BridgeInvariant, RefusedNeverRuns, ResultsAreWhole, PendingIsForwarded, NotSentYet,
         DoneIsAnswered, SentToItsLeader, OneMessageACall, RunsWhereAsked, CallFits
<1> QED
  BY <1>1, <1>2

(* And what holds of each call after a step is the invariant.               *)
LEMMA FitsIsInvariant ==
    ASSUME BridgeTypeOK', WaitsForItsOwn', \A c \in Call : CallFits(c)'
    PROVE  BridgeInvariant'
<1>1. \A c \in Call : phase'[c] = "pending" => outcome'[c] = "none"
  BY DEF CallFits
<1>2. RefusedNeverRuns' /\ ResultsAreWhole' /\ NotSentYet'
  BY DEF RefusedNeverRuns, ResultsAreWhole, NotSentYet, CallFits
<1>3. PendingIsForwarded' /\ DoneIsAnswered' /\ SentToItsLeader'
  BY <1>1 DEF PendingIsForwarded, DoneIsAnswered, SentToItsLeader, CallFits
<1>4. OneMessageACall'
  <2>1. \A m \in wire' : m.call \in Call
    BY DEF BridgeTypeOK
  <2> QED
    BY <2>1 DEF OneMessageACall, CallFits
<1>5. RunsWhereAsked'
  BY DEF RunsWhereAsked, CallFits
<1> QED
  BY <1>2, <1>3, <1>4, <1>5 DEF BridgeInvariant

(* The types, with the names used here.                                     *)
LEMMA BridgeTypes ==
    BridgeTypeOK <=>
       /\ ServersFit /\ link \in Seq(Link) /\ Len(link) <= MaxLinks
       /\ phase \in [Call -> Phase] /\ outcome \in [Call -> Outcome]
       /\ asked \in [Call -> [peer : Peer \cup {NoServer}, link : 0 .. MaxLinks]]
       /\ wire \subseteq Message /\ run \in [Call -> Execution]
BY DEF BridgeTypeOK, ServersFit, Link, Message, Execution

(* A call that a step leaves alone.                                         *)
LEMMA CallLeftAlone ==
    ASSUME NEW c, CallFits(c), CallStays(c), LinksGoOn, LinkStays(c)
    PROVE  CallFits(c)' /\ AnswerStays(c)
<1>1. asked[c].link # NoLink =>
         /\ asked[c].link \in DOMAIN link'
         /\ link'[asked[c].link].peer = asked[c].peer
         /\ link'[asked[c].link].state # "connecting"
  BY DEF CallFits, LinksGoOn
<1>2. CallFits(c)'
  BY <1>1 DEF CallFits, CallStays
<1> QED
  BY <1>2 DEF CallStays, AnswerStays, LinkStays

(* The first states satisfy the invariant.                                  *)
LEMMA BridgeStarts == BridgeInit => BridgeInvariant
<1> SUFFICES ASSUME BridgeInit PROVE BridgeInvariant
  OBVIOUS
<1>1. NoRun \in Execution /\ NoRun.at = NoServer /\ NoRun.waits = {}
  BY BridgeConstants DEF NoRun, Execution, NoLink
<1>2. PICK a : a = [peer |-> NoServer, link |-> NoLink]
  OBVIOUS
<1>3. a \in [peer : Peer \cup {NoServer}, link : 0 .. MaxLinks] /\ a.link = NoLink
  BY <1>2, BridgeConstants DEF NoLink
<1>4. /\ phase = [c \in Call |-> "new"] /\ outcome = [c \in Call |-> "none"]
      /\ asked = [c \in Call |-> a] /\ wire = {} /\ run = [c \in Call |-> NoRun]
      /\ link = <<>>
  BY <1>2 DEF BridgeInit
<1>5. BridgeTypeOK
  <2>1. ServersFit
    <3>1. leads \subseteq Peer /\ leader \in leads \cup {NoServer} /\ known \subseteq Peer
      BY DEF BridgeInit
    <3>2. stage \in Stage /\ turns = 0
      BY DEF BridgeInit, Stage
    <3> QED
      BY <3>1, <3>2, BridgeConstants DEF ServersFit
  <2>2. link \in Seq(Link) /\ Len(link) <= MaxLinks
    BY <1>4, BridgeConstants
  <2>3. phase \in [Call -> Phase] /\ outcome \in [Call -> Outcome]
    BY <1>4 DEF Phase, Outcome
  <2>4. /\ asked \in [Call -> [peer : Peer \cup {NoServer}, link : 0 .. MaxLinks]]
        /\ run \in [Call -> Execution] /\ wire \subseteq Message
    BY <1>1, <1>3, <1>4
  <2> QED
    BY <2>1, <2>2, <2>3, <2>4, BridgeTypes
<1>6. \A c \in Call : phase[c] = "new" /\ outcome[c] = "none" /\ asked[c].link = NoLink /\ run[c] = NoRun
  BY <1>3, <1>4
<1>7. RefusedNeverRuns /\ ResultsAreWhole /\ PendingIsForwarded /\ NotSentYet
  BY <1>4, <1>6 DEF RefusedNeverRuns, ResultsAreWhole, PendingIsForwarded, NotSentYet
<1>8. DoneIsAnswered /\ SentToItsLeader /\ WaitsForItsOwn /\ OneMessageACall /\ RunsWhereAsked
  BY <1>4, <1>6 DEF DoneIsAnswered, SentToItsLeader, WaitsForItsOwn, OneMessageACall, RunsWhereAsked
<1> QED
  BY <1>5, <1>7, <1>8 DEF BridgeInvariant

(* A link changes.                                                          *)
LEMMA LinkChanges ==
    ASSUME link \in Seq(Link), Len(link) <= MaxLinks, NEW l \in DOMAIN link, NEW x \in Link,
           x.peer = link[l].peer, link[l].state # "connecting" => x.state # "connecting",
           link' = [link EXCEPT ![l] = x]
    PROVE  /\ LinksGoOn /\ DOMAIN link' = DOMAIN link
           /\ \A k \in DOMAIN link : link'[k] = IF k = l THEN x ELSE link[k]
<1>1. /\ \A k \in DOMAIN link : link[k] \in Link
      /\ DOMAIN link = 1 .. Len(link) /\ Len(link) \in Nat
  OBVIOUS
<1>2. link' \in Seq(Link) /\ Len(link') = Len(link) /\ DOMAIN link' = DOMAIN link
  BY <1>1
<1>3. \A k \in DOMAIN link : link'[k] = IF k = l THEN x ELSE link[k]
  BY <1>1
<1> QED
  BY <1>2, <1>3 DEF LinksGoOn

(* All links change.                                                        *)
LEMMA LinksChange ==
    ASSUME link \in Seq(Link), Len(link) <= MaxLinks, NEW f, DOMAIN f = DOMAIN link,
           link' = [k \in DOMAIN link |-> f[k]],
           \A k \in DOMAIN link :
              /\ f[k] \in Link /\ f[k].peer = link[k].peer
              /\ link[k].state # "connecting" => f[k].state # "connecting"
    PROVE  /\ LinksGoOn
           /\ \A k \in DOMAIN link : link'[k] = f[k]
<1>1. DOMAIN link = 1 .. Len(link) /\ Len(link) \in Nat
  OBVIOUS
<1>2. link' \in [1 .. Len(link) -> Link]
  BY <1>1
<1>3. link' \in Seq(Link) /\ Len(link') = Len(link) /\ DOMAIN link' = DOMAIN link
  BY <1>1, <1>2
<1> QED
  BY <1>3 DEF LinksGoOn

(* close() shuts the open links.                                            *)
LEMMA ShutLinksGoOn ==
    ASSUME link \in Seq(Link), Len(link) <= MaxLinks, LinksShut
    PROVE  /\ LinksGoOn
           /\ \A k \in DOMAIN link : link'[k].state = "gone" => link[k].state = "gone"
<1>1. PICK f : f = [k \in DOMAIN link |-> IF link[k].state = "open"
                                          THEN [link[k] EXCEPT !.state = "shut"] ELSE link[k]]
  OBVIOUS
<1>2. DOMAIN f = DOMAIN link /\ link' = [k \in DOMAIN link |-> f[k]]
  BY <1>1 DEF LinksShut
<1>3. ASSUME NEW k \in DOMAIN link
      PROVE  /\ f[k] \in Link /\ f[k].peer = link[k].peer
             /\ link[k].state # "connecting" => f[k].state # "connecting"
             /\ f[k].state = "gone" => link[k].state = "gone"
  <2>1. link[k] \in Link
    OBVIOUS
  <2>2. [link[k] EXCEPT !.state = "shut"] \in Link
    BY <2>1 DEF Link, LinkState
  <2>3. CASE link[k].state = "open"
    <3>1. f[k] = [link[k] EXCEPT !.state = "shut"]
      BY <1>1, <2>3
    <3> QED
      BY <2>1, <2>2, <3>1 DEF Link
  <2>4. CASE link[k].state # "open"
    BY <1>1, <2>1, <2>4
  <2> QED
    BY <2>3, <2>4
<1> QED
  BY <1>2, <1>3, LinksChange

(* A link is made.                                                          *)
LEMMA LinkIsMade ==
    ASSUME link \in Seq(Link), NEW x \in Link, Len(link) < MaxLinks, link' = Append(link, x)
    PROVE  /\ LinksGoOn
           /\ \A k \in DOMAIN link : link'[k] = link[k]
<1>1. /\ link' \in Seq(Link) /\ Len(link') = Len(link) + 1 /\ Len(link) \in Nat
      /\ DOMAIN link \subseteq DOMAIN link' /\ \A k \in DOMAIN link : link'[k] = link[k]
  OBVIOUS
<1>2. Len(link') <= MaxLinks
  BY <1>1, BridgeConstants
<1> QED
  BY <1>1, <1>2 DEF LinksGoOn

(* What is made is a link.                                                  *)
LEMMA MadeIsLink ==
    ASSUME NEW p \in Peer, NEW outbound \in BOOLEAN, NEW s \in LinkState
    PROVE  Made(p, outbound, s) \in Link /\ Made(p, outbound, s).state = s
BY DEF Made, Link

(* The calls that are settled are done with this outcome, the others stay.  *)
LEMMA SettleSets ==
    ASSUME phase \in [Call -> Phase], outcome \in [Call -> Outcome], NEW C, NEW o \in Outcome,
           Settle(C, o)
    PROVE  /\ phase' \in [Call -> Phase] /\ outcome' \in [Call -> Outcome]
           /\ \A c \in Call :
                 /\ phase'[c] = IF c \in C THEN "done" ELSE phase[c]
                 /\ outcome'[c] = IF c \in C THEN o ELSE outcome[c]
<1>1. /\ phase' = [c \in Call |-> IF c \in C THEN "done" ELSE phase[c]]
      /\ outcome' = [c \in Call |-> IF c \in C THEN o ELSE outcome[c]]
  BY DEF Settle
<1>2. phase' \in [Call -> Phase]
  BY <1>1 DEF Phase
<1> QED
  BY <1>1, <1>2

(* Calls that wait are answered, and messages may be taken away: a result   *)
(* is that of an execution, and a call that is refused reaches nobody.      *)
LEMMA SettleKeeps ==
    ASSUME BridgeInvariant, LinksGoOn, ServersFit', NEW C, NEW o \in Outcome \ {"none"},
           Settle(C, o), wire' \subseteq wire, UNCHANGED <<asked, run>>,
           \A c \in C : c \in Call /\ phase[c] \notin {"done", "local"},
           o = "refused" => \A c \in C : run[c] = NoRun /\ \A m \in wire' : m.call # c,
           o = "result" => \A c \in C : /\ run[c].waits = {} /\ run[c].entries # {}
                                        /\ run[c].at \in {asked[c].peer, Self} \ {NoServer},
           \A c \in Call \ C : LinkStays(c)
    PROVE  BridgeTypeOK' /\ \A c \in Call : CallFits(c)' /\ AnswerStays(c)
<1>1. /\ phase \in [Call -> Phase] /\ outcome \in [Call -> Outcome]
      /\ asked \in [Call -> [peer : Peer \cup {NoServer}, link : 0 .. MaxLinks]]
      /\ wire \subseteq Message /\ run \in [Call -> Execution]
  BY DEF BridgeInvariant, BridgeTypeOK, Message, Execution
<1>2. /\ phase' \in [Call -> Phase] /\ outcome' \in [Call -> Outcome]
      /\ \A c \in Call :
            /\ phase'[c] = IF c \in C THEN "done" ELSE phase[c]
            /\ outcome'[c] = IF c \in C THEN o ELSE outcome[c]
  BY <1>1, SettleSets
<1>3. BridgeTypeOK'
  <2>1. link' \in Seq(Link) /\ Len(link') <= MaxLinks
    BY DEF LinksGoOn
  <2>2. /\ asked' \in [Call -> [peer : Peer \cup {NoServer}, link : 0 .. MaxLinks]]
        /\ wire' \subseteq Message /\ run' \in [Call -> Execution]
    BY <1>1
  <2> QED
    BY <1>2, <2>1, <2>2 DEF BridgeTypeOK, ServersFit, Link, Message, Execution
<1>4. ASSUME NEW c \in Call
      PROVE  CallFits(c)' /\ AnswerStays(c)
  <2>1. CallFits(c)
    BY EachCallFits
  <2>2. CASE c \notin C
    BY <1>2, <2>1, <2>2, CallLeftAlone DEF CallStays
  <2>3. CASE c \in C
    <3>1. phase'[c] = "done" /\ outcome'[c] = o /\ phase[c] \notin {"done", "local"}
      BY <1>2, <2>3
    <3>2. asked'[c] = asked[c] /\ run'[c] = run[c]
      OBVIOUS
    <3>3. asked[c].link # NoLink =>
             /\ asked[c].link \in DOMAIN link'
             /\ link'[asked[c].link].peer = asked[c].peer
             /\ link'[asked[c].link].state # "connecting"
      BY <2>1 DEF CallFits, LinksGoOn
    <3>4. CallFits(c)'
      BY <2>1, <2>3, <3>1, <3>2, <3>3 DEF CallFits
    <3> QED
      BY <3>1, <3>4 DEF AnswerStays
  <2> QED
    BY <2>2, <2>3
<1> QED
  BY <1>3, <1>4

(* Calls that leave: they are refused when no link is open, or wait on one  *)
(* that is.                                                                 *)
LEMMA SendsKeeps ==
    ASSUME BridgeInvariant, LinksGoOn, ServersFit', NEW C, NEW p \in Peer, NEW open,
           Sends(C, p, open), UNCHANGED run,
           \A c \in C : c \in Call /\ phase[c] \in {"new", "connecting"},
           \A l \in open : l \in DOMAIN link' /\ link'[l].peer = p /\ link'[l].state = "open",
           \A c \in Call : LinkStays(c)
    PROVE  BridgeTypeOK' /\ \A c \in Call : CallFits(c)' /\ AnswerStays(c)
<1>1. CASE open = {}
  <2>1. Settle(C, "refused") /\ UNCHANGED <<asked, wire>>
    BY <1>1 DEF Sends
  <2>2. \A c \in C : run[c] = NoRun /\ \A m \in wire' : m.call # c
    BY <2>1, EachCallFits DEF CallFits
  <2>3. "refused" \in Outcome \ {"none"}
    BY DEF Outcome
  <2> QED
    BY <2>1, <2>2, <2>3, SettleKeeps
<1>2. CASE open # {}
  <2>1. PICK l \in open :
           /\ phase' = [c \in Call |-> IF c \in C THEN "pending" ELSE phase[c]]
           /\ asked' = [c \in Call |-> IF c \in C THEN [peer |-> p, link |-> l] ELSE asked[c]]
           /\ wire' = wire \cup [call : C, link : {l}, is : {"request"}]
           /\ UNCHANGED outcome
    BY <1>2 DEF Sends
  <2>2. /\ phase \in [Call -> Phase] /\ outcome \in [Call -> Outcome]
        /\ asked \in [Call -> [peer : Peer \cup {NoServer}, link : 0 .. MaxLinks]]
        /\ wire \subseteq Message /\ run \in [Call -> Execution]
    BY DEF BridgeInvariant, BridgeTypeOK, Message, Execution
  <2>3. /\ l \in 1 .. MaxLinks /\ l # NoLink /\ l \in DOMAIN link'
        /\ link'[l].peer = p /\ link'[l].state = "open"
    <3>1. link' \in Seq(Link) /\ Len(link') <= MaxLinks /\ l \in DOMAIN link'
      BY <2>1 DEF LinksGoOn
    <3>2. l \in 1 .. Len(link') /\ Len(link') \in Nat
      BY <3>1
    <3> QED
      BY <2>1, <3>1, <3>2, BridgeConstants DEF NoLink
  <2>4. PICK a : a = [peer |-> p, link |-> l]
    OBVIOUS
  <2>5. a \in [peer : Peer \cup {NoServer}, link : 0 .. MaxLinks] /\ a.peer = p /\ a.link = l
    BY <2>3, <2>4
  <2>6. \A c \in Call :
           /\ phase'[c] = IF c \in C THEN "pending" ELSE phase[c]
           /\ asked'[c] = IF c \in C THEN a ELSE asked[c]
    BY <2>1, <2>4
  <2>7. BridgeTypeOK'
    <3>1. link' \in Seq(Link) /\ Len(link') <= MaxLinks
      BY DEF LinksGoOn
    <3>2. phase' \in [Call -> Phase]
      BY <2>1, <2>2 DEF Phase
    <3>3. asked' \in [Call -> [peer : Peer \cup {NoServer}, link : 0 .. MaxLinks]]
      <4>1. asked' = [c \in Call |-> IF c \in C THEN a ELSE asked[c]]
        BY <2>1, <2>4
      <4> QED
        BY <2>2, <2>5, <4>1
    <3>4. wire' \subseteq Message
      <4>1. [call : C, link : {l}, is : {"request"}] \subseteq Message
        BY <2>3 DEF Message
      <4> QED
        BY <2>1, <2>2, <4>1
    <3> QED
      BY <2>1, <2>2, <3>1, <3>2, <3>3, <3>4 DEF BridgeTypeOK, ServersFit, Link, Message, Execution
  <2>8. ASSUME NEW c \in Call
        PROVE  CallFits(c)' /\ AnswerStays(c)
    <3>1. CallFits(c)
      BY EachCallFits
    <3>2. CASE c \notin C
      <4>1. \A m \in wire' : m.call = c => m \in wire
        BY <2>1, <3>2
      <4> QED
        BY <2>1, <2>6, <3>1, <3>2, <4>1, CallLeftAlone DEF CallStays
    <3>3. CASE c \in C
      <4>1. /\ phase'[c] = "pending" /\ asked'[c].link = l /\ asked'[c].peer = p
            /\ phase[c] \in {"new", "connecting"}
        BY <2>5, <2>6, <3>3
      <4>2. /\ run[c] = NoRun /\ (\A m \in wire : m.call # c) /\ outcome[c] = "none"
        BY <3>1, <4>1 DEF CallFits
      <4>3. /\ run'[c] = NoRun /\ outcome'[c] = "none"
        BY <2>1, <4>2
      <4>4. \A m \in wire' : m.call = c => m \in [call : C, link : {l}, is : {"request"}]
        BY <2>1, <4>2
      <4>5. ASSUME NEW m \in wire', m.call = c
            PROVE  /\ m.link = l /\ m.is = "request"
                   /\ \A n \in wire' : n.call = c => n = m
        BY <4>4, <4>5
      <4>6. CallFits(c)'
        BY <2>3, <4>1, <4>3, <4>5 DEF CallFits
      <4> QED
        BY <2>3, <4>1, <4>6 DEF AnswerStays
    <3> QED
      BY <3>2, <3>3
  <2> QED
    BY <2>7, <2>8
<1> QED
  BY <1>1, <1>2

(* Steps that change what is known of the servers, and links.               *)
LEMMA CallsLeftAlone ==
    ASSUME BridgeInvariant, LinksGoOn, ServersFit',
           UNCHANGED <<phase, asked, outcome, wire, run>>,
           \A c \in Call : LinkStays(c)
    PROVE  BridgeTypeOK' /\ \A c \in Call : CallFits(c)' /\ AnswerStays(c)
<1>1. BridgeTypeOK'
  <2>1. link' \in Seq(Link) /\ Len(link') <= MaxLinks
    BY DEF LinksGoOn
  <2> QED
    BY <2>1 DEF BridgeInvariant, BridgeTypeOK, ServersFit, Link
<1>2. \A c \in Call : CallFits(c) /\ CallStays(c)
  BY EachCallFits DEF CallStays
<1> QED
  BY <1>1, <1>2, CallLeftAlone

(* What the steps below need of the invariant.                              *)
LEMMA BridgeFacts ==
    ASSUME BridgeInvariant
    PROVE  /\ ServersFit /\ link \in Seq(Link) /\ Len(link) <= MaxLinks
           /\ phase \in [Call -> Phase] /\ outcome \in [Call -> Outcome]
           /\ asked \in [Call -> [peer : Peer \cup {NoServer}, link : 0 .. MaxLinks]]
           /\ wire \subseteq Message /\ run \in [Call -> Execution]
           /\ \A c \in Call : phase[c] = "pending" => asked[c].link \in DOMAIN link
           /\ \A l \in DOMAIN link : link[l] \in Link
           /\ UNCHANGED link => LinksGoOn
<1>1. /\ ServersFit /\ link \in Seq(Link) /\ Len(link) <= MaxLinks
      /\ phase \in [Call -> Phase] /\ outcome \in [Call -> Outcome]
      /\ asked \in [Call -> [peer : Peer \cup {NoServer}, link : 0 .. MaxLinks]]
      /\ wire \subseteq Message /\ run \in [Call -> Execution]
  BY BridgeTypes DEF BridgeInvariant
<1>2. \A c \in Call : phase[c] = "pending" => asked[c].link \in DOMAIN link
  BY EachCallFits DEF CallFits
<1>3. \A l \in DOMAIN link : link[l] \in Link
  BY <1>1
<1>4. UNCHANGED link => LinksGoOn
  BY <1>1 DEF LinksGoOn
<1> QED
  BY <1>1, <1>2, <1>3, <1>4

(* A link that goes was gone: no call loses the link it waits on.           *)
LEMMA LinksStay ==
    ASSUME BridgeInvariant,
           \A k \in DOMAIN link : link'[k].state = "gone" => link[k].state = "gone"
    PROVE  \A c \in Call : LinkStays(c)
BY BridgeFacts DEF LinkStays

(* Who leads.                                                               *)
LEMMA ServersKeep ==
    ASSUME BridgeInvariant, LeaderTurns \/ PeerTurns
    PROVE  BridgeTypeOK' /\ \A c \in Call : CallFits(c)' /\ AnswerStays(c)
<1>1. UNCHANGED <<known, link, phase, asked, outcome, wire, run, stage>>
  BY DEF LeaderTurns, PeerTurns
<1>2. ServersFit'
  <2>1. /\ leader \in Peer \cup {Self, NoServer} /\ known \subseteq Peer /\ leads \subseteq Peer
        /\ stage \in Stage /\ turns \in 0 .. MaxTurns
    BY BridgeFacts DEF ServersFit
  <2>2. turns' \in 0 .. MaxTurns
    BY <2>1, BridgeConstants DEF LeaderTurns, PeerTurns
  <2>3. leader' \in Peer \cup {Self, NoServer} /\ leads' \subseteq Peer
    BY <2>1 DEF LeaderTurns, PeerTurns
  <2> QED
    BY <1>1, <2>1, <2>2, <2>3 DEF ServersFit
<1>3. LinksGoOn /\ \A c \in Call : LinkStays(c)
  BY <1>1, BridgeFacts, LinksStay
<1> QED
  BY <1>1, <1>2, <1>3, CallsLeftAlone

(* A peer connects or is found and dialled, a link hears or closes, or      *)
(* close() shuts and forgets the links.                                     *)
LEMMA LinksKeep ==
    ASSUME BridgeInvariant,
           \/ \E p \in Peer : Accepts(p) \/ Discovers(p)
           \/ \E l \in DOMAIN link : Hears(l) \/ LinkCloses(l)
           \/ ClosesLinks \/ ForgetsPeers
    PROVE  BridgeTypeOK' /\ \A c \in Call : CallFits(c)' /\ AnswerStays(c)
<1>1. UNCHANGED <<leader, leads, phase, asked, outcome, wire, run, turns>>
  BY DEF Accepts, Discovers, Hears, LinkCloses, ClosesLinks, ForgetsPeers
<1>2. ASSUME NEW p \in Peer, Accepts(p) \/ Discovers(p)
      PROVE  /\ LinksGoOn
             /\ \A k \in DOMAIN link : link'[k].state = "gone" => link[k].state = "gone"
  <2>1. Made(p, FALSE, "open") \in Link /\ Made(p, TRUE, "connecting") \in Link
    BY MadeIsLink DEF LinkState
  <2>2. \/ UNCHANGED link
        \/ \E x \in Link : Len(link) < MaxLinks /\ link' = Append(link, x)
    BY <1>2, <2>1 DEF Accepts, Discovers, Dials
  <2>3. CASE UNCHANGED link
    BY <2>3, BridgeFacts
  <2>4. ASSUME NEW x \in Link, Len(link) < MaxLinks, link' = Append(link, x)
        PROVE  LinksGoOn /\ \A k \in DOMAIN link : link'[k] = link[k]
    BY <2>4, BridgeFacts, LinkIsMade
  <2> QED
    BY <2>2, <2>3, <2>4
<1>3. ASSUME NEW l \in DOMAIN link, Hears(l) \/ LinkCloses(l)
      PROVE  /\ LinksGoOn
             /\ \A k \in DOMAIN link : link'[k].state = "gone" => link[k].state = "gone"
  <2>1. link[l] \in Link
    BY BridgeFacts
  <2>2. PICK x : x = IF Hears(l) THEN [link[l] EXCEPT !.heard = TRUE]
                     ELSE [link[l] EXCEPT !.state = "closing"]
    OBVIOUS
  <2>3. /\ x \in Link /\ x.peer = link[l].peer /\ (x.state = link[l].state \/ x.state = "closing")
    BY <2>1, <2>2 DEF Link, LinkState
  <2>4. link' = [link EXCEPT ![l] = x]
    BY <1>3, <2>2 DEF Hears, LinkCloses, Names
  <2> QED
    BY <2>3, <2>4, BridgeFacts, LinkChanges
<1>4. ASSUME ClosesLinks
      PROVE  /\ LinksGoOn
             /\ \A k \in DOMAIN link : link'[k].state = "gone" => link[k].state = "gone"
  BY <1>4, BridgeFacts, ShutLinksGoOn DEF ClosesLinks
<1>5. ASSUME ForgetsPeers
      PROVE  /\ LinksGoOn
             /\ \A k \in DOMAIN link : link'[k].state = "gone" => link[k].state = "gone"
  <2>1. PICK f : f = [k \in DOMAIN link |-> [link[k] EXCEPT !.heard = FALSE, !.held = FALSE]]
    OBVIOUS
  <2>2. DOMAIN f = DOMAIN link /\ link' = [k \in DOMAIN link |-> f[k]]
    BY <1>5, <2>1 DEF ForgetsPeers
  <2>3. ASSUME NEW k \in DOMAIN link
        PROVE  f[k] \in Link /\ f[k].peer = link[k].peer /\ f[k].state = link[k].state
    <3>1. link[k] \in Link /\ f[k] = [link[k] EXCEPT !.heard = FALSE, !.held = FALSE]
      BY <2>1, BridgeFacts
    <3> QED
      BY <3>1 DEF Link
  <2>4. LinksGoOn /\ \A k \in DOMAIN link : link'[k] = f[k]
    BY <2>2, <2>3, BridgeFacts, LinksChange
  <2> QED
    BY <2>3, <2>4
<1>6. LinksGoOn /\ \A c \in Call : LinkStays(c)
  BY <1>2, <1>3, <1>4, <1>5, LinksStay
<1>7. ServersFit'
  <2>1. /\ leader \in Peer \cup {Self, NoServer} /\ known \subseteq Peer /\ leads \subseteq Peer
        /\ stage \in Stage /\ turns \in 0 .. MaxTurns
    BY BridgeFacts DEF ServersFit
  <2>2. \A l \in DOMAIN link : link[l].peer \in Peer
    BY BridgeFacts DEF Link
  <2>3. known' \subseteq Peer
    BY <2>1, <2>2 DEF Accepts, Discovers, Hears, Names, LinkCloses, ClosesLinks, ForgetsPeers
  <2>4. stage' \in Stage
    BY <2>1 DEF Accepts, Discovers, Hears, LinkCloses, ClosesLinks, ForgetsPeers, Stage
  <2> QED
    BY <1>1, <2>1, <2>3, <2>4 DEF ServersFit
<1> QED
  BY <1>1, <1>6, <1>7, CallsLeftAlone

(* A connection opens or fails, and the call that awaits it goes on.        *)
LEMMA ConnectedKeeps ==
    ASSUME BridgeInvariant, NEW l \in DOMAIN link, Opened(l) \/ DidNotOpen(l)
    PROVE  BridgeTypeOK' /\ \A c \in Call : CallFits(c)' /\ AnswerStays(c)
<1>1. /\ link[l].state = "connecting" /\ link[l].peer \in Peer /\ link[l] \in Link
      /\ UNCHANGED <<leader, leads, run, stage, turns>>
      /\ known' \subseteq known \cup {link[l].peer}
  BY BridgeFacts DEF Opened, DidNotOpen, Link
<1>2. ServersFit'
  BY <1>1, BridgeFacts DEF ServersFit
<1>3. PICK C : C = Waiting(link[l].peer)
  OBVIOUS
<1>4. \A c \in C : c \in Call /\ phase[c] \in {"new", "connecting"}
  BY <1>3 DEF Waiting
<1>5. \A c \in Call : phase[c] = "pending" => asked[c].link \in DOMAIN link /\ asked[c].link # l
  BY <1>1, EachCallFits DEF CallFits
<1>6. \E x \in Link, open \in SUBSET DOMAIN link :
         /\ x.peer = link[l].peer /\ x.state # "connecting"
         /\ link' = [link EXCEPT ![l] = x]
         /\ open \subseteq IF x.state = "open" THEN OpenLinks(x.peer) \cup {l} ELSE OpenLinks(x.peer)
         /\ Sends(C, x.peer, open)
  <2>1. CASE Opened(l)
    <3>1. PICK heard \in BOOLEAN :
             /\ link' = [link EXCEPT ![l].state = "open", ![l].heard = heard, ![l].held = TRUE]
             /\ GoesOn(link[l].peer, IF heard THEN OpenLinks(link[l].peer) \cup {l}
                                     ELSE OpenLinks(link[l].peer))
      BY <2>1 DEF Opened
    <3>2. PICK x : x = [link[l] EXCEPT !.state = "open", !.heard = heard, !.held = TRUE]
      OBVIOUS
    <3>3. x \in Link /\ x.peer = link[l].peer /\ x.state = "open"
      BY <1>1, <3>2 DEF Link, LinkState
    <3>4. link' = [link EXCEPT ![l] = x]
      BY <3>1, <3>2
    <3>5. PICK open : open = IF stage = "closed" THEN {}
                             ELSE IF heard THEN OpenLinks(link[l].peer) \cup {l}
                                  ELSE OpenLinks(link[l].peer)
      OBVIOUS
    <3>6. Sends(C, link[l].peer, open)
      BY <1>3, <3>1, <3>5 DEF GoesOn
    <3>7. open \in SUBSET DOMAIN link
      BY <3>5 DEF OpenLinks, InState
    <3> QED
      BY <3>3, <3>4, <3>5, <3>6, <3>7
  <2>2. CASE DidNotOpen(l)
    <3>1. /\ link' = [link EXCEPT ![l].state = "gone"]
          /\ GoesOn(link[l].peer, OpenLinks(link[l].peer))
      BY <2>2 DEF DidNotOpen
    <3>2. PICK x : x = [link[l] EXCEPT !.state = "gone"]
      OBVIOUS
    <3>3. x \in Link /\ x.peer = link[l].peer /\ x.state = "gone"
      BY <1>1, <3>2 DEF Link, LinkState
    <3>4. link' = [link EXCEPT ![l] = x]
      BY <3>1, <3>2
    <3>5. PICK open : open = IF stage = "closed" THEN {} ELSE OpenLinks(link[l].peer)
      OBVIOUS
    <3>6. Sends(C, link[l].peer, open)
      BY <1>3, <3>1, <3>5 DEF GoesOn
    <3>7. open \in SUBSET DOMAIN link
      BY <3>5 DEF OpenLinks, InState
    <3> QED
      BY <3>3, <3>4, <3>5, <3>6, <3>7
  <2> QED
    BY <2>1, <2>2
<1>7. PICK x \in Link, open \in SUBSET DOMAIN link :
         /\ x.peer = link[l].peer /\ x.state # "connecting"
         /\ link' = [link EXCEPT ![l] = x]
         /\ open \subseteq IF x.state = "open" THEN OpenLinks(x.peer) \cup {l} ELSE OpenLinks(x.peer)
         /\ Sends(C, x.peer, open)
  BY <1>6
<1>8. /\ LinksGoOn /\ DOMAIN link' = DOMAIN link
      /\ \A k \in DOMAIN link : link'[k] = IF k = l THEN x ELSE link[k]
  BY <1>7, BridgeFacts, LinkChanges
<1>9. \A k \in open : k \in DOMAIN link' /\ link'[k].peer = x.peer /\ link'[k].state = "open"
  BY <1>1, <1>7, <1>8 DEF OpenLinks, InState
<1>10. \A c \in Call : LinkStays(c)
  BY <1>5, <1>8 DEF LinkStays
<1> QED
  BY <1>1, <1>2, <1>4, <1>7, <1>8, <1>9, <1>10, SendsKeeps

(* A link is gone, and the calls that wait on it for the leader fail.       *)
LEMMA LinkGoesKeeps ==
    ASSUME BridgeInvariant, NEW l \in DOMAIN link, LinkGoes(l)
    PROVE  BridgeTypeOK' /\ \A c \in Call : CallFits(c)' /\ AnswerStays(c)
<1>1. /\ UNCHANGED <<leader, known, leads, asked, run, stage, turns>>
      /\ wire' \subseteq wire
  BY DEF LinkGoes
<1>2. /\ LinksGoOn
      /\ \A k \in DOMAIN link : k # l => link'[k] = link[k]
  <2>1. PICK x : x = [link[l] EXCEPT !.state = "gone", !.heard = FALSE, !.held = FALSE]
    OBVIOUS
  <2>2. x \in Link /\ x.peer = link[l].peer /\ x.state # "connecting"
    <3>1. link[l] \in Link
      BY BridgeFacts
    <3> QED
      BY <2>1, <3>1 DEF Link, LinkState
  <2>3. link' = [link EXCEPT ![l] = x]
    BY <2>1 DEF LinkGoes
  <2> QED
    BY <2>2, <2>3, BridgeFacts, LinkChanges
<1>3. ServersFit'
  BY <1>1, BridgeFacts DEF ServersFit
<1>4. PICK C : C = RejectedWith(l)
  OBVIOUS
<1>5. \A c \in C : c \in Call /\ phase[c] \notin {"done", "local"}
  BY <1>4 DEF RejectedWith
<1>6. Settle(C, "failed") /\ "failed" \in Outcome \ {"none"}
  BY <1>4 DEF LinkGoes, Outcome
<1>7. ASSUME NEW c \in Call \ C
      PROVE  LinkStays(c)
  <2>1. ASSUME phase[c] = "pending", asked[c].peer = leader', link[asked[c].link].held
        PROVE  asked[c].link \in DOMAIN link /\ asked[c].link # l
    <3>1. asked[c].link \in DOMAIN link /\ link[asked[c].link].peer = leader
      BY <1>1, <2>1, EachCallFits DEF CallFits
    <3> QED
      BY <1>4, <1>7, <2>1, <3>1 DEF RejectedWith
  <2> QED
    BY <1>2, <2>1 DEF LinkStays
<1> QED
  BY <1>1, <1>2, <1>3, <1>5, <1>6, <1>7, SettleKeeps

(* Calls that wait time out or fail when the manager closes, and a call to  *)
(* a leader that is no peer is refused.                                     *)
LEMMA GivenUpKeeps ==
    ASSUME BridgeInvariant,
           Closes \/ \E c \in Call : NoPeerToAsk(c) \/ TimesOut(c)
    PROVE  BridgeTypeOK' /\ \A c \in Call : CallFits(c)' /\ AnswerStays(c)
<1>1. UNCHANGED <<leader, known, leads, asked, wire, run, turns>>
  BY DEF Closes, NoPeerToAsk, TimesOut
<1>2. LinksGoOn /\ wire' \subseteq wire /\ \A c \in Call : LinkStays(c)
  <2>1. LinksShut \/ UNCHANGED link
    BY DEF Closes, NoPeerToAsk, TimesOut
  <2>2. LinksGoOn /\ \A k \in DOMAIN link : link'[k].state = "gone" => link[k].state = "gone"
    BY <2>1, BridgeFacts, ShutLinksGoOn
  <2> QED
    BY <1>1, <2>2, LinksStay
<1>3. ServersFit'
  <2>1. stage' \in Stage
    BY BridgeFacts DEF Closes, NoPeerToAsk, TimesOut, ServersFit, Stage
  <2> QED
    BY <1>1, <2>1, BridgeFacts DEF ServersFit
<1>4. CASE Closes
  <2>1. PICK C : C = {c \in Call : phase[c] = "pending"}
    OBVIOUS
  <2>2. Settle(C, "failed") /\ "failed" \in Outcome \ {"none"}
    BY <1>4, <2>1 DEF Closes, Outcome
  <2> QED
    BY <1>1, <1>2, <1>3, <2>1, <2>2, SettleKeeps
<1>5. ASSUME NEW c \in Call, TimesOut(c)
      PROVE  BridgeTypeOK' /\ \A d \in Call : CallFits(d)' /\ AnswerStays(d)
  <2>1. Settle({c}, "failed") /\ "failed" \in Outcome \ {"none"} /\ phase[c] = "pending"
    BY <1>5 DEF TimesOut, Outcome
  <2> QED
    BY <1>1, <1>2, <1>3, <2>1, SettleKeeps
<1>6. ASSUME NEW c \in Call, NoPeerToAsk(c)
      PROVE  BridgeTypeOK' /\ \A d \in Call : CallFits(d)' /\ AnswerStays(d)
  <2>1. Settle({c}, "refused") /\ "refused" \in Outcome \ {"none"} /\ phase[c] = "new"
    BY <1>6 DEF NoPeerToAsk, Outcome
  <2>2. run[c] = NoRun /\ \A m \in wire' : m.call # c
    BY <1>1, <2>1, EachCallFits DEF CallFits
  <2> QED
    BY <1>1, <1>2, <1>3, <2>1, <2>2, SettleKeeps
<1> QED
  BY <1>4, <1>5, <1>6

(* A message is on a link that was made.                                    *)
LEMMA ResponseLink ==
    ASSUME BridgeInvariant, NEW m \in wire
    PROVE  m.link \in DOMAIN link
<1>1. m.call \in Call /\ m.link \in 1 .. MaxLinks
  BY BridgeFacts DEF Message
<1>2. m.link # NoLink
  BY <1>1 DEF NoLink
<1> QED
  BY <1>1, <1>2, EachCallFits DEF CallFits

(* An answer arrives, and counts if its call still waits.                   *)
LEMMA ResponseKeeps ==
    ASSUME BridgeInvariant, NEW m \in wire, ReceiveResponse(m)
    PROVE  BridgeTypeOK' /\ \A c \in Call : CallFits(c)' /\ AnswerStays(c)
<1>1. /\ UNCHANGED <<leader, leads, asked, run, stage, turns>>
      /\ wire' = wire \ {m} /\ m.is # "request" /\ Names(m.link)
  BY DEF ReceiveResponse
<1>2. LinksGoOn /\ wire' \subseteq wire /\ \A c \in Call : LinkStays(c)
  <2>1. m.link \in DOMAIN link
    BY ResponseLink
  <2>2. PICK x : x = [link[m.link] EXCEPT !.heard = TRUE]
    OBVIOUS
  <2>3. x \in Link /\ x.peer = link[m.link].peer /\ x.state = link[m.link].state
    BY <2>1, <2>2, BridgeFacts DEF Link
  <2>4. link' = [link EXCEPT ![m.link] = x]
    BY <1>1, <2>2 DEF Names
  <2>5. LinksGoOn /\ \A k \in DOMAIN link : link'[k].state = "gone" => link[k].state = "gone"
    BY <2>1, <2>3, <2>4, BridgeFacts, LinkChanges
  <2> QED
    BY <1>1, <2>5, LinksStay
<1>3. ServersFit'
  <2>1. known' \subseteq Peer
    BY <1>1, ResponseLink, BridgeFacts DEF Names, Link, ServersFit
  <2> QED
    BY <1>1, <2>1, BridgeFacts DEF ServersFit
<1>4. m.call \in Call /\ m.is \in {"refused", "failed", "result"}
  BY <1>1, BridgeFacts DEF Message
<1>5. PICK o : o = m.is
  OBVIOUS
<1>6. PICK C : C = {m.call} \cap {c \in Call : phase[c] = "pending"}
  OBVIOUS
<1>7. Settle(C, o) /\ o \in Outcome \ {"none"}
  BY <1>4, <1>5, <1>6 DEF ReceiveResponse, Outcome
<1>8. \A c \in C : c = m.call /\ c \in Call /\ phase[c] = "pending"
  BY <1>6
<1>9. CallFits(m.call)
  BY <1>4, EachCallFits
<1>10. o = "refused" => \A c \in C : run[c] = NoRun /\ \A n \in wire' : n.call # c
  BY <1>1, <1>5, <1>8, <1>9 DEF CallFits
<1>11. o = "result" => \A c \in C : /\ run[c].waits = {} /\ run[c].entries # {}
                                     /\ run[c].at \in {asked[c].peer, Self} \ {NoServer}
  <2>1. ASSUME NEW c \in C, o = "result"
        PROVE  asked[c].peer # NoServer
    <3>1. asked[c].link \in DOMAIN link /\ link[asked[c].link].peer = asked[c].peer
      BY <1>8, <1>9, <2>1 DEF CallFits
    <3>2. link[asked[c].link] \in Link
      BY <3>1, BridgeFacts
    <3> QED
      BY <3>1, <3>2, BridgeConstants DEF Link
  <2> QED
    BY <1>5, <1>8, <1>9, <2>1 DEF CallFits
<1> QED
  BY <1>1, <1>2, <1>3, <1>7, <1>8, <1>10, <1>11, SettleKeeps

(* A call leaves at once, or dials the leader.                              *)
LEMMA ForwardKeeps ==
    ASSUME BridgeInvariant, NEW c \in Call, Forwards(c) \/ ForwardsWhenConnected(c)
    PROVE  BridgeTypeOK' /\ \A d \in Call : CallFits(d)' /\ AnswerStays(d)
<1>1. /\ phase[c] = "new" /\ leader \in Peer
      /\ UNCHANGED <<leader, known, leads, run, stage, turns>>
  BY BridgeFacts DEF Forwards, ForwardsWhenConnected, ServersFit
<1>2. ServersFit'
  BY <1>1, BridgeFacts DEF ServersFit
<1>3. CASE Forwards(c)
  <2> PICK C, open : C = {c} /\ open = OpenLinks(leader)
    OBVIOUS
  <2>1. Sends(C, leader, open) /\ UNCHANGED link
    BY <1>3 DEF Forwards
  <2>2. \A l \in open : l \in DOMAIN link' /\ link'[l].peer = leader /\ link'[l].state = "open"
    BY <2>1 DEF OpenLinks, InState
  <2>3. LinksGoOn
    BY <2>1, BridgeFacts
  <2>4. \A d \in C : d \in Call /\ phase[d] \in {"new", "connecting"}
    BY <1>1
  <2>5. \A d \in Call : LinkStays(d)
    BY <2>1, LinksStay
  <2> QED
    BY <1>1, <1>2, <2>1, <2>2, <2>3, <2>4, <2>5, SendsKeeps
<1>4. CASE ForwardsWhenConnected(c)
  <2>1. /\ phase' = [phase EXCEPT ![c] = "connecting"]
        /\ asked' = [asked EXCEPT ![c].peer = leader]
        /\ UNCHANGED <<outcome, wire>>
    BY <1>4 DEF ForwardsWhenConnected
  <2>2. /\ LinksGoOn
        /\ \A k \in DOMAIN link : link'[k] = link[k]
    <3>1. Made(leader, TRUE, "connecting") \in Link
      BY <1>1, MadeIsLink DEF LinkState
    <3> QED
      BY <1>4, <3>1, BridgeFacts, LinkIsMade DEF ForwardsWhenConnected, Dials
  <2>3. PICK a : a = [asked[c] EXCEPT !.peer = leader]
    OBVIOUS
  <2>4. /\ a \in [peer : Peer \cup {NoServer}, link : 0 .. MaxLinks] /\ a.link = asked[c].link
    BY <1>1, <2>3, BridgeFacts
  <2>5. /\ asked' = [asked EXCEPT ![c] = a]
        /\ \A d \in Call : asked'[d] = IF d = c THEN a ELSE asked[d]
        /\ \A d \in Call : phase'[d] = IF d = c THEN "connecting" ELSE phase[d]
    BY <2>1, <2>3, BridgeFacts
  <2>6. BridgeTypeOK'
    <3>1. link' \in Seq(Link) /\ Len(link') <= MaxLinks
      BY <2>2 DEF LinksGoOn
    <3>2. phase' \in [Call -> Phase]
      BY <2>1, BridgeFacts DEF Phase
    <3>3. asked' \in [Call -> [peer : Peer \cup {NoServer}, link : 0 .. MaxLinks]]
      BY <2>4, <2>5, BridgeFacts
    <3>4. outcome' \in [Call -> Outcome] /\ wire' \subseteq Message /\ run' \in [Call -> Execution]
      BY <1>1, <2>1, BridgeFacts
    <3> QED
      BY <1>2, <3>1, <3>2, <3>3, <3>4 DEF BridgeTypeOK, ServersFit, Link, Message, Execution
  <2>7. ASSUME NEW d \in Call, d # c
        PROVE  CallFits(d)' /\ AnswerStays(d)
    <3>1. CallFits(d) /\ CallStays(d)
      BY <1>1, <2>1, <2>5, <2>7, EachCallFits DEF CallStays
    <3>2. LinkStays(d)
      BY <2>2, LinksStay
    <3> QED
      BY <2>2, <3>1, <3>2, CallLeftAlone
  <2>8. CallFits(c)' /\ AnswerStays(c)
    <3>1. /\ phase'[c] = "connecting" /\ asked'[c].link = NoLink /\ run'[c] = NoRun
          /\ outcome'[c] = "none" /\ \A m \in wire' : m.call # c
      BY <1>1, <2>1, <2>4, <2>5, EachCallFits DEF CallFits
    <3> QED
      BY <1>1, <3>1 DEF CallFits, AnswerStays
  <2> QED
    BY <2>6, <2>7, <2>8
<1> QED
  BY <1>3, <1>4

(* Where a call can go: clients.                                            *)
LEMMA GoesToClients == \A c : \A T \in Goes(c) : T \subseteq Target
BY BridgeConstants DEF Goes

(* An execution begins or goes on.                                          *)
LEMMA RunChanges ==
    ASSUME run \in [Call -> Execution], NEW c \in Call, NEW r \in Execution,
           run' = [run EXCEPT ![c] = r]
    PROVE  /\ run' \in [Call -> Execution]
           /\ \A d \in Call : run'[d] = IF d = c THEN r ELSE run[d]
OBVIOUS

(* The other calls when only one is concerned.                              *)
LEMMA OtherCalls ==
    ASSUME BridgeInvariant, NEW c \in Call, UNCHANGED <<leader, link, asked>>,
           \A d \in Call \ {c} : /\ phase'[d] = phase[d] /\ outcome'[d] = outcome[d]
                                /\ run'[d] = run[d],
           \A m \in wire' : m \in wire \/ m.call = c,
           CallFits(c)', AnswerStays(c)
    PROVE  \A d \in Call : CallFits(d)' /\ AnswerStays(d)
<1>1. ASSUME NEW d \in Call, d # c
      PROVE  CallFits(d)' /\ AnswerStays(d)
  <2>1. CallFits(d) /\ CallStays(d)
    BY <1>1, EachCallFits DEF CallStays
  <2>2. LinksGoOn /\ LinkStays(d)
    BY BridgeFacts, LinksStay
  <2> QED
    BY <2>1, <2>2, CallLeftAlone
<1> QED
  BY <1>1

(* A call runs here.                                                        *)
LEMMA RunsHereKeeps ==
    ASSUME BridgeInvariant, NEW c \in Call, RunsHere(c)
    PROVE  BridgeTypeOK' /\ \A d \in Call : CallFits(d)' /\ AnswerStays(d)
<1>1. /\ phase[c] = "new"
      /\ UNCHANGED <<leader, known, leads, link, asked, wire, stage, turns>>
  BY DEF RunsHere
<1>2. PICK T \in Goes(c) :
         /\ Starts(c, Self, NoLink, T)
         /\ phase' = [phase EXCEPT ![c] = IF T = {} THEN "done" ELSE "local"]
         /\ outcome' = [outcome EXCEPT ![c] = IF T = {} THEN "failed" ELSE @]
  BY DEF RunsHere
<1>3. T \subseteq Target
  BY GoesToClients
<1>4. PICK r : r = [at |-> Self, over |-> NoLink, waits |-> T, entries |-> {}]
  OBVIOUS
<1>5. r \in Execution /\ r.at = Self /\ r.waits = T
  <2>1. NoLink \in 0 .. MaxLinks
    BY BridgeConstants DEF NoLink
  <2> QED
    BY <1>3, <1>4, <2>1 DEF Execution
<1>6. run' = [run EXCEPT ![c] = r]
  BY <1>2, <1>4 DEF Starts
<1>7. /\ run' \in [Call -> Execution]
      /\ \A d \in Call : run'[d] = IF d = c THEN r ELSE run[d]
  BY <1>5, <1>6, BridgeFacts, RunChanges
<1>8. /\ asked[c].link = NoLink /\ outcome[c] = "none" /\ \A m \in wire : m.call # c
  BY <1>1, EachCallFits DEF CallFits
<1>9. /\ phase' \in [Call -> Phase] /\ outcome' \in [Call -> Outcome]
      /\ phase'[c] = IF T = {} THEN "done" ELSE "local"
      /\ outcome'[c] = IF T = {} THEN "failed" ELSE "none"
      /\ \A d \in Call \ {c} : phase'[d] = phase[d] /\ outcome'[d] = outcome[d]
  <2>1. phase \in [Call -> Phase] /\ outcome \in [Call -> Outcome]
    BY BridgeFacts
  <2>2. PICK p \in Phase : p = IF T = {} THEN "done" ELSE "local"
    BY DEF Phase
  <2>3. PICK o \in Outcome : o = IF T = {} THEN "failed" ELSE outcome[c]
    BY <2>1 DEF Outcome
  <2>4. phase' = [phase EXCEPT ![c] = p] /\ outcome' = [outcome EXCEPT ![c] = o]
    BY <1>2, <2>2, <2>3
  <2> QED
    BY <1>8, <2>1, <2>2, <2>3, <2>4
<1>10. BridgeTypeOK'
  BY <1>1, <1>7, <1>9, BridgeFacts DEF BridgeTypeOK, ServersFit, Link, Message, Execution
<1>11. CallFits(c)' /\ AnswerStays(c)
  <2>1. run'[c] = r /\ asked'[c].link = NoLink /\ wire' = wire
    BY <1>1, <1>7, <1>8
  <2> QED
    BY <1>1, <1>5, <1>8, <1>9, <2>1 DEF CallFits, AnswerStays
<1> QED
  BY <1>1, <1>7, <1>9, <1>10, <1>11, OtherCalls

(* A request arrives: the peer refuses it, or runs it and may fail at once. *)
LEMMA RequestKeeps ==
    ASSUME BridgeInvariant, NEW m \in wire, ReceiveRequest(m)
    PROVE  BridgeTypeOK' /\ \A d \in Call : CallFits(d)' /\ AnswerStays(d)
<1>1. /\ UNCHANGED <<leader, known, leads, link, phase, asked, outcome, stage, turns>>
      /\ m.is = "request"
  BY DEF ReceiveRequest
<1>2. PICK c : c = m.call
  OBVIOUS
<1>3. PICK l : l = m.link
  OBVIOUS
<1>4. PICK p : p = link[l].peer
  OBVIOUS
<1>5. c \in Call /\ l \in 1 .. MaxLinks /\ m \in Message
  BY <1>2, <1>3, BridgeFacts DEF Message
<1>6. CallFits(c)
  BY <1>5, EachCallFits
<1>7. /\ asked[c].link = l /\ l # NoLink /\ run[c] = NoRun
      /\ \A n \in wire : n.call = c => n = m
  BY <1>1, <1>2, <1>3, <1>5, <1>6 DEF CallFits, NoLink
<1>8. p = asked[c].peer /\ p \in Peer
  <2>1. l \in DOMAIN link /\ link[l].peer = asked[c].peer
    BY <1>6, <1>7 DEF CallFits
  <2> QED
    BY <1>4, <2>1, BridgeFacts DEF Link
<1>9. phase[c] \notin {"new", "connecting"} /\ outcome[c] \notin {"refused", "result"}
  <2>1. NoRun.at = NoServer
    BY DEF NoRun
  <2> QED
    BY <1>2, <1>6, <1>7, <2>1 DEF CallFits
<1>10. AnswerStays(c)
  BY <1>1 DEF AnswerStays
<1>11. ASSUME run' = run,
              \/ wire' = wire \ {m}
              \/ wire' = (wire \ {m}) \cup {[m EXCEPT !.is = "refused"]}
       PROVE  BridgeTypeOK' /\ \A d \in Call : CallFits(d)' /\ AnswerStays(d)
  <2>1. PICK n \in Message : n = [m EXCEPT !.is = "refused"]
    BY <1>5 DEF Message
  <2>2. n.call = c /\ n.link = l /\ n.is = "refused"
    BY <1>2, <1>3, <1>5, <2>1 DEF Message
  <2>3. \A k \in wire' : (k \in wire /\ k # m) \/ k = n
    BY <1>11, <2>1
  <2>4. wire' \subseteq Message
    BY <2>3, BridgeFacts
  <2>5. BridgeTypeOK'
    BY <1>1, <1>11, <2>4, BridgeFacts DEF BridgeTypeOK, ServersFit, Link, Message, Execution
  <2>6. \A k \in wire' : k.call = c => k = n
    BY <1>7, <2>3
  <2>7. CallFits(c)'
    BY <1>1, <1>6, <1>7, <1>9, <1>11, <2>2, <2>6 DEF CallFits
  <2>8. \A k \in wire' : k \in wire \/ k.call = c
    BY <2>2, <2>3
  <2> QED
    BY <1>1, <1>5, <1>10, <1>11, <2>5, <2>7, <2>8, OtherCalls
<1>12. ASSUME NEW T \in Goes(c), Starts(c, p, l, T),
              \/ wire' = wire \ {m}
              \/ T = {} /\ wire' = (wire \ {m}) \cup {[m EXCEPT !.is = "failed"]}
       PROVE  BridgeTypeOK' /\ \A d \in Call : CallFits(d)' /\ AnswerStays(d)
  <2>1. PICK n \in Message : n = [m EXCEPT !.is = "failed"]
    BY <1>5 DEF Message
  <2>2. n.call = c /\ n.link = l /\ n.is = "failed"
    BY <1>2, <1>3, <1>5, <2>1 DEF Message
  <2>3. \A k \in wire' : (k \in wire /\ k # m) \/ (k = n /\ T = {})
    BY <1>12, <2>1
  <2>4. wire' \subseteq Message
    BY <2>3, BridgeFacts
  <2>5. PICK r : r = [at |-> p, over |-> l, waits |-> T, entries |-> {}]
    OBVIOUS
  <2>6. r \in Execution /\ r.at = p /\ r.over = l /\ r.waits = T
    <3>1. T \subseteq Target /\ l \in 0 .. MaxLinks
      BY <1>5, GoesToClients
    <3> QED
      BY <1>8, <2>5, <3>1 DEF Execution
  <2>7. run' = [run EXCEPT ![c] = r]
    BY <1>12, <2>5 DEF Starts
  <2>8. /\ run' \in [Call -> Execution]
        /\ \A d \in Call : run'[d] = IF d = c THEN r ELSE run[d]
    BY <1>5, <2>6, <2>7, BridgeFacts, RunChanges
  <2>9. BridgeTypeOK'
    BY <1>1, <2>4, <2>8, BridgeFacts DEF BridgeTypeOK, ServersFit, Link, Message, Execution
  <2>10. \A k \in wire' : k.call = c => k = n /\ T = {}
    BY <1>7, <2>3
  <2>11. run'[c] = r /\ p # Self
    BY <1>5, <1>8, <2>8, BridgeConstants
  <2>12. CallFits(c)'
    BY <1>1, <1>6, <1>7, <1>8, <1>9, <2>2, <2>6, <2>10, <2>11 DEF CallFits
  <2>13. \A k \in wire' : k \in wire \/ k.call = c
    BY <2>2, <2>3
  <2> QED
    BY <1>1, <1>5, <1>10, <2>8, <2>9, <2>12, <2>13, OtherCalls
<1>13. PICK arrives \in Arrives(m.link) :
          LET answer(is) == IF arrives THEN {[m EXCEPT !.is = is]} ELSE {}
          IN  IF p \notin leads
              THEN wire' = (wire \ {m}) \cup answer("refused") /\ UNCHANGED run
              ELSE \E T \in Goes(c) :
                      /\ Starts(c, p, l, T)
                      /\ wire' = (wire \ {m}) \cup (IF T = {} THEN answer("failed") ELSE {})
  BY <1>2, <1>3, <1>4 DEF ReceiveRequest
<1>14. CASE p \notin leads
  BY <1>11, <1>13, <1>14
<1>15. CASE p \in leads
  BY <1>12, <1>13, <1>15
<1> QED
  BY <1>14, <1>15

(* An invocation ends: the execution goes on, or it is over and answered.   *)
LEMMA InvocationKeeps ==
    ASSUME BridgeInvariant, NEW c \in Call, NEW t \in Target, InvocationEnds(c, t)
    PROVE  BridgeTypeOK' /\ \A d \in Call : CallFits(d)' /\ AnswerStays(d)
<1>1. /\ UNCHANGED <<leader, known, leads, link, asked, stage, turns>>
      /\ t \in run[c].waits
  BY DEF InvocationEnds
<1>2. run[c] \in Execution /\ CallFits(c)
  BY BridgeFacts, EachCallFits
<1>3. run[c] # NoRun /\ \A m \in wire : m.call # c
  <2>1. run[c] # NoRun
    BY <1>1 DEF NoRun
  <2> QED
    BY <1>1, <1>2, <2>1 DEF CallFits
<1>4. PICK e : e = run[c]
  OBVIOUS
<1>5. /\ IF e.at = Self THEN phase[c] = "local"
         ELSE asked[c].link # NoLink /\ e.at = asked[c].peer /\ e.over = asked[c].link
      /\ phase[c] \notin {"new", "connecting"} /\ outcome[c] \notin {"refused", "result"}
      /\ e \in Execution
  BY <1>1, <1>2, <1>3, <1>4 DEF CallFits
<1>6. PICK r \in Execution :
         /\ run' = [run EXCEPT ![c] = r] /\ r.at = e.at /\ r.over = e.over
         /\ \/ UNCHANGED <<phase, outcome, wire>>
            \/ \E is \in {"failed", "result"} :
                  /\ r.waits = {} /\ (is = "result" => r.entries # {})
                  /\ Answers(c, e.at, e.over, is)
  <2>1. CASE Fails(c, t)
    <3>1. PICK r : r = [e EXCEPT !.waits = {}, !.entries = {}]
      OBVIOUS
    <3>2. r \in Execution /\ r.at = e.at /\ r.over = e.over /\ r.waits = {}
      BY <1>5, <3>1 DEF Execution
    <3>3. run' = [run EXCEPT ![c] = r] /\ Answers(c, e.at, e.over, "failed")
      BY <1>4, <2>1, <3>1 DEF Fails
    <3> QED
      BY <3>2, <3>3
  <2>2. CASE Returns(c, t)
    <3>1. PICK last \in BOOLEAN : last = (e.waits = {t})
      OBVIOUS
    <3>2. PICK r : r = [e EXCEPT !.waits = @ \ {t}, !.entries = @ \cup {t}]
      OBVIOUS
    <3>3. /\ r \in Execution /\ r.at = e.at /\ r.over = e.over
          /\ r.waits = e.waits \ {t} /\ r.entries # {}
      BY <1>5, <3>2 DEF Execution
    <3>4. /\ run' = [run EXCEPT ![c] = r]
          /\ IF last THEN Answers(c, e.at, e.over, "result") ELSE UNCHANGED <<phase, outcome, wire>>
      BY <1>4, <2>2, <3>1, <3>2 DEF Returns
    <3> QED
      BY <3>1, <3>3, <3>4
  <2> QED
    BY <2>1, <2>2 DEF InvocationEnds
<1>7. /\ run' \in [Call -> Execution]
      /\ \A d \in Call : run'[d] = IF d = c THEN r ELSE run[d]
  BY <1>6, BridgeFacts, RunChanges
<1>8. run'[c] = r
  BY <1>7
<1>9. CASE UNCHANGED <<phase, outcome, wire>>
  <2>1. BridgeTypeOK'
    BY <1>1, <1>7, <1>9, BridgeFacts DEF BridgeTypeOK, ServersFit, Link, Message, Execution
  <2>2. CallFits(c)' /\ AnswerStays(c)
    <3>1. CallFits(c)'
      BY <1>1, <1>2, <1>3, <1>5, <1>6, <1>8, <1>9 DEF CallFits
    <3> QED
      BY <1>1, <1>9, <3>1 DEF AnswerStays
  <2> QED
    BY <1>1, <1>7, <1>9, <2>1, <2>2, OtherCalls
<1>10. ASSUME NEW is \in {"failed", "result"}, r.waits = {}, is = "result" => r.entries # {},
              Answers(c, e.at, e.over, is)
       PROVE  BridgeTypeOK' /\ \A d \in Call : CallFits(d)' /\ AnswerStays(d)
  <2>1. CASE e.at = Self
    <3>1. Settle({c}, is) /\ UNCHANGED wire /\ is \in Outcome
      BY <1>10, <2>1 DEF Answers, Outcome
    <3>2. /\ phase' \in [Call -> Phase] /\ outcome' \in [Call -> Outcome]
          /\ phase'[c] = "done" /\ outcome'[c] = is
          /\ \A d \in Call \ {c} : phase'[d] = phase[d] /\ outcome'[d] = outcome[d]
      BY <3>1, BridgeFacts, SettleSets
    <3>3. BridgeTypeOK'
      BY <1>1, <1>7, <3>1, <3>2, BridgeFacts DEF BridgeTypeOK, ServersFit, Link, Message, Execution
    <3>4. CallFits(c)'
      <4>1. Self # NoServer
        BY BridgeConstants
      <4>2. outcome'[c] = "result" => /\ run'[c].waits = {} /\ run'[c].entries # {}
                                      /\ run'[c].at \in {asked'[c].peer, Self} \ {NoServer}
        BY <1>6, <1>8, <1>10, <2>1, <3>2, <4>1
      <4>3. asked'[c] = asked[c] /\ link' = link /\ \A m \in wire' : m.call # c
        BY <1>1, <1>3, <3>1
      <4>4. run'[c].at = Self /\ run'[c].waits = {}
        BY <1>6, <1>8, <1>10, <2>1
      <4> QED
        BY <1>2, <1>10, <3>2, <4>2, <4>3, <4>4 DEF CallFits
    <3>5. AnswerStays(c)
      BY <1>5, <2>1, <3>2 DEF AnswerStays
    <3> QED
      BY <1>1, <1>7, <3>1, <3>2, <3>3, <3>4, <3>5, OtherCalls
  <2>2. CASE e.at # Self
    <3>1. UNCHANGED <<phase, outcome>>
      BY <1>10, <2>2 DEF Answers
    <3>2. PICK n : n = [call |-> c, link |-> e.over, is |-> is]
      OBVIOUS
    <3>3. n \in Message /\ n.call = c /\ n.link = asked[c].link /\ n.is = is
      <4>1. e.over \in 1 .. MaxLinks
        BY <1>5, <2>2 DEF Execution, NoLink
      <4> QED
        BY <1>5, <2>2, <3>2, <4>1 DEF Message
    <3>4. wire' = wire \/ wire' = wire \cup {n}
      BY <1>10, <2>2, <3>2 DEF Answers
    <3>5. BridgeTypeOK'
      <4>1. wire' \subseteq Message
        BY <3>3, <3>4, BridgeFacts
      <4> QED
        BY <1>1, <1>7, <3>1, <4>1, BridgeFacts DEF BridgeTypeOK, ServersFit, Link, Message, Execution
    <3>6. \A m \in wire' : m.call = c => m = n
      BY <1>3, <3>4
    <3>7. CallFits(c)'
      <4>1. run'[c].at = asked'[c].peer /\ run'[c].over = asked'[c].link /\ asked'[c].link # NoLink
        BY <1>1, <1>5, <1>6, <1>8, <2>2
      <4>2. /\ phase'[c] = phase[c] /\ outcome'[c] = outcome[c] /\ asked'[c] = asked[c]
            /\ link' = link /\ run'[c] = r
        BY <1>1, <1>8, <3>1
      <4> QED
        BY <1>2, <1>5, <1>6, <1>10, <2>2, <3>3, <3>6, <4>1, <4>2 DEF CallFits
    <3>8. AnswerStays(c) /\ \A m \in wire' : m \in wire \/ m.call = c
      BY <1>1, <3>1, <3>3, <3>4 DEF AnswerStays
    <3> QED
      BY <1>1, <1>7, <3>1, <3>5, <3>7, <3>8, OtherCalls
  <2> QED
    BY <2>1, <2>2
<1> QED
  BY <1>6, <1>9, <1>10

(* A connection that is awaited lasts until it opens or fails.              *)
LEMMA ConnectingGoesOn ==
    ASSUME BridgeInvariant, BridgeNext, NEW k \in DOMAIN link, link[k].state = "connecting",
           ~Opened(k), ~DidNotOpen(k)
    PROVE  k \in DOMAIN link' /\ link'[k].peer = link[k].peer /\ link'[k].state = "connecting"
<1>1. DOMAIN link = 1 .. Len(link) /\ Len(link) \in Nat /\ \A l \in DOMAIN link : link[l] \in Link
  BY BridgeFacts
<1>2. CASE \/ Closes \/ ClosesLinks \/ ForgetsPeers
  <2>1. CASE LinksShut
    BY <2>1 DEF LinksShut
  <2>2. CASE UNCHANGED link
    BY <2>2
  <2>3. CASE ForgetsPeers
    <3>1. k \in DOMAIN link' /\ link'[k] = [link[k] EXCEPT !.heard = FALSE, !.held = FALSE]
      BY <2>3 DEF ForgetsPeers
    <3> QED
      BY <1>1, <3>1 DEF Link
  <2> QED
    BY <1>2, <2>1, <2>2, <2>3 DEF Closes, ClosesLinks
<1>3. ASSUME NEW l \in DOMAIN link, Opened(l) \/ DidNotOpen(l) \/ Hears(l) \/ LinkCloses(l) \/ LinkGoes(l)
      PROVE  k \in DOMAIN link' /\ link'[k].peer = link[k].peer /\ link'[k].state = "connecting"
  <2>1. l # k
    BY <1>3 DEF Hears, LinkCloses, LinkGoes, Alive
  <2>2. \E x : link' = [link EXCEPT ![l] = x]
    BY <1>3 DEF Opened, DidNotOpen, Hears, Names, LinkCloses, LinkGoes
  <2> QED
    BY <2>1, <2>2
<1>4. ASSUME NEW p \in Peer, Accepts(p) \/ Discovers(p)
      PROVE  k \in DOMAIN link' /\ link'[k].peer = link[k].peer /\ link'[k].state = "connecting"
  <2>1. UNCHANGED link \/ \E x \in Link : Len(link) < MaxLinks /\ link' = Append(link, x)
    <3>1. Made(p, FALSE, "open") \in Link /\ Made(p, TRUE, "connecting") \in Link
      BY MadeIsLink DEF LinkState
    <3> QED
      BY <1>4, <3>1 DEF Accepts, Discovers, Dials
  <2>2. CASE UNCHANGED link
    BY <2>2
  <2>3. ASSUME NEW x \in Link, Len(link) < MaxLinks, link' = Append(link, x)
        PROVE  k \in DOMAIN link' /\ link'[k] = link[k]
    BY <2>3, BridgeFacts, LinkIsMade DEF LinksGoOn
  <2> QED
    BY <2>1, <2>2, <2>3
<1>5. ASSUME NEW c \in Call, ForwardsWhenConnected(c)
      PROVE  k \in DOMAIN link' /\ link'[k].peer = link[k].peer /\ link'[k].state = "connecting"
  <2>1. leader \in Peer
    BY <1>5, BridgeFacts DEF ForwardsWhenConnected, ServersFit
  <2>2. PICK x \in Link : Len(link) < MaxLinks /\ link' = Append(link, x)
    BY <1>5, <2>1, MadeIsLink DEF ForwardsWhenConnected, Dials, LinkState
  <2>3. k \in DOMAIN link' /\ link'[k] = link[k]
    BY <2>2, BridgeFacts, LinkIsMade DEF LinksGoOn
  <2> QED
    BY <2>3
<1>6. ASSUME NEW m \in wire, ReceiveResponse(m)
      PROVE  k \in DOMAIN link' /\ link'[k].peer = link[k].peer /\ link'[k].state = "connecting"
  <2>1. m.link \in DOMAIN link /\ link' = [link EXCEPT ![m.link].heard = TRUE]
    BY <1>6, ResponseLink DEF ReceiveResponse, Names
  <2> QED
    BY <1>1, <2>1 DEF Link
<1>7. CASE UNCHANGED link
  BY <1>7
<1> QED
  BY <1>2, <1>3, <1>4, <1>5, <1>6, <1>7 DEF BridgeNext, LeaderTurns, PeerTurns, RunsHere, NoPeerToAsk,
     Forwards, TimesOut, InvocationEnds, ReceiveRequest

(* Only a call that dials begins to wait for a connection.                  *)
LEMMA OnlyDiallingWaits ==
    ASSUME BridgeInvariant, BridgeNext, NEW c \in Call, phase'[c] = "connecting"
    PROVE  \/ ForwardsWhenConnected(c)
           \/ phase[c] = "connecting" /\ asked'[c] = asked[c]
<1>1. /\ phase \in [Call -> Phase] /\ outcome \in [Call -> Outcome]
      /\ asked \in [Call -> [peer : Peer \cup {NoServer}, link : 0 .. MaxLinks]]
  BY BridgeFacts
<1>2. ASSUME NEW C, NEW o, Settle(C, o), UNCHANGED asked
      PROVE  phase[c] = "connecting" /\ asked'[c] = asked[c]
  BY <1>1, <1>2 DEF Settle
<1>3. ASSUME NEW C, NEW p, NEW open, Sends(C, p, open)
      PROVE  phase[c] = "connecting" /\ asked'[c] = asked[c]
  <2>1. CASE open = {}
    BY <1>2, <1>3, <2>1 DEF Sends
  <2>2. CASE open # {}
    BY <1>1, <1>3, <2>2 DEF Sends
  <2> QED
    BY <2>1, <2>2
<1>4. CASE UNCHANGED <<phase, asked>>
  BY <1>4
<1>5. ASSUME NEW l \in DOMAIN link, Opened(l) \/ DidNotOpen(l) \/ Hears(l) \/ LinkCloses(l) \/ LinkGoes(l)
      PROVE  phase[c] = "connecting" /\ asked'[c] = asked[c]
  BY <1>2, <1>3, <1>4, <1>5 DEF Opened, DidNotOpen, GoesOn, Hears, LinkCloses, LinkGoes
<1>6. CASE Closes
  BY <1>2, <1>6 DEF Closes
<1>7. ASSUME NEW d \in Call, RunsHere(d) \/ NoPeerToAsk(d) \/ Forwards(d) \/ TimesOut(d)
      PROVE  phase[c] = "connecting" /\ asked'[c] = asked[c]
  <2>1. CASE RunsHere(d)
    BY <1>1, <2>1 DEF RunsHere
  <2> QED
    BY <1>2, <1>3, <1>7, <2>1 DEF NoPeerToAsk, Forwards, TimesOut
<1>8. ASSUME NEW d \in Call, d # c, ForwardsWhenConnected(d)
      PROVE  phase[c] = "connecting" /\ asked'[c] = asked[c]
  BY <1>1, <1>8 DEF ForwardsWhenConnected
<1>9. ASSUME NEW d \in Call, NEW t \in Target, InvocationEnds(d, t)
      PROVE  phase[c] = "connecting" /\ asked'[c] = asked[c]
  BY <1>2, <1>9 DEF InvocationEnds, Fails, Returns, Answers
<1>10. ASSUME NEW m \in wire, ReceiveRequest(m) \/ ReceiveResponse(m)
       PROVE  phase[c] = "connecting" /\ asked'[c] = asked[c]
  BY <1>2, <1>10 DEF ReceiveRequest, ReceiveResponse
<1> QED
  BY <1>4, <1>5, <1>6, <1>7, <1>8, <1>9, <1>10 DEF BridgeNext, LeaderTurns, PeerTurns, ClosesLinks,
     ForgetsPeers, Accepts, Discovers

(* A call whose connection opens or fails waits no more.                    *)
LEMMA NoneWaitsFor ==
    ASSUME BridgeInvariant, NEW l \in DOMAIN link, Opened(l) \/ DidNotOpen(l),
           NEW c \in Call, phase[c] = "connecting", asked[c].peer = link[l].peer
    PROVE  phase'[c] # "connecting"
<1>1. PICK p, C : p = link[l].peer /\ C = Waiting(link[l].peer)
  OBVIOUS
<1>2. c \in C
  BY <1>1 DEF Waiting
<1>3. \E open : Sends(C, p, open)
  BY <1>1 DEF Opened, DidNotOpen, GoesOn
<1> QED
  BY <1>2, <1>3, BridgeFacts DEF Sends, Settle

(* Each connection that is awaited is under way, and awaited by one call.   *)
LEMMA WaitSteps ==
    ASSUME BridgeInvariant, BridgeNext
    PROVE  WaitsForItsOwn'
<1>1. WaitsForItsOwn
  BY DEF BridgeInvariant
<1>2. ASSUME NEW c \in Call, phase'[c] = "connecting", ~ForwardsWhenConnected(c)
      PROVE  /\ phase[c] = "connecting" /\ asked'[c] = asked[c]
             /\ Connecting(asked[c].peer)' # {}
  <2>1. phase[c] = "connecting" /\ asked'[c] = asked[c]
    BY <1>2, OnlyDiallingWaits
  <2>2. PICK k \in DOMAIN link : link[k].peer = asked[c].peer /\ link[k].state = "connecting"
    BY <1>1, <2>1 DEF WaitsForItsOwn, Connecting, InState
  <2>3. ~Opened(k) /\ ~DidNotOpen(k)
    BY <1>2, <2>1, <2>2, NoneWaitsFor
  <2>4. k \in DOMAIN link' /\ link'[k].peer = asked'[c].peer /\ link'[k].state = "connecting"
    BY <2>1, <2>2, <2>3, ConnectingGoesOn
  <2> QED
    BY <2>1, <2>4 DEF Connecting, InState
<1>3. CASE \A c \in Call : ~ForwardsWhenConnected(c)
  BY <1>1, <1>2, <1>3 DEF WaitsForItsOwn
<1>4. ASSUME NEW c \in Call, ForwardsWhenConnected(c)
      PROVE  WaitsForItsOwn'
  <2>1. /\ Connecting(leader) = {} /\ asked'[c].peer = leader /\ leader \in Peer
        /\ \A d \in Call \ {c} : phase'[d] = phase[d] /\ asked'[d] = asked[d]
    <3>1. Connecting(leader) = {} /\ leader \in known
      BY <1>4 DEF ForwardsWhenConnected, MayDial
    <3>2. /\ phase' = [phase EXCEPT ![c] = "connecting"]
          /\ asked' = [asked EXCEPT ![c].peer = leader]
      BY <1>4 DEF ForwardsWhenConnected
    <3> QED
      BY <3>1, <3>2, BridgeFacts DEF ServersFit
  <2>2. Connecting(leader)' # {}
    <3>1. PICK x \in Link : x.peer = leader /\ x.state = "connecting" /\ link' = Append(link, x)
      <4>1. link' = Append(link, Made(leader, TRUE, "connecting"))
        BY <1>4 DEF ForwardsWhenConnected, Dials
      <4>2. PICK x : x = Made(leader, TRUE, "connecting")
        OBVIOUS
      <4>3. x \in Link /\ x.peer = leader /\ x.state = "connecting"
        BY <2>1, <4>2 DEF Made, Link, LinkState
      <4> QED
        BY <4>1, <4>2, <4>3 DEF Made
    <3>2. link \in Seq(Link)
      BY BridgeFacts
    <3>3. Len(link) + 1 \in DOMAIN link' /\ link'[Len(link) + 1] = x
      BY <3>1, <3>2
    <3>4. leader' = leader
      BY <1>4 DEF ForwardsWhenConnected
    <3> QED
      BY <3>1, <3>3, <3>4 DEF Connecting, InState
  <2>3. leader' = leader
    BY <1>4 DEF ForwardsWhenConnected
  <2>4. ASSUME NEW d \in Call \ {c}, phase'[d] = "connecting"
        PROVE  /\ phase[d] = "connecting" /\ asked'[d] = asked[d] /\ asked[d].peer # leader
               /\ Connecting(asked[d].peer)' # {}
    <3>1. phase[d] = "connecting" /\ asked'[d] = asked[d]
      BY <2>1, <2>4
    <3>2. phase'[d] = "connecting" /\ ~ForwardsWhenConnected(d)
      BY <2>4, <3>1 DEF ForwardsWhenConnected
    <3> QED
      BY <1>1, <1>2, <2>1, <3>1, <3>2 DEF WaitsForItsOwn
  <2> QED
    BY <1>1, <2>1, <2>2, <2>3, <2>4 DEF WaitsForItsOwn
<1> QED
  BY <1>3, <1>4

(* Every step keeps the invariant and the answers.                          *)
LEMMA BridgeSteps ==
    ASSUME BridgeInvariant, [BridgeNext]_bridgeVars
    PROVE  BridgeInvariant' /\ \A c \in Call : AnswerStays(c)
<1>1. CASE BridgeNext
  <2>1. BridgeTypeOK' /\ \A c \in Call : CallFits(c)' /\ AnswerStays(c)
    BY <1>1, ServersKeep, LinksKeep, ConnectedKeeps, LinkGoesKeeps, GivenUpKeeps, ResponseKeeps,
       ForwardKeeps, RunsHereKeeps, RequestKeeps, InvocationKeeps DEF BridgeNext
  <2>2. WaitsForItsOwn'
    BY <1>1, WaitSteps
  <2> QED
    BY <2>1, <2>2, FitsIsInvariant
<1>2. CASE UNCHANGED bridgeVars
  <2>1. /\ UNCHANGED <<leader, known, leads, link, phase, asked, outcome, wire, run, stage, turns>>
    BY <1>2 DEF bridgeVars
  <2>2. ServersFit' /\ LinksGoOn /\ \A c \in Call : LinkStays(c)
    BY <2>1, BridgeFacts, LinksStay DEF ServersFit
  <2>3. BridgeTypeOK' /\ \A c \in Call : CallFits(c)' /\ AnswerStays(c)
    BY <2>1, <2>2, CallsLeftAlone
  <2>4. WaitsForItsOwn'
    BY <2>1 DEF BridgeInvariant, WaitsForItsOwn, Connecting, InState
  <2> QED
    BY <2>3, <2>4, FitsIsInvariant
<1> QED
  BY <1>1, <1>2

(* A call that was refused reaches no client, whatever links and leaders    *)
(* do; a result is that of the whole execution at the server that was       *)
(* asked; each request leads to one execution and one answer at most; and   *)
(* a call waits for no connection but one that it has dialled itself.       *)
THEOREM BridgeIsInvariant == BridgeSpec => []BridgeInvariant
<1>1. BridgeInvariant /\ [BridgeNext]_bridgeVars => BridgeInvariant'
  BY BridgeSteps
<1> QED
  BY <1>1, BridgeStarts, PTL DEF BridgeSpec

(* rejectPendingRpcRequests and the timers answer a call once, and no call  *)
(* is left to its timer when its link to the leader goes, unless close()    *)
(* has forgotten the link.                                                  *)
THEOREM CallsAreAnsweredOnce == BridgeSpec => AnsweredOnce
<1>1. BridgeInvariant /\ [BridgeNext]_bridgeVars
      => [\A c \in Call :
             /\ phase[c] = "done" => phase'[c] = "done" /\ outcome'[c] = outcome[c]
             /\ phase'[c] = "pending" /\ asked'[c].peer = leader'
                   => LET l == asked'[c].link
                      IN  link'[l].state = "gone" => link[l].state = "gone" \/ ~link[l].held]_bridgeVars
  BY BridgeSteps DEF AnswerStays
<1> QED
  BY <1>1, BridgeIsInvariant, PTL DEF BridgeSpec, AnsweredOnce
=============================================================================
