----------------------- MODULE UpstreamMirror_proofs -----------------------
(* Proofs about UpstreamMirror.  First what a step does to one mirror and   *)
(* its chain, as facts about the pair, then what it does to the rest.      *)
EXTENDS UpstreamMirror, FiniteSetTheorems, TLAPS

-----------------------------------------------------------------------------
(* Chains of tasks.                                                        *)

(* What Tail does to a sequence.                                            *)
LEMMA TailOf ==
    ASSUME NEW S, NEW t \in Seq(S), t # <<>>
    PROVE  /\ Tail(t) \in Seq(S)
           /\ Len(t) \in Nat \ {0}
           /\ Len(Tail(t)) = Len(t) - 1
           /\ \A i \in 1 .. Len(t) - 1 : Tail(t)[i] = t[i + 1]
           /\ Head(t) = t[1]
           /\ Head(t) \in S
  OBVIOUS

(* What concatenation does to two sequences.                                *)
LEMMA ConcatOf ==
    ASSUME NEW S, NEW t \in Seq(S), NEW u \in Seq(S)
    PROVE  /\ t \o u \in Seq(S)
           /\ Len(t) \in Nat /\ Len(u) \in Nat
           /\ Len(t \o u) = Len(t) + Len(u)
           /\ \A i \in 1 .. Len(t) : (t \o u)[i] = t[i]
           /\ \A i \in 1 .. Len(u) : (t \o u)[Len(t) + i] = u[i]
  OBVIOUS

(* What Append does to a sequence.                                          *)
LEMMA AppendOf ==
    ASSUME NEW S, NEW t \in Seq(S), NEW e \in S
    PROVE  /\ Append(t, e) \in Seq(S)
           /\ Len(t) \in Nat
           /\ Len(Append(t, e)) = Len(t) + 1
           /\ \A i \in 1 .. Len(t) : Append(t, e)[i] = t[i]
           /\ Append(t, e)[Len(t) + 1] = e
  OBVIOUS

(* A sequence is empty when it has no length.                               *)
LEMMA EmptyOf ==
    ASSUME NEW S, NEW t \in Seq(S)
    PROVE  /\ Len(t) \in Nat
           /\ t = <<>> <=> Len(t) = 0
           /\ \A i \in 1 .. Len(t) : t[i] \in S
  OBVIOUS

(* A task is done: the removals behind it stay, and so does the last task.  *)
LEMMA TailKeeps ==
    ASSUME NEW t \in Seq(Task), t # <<>>
    PROVE  /\ Removes(t) /\ Syncs(Head(t)) => Removes(Tail(t))
           /\ RemovesLater(t) => Removes(Tail(t))
           /\ Tail(t) # <<>> => Tail(t)[Len(Tail(t))] = t[Len(t)]
           /\ Tail(t) = <<>> => t[Len(t)] = Head(t)
           /\ (\A i \in 1 .. Len(t) : ~ Syncs(t[i]))
                => \A i \in 1 .. Len(Tail(t)) : ~ Syncs(Tail(t)[i])
<1>0. /\ Tail(t) \in Seq(Task)
      /\ Len(t) \in Nat \ {0}
      /\ Len(Tail(t)) = Len(t) - 1
      /\ \A i \in 1 .. Len(t) - 1 : Tail(t)[i] = t[i + 1]
      /\ Head(t) = t[1]
  BY TailOf
<1>e. Tail(t) = <<>> <=> Len(Tail(t)) = 0
  BY <1>0, EmptyOf
<1>1. ASSUME RemovesLater(t) PROVE Removes(Tail(t))
  <2>1. PICK i \in 2 .. Len(t) : ~ Syncs(t[i])
    BY <1>1 DEF RemovesLater
  <2>2. i - 1 \in 1 .. Len(t) - 1 /\ (i - 1) + 1 = i
    BY <1>0, <2>1
  <2>3. Tail(t)[i - 1] = t[i]
    BY <1>0, <2>2
  <2> QED BY <1>0, <2>1, <2>2, <2>3 DEF Removes
<1>2. Removes(t) /\ Syncs(Head(t)) => RemovesLater(t)
  BY <1>0 DEF Removes, RemovesLater
<1>3. Tail(t) # <<>> => Tail(t)[Len(Tail(t))] = t[Len(t)]
  <2>1. ASSUME Len(Tail(t)) # 0 PROVE Len(t) - 1 \in 1 .. Len(t) - 1 /\ (Len(t) - 1) + 1 = Len(t)
    BY <1>0, <2>1
  <2> QED BY <1>0, <1>e, <2>1
<1>4. Tail(t) = <<>> => t[Len(t)] = Head(t)
  BY <1>0, <1>e
<1>5. ASSUME \A i \in 1 .. Len(t) : ~ Syncs(t[i]), NEW i \in 1 .. Len(Tail(t))
      PROVE  ~ Syncs(Tail(t)[i])
  <2>1. i + 1 \in 1 .. Len(t) /\ i \in 1 .. Len(t) - 1
    BY <1>0
  <2> QED BY <1>0, <1>5, <2>1
<1> QED BY <1>1, <1>2, <1>3, <1>4, <1>5

(* Tasks are queued: the head and the removals stay, the last task is a new *)
(* one.                                                                     *)
LEMMA ConcatKeeps ==
    ASSUME NEW t \in Seq(Task), NEW u \in Seq(Task), u # <<>>
    PROVE  /\ t \o u \in Seq(Task)
           /\ t \o u # <<>>
           /\ t # <<>> => Head(t \o u) = Head(t)
           /\ Removes(t) => Removes(t \o u)
           /\ RemovesLater(t) => RemovesLater(t \o u)
           /\ (t \o u)[Len(t \o u)] = u[Len(u)]
           /\ (\A i \in 1 .. Len(t) : ~ Syncs(t[i])) /\ (\A i \in 1 .. Len(u) : ~ Syncs(u[i]))
                => \A i \in 1 .. Len(t \o u) : ~ Syncs((t \o u)[i])
           /\ Removes(u) => Removes(t \o u)
           /\ t # <<>> /\ Removes(u) => RemovesLater(t \o u)
<1> PICK w : w = t \o u
  OBVIOUS
<1>0. /\ w \in Seq(Task)
      /\ Len(t) \in Nat /\ Len(u) \in Nat
      /\ Len(w) = Len(t) + Len(u)
      /\ \A i \in 1 .. Len(t) : w[i] = t[i]
      /\ \A i \in 1 .. Len(u) : w[Len(t) + i] = u[i]
  BY ConcatOf
<1>1. Len(u) > 0
  BY <1>0, EmptyOf
<1>2. w # <<>>
  BY <1>0, <1>1, EmptyOf
<1>3. t # <<>> => Head(w) = Head(t)
  <2>1. Head(w) = w[1]
    BY <1>0, <1>2, TailOf
  <2>2. t # <<>> => Head(t) = t[1] /\ 1 \in 1 .. Len(t)
    BY <1>0, TailOf
  <2> QED BY <2>1, <2>2, <1>0
<1>4. Removes(t) => Removes(w)
  <2> SUFFICES ASSUME NEW i \in 1 .. Len(t), ~ Syncs(t[i]) PROVE Removes(w)
    BY DEF Removes
  <2>1. i \in 1 .. Len(w)
    BY <1>0
  <2> QED BY <1>0, <2>1 DEF Removes
<1>5. RemovesLater(t) => RemovesLater(w)
  <2> SUFFICES ASSUME NEW i \in 2 .. Len(t), ~ Syncs(t[i]) PROVE RemovesLater(w)
    BY DEF RemovesLater
  <2>1. i \in 2 .. Len(w) /\ i \in 1 .. Len(t)
    BY <1>0
  <2> QED BY <1>0, <2>1 DEF RemovesLater
<1>6. w[Len(w)] = u[Len(u)]
  BY <1>0, <1>1
<1>7. ASSUME \A i \in 1 .. Len(t) : ~ Syncs(t[i]), \A i \in 1 .. Len(u) : ~ Syncs(u[i]),
             NEW i \in 1 .. Len(w)
      PROVE  ~ Syncs(w[i])
  <2>1. CASE i \in 1 .. Len(t)
    BY <1>0, <1>7, <2>1
  <2>2. CASE ~ i \in 1 .. Len(t)
    <3>1. i - Len(t) \in 1 .. Len(u) /\ Len(t) + (i - Len(t)) = i
      BY <1>0, <2>2
    <3> QED BY <1>0, <1>7, <3>1
  <2> QED BY <2>1, <2>2
<1>8. ASSUME NEW i \in 1 .. Len(u), ~ Syncs(u[i])
      PROVE  Removes(w) /\ (t # <<>> => RemovesLater(w))
  <2>1. Len(t) + i \in 1 .. Len(w) /\ w[Len(t) + i] = u[i]
    BY <1>0
  <2>2. t # <<>> => Len(t) + i \in 2 .. Len(w)
    BY <1>0, EmptyOf
  <2> QED BY <1>8, <2>1, <2>2 DEF Removes, RemovesLater
<1>9. Removes(u) => Removes(w) /\ (t # <<>> => RemovesLater(w))
  BY <1>8 DEF Removes
<1> QED BY <1>0, <1>2, <1>3, <1>4, <1>5, <1>6, <1>7, <1>9

-----------------------------------------------------------------------------
(* One mirror m and its chain t become n and u; gone: its proxy is closed.  *)

KeepsCell(m, t, n, u, gone) ==
    /\ u \in Seq(Task)
    /\ Fits(n, u)
    /\ gone /\ LetsGo(m, t) => LetsGo(n, u)
    /\ Inert(m, t, gone) => Inert(n, u, gone)

(* A sync opens a socket after the old mirror is gone.                      *)
LEMMA CellConnects ==
    ASSUME NEW m \in Mirror, NEW n \in Mirror, NEW t \in Seq(Task), NEW gone \in BOOLEAN,
           Fits(m, t), t # <<>>, m.link \notin {"open", "opening"},
           m.link = "none" => ~ (Syncs(Head(t)) /\ gone), Syncs(Head(t)),
           n.kept, n.link = "opening", ~ n.heard, n.version = Head(t).version,
           n.stage = "connecting"
    PROVE  KeepsCell(m, t, n, t, gone) /\ Outcome(n, t) = Outcome(m, t)
<1>1. m.link \in {"none", "closing"}
  BY DEF Mirror
<1>2. Fits(n, t)
  BY DEF Fits
<1>3. gone /\ LetsGo(m, t) => LetsGo(n, t)
  BY <1>1 DEF LetsGo
<1>4. ~ Inert(m, t, gone)
  <2>1. Len(t) > 0 /\ Head(t) = t[1]
    BY TailOf
  <2> QED BY <1>1, <2>1, TailOf DEF Inert
<1>5. Outcome(n, t) = Outcome(m, t)
  BY DEF Outcome
<1> QED BY <1>2, <1>3, <1>4, <1>5 DEF KeepsCell

(* A removal forgets a mirror that has no socket any more.                  *)
LEMMA CellForgets ==
    ASSUME NEW m \in Mirror, NEW n \in Mirror, NEW t \in Seq(Task), NEW gone \in BOOLEAN,
           Fits(m, t), t # <<>>, m.link \notin {"open", "opening"}, ~ Syncs(Head(t)),
           n.link = "none", n.stage = "ready"
    PROVE  KeepsCell(m, t, n, Tail(t), gone) /\ Outcome(n, Tail(t)) = Outcome(m, t)
<1>0. Tail(t) \in Seq(Task)
  BY TailOf
<1>1. Fits(n, Tail(t))
  BY DEF Fits
<1>2. LetsGo(n, Tail(t))
  BY DEF LetsGo
<1>3. Inert(m, t, gone) => Inert(n, Tail(t), gone)
  BY TailKeeps DEF Inert
<1>4. Outcome(n, Tail(t)) = Outcome(m, t)
  <2>1. CASE Tail(t) = <<>>
    BY <2>1, TailKeeps DEF Outcome
  <2>2. CASE Tail(t) # <<>>
    BY <2>2, TailKeeps DEF Outcome
  <2> QED BY <2>1, <2>2
<1> QED BY <1>0, <1>1, <1>2, <1>3, <1>4 DEF KeepsCell

(* A sync does nothing in a closed proxy.                                   *)
LEMMA CellSkips ==
    ASSUME NEW m \in Mirror, NEW t \in Seq(Task), t # <<>>, Fits(m, t), m.stage = "ready",
           Syncs(Head(t))
    PROVE  KeepsCell(m, t, m, Tail(t), TRUE)
<1>0. Tail(t) \in Seq(Task)
  BY TailOf
<1>1. m.link \in {"none", "open"}
  BY DEF Mirror, Fits
<1>2. Fits(m, Tail(t))
  BY <1>1 DEF Fits
<1>3. LetsGo(m, t) => LetsGo(m, Tail(t))
  BY <1>1, TailKeeps DEF LetsGo
<1>4. Inert(m, t, TRUE) => Inert(m, Tail(t), TRUE)
  BY <1>1 DEF Inert
<1> QED BY <1>0, <1>2, <1>3, <1>4 DEF KeepsCell

(* A task closes the socket of the mirror it finds.                         *)
LEMMA CellDisconnects ==
    ASSUME NEW m \in Mirror, NEW n \in Mirror, NEW t \in Seq(Task), NEW gone \in BOOLEAN,
           t # <<>>, Fits(m, t), m.link = "open", ~ (Syncs(Head(t)) /\ gone),
           n.link = "closing", n.stage = "disconnecting", n.heard = m.heard
    PROVE  KeepsCell(m, t, n, t, gone) /\ Outcome(n, t) = Outcome(m, t)
<1>1. Fits(n, t)
  BY DEF Fits
<1>2. gone /\ LetsGo(m, t) => LetsGo(n, t)
  BY DEF LetsGo
<1>3. Inert(m, t, gone) => Inert(n, t, gone)
  <2>1. Len(t) > 0 /\ Head(t) = t[1]
    BY TailOf
  <2> QED BY <2>1, TailOf DEF Inert
<1>4. Outcome(n, t) = Outcome(m, t)
  BY DEF Outcome
<1> QED BY <1>1, <1>2, <1>3, <1>4 DEF KeepsCell

(* The socket of a sync opens.                                              *)
LEMMA CellOpens ==
    ASSUME NEW m \in Mirror, NEW n \in Mirror, NEW t \in Seq(Task), NEW gone \in BOOLEAN,
           Fits(m, t), m.link = "opening",
           n.kept = m.kept, n.link = "open", n.stage = "ready", n.version = m.version
    PROVE  KeepsCell(m, t, n, Tail(t), gone) /\ Outcome(n, Tail(t)) = Outcome(m, t)
<1>0. t # <<>> /\ m.kept /\ Syncs(Head(t)) /\ m.version = Head(t).version
  BY DEF Fits
<1>t. Tail(t) \in Seq(Task)
  BY <1>0, TailOf
<1>1. Fits(n, Tail(t))
  BY <1>0 DEF Fits
<1>2. LetsGo(m, t) => LetsGo(n, Tail(t))
  BY <1>0, TailKeeps DEF LetsGo
<1>3. ~ Inert(m, t, gone)
  BY DEF Inert
<1>4. Outcome(n, Tail(t)) = Outcome(m, t)
  <2>1. CASE Tail(t) = <<>>
    BY <1>0, <2>1, TailKeeps DEF Outcome
  <2>2. CASE Tail(t) # <<>>
    BY <1>0, <2>2, TailKeeps DEF Outcome
  <2> QED BY <2>1, <2>2
<1> QED BY <1>t, <1>1, <1>2, <1>3, <1>4 DEF KeepsCell

(* The socket of a sync does not open.                                      *)
LEMMA CellFails ==
    ASSUME NEW m \in Mirror, NEW n \in Mirror, NEW t \in Seq(Task), NEW gone \in BOOLEAN,
           Fits(m, t), m.link = "opening", n.link = "none", n.stage = "ready"
    PROVE  KeepsCell(m, t, n, Tail(t), gone)
<1>0. t # <<>>
  BY DEF Fits
<1>t. Tail(t) \in Seq(Task)
  BY <1>0, TailOf
<1>1. Fits(n, Tail(t))
  BY DEF Fits
<1>2. LetsGo(n, Tail(t))
  BY DEF LetsGo
<1>3. ~ Inert(m, t, gone)
  BY DEF Inert
<1> QED BY <1>t, <1>1, <1>2, <1>3 DEF KeepsCell

(* The primary handles the registration; a mirror that is inert has none    *)
(* left.                                                                    *)
LEMMA CellIsHeard ==
    ASSUME NEW m \in Mirror, NEW n \in Mirror, NEW t \in Seq(Task), NEW gone \in BOOLEAN,
           Fits(m, t), m.link \in {"open", "closing"}, ~ m.heard,
           n.kept = m.kept, n.link = m.link, n.stage = m.stage, n.version = m.version
    PROVE  KeepsCell(m, t, n, t, gone) /\ Outcome(n, t) = Outcome(m, t)
<1>1. Fits(n, t)
  BY DEF Fits
<1>2. LetsGo(m, t) => LetsGo(n, t)
  BY DEF LetsGo
<1>3. ~ Inert(m, t, gone)
  BY DEF Inert
<1>4. Outcome(n, t) = Outcome(m, t)
  BY DEF Outcome
<1> QED BY <1>1, <1>2, <1>3, <1>4 DEF KeepsCell

(* The socket of a mirror is lost.                                          *)
LEMMA CellDrops ==
    ASSUME NEW m \in Mirror, NEW n \in Mirror, NEW t \in Seq(Task), NEW gone \in BOOLEAN,
           Fits(m, t), m.link = "open", n.link = "none", n.stage = m.stage
    PROVE  KeepsCell(m, t, n, t, gone)
<1>0. m.stage = "ready"
  BY DEF Mirror, Fits
<1>1. Fits(n, t)
  BY <1>0 DEF Fits
<1>2. LetsGo(n, t)
  BY DEF LetsGo
<1>3. Inert(m, t, gone) => Inert(n, t, gone)
  BY DEF Inert
<1> QED BY <1>1, <1>2, <1>3 DEF KeepsCell

(* Tasks are put at the end of the chain.                                  *)
LEMMA CellEnqueues ==
    ASSUME NEW m \in Mirror, NEW t \in Seq(Task), NEW u \in Seq(Task), NEW gone \in BOOLEAN,
           Fits(m, t), u # <<>>
    PROVE  /\ t \o u \in Seq(Task)
           /\ Fits(m, t \o u)
           /\ LetsGo(m, t) => LetsGo(m, t \o u)
           /\ gone \/ (\A i \in 1 .. Len(u) : ~ Syncs(u[i]))
                => (Inert(m, t, gone) => Inert(m, t \o u, gone))
           /\ Outcome(m, t \o u) = IF Syncs(u[Len(u)]) THEN u[Len(u)].version ELSE 0
<1> PICK w : w = t \o u
  OBVIOUS
<1>0. /\ w \in Seq(Task)
      /\ w # <<>>
      /\ t # <<>> => Head(w) = Head(t)
      /\ Removes(t) => Removes(w)
      /\ RemovesLater(t) => RemovesLater(w)
      /\ w[Len(w)] = u[Len(u)]
      /\ (\A i \in 1 .. Len(t) : ~ Syncs(t[i])) /\ (\A i \in 1 .. Len(u) : ~ Syncs(u[i]))
           => \A i \in 1 .. Len(w) : ~ Syncs(w[i])
  BY ConcatKeeps
<1>1. m.link \in {"opening", "closing"} => t # <<>>
  BY DEF Fits
<1>2. Fits(m, w)
  BY <1>0, <1>1 DEF Fits
<1>3. LetsGo(m, t) => LetsGo(m, w)
  BY <1>0, <1>1 DEF LetsGo
<1>4. gone \/ (\A i \in 1 .. Len(u) : ~ Syncs(u[i]))
                => (Inert(m, t, gone) => Inert(m, w, gone))
  BY <1>0, <1>1 DEF Inert
<1>5. Outcome(m, w) = IF Syncs(u[Len(u)]) THEN u[Len(u)].version ELSE 0
  BY <1>0 DEF Outcome
<1> QED BY <1>0, <1>2, <1>3, <1>4, <1>5

-----------------------------------------------------------------------------
(* A step of one mirror: what it may change, and that it keeps the rest.    *)

(* At most the id of the mirror moves, to this mirror or away from it.     *)
HolderStep(x, c) ==
    LET n == mirror'[x][c]
        h == holder[upstreamUrl[x]][c]    g == holder'[upstreamUrl[x]][c]
    IN
    /\ holder' \in [Primary -> [Client -> Proxy \cup {NoProxy}]]
    /\ \A p \in Primary, d \in Client : p # upstreamUrl[x] \/ d # c =>
          holder'[p][d] = holder[p][d]
    /\ g = x \/ (g # x /\ g = IF h = x THEN NoProxy ELSE h)
    /\ g = x => n.heard /\ n.link \in {"open", "closing"}
    /\ g = x /\ h # x => ~ Inert(mirror[x][c], tasks[x][c], x \in closed)

CellStep(x, c) ==
    LET m == mirror[x][c]    n == mirror'[x][c]
        t == tasks[x][c]     u == tasks'[x][c]
        h == holder[upstreamUrl[x]][c]    g == holder'[upstreamUrl[x]][c]
    IN
    /\ x \in DOMAIN upstreamUrl
    /\ mirror' \in [Proxy -> [Client -> Mirror]]
    /\ tasks' \in [Proxy -> [Client -> Seq(Task)]]
    /\ \A y \in Proxy, d \in Client : y # x \/ d # c =>
          mirror'[y][d] = mirror[y][d] /\ tasks'[y][d] = tasks[y][d]
    /\ KeepsCell(m, t, n, u, x \in closed)
    /\ serving' \subseteq serving /\ (<<x, c>> \in serving' => n.link = "open")
    /\ HolderStep(x, c)
    /\ x \notin closed /\ c \notin missed'
         /\ (t = <<>> /\ m.link = "open" /\ m.heard => h = x)
       => /\ Outcome(n, u) = Outcome(m, t)
          /\ u = <<>> /\ n.link = "open" /\ n.heard => g = x
    /\ missed \subseteq missed' /\ missed' \subseteq Client
    /\ orphaned' \subseteq Client
    /\ crash' \in {"none", "sync", "send"}
    /\ drops' \in 0 .. MaxDrops
    /\ UNCHANGED <<clusterVars, cliVars, runtimeVars, overtaken>>

(* The invariants of the CLI are about variables that a step of a mirror    *)
(* does not change.                                                        *)
LEMMA CliIsKept ==
    ASSUME ProxiesInOrder, RoomIsKept, StatesAreFollowed, UNCHANGED <<clusterVars, cliVars>>
    PROVE  ProxiesInOrder' /\ RoomIsKept' /\ StatesAreFollowed'
<1>0. UNCHANGED <<cluster, reconciles, started, unreported, active, phase, current,
                  upstreamUrl, closed>>
  BY DEF clusterVars, cliVars
<1>1. ProxiesInOrder'
  BY <1>0 DEF ProxiesInOrder, Newest
<1>2. RoomIsKept'
  <2>1. MayMakeProxy' = MayMakeProxy
    BY <1>0 DEF MayMakeProxy
  <2> QED BY <1>0, <2>1 DEF RoomIsKept
<1>3. StatesAreFollowed'
  BY <1>0 DEF StatesAreFollowed, FinalState, Newest
<1> QED BY <1>1, <1>2, <1>3

(* The proxies made so far, as indices.                                     *)
LEMMA UrlFacts ==
    ASSUME TypeOK
    PROVE  /\ DOMAIN upstreamUrl = 1 .. Len(upstreamUrl)
           /\ Len(upstreamUrl) \in Nat
           /\ DOMAIN upstreamUrl \subseteq Proxy
           /\ \A x \in DOMAIN upstreamUrl : upstreamUrl[x] \in Primary
           /\ Newest = Len(upstreamUrl)
           /\ \A x \in Proxy : x # NoProxy
  BY ConstantsAssumption DEF TypeOK, Proxy, Newest, NoProxy

(* The tracked proxy was made and not closed.                               *)
LEMMA TrackedIsMade ==
    ASSUME TypeOK, ProxiesInOrder, Tracked # NoProxy
    PROVE  Tracked \in DOMAIN upstreamUrl /\ Tracked \notin closed
<1>1. CASE phase = "syncing"
  BY <1>1, UrlFacts DEF Tracked, ProxiesInOrder, Proxy
<1>2. CASE phase # "syncing"
  BY <1>2, UrlFacts DEF Tracked, ProxiesInOrder, TypeOK, NoProxy
<1> QED BY <1>1, <1>2

(* A step of one mirror keeps the invariant.                                *)
LEMMA CellStepKeeps ==
    ASSUME MirrorInvariant, NEW x \in Proxy, NEW c \in Client, CellStep(x, c)
    PROVE  MirrorInvariant'
<1> USE DEF NoProxy
<1>a. TypeOK /\ CellsFit /\ HoldersAreHeard /\ ProxiesInOrder /\ RoomIsKept
        /\ StatesAreFollowed /\ ClosedLetGo /\ TrackedAgrees
  BY DEF MirrorInvariant
<1>u. UNCHANGED <<cluster, reconciles, started, unreported, active, phase, current,
                  upstreamUrl, closed, version, listed, overtaken>>
  BY DEF CellStep, clusterVars, cliVars, runtimeVars
<1>x. x \in DOMAIN upstreamUrl /\ upstreamUrl[x] \in Primary /\ x # NoProxy
  BY <1>a, UrlFacts DEF CellStep
<1>k. KeepsCell(mirror[x][c], tasks[x][c], mirror'[x][c], tasks'[x][c], x \in closed)
  BY DEF CellStep
<1>o. \A y \in Proxy, d \in Client : y # x \/ d # c =>
          mirror'[y][d] = mirror[y][d] /\ tasks'[y][d] = tasks[y][d]
  BY DEF CellStep
<1>s. serving' \subseteq serving /\ (<<x, c>> \in serving' => mirror'[x][c].link = "open")
  BY DEF CellStep
<1>h. /\ \A p \in Primary, d \in Client : p # upstreamUrl[x] \/ d # c =>
            holder'[p][d] = holder[p][d]
      /\ holder'[upstreamUrl[x]][c] = x
           => mirror'[x][c].heard /\ mirror'[x][c].link \in {"open", "closing"}
      /\ holder'[upstreamUrl[x]][c] # x => holder'[upstreamUrl[x]][c] =
            IF holder[upstreamUrl[x]][c] = x THEN NoProxy ELSE holder[upstreamUrl[x]][c]
      /\ holder'[upstreamUrl[x]][c] = x /\ holder[upstreamUrl[x]][c] # x
           => ~ Inert(mirror[x][c], tasks[x][c], x \in closed)
  BY DEF CellStep, HolderStep
<1>1. TypeOK'
  <2>1. /\ mirror' \in [Proxy -> [Client -> Mirror]]
        /\ tasks' \in [Proxy -> [Client -> Seq(Task)]]
        /\ holder' \in [Primary -> [Client -> Proxy \cup {NoProxy}]]
        /\ missed' \subseteq Client /\ orphaned' \subseteq Client
        /\ crash' \in {"none", "sync", "send"} /\ drops' \in 0 .. MaxDrops
    BY DEF CellStep, HolderStep
  <2> QED BY <1>a, <1>u, <1>s, <2>1 DEF TypeOK
<1>2. CellsFit'
  <2> SUFFICES ASSUME NEW y \in Proxy, NEW d \in Client
               PROVE  /\ Fits(mirror'[y][d], tasks'[y][d])
                      /\ <<y, d>> \in serving' => mirror'[y][d].link = "open" /\ d \in listed
                      /\ y \notin DOMAIN upstreamUrl =>
                            mirror'[y][d] = NoMirror /\ tasks'[y][d] = <<>>
    BY <1>u DEF CellsFit
  <2>1. CASE y = x /\ d = c
    BY <1>a, <1>k, <1>s, <1>x, <2>1 DEF KeepsCell, CellsFit
  <2>2. CASE y # x \/ d # c
    BY <1>a, <1>o, <1>s, <2>2 DEF CellsFit
  <2> QED BY <2>1, <2>2
<1>3. HoldersAreHeard'
  <2> SUFFICES ASSUME NEW p \in Primary, NEW d \in Client, holder'[p][d] # NoProxy
               PROVE  /\ holder'[p][d] \in DOMAIN upstreamUrl
                      /\ upstreamUrl[holder'[p][d]] = p
                      /\ mirror'[holder'[p][d]][d].heard
                      /\ mirror'[holder'[p][d]][d].link \in {"open", "closing"}
    BY <1>u DEF HoldersAreHeard
  <2>1. CASE p = upstreamUrl[x] /\ d = c /\ holder'[p][d] = x
    BY <1>h, <1>x, <2>1
  <2>2. CASE ~ (p = upstreamUrl[x] /\ d = c /\ holder'[p][d] = x)
    <3>1. holder'[p][d] = holder[p][d] /\ (holder[p][d] # x \/ d # c)
      <4>1. CASE p = upstreamUrl[x] /\ d = c
        BY <1>h, <2>2, <4>1
      <4>2. CASE d # c
        BY <1>h, <4>2
      <4>3. CASE p # upstreamUrl[x] /\ d = c
        BY <1>a, <1>h, <4>3 DEF HoldersAreHeard
      <4> QED BY <4>1, <4>2, <4>3
    <3>2. /\ holder[p][d] \in DOMAIN upstreamUrl
          /\ upstreamUrl[holder[p][d]] = p
          /\ mirror[holder[p][d]][d].heard
          /\ mirror[holder[p][d]][d].link \in {"open", "closing"}
      BY <1>a, <3>1 DEF HoldersAreHeard
    <3>3. holder[p][d] \in Proxy
      BY <1>a, <3>2, UrlFacts
    <3>4. mirror'[holder[p][d]][d] = mirror[holder[p][d]][d]
      BY <1>o, <3>1, <3>3
    <3> QED BY <3>1, <3>2, <3>4
  <2> QED BY <2>1, <2>2
<1>4. ProxiesInOrder' /\ RoomIsKept' /\ StatesAreFollowed'
  BY <1>a, CliIsKept DEF CellStep
<1>5. ClosedLetGo'
  <2> SUFFICES ASSUME NEW y \in closed, NEW d \in Client, <<y, d>> \notin overtaken
               PROVE  LetsGo(mirror'[y][d], tasks'[y][d])
    BY <1>u DEF ClosedLetGo
  <2>0. y \in Proxy
    BY <1>a DEF TypeOK
  <2>1. LetsGo(mirror[y][d], tasks[y][d])
    BY <1>a DEF ClosedLetGo
  <2>2. CASE y = x /\ d = c
    BY <1>k, <2>1, <2>2 DEF KeepsCell
  <2>3. CASE y # x \/ d # c
    BY <1>o, <2>0, <2>1, <2>3
  <2> QED BY <2>2, <2>3
<1>6. TrackedAgrees'
  <2>0. Tracked' = Tracked
    BY <1>u DEF Tracked, Newest
  <2> SUFFICES ASSUME Tracked # NoProxy, NEW d \in Client \ missed'
               PROVE  Agrees(Tracked, d)'
    BY <1>a, <1>u, <2>0 DEF TrackedAgrees
  <2> PICK z : z = Tracked
    OBVIOUS
  <2>z. z \in DOMAIN upstreamUrl /\ z \notin closed /\ z \in Proxy
          /\ upstreamUrl[z] \in Primary
    BY <1>a, TrackedIsMade, UrlFacts
  <2>1. Agrees(z, d)
    BY <1>a DEF TrackedAgrees, CellStep
  <2>2. /\ Outcome(mirror[z][d], tasks[z][d]) = IF d \in listed THEN version[d] ELSE 0
        /\ tasks[z][d] = <<>> /\ mirror[z][d].link = "open" /\ mirror[z][d].heard
              => holder[upstreamUrl[z]][d] = z
        /\ \A y \in DOMAIN upstreamUrl : y # z /\ upstreamUrl[y] = upstreamUrl[z]
              => Inert(mirror[y][d], tasks[y][d], y \in closed)
    BY <2>1 DEF Agrees
  <2>3. /\ Outcome(mirror'[z][d], tasks'[z][d]) = Outcome(mirror[z][d], tasks[z][d])
        /\ tasks'[z][d] = <<>> /\ mirror'[z][d].link = "open" /\ mirror'[z][d].heard
              => holder'[upstreamUrl[z]][d] = z
    <3>1. CASE z = x /\ d = c
      BY <2>2, <2>z, <3>1 DEF CellStep
    <3>2. CASE z # x /\ d = c /\ upstreamUrl[z] = upstreamUrl[x]
      <4>1. Inert(mirror[x][c], tasks[x][c], x \in closed)
        BY <2>2, <1>x, <3>2
      <4> QED BY <1>o, <1>h, <2>2, <2>z, <3>2, <4>1
    <3>3. CASE d # c \/ upstreamUrl[z] # upstreamUrl[x]
      BY <1>o, <1>h, <2>2, <2>z, <3>3
    <3> QED BY <3>1, <3>2, <3>3
  <2>4. ASSUME NEW y \in DOMAIN upstreamUrl, y # z, upstreamUrl[y] = upstreamUrl[z]
        PROVE  Inert(mirror'[y][d], tasks'[y][d], y \in closed)
    <3>0. y \in Proxy
      BY <1>a, UrlFacts
    <3>1. Inert(mirror[y][d], tasks[y][d], y \in closed)
      BY <2>2, <2>4
    <3>2. CASE y = x /\ d = c
      BY <1>k, <3>1, <3>2 DEF KeepsCell
    <3>3. CASE y # x \/ d # c
      BY <1>o, <3>0, <3>1, <3>3
    <3> QED BY <3>2, <3>3
  <2> QED BY <1>u, <2>0, <2>2, <2>3, <2>4 DEF Agrees
<1> QED BY <1>1, <1>2, <1>3, <1>4, <1>5, <1>6 DEF MirrorInvariant

-----------------------------------------------------------------------------
(* The steps of one mirror.                                                *)

(* One entry of a table of two indices is replaced.                         *)
LEMMA CellUpdate ==
    ASSUME NEW A, NEW B, NEW S, NEW f \in [A -> [B -> S]], NEW a \in A, NEW b \in B,
           NEW v \in S, NEW g, g = [f EXCEPT ![a][b] = v]
    PROVE  /\ g \in [A -> [B -> S]]
           /\ g[a][b] = v
           /\ \A y \in A, d \in B : y # a \/ d # b => g[y][d] = f[y][d]
  OBVIOUS

(* What is known of a mirror that takes a step.                            *)
LEMMA CellOf ==
    ASSUME MirrorInvariant, NEW x \in Proxy, NEW c \in Client
    PROVE  /\ mirror[x][c] \in Mirror
           /\ tasks[x][c] \in Seq(Task)
           /\ Fits(mirror[x][c], tasks[x][c])
           /\ <<x, c>> \in serving => mirror[x][c].link = "open"
           /\ (x \in closed) \in BOOLEAN
           /\ mirror[x][c].link # "none" \/ tasks[x][c] # <<>> =>
                /\ x \in DOMAIN upstreamUrl
                /\ upstreamUrl[x] \in Primary
                /\ x # NoProxy
<1>1. TypeOK /\ CellsFit
  BY DEF MirrorInvariant
<1>2. mirror[x][c] \in Mirror /\ tasks[x][c] \in Seq(Task)
  BY <1>1 DEF TypeOK
<1>3. /\ Fits(mirror[x][c], tasks[x][c])
      /\ <<x, c>> \in serving => mirror[x][c].link = "open"
      /\ x \notin DOMAIN upstreamUrl => mirror[x][c] = NoMirror /\ tasks[x][c] = <<>>
  BY <1>1 DEF CellsFit
<1>4. NoMirror.link = "none"
  BY DEF NoMirror
<1> QED BY <1>1, <1>2, <1>3, <1>4, UrlFacts

(* The primary has the id where it was.                                    *)
LEMMA HolderStays ==
    ASSUME MirrorInvariant, NEW x \in DOMAIN upstreamUrl, NEW c \in Client,
           UNCHANGED holder,
           mirror[x][c].heard /\ mirror[x][c].link \in {"open", "closing"} =>
              mirror'[x][c].heard /\ mirror'[x][c].link \in {"open", "closing"}
    PROVE  HolderStep(x, c)
<1>1. TypeOK /\ HoldersAreHeard
  BY DEF MirrorInvariant
<1>2. upstreamUrl[x] \in Primary /\ x \in Proxy /\ x # NoProxy
  BY <1>1, UrlFacts
<1>3. holder[upstreamUrl[x]][c] = x =>
          mirror[x][c].heard /\ mirror[x][c].link \in {"open", "closing"}
  BY <1>1, <1>2 DEF HoldersAreHeard
<1>4. holder \in [Primary -> [Client -> Proxy \cup {NoProxy}]]
  BY <1>1 DEF TypeOK
<1> QED BY <1>2, <1>3, <1>4 DEF HolderStep

(* The primary forgets the mirror.                                         *)
LEMMA HolderForgets ==
    ASSUME MirrorInvariant, NEW x \in DOMAIN upstreamUrl, NEW c \in Client,
           ForgetMirror(x, c)
    PROVE  HolderStep(x, c)
<1>1. TypeOK
  BY DEF MirrorInvariant
<1>2. upstreamUrl[x] \in Primary /\ x \in Proxy /\ x # NoProxy
  BY <1>1, UrlFacts
<1>4. holder \in [Primary -> [Client -> Proxy \cup {NoProxy}]]
  BY <1>1 DEF TypeOK
<1> PICK v : v = IF holder[upstreamUrl[x]][c] = x THEN NoProxy ELSE holder[upstreamUrl[x]][c]
  OBVIOUS
<1>5. v \in Proxy \cup {NoProxy}
  BY <1>2, <1>4
<1>6. holder' = [holder EXCEPT ![upstreamUrl[x]][c] = v]
  BY DEF ForgetMirror
<1>7. /\ holder' \in [Primary -> [Client -> Proxy \cup {NoProxy}]]
      /\ holder'[upstreamUrl[x]][c] = v
      /\ \A p \in Primary, d \in Client : p # upstreamUrl[x] \/ d # c =>
            holder'[p][d] = holder[p][d]
  BY <1>2, <1>4, <1>5, <1>6, CellUpdate
<1> QED BY <1>2, <1>7 DEF HolderStep

(* The mirrored client that a sync connects (upstream-proxy.ts:60-63).      *)
LEMMA ConnectingMirror ==
    ASSUME NEW v \in 0 .. MaxVersion, NEW n,
           n = [kept |-> TRUE, link |-> "opening", heard |-> FALSE, version |-> v,
                stage |-> "connecting"]
    PROVE  /\ n \in Mirror /\ n.kept /\ n.link = "opening" /\ ~ n.heard
           /\ n.version = v /\ n.stage = "connecting"
  BY DEF Mirror

(* What is there before a mirrored client was made.                         *)
LEMMA NoMirrorIsMirror ==
    NoMirror \in Mirror /\ NoMirror.link = "none" /\ NoMirror.stage = "ready"
      /\ ~ NoMirror.heard
<1>1. 0 \in 0 .. MaxVersion
  BY ConstantsAssumption
<1> QED BY <1>1 DEF NoMirror, Mirror

(* What comes after a disconnect, or when there was nothing to disconnect.  *)
LEMMA AfterDisconnectKeeps ==
    ASSUME MirrorInvariant, NEW x \in Proxy, NEW c \in Client, AfterDisconnect(x, c),
           tasks[x][c] # <<>>, mirror[x][c].link \notin {"open", "opening"},
           mirror[x][c].link = "none" => ~ (Syncs(Head(tasks[x][c])) /\ x \in closed)
    PROVE  /\ mirror' \in [Proxy -> [Client -> Mirror]]
           /\ tasks' \in [Proxy -> [Client -> Seq(Task)]]
           /\ \A y \in Proxy, d \in Client : y # x \/ d # c =>
                 mirror'[y][d] = mirror[y][d] /\ tasks'[y][d] = tasks[y][d]
           /\ KeepsCell(mirror[x][c], tasks[x][c], mirror'[x][c], tasks'[x][c], x \in closed)
           /\ Outcome(mirror'[x][c], tasks'[x][c]) = Outcome(mirror[x][c], tasks[x][c])
           /\ mirror'[x][c].link \in {"none", "opening"}
<1> PICK m : m = mirror[x][c]
  OBVIOUS
<1> PICK t : t = tasks[x][c]
  OBVIOUS
<1>0. m \in Mirror /\ t \in Seq(Task) /\ Fits(m, t) /\ (x \in closed) \in BOOLEAN
  BY CellOf
<1>1. /\ mirror \in [Proxy -> [Client -> Mirror]]
      /\ tasks \in [Proxy -> [Client -> Seq(Task)]]
  BY DEF MirrorInvariant, TypeOK
<1>2. CASE Syncs(Head(t))
  <2> PICK v : v = Head(t).version
    OBVIOUS
  <2>0. Head(t) \in Task
    BY <1>0, TailOf
  <2>1. v \in 0 .. MaxVersion
    BY <2>0 DEF Task
  <2> PICK n : n = [kept |-> TRUE, link |-> "opening", heard |-> FALSE, version |-> v,
                    stage |-> "connecting"]
    OBVIOUS
  <2>2. /\ n \in Mirror /\ n.kept /\ n.link = "opening" /\ ~ n.heard
        /\ n.version = v /\ n.stage = "connecting"
    BY <2>1, ConnectingMirror
  <2>3. mirror' = [mirror EXCEPT ![x][c] = n] /\ tasks' = tasks
    BY <1>2 DEF AfterDisconnect
  <2>4. /\ mirror' \in [Proxy -> [Client -> Mirror]]
        /\ mirror'[x][c] = n
        /\ \A y \in Proxy, d \in Client : y # x \/ d # c => mirror'[y][d] = mirror[y][d]
    BY <1>1, <2>2, <2>3, CellUpdate
  <2>5. KeepsCell(m, t, n, t, x \in closed) /\ Outcome(n, t) = Outcome(m, t)
    BY <1>0, <1>2, <2>2, CellConnects
  <2> QED BY <1>1, <2>2, <2>3, <2>4, <2>5
<1>3. CASE ~ Syncs(Head(t))
  <2>1. NoMirror \in Mirror /\ NoMirror.link = "none" /\ NoMirror.stage = "ready"
    BY NoMirrorIsMirror
  <2>2. Tail(t) \in Seq(Task)
    BY <1>0, TailOf
  <2>3. mirror' = [mirror EXCEPT ![x][c] = NoMirror]
        /\ tasks' = [tasks EXCEPT ![x][c] = Tail(t)]
    BY <1>3 DEF AfterDisconnect, Done
  <2>4. /\ mirror' \in [Proxy -> [Client -> Mirror]]
        /\ mirror'[x][c] = NoMirror
        /\ \A y \in Proxy, d \in Client : y # x \/ d # c => mirror'[y][d] = mirror[y][d]
    BY <1>1, <2>1, <2>3, CellUpdate
  <2>5. /\ tasks' \in [Proxy -> [Client -> Seq(Task)]]
        /\ tasks'[x][c] = Tail(t)
        /\ \A y \in Proxy, d \in Client : y # x \/ d # c => tasks'[y][d] = tasks[y][d]
    BY <1>1, <2>2, <2>3, CellUpdate
  <2>6. KeepsCell(m, t, NoMirror, Tail(t), x \in closed)
        /\ Outcome(NoMirror, Tail(t)) = Outcome(m, t)
    BY <1>0, <1>3, <2>1, CellForgets
  <2> QED BY <2>1, <2>4, <2>5, <2>6
<1> QED BY <1>2, <1>3

(* The task at the head of one chain goes.                                  *)
LEMMA DoneKeeps ==
    ASSUME MirrorInvariant, NEW x \in Proxy, NEW c \in Client, Done(x, c),
           tasks[x][c] # <<>>
    PROVE  /\ tasks' \in [Proxy -> [Client -> Seq(Task)]]
           /\ tasks'[x][c] = Tail(tasks[x][c])
           /\ \A y \in Proxy, d \in Client : y # x \/ d # c => tasks'[y][d] = tasks[y][d]
<1>1. tasks \in [Proxy -> [Client -> Seq(Task)]]
  BY DEF MirrorInvariant, TypeOK
<1>2. Tail(tasks[x][c]) \in Seq(Task)
  BY CellOf, TailOf
<1>3. tasks' = [tasks EXCEPT ![x][c] = Tail(tasks[x][c])]
  BY DEF Done
<1> QED BY <1>1, <1>2, <1>3, CellUpdate

(* The types of the mirrors and of their chains.                            *)
LEMMA CellsTyped ==
    ASSUME MirrorInvariant
    PROVE  /\ mirror \in [Proxy -> [Client -> Mirror]]
           /\ tasks \in [Proxy -> [Client -> Seq(Task)]]
  BY DEF MirrorInvariant, TypeOK

(* The variables of the calls, where a step of a mirror leaves them.       *)
LEMMA RestOf ==
    ASSUME MirrorInvariant
    PROVE  /\ missed \subseteq Client /\ orphaned \subseteq Client
           /\ crash \in {"none", "sync", "send"} /\ drops \in 0 .. MaxDrops
           /\ serving \subseteq Proxy \X Client
  BY DEF MirrorInvariant, TypeOK

(* A mirror that loses its socket serves nothing.                           *)
LEMMA SocketLost ==
    ASSUME MirrorInvariant, NEW x \in Proxy, NEW c \in Client, LosesSocket(x, c)
    PROVE  serving' \subseteq serving /\ <<x, c>> \notin serving' /\ orphaned' \subseteq Client
  BY RestOf DEF LosesSocket

(* Each operation of a mirror is such a step: a task begins,                *)
LEMMA StartTaskStep ==
    ASSUME MirrorInvariant, NEW x \in Proxy, NEW c \in Client, StartTask(x, c)
    PROVE  CellStep(x, c)
<1> PICK m : m = mirror[x][c]
  OBVIOUS
<1> PICK t : t = tasks[x][c]
  OBVIOUS
<1>0. t # <<>> /\ m.stage = "ready"
  BY DEF StartTask, TaskReady
<1>1. /\ m \in Mirror /\ t \in Seq(Task) /\ Fits(m, t) /\ (x \in closed) \in BOOLEAN
      /\ <<x, c>> \in serving => m.link = "open"
      /\ x \in DOMAIN upstreamUrl /\ upstreamUrl[x] \in Primary /\ x # NoProxy
  BY <1>0, CellOf
<1>2. m.link \in {"none", "open"}
  BY <1>0, <1>1 DEF Fits, Mirror
<1>3. /\ mirror \in [Proxy -> [Client -> Mirror]]
      /\ tasks \in [Proxy -> [Client -> Seq(Task)]]
  BY DEF MirrorInvariant, TypeOK
<1>4. UNCHANGED <<clusterVars, cliVars, runtimeVars, holder, crash, drops, missed,
                  overtaken>>
  BY DEF StartTask
<1>5. CASE Syncs(Head(t)) /\ x \in closed
  <2>1. Done(x, c) /\ UNCHANGED <<mirror, serving, orphaned>>
    BY <1>5 DEF StartTask
  <2>2. /\ tasks' \in [Proxy -> [Client -> Seq(Task)]]
        /\ tasks'[x][c] = Tail(t)
        /\ \A y \in Proxy, d \in Client : y # x \/ d # c => tasks'[y][d] = tasks[y][d]
    BY <1>0, <2>1, DoneKeeps
  <2>3. KeepsCell(m, t, m, Tail(t), x \in closed)
    <3>1. (x \in closed) = TRUE
      BY <1>5
    <3> QED BY <1>0, <1>1, <1>5, <3>1, CellSkips
  <2>4. HolderStep(x, c)
    BY <1>1, <1>4, <2>1, HolderStays
  <2> QED BY <1>1, <1>3, <1>4, <1>5, <2>1, <2>2, <2>3, <2>4, RestOf DEF CellStep
<1>6. CASE ~ (Syncs(Head(t)) /\ x \in closed) /\ m.link # "open"
  <2>1. AfterDisconnect(x, c) /\ UNCHANGED <<serving, orphaned>>
    BY <1>6 DEF StartTask
  <2>2. /\ mirror' \in [Proxy -> [Client -> Mirror]]
        /\ tasks' \in [Proxy -> [Client -> Seq(Task)]]
        /\ \A y \in Proxy, d \in Client : y # x \/ d # c =>
              mirror'[y][d] = mirror[y][d] /\ tasks'[y][d] = tasks[y][d]
        /\ KeepsCell(m, t, mirror'[x][c], tasks'[x][c], x \in closed)
        /\ Outcome(mirror'[x][c], tasks'[x][c]) = Outcome(m, t)
        /\ mirror'[x][c].link \in {"none", "opening"}
    BY <1>0, <1>2, <1>6, <2>1, AfterDisconnectKeeps
  <2>3. HolderStep(x, c)
    BY <1>1, <1>2, <1>4, <1>6, HolderStays
  <2> QED BY <1>1, <1>4, <1>6, <2>1, <2>2, <2>3, RestOf DEF CellStep
<1>7. CASE ~ (Syncs(Head(t)) /\ x \in closed) /\ m.link = "open"
  <2>1. /\ mirror' = [mirror EXCEPT ![x][c].kept = FALSE, ![x][c].link = "closing",
                                    ![x][c].stage = "disconnecting"]
        /\ LosesSocket(x, c) /\ UNCHANGED tasks
    BY <1>7 DEF StartTask
  <2>n. PICK n : n = [m EXCEPT !.kept = FALSE, !.link = "closing", !.stage = "disconnecting"]
    OBVIOUS
  <2>2. /\ n \in Mirror /\ n.link = "closing" /\ n.stage = "disconnecting"
        /\ n.heard = m.heard
    BY <1>1, <2>n DEF Mirror
  <2>3. mirror' = [mirror EXCEPT ![x][c] = n]
    BY <1>3, <2>1, <2>n
  <2>4. /\ mirror' \in [Proxy -> [Client -> Mirror]]
        /\ mirror'[x][c] = n
        /\ \A y \in Proxy, d \in Client : y # x \/ d # c => mirror'[y][d] = mirror[y][d]
    BY <1>3, <2>2, <2>3, CellUpdate
  <2>5. KeepsCell(m, t, n, t, x \in closed) /\ Outcome(n, t) = Outcome(m, t)
    BY <1>0, <1>1, <1>7, <2>2, CellDisconnects
  <2>6. HolderStep(x, c)
    BY <1>1, <1>4, <2>2, <2>4, HolderStays
  <2>7. serving' \subseteq serving /\ <<x, c>> \notin serving' /\ orphaned' \subseteq Client
    BY <2>1, SocketLost
  <2> QED BY <1>0, <1>1, <1>3, <1>4, <2>1, <2>2, <2>4, <2>5, <2>6, <2>7, RestOf DEF CellStep
<1> QED BY <1>5, <1>6, <1>7

(* the socket that was closed reports its end,                              *)
LEMMA ClosesStep ==
    ASSUME MirrorInvariant, NEW x \in Proxy, NEW c \in Client, Closes(x, c)
    PROVE  CellStep(x, c)
<1> PICK m : m = mirror[x][c]
  OBVIOUS
<1> PICK t : t = tasks[x][c]
  OBVIOUS
<1>0. m.link = "closing" /\ AfterDisconnect(x, c) /\ ForgetMirror(x, c)
      /\ UNCHANGED <<clusterVars, cliVars, runtimeVars, callVars, drops, missed, overtaken>>
  BY DEF Closes
<1>1. /\ m \in Mirror /\ t \in Seq(Task) /\ Fits(m, t) /\ (x \in closed) \in BOOLEAN
      /\ <<x, c>> \in serving => m.link = "open"
      /\ x \in DOMAIN upstreamUrl /\ upstreamUrl[x] \in Primary /\ x # NoProxy
  BY <1>0, CellOf
<1>2. t # <<>>
  BY <1>0, <1>1 DEF Fits
<1>3. /\ mirror' \in [Proxy -> [Client -> Mirror]]
      /\ tasks' \in [Proxy -> [Client -> Seq(Task)]]
      /\ \A y \in Proxy, d \in Client : y # x \/ d # c =>
            mirror'[y][d] = mirror[y][d] /\ tasks'[y][d] = tasks[y][d]
      /\ KeepsCell(m, t, mirror'[x][c], tasks'[x][c], x \in closed)
      /\ Outcome(mirror'[x][c], tasks'[x][c]) = Outcome(m, t)
      /\ mirror'[x][c].link \in {"none", "opening"}
  BY <1>0, <1>1, <1>2, AfterDisconnectKeeps
<1>4. HolderStep(x, c)
  BY <1>0, <1>1, HolderForgets
<1>5. UNCHANGED <<serving, orphaned, crash>>
  BY <1>0 DEF callVars
<1> QED BY <1>0, <1>1, <1>3, <1>4, <1>5, RestOf DEF CellStep

(* the socket opens,                                                        *)
LEMMA OpensStep ==
    ASSUME MirrorInvariant, NEW x \in Proxy, NEW c \in Client, Opens(x, c)
    PROVE  CellStep(x, c)
<1> PICK m : m = mirror[x][c]
  OBVIOUS
<1> PICK t : t = tasks[x][c]
  OBVIOUS
<1>0. /\ m.link = "opening" /\ Done(x, c)
      /\ mirror' = [mirror EXCEPT ![x][c].link = "open", ![x][c].stage = "ready"]
      /\ UNCHANGED <<clusterVars, cliVars, runtimeVars, holder, callVars, drops, missed,
                     overtaken>>
  BY DEF Opens
<1>1. /\ m \in Mirror /\ t \in Seq(Task) /\ Fits(m, t) /\ (x \in closed) \in BOOLEAN
      /\ <<x, c>> \in serving => m.link = "open"
      /\ x \in DOMAIN upstreamUrl /\ upstreamUrl[x] \in Primary /\ x # NoProxy
  BY <1>0, CellOf
<1>2. t # <<>> /\ ~ m.heard
  BY <1>0, <1>1 DEF Fits
<1>n. PICK n : n = [m EXCEPT !.link = "open", !.stage = "ready"]
  OBVIOUS
<1>3. /\ n \in Mirror /\ n.link = "open" /\ n.stage = "ready" /\ n.kept = m.kept
      /\ n.version = m.version /\ ~ n.heard
  BY <1>1, <1>2, <1>n DEF Mirror
<1>4. mirror' = [mirror EXCEPT ![x][c] = n]
  BY <1>0, <1>n DEF MirrorInvariant, TypeOK
<1>5. /\ mirror' \in [Proxy -> [Client -> Mirror]]
      /\ mirror'[x][c] = n
      /\ \A y \in Proxy, d \in Client : y # x \/ d # c => mirror'[y][d] = mirror[y][d]
  BY <1>3, <1>4, CellsTyped, CellUpdate
<1>6. /\ tasks' \in [Proxy -> [Client -> Seq(Task)]]
      /\ tasks'[x][c] = Tail(t)
      /\ \A y \in Proxy, d \in Client : y # x \/ d # c => tasks'[y][d] = tasks[y][d]
  BY <1>0, <1>2, DoneKeeps
<1>7. KeepsCell(m, t, n, Tail(t), x \in closed) /\ Outcome(n, Tail(t)) = Outcome(m, t)
  BY <1>0, <1>1, <1>3, CellOpens
<1>8. HolderStep(x, c)
  BY <1>0, <1>1, HolderStays
<1>9. UNCHANGED <<serving, orphaned, crash>>
  BY <1>0 DEF callVars
<1>10. UNCHANGED <<clusterVars, cliVars, runtimeVars, drops, missed, overtaken>>
  BY <1>0
<1>11. n.link = "open" /\ ~ n.heard
  BY <1>3
<1>12. x \in DOMAIN upstreamUrl
  BY <1>1
<1> QED BY <1>5, <1>6, <1>7, <1>8, <1>9, <1>10, <1>11, <1>12, RestOf DEF CellStep

(* the socket does not open,                                                *)
LEMMA FailsStep ==
    ASSUME MirrorInvariant, NEW x \in Proxy, NEW c \in Client, Fails(x, c)
    PROVE  CellStep(x, c)
<1> PICK m : m = mirror[x][c]
  OBVIOUS
<1> PICK t : t = tasks[x][c]
  OBVIOUS
<1>0. /\ m.link = "opening" /\ Done(x, c) /\ drops < MaxDrops /\ drops' = drops + 1
      /\ mirror' = [mirror EXCEPT ![x][c].link = "none", ![x][c].stage = "ready"]
      /\ missed' = missed \cup {c}
      /\ UNCHANGED <<clusterVars, cliVars, runtimeVars, holder, serving, orphaned, overtaken>>
  BY DEF Fails
<1>1. /\ m \in Mirror /\ t \in Seq(Task) /\ Fits(m, t) /\ (x \in closed) \in BOOLEAN
      /\ <<x, c>> \in serving => m.link = "open"
      /\ x \in DOMAIN upstreamUrl /\ upstreamUrl[x] \in Primary /\ x # NoProxy
  BY <1>0, CellOf
<1>2. t # <<>>
  BY <1>0, <1>1 DEF Fits
<1>n. PICK n : n = [m EXCEPT !.link = "none", !.stage = "ready"]
  OBVIOUS
<1>3. n \in Mirror /\ n.link = "none" /\ n.stage = "ready"
  BY <1>1, <1>n DEF Mirror
<1>4. mirror' = [mirror EXCEPT ![x][c] = n]
  BY <1>0, <1>n DEF MirrorInvariant, TypeOK
<1>5. /\ mirror' \in [Proxy -> [Client -> Mirror]]
      /\ mirror'[x][c] = n
      /\ \A y \in Proxy, d \in Client : y # x \/ d # c => mirror'[y][d] = mirror[y][d]
  BY <1>3, <1>4, CellsTyped, CellUpdate
<1>6. /\ tasks' \in [Proxy -> [Client -> Seq(Task)]]
      /\ tasks'[x][c] = Tail(t)
      /\ \A y \in Proxy, d \in Client : y # x \/ d # c => tasks'[y][d] = tasks[y][d]
  BY <1>0, <1>2, DoneKeeps
<1>7. KeepsCell(m, t, n, Tail(t), x \in closed)
  BY <1>0, <1>1, <1>3, CellFails
<1>8. HolderStep(x, c)
  BY <1>0, <1>1, HolderStays
<1>9. crash' \in {"none", "sync", "send"}
  BY RestOf DEF Fails
<1>10. drops' \in 0 .. MaxDrops
  BY <1>0, RestOf, ConstantsAssumption
<1> QED BY <1>0, <1>1, <1>3, <1>5, <1>6, <1>7, <1>8, <1>9, <1>10, RestOf DEF CellStep

(* the primary hears of the mirror,                                         *)
LEMMA RegistersStep ==
    ASSUME MirrorInvariant, NEW x \in Proxy, NEW c \in Client, Registers(x, c)
    PROVE  CellStep(x, c)
<1> PICK m : m = mirror[x][c]
  OBVIOUS
<1> PICK t : t = tasks[x][c]
  OBVIOUS
<1>0. /\ m.link \in {"open", "closing"} /\ ~ m.heard
      /\ mirror' = [mirror EXCEPT ![x][c].heard = TRUE]
      /\ holder' = [holder EXCEPT ![upstreamUrl[x]][c] = x]
      /\ UNCHANGED <<clusterVars, cliVars, runtimeVars, tasks, callVars, drops, missed,
                     overtaken>>
  BY DEF Registers
<1>1. /\ m \in Mirror /\ t \in Seq(Task) /\ Fits(m, t) /\ (x \in closed) \in BOOLEAN
      /\ <<x, c>> \in serving => m.link = "open"
      /\ x \in DOMAIN upstreamUrl /\ upstreamUrl[x] \in Primary /\ x # NoProxy
  BY <1>0, CellOf
<1>n. PICK n : n = [m EXCEPT !.heard = TRUE]
  OBVIOUS
<1>3. /\ n \in Mirror /\ n.link = m.link /\ n.stage = m.stage /\ n.kept = m.kept
      /\ n.version = m.version /\ n.heard
  BY <1>1, <1>n DEF Mirror
<1>4. mirror' = [mirror EXCEPT ![x][c] = n]
  BY <1>0, <1>n DEF MirrorInvariant, TypeOK
<1>5. /\ mirror' \in [Proxy -> [Client -> Mirror]]
      /\ mirror'[x][c] = n
      /\ \A y \in Proxy, d \in Client : y # x \/ d # c => mirror'[y][d] = mirror[y][d]
  BY <1>3, <1>4, CellsTyped, CellUpdate
<1>6. tasks' \in [Proxy -> [Client -> Seq(Task)]]
  BY <1>0 DEF MirrorInvariant, TypeOK
<1>7. KeepsCell(m, t, n, t, x \in closed) /\ Outcome(n, t) = Outcome(m, t)
  BY <1>0, <1>1, <1>3, CellIsHeard
<1>8. /\ holder' \in [Primary -> [Client -> Proxy \cup {NoProxy}]]
      /\ holder'[upstreamUrl[x]][c] = x
      /\ \A p \in Primary, d \in Client : p # upstreamUrl[x] \/ d # c =>
            holder'[p][d] = holder[p][d]
  <2>1. holder \in [Primary -> [Client -> Proxy \cup {NoProxy}]]
    BY DEF MirrorInvariant, TypeOK
  <2>2. x \in Proxy \cup {NoProxy}
    OBVIOUS
  <2> QED BY <1>0, <1>1, <2>1, <2>2, CellUpdate
<1>9. ~ Inert(m, t, x \in closed)
  BY <1>0 DEF Inert
<1>10. HolderStep(x, c)
  BY <1>0, <1>3, <1>5, <1>8, <1>9 DEF HolderStep
<1>11. UNCHANGED <<serving, orphaned, crash>>
  BY <1>0 DEF callVars
<1> QED BY <1>0, <1>1, <1>3, <1>5, <1>6, <1>7, <1>8, <1>10, <1>11, RestOf DEF CellStep

(* and the socket is lost.  A tracked mirror is not replaced, so what is    *)
(* lost then counts as missed.                                              *)
LEMMA DropsStep ==
    ASSUME MirrorInvariant, NEW x \in Proxy, NEW c \in Client, Drops(x, c)
    PROVE  CellStep(x, c)
<1> PICK m : m = mirror[x][c]
  OBVIOUS
<1> PICK t : t = tasks[x][c]
  OBVIOUS
<1>0. /\ m.link = "open" /\ ForgetMirror(x, c) /\ LosesSocket(x, c)
      /\ mirror' = [mirror EXCEPT ![x][c].link = "none"]
      /\ UNCHANGED <<clusterVars, cliVars, runtimeVars, tasks, crash, overtaken>>
  BY DEF Drops
<1>1. /\ m \in Mirror /\ t \in Seq(Task) /\ Fits(m, t) /\ (x \in closed) \in BOOLEAN
      /\ x \in DOMAIN upstreamUrl /\ upstreamUrl[x] \in Primary /\ x # NoProxy
  BY <1>0, CellOf
<1>n. PICK n : n = [m EXCEPT !.link = "none"]
  OBVIOUS
<1>3. n \in Mirror /\ n.link = "none" /\ n.stage = m.stage
  BY <1>1, <1>n DEF Mirror
<1>4. mirror' = [mirror EXCEPT ![x][c] = n]
  BY <1>0, <1>n DEF MirrorInvariant, TypeOK
<1>5. /\ mirror' \in [Proxy -> [Client -> Mirror]]
      /\ mirror'[x][c] = n
      /\ \A y \in Proxy, d \in Client : y # x \/ d # c => mirror'[y][d] = mirror[y][d]
  BY <1>3, <1>4, CellsTyped, CellUpdate
<1>6. tasks' \in [Proxy -> [Client -> Seq(Task)]]
  BY <1>0 DEF MirrorInvariant, TypeOK
<1>7. KeepsCell(m, t, n, t, x \in closed)
  BY <1>0, <1>1, <1>3, CellDrops
<1>8. HolderStep(x, c)
  BY <1>0, <1>1, HolderForgets
<1>9. serving' \subseteq serving /\ <<x, c>> \notin serving' /\ orphaned' \subseteq Client
  BY <1>0, SocketLost
<1>10. missed \subseteq missed' /\ missed' \subseteq Client /\ drops' \in 0 .. MaxDrops
  <2>1. drops \in Nat /\ MaxDrops \in Nat
    BY RestOf, ConstantsAssumption
  <2> QED BY <2>1, RestOf DEF Drops
<1>11. c \notin missed' => m.heard /\ holder[upstreamUrl[x]][c] # x
  BY DEF Drops, Replaced
<1>12. c \notin missed' /\ (t = <<>> /\ m.link = "open" /\ m.heard
                               => holder[upstreamUrl[x]][c] = x)
         => Outcome(n, t) = Outcome(m, t)
  BY <1>0, <1>11 DEF Outcome
<1> QED BY <1>0, <1>1, <1>3, <1>5, <1>6, <1>7, <1>8, <1>9, <1>10, <1>12, RestOf DEF CellStep

-----------------------------------------------------------------------------
(* Steps of the calls and of the clients.                                  *)

(* A step that moves invocations only keeps the invariant.                  *)
LEMMA CallStepKeeps ==
    ASSUME MirrorInvariant,
           UNCHANGED <<clusterVars, cliVars, runtimeVars, tasks, mirror, holder, drops,
                       missed, overtaken>>,
           serving' \subseteq Proxy \X Client, orphaned' \subseteq Client,
           crash' \in {"none", "sync", "send"},
           \A y \in Proxy, d \in Client : <<y, d>> \in serving' =>
              mirror[y][d].link = "open" /\ d \in listed
    PROVE  MirrorInvariant'
<1>a. TypeOK /\ CellsFit /\ HoldersAreHeard /\ ProxiesInOrder /\ RoomIsKept
        /\ StatesAreFollowed /\ ClosedLetGo /\ TrackedAgrees
  BY DEF MirrorInvariant
<1>u. UNCHANGED <<cluster, reconciles, started, unreported, active, phase, current,
                  upstreamUrl, closed, version, listed, tasks, mirror, holder, drops,
                  missed, overtaken>>
  BY DEF clusterVars, cliVars, runtimeVars
<1>1. TypeOK'
  BY <1>a, <1>u DEF TypeOK
<1>2. CellsFit'
  BY <1>a, <1>u DEF CellsFit
<1>3. HoldersAreHeard'
  BY <1>a, <1>u DEF HoldersAreHeard
<1>4. ProxiesInOrder' /\ RoomIsKept' /\ StatesAreFollowed'
  BY <1>a, CliIsKept
<1>5. ClosedLetGo'
  BY <1>a, <1>u DEF ClosedLetGo
<1>6. TrackedAgrees'
  BY <1>a, <1>u DEF TrackedAgrees, Tracked, Newest, Agrees
<1> QED BY <1>1, <1>2, <1>3, <1>4, <1>5, <1>6 DEF MirrorInvariant

(* A call reaches a mirror.                                                 *)
LEMMA CallKeeps ==
    ASSUME MirrorInvariant, NEW x \in Proxy, NEW c \in Client, Call(x, c)
    PROVE  MirrorInvariant'
<1>1. \A y \in Proxy, d \in Client : <<y, d>> \in serving =>
          mirror[y][d].link = "open" /\ d \in listed
  BY DEF MirrorInvariant, CellsFit
<1>2. /\ UNCHANGED <<clusterVars, cliVars, runtimeVars, tasks, mirror, holder, crash, drops,
                     missed, overtaken>>
      /\ c \in listed
      /\ \/ /\ mirror[x][c].link = "open"
            /\ serving' = serving \cup {<<x, c>>} /\ UNCHANGED orphaned
         \/ orphaned' = orphaned \cup {c} /\ UNCHANGED serving
  BY DEF Call
<1>3. /\ serving' \subseteq Proxy \X Client /\ orphaned' \subseteq Client
      /\ crash' \in {"none", "sync", "send"}
  BY <1>2, RestOf
<1>4. \A y \in Proxy, d \in Client : <<y, d>> \in serving' =>
          mirror[y][d].link = "open" /\ d \in listed
  BY <1>1, <1>2
<1> QED BY <1>2, <1>3, <1>4, CallStepKeeps

(* An answer finds no socket.                                               *)
LEMMA AnswerKeeps ==
    ASSUME MirrorInvariant, NEW x \in Proxy, NEW c \in Client, AnswerWithoutSocket(x, c)
    PROVE  MirrorInvariant'
<1>1. \A y \in Proxy, d \in Client : <<y, d>> \in serving =>
          mirror[y][d].link = "open" /\ d \in listed
  BY DEF MirrorInvariant, CellsFit
<1> QED BY <1>1, RestOf, CallStepKeeps DEF AnswerWithoutSocket

(* What was invoked on a client settles, here or elsewhere.                 *)
LEMMA SettledCalls ==
    ASSUME MirrorInvariant, NEW c \in Client, SettleCalls(c)
    PROVE  /\ serving' \subseteq Proxy \X Client /\ orphaned' \subseteq Client
           /\ crash' \in {"none", "sync", "send"}
           /\ \A y \in Proxy, d \in Client : <<y, d>> \in serving' =>
                 <<y, d>> \in serving /\ d # c
<1>1. /\ serving' = {m \in serving : m[2] # c} /\ orphaned' = orphaned \ {c}
      /\ crash' = IF c \in orphaned THEN "send" ELSE crash
  BY DEF SettleCalls
<1> QED BY <1>1, RestOf

(* An invocation settles.                                                   *)
LEMMA CallSettlesKeeps ==
    ASSUME MirrorInvariant, NEW c \in Client, CallSettles(c)
    PROVE  MirrorInvariant'
<1>1. \A y \in Proxy, d \in Client : <<y, d>> \in serving =>
          mirror[y][d].link = "open" /\ d \in listed
  BY DEF MirrorInvariant, CellsFit
<1>2. /\ SettleCalls(c)
      /\ UNCHANGED <<clusterVars, cliVars, runtimeVars, tasks, mirror, holder, drops,
                     missed, overtaken>>
  BY DEF CallSettles
<1> QED BY <1>1, <1>2, SettledCalls, CallStepKeeps

(* A mirror of which nothing is under way does not register again.         *)
LEMMA SettledIsInert ==
    ASSUME NEW x, NEW c, SettledIn(x, c), Fits(mirror[x][c], tasks[x][c]),
           mirror[x][c].stage \in {"ready", "disconnecting", "connecting"}
    PROVE  Inert(mirror[x][c], tasks[x][c], x \in closed)
<1>1. tasks[x][c] = <<>> /\ (mirror[x][c].link = "open" => mirror[x][c].heard)
  BY DEF SettledIn
<1>2. mirror[x][c].link \notin {"opening", "closing"}
  BY <1>1 DEF Fits
<1>3. \A i \in 1 .. Len(tasks[x][c]) : ~ Syncs(tasks[x][c][i])
  BY <1>1
<1> QED BY <1>1, <1>2, <1>3 DEF Inert

(* What happens to a client is told to the current proxy.                  *)
ClientEvent(c, ts) ==
    /\ UNCHANGED <<clusterVars, cliVars, mirror, holder, drops, overtaken>>
    /\ serving' \subseteq Proxy \X Client /\ orphaned' \subseteq Client
    /\ crash' \in {"none", "sync", "send"}
    /\ \A y \in Proxy, d \in Client : <<y, d>> \in serving' =>
          <<y, d>> \in serving /\ d \in listed'
    /\ version' \in [Client -> 0 .. MaxVersion] /\ listed' \subseteq Client
    /\ \A d \in Client : d # c =>
          version'[d] = version[d] /\ (d \in listed' <=> d \in listed)
    /\ c \in listed' => version'[c] > 0
    /\ Enqueue(current, c, ts)
    /\ ts \in Seq(Task) /\ ts # <<>>
    /\ (IF Syncs(ts[Len(ts)]) THEN ts[Len(ts)].version ELSE 0)
          = (IF c \in listed' THEN version'[c] ELSE 0)
    /\ missed' \subseteq Client
    /\ \A d \in Client : d # c => (d \in missed' <=> d \in missed)
    /\ c \notin missed' => phase # "syncing" /\ (c \notin missed \/ Settled(c))

(* A client that registers or leaves keeps the invariant: the tracked proxy *)
(* gets the event, or the client counts as missed.                          *)
LEMMA ClientEventKeeps ==
    ASSUME MirrorInvariant, NEW c \in Client, NEW ts, ClientEvent(c, ts)
    PROVE  MirrorInvariant'
<1> USE DEF NoProxy
<1>a. TypeOK /\ CellsFit /\ HoldersAreHeard /\ ProxiesInOrder /\ RoomIsKept
        /\ StatesAreFollowed /\ ClosedLetGo /\ TrackedAgrees
  BY DEF MirrorInvariant
<1>u. UNCHANGED <<cluster, reconciles, started, unreported, active, phase, current,
                  upstreamUrl, closed, mirror, holder, drops, overtaken>>
  BY DEF ClientEvent, clusterVars, cliVars
<1>t. ts \in Seq(Task) /\ ts # <<>>
  BY DEF ClientEvent
<1>c. current # 0 => current \in Proxy /\ current \in DOMAIN upstreamUrl
  BY <1>a, UrlFacts DEF TypeOK
<1>m. mirror \in [Proxy -> [Client -> Mirror]] /\ tasks \in [Proxy -> [Client -> Seq(Task)]]
  BY CellsTyped
<1>k. /\ tasks' \in [Proxy -> [Client -> Seq(Task)]]
      /\ current # 0 => tasks'[current][c] = tasks[current][c] \o ts
      /\ \A y \in Proxy, d \in Client : y # current \/ d # c => tasks'[y][d] = tasks[y][d]
  <2>1. CASE current = 0
    <3>1. tasks' = tasks
      BY <2>1 DEF ClientEvent, Enqueue
    <3> QED BY <1>m, <2>1, <3>1
  <2>2. CASE current # 0
    <3>1. tasks' = [tasks EXCEPT ![current][c] = tasks[current][c] \o ts]
      BY <2>2 DEF ClientEvent, Enqueue
    <3>2. tasks[current][c] \in Seq(Task)
      BY <1>c, <1>m, <2>2
    <3>3. tasks[current][c] \o ts \in Seq(Task)
      BY <1>t, <3>2, ConcatOf
    <3> QED BY <1>c, <1>m, <2>2, <3>1, <3>3, CellUpdate
  <2> QED BY <2>1, <2>2
<1>e. current # 0 =>
      /\ tasks'[current][c] # <<>>
      /\ Fits(mirror[current][c], tasks'[current][c])
      /\ LetsGo(mirror[current][c], tasks[current][c])
            => LetsGo(mirror[current][c], tasks'[current][c])
      /\ Outcome(mirror[current][c], tasks'[current][c]) =
            IF Syncs(ts[Len(ts)]) THEN ts[Len(ts)].version ELSE 0
  <2> SUFFICES ASSUME current # 0
               PROVE  /\ tasks'[current][c] # <<>>
                      /\ Fits(mirror[current][c], tasks'[current][c])
                      /\ LetsGo(mirror[current][c], tasks[current][c])
                            => LetsGo(mirror[current][c], tasks'[current][c])
                      /\ Outcome(mirror[current][c], tasks'[current][c]) =
                            IF Syncs(ts[Len(ts)]) THEN ts[Len(ts)].version ELSE 0
    OBVIOUS
  <2>1. mirror[current][c] \in Mirror /\ tasks[current][c] \in Seq(Task)
          /\ Fits(mirror[current][c], tasks[current][c])
    BY <1>a, <1>c, <1>m DEF CellsFit
  <2>2. tasks[current][c] \o ts # <<>>
    BY <1>t, <2>1, ConcatKeeps
  <2>3. /\ Fits(mirror[current][c], tasks[current][c] \o ts)
        /\ LetsGo(mirror[current][c], tasks[current][c])
              => LetsGo(mirror[current][c], tasks[current][c] \o ts)
        /\ Outcome(mirror[current][c], tasks[current][c] \o ts) =
              IF Syncs(ts[Len(ts)]) THEN ts[Len(ts)].version ELSE 0
    BY <1>t, <2>1, CellEnqueues
  <2> QED BY <1>k, <2>2, <2>3
<1>1. TypeOK'
  <2>1. /\ serving' \subseteq Proxy \X Client /\ orphaned' \subseteq Client
        /\ crash' \in {"none", "sync", "send"} /\ missed' \subseteq Client
        /\ version' \in [Client -> 0 .. MaxVersion] /\ listed' \subseteq Client
    BY DEF ClientEvent
  <2> QED BY <1>a, <1>u, <1>k, <2>1 DEF TypeOK
<1>2. CellsFit'
  <2> SUFFICES ASSUME NEW y \in Proxy, NEW d \in Client
               PROVE  /\ Fits(mirror[y][d], tasks'[y][d])
                      /\ <<y, d>> \in serving' => mirror[y][d].link = "open" /\ d \in listed'
                      /\ y \notin DOMAIN upstreamUrl =>
                            mirror[y][d] = NoMirror /\ tasks'[y][d] = <<>>
    BY <1>u DEF CellsFit
  <2>1. <<y, d>> \in serving' => mirror[y][d].link = "open" /\ d \in listed'
    BY <1>a DEF CellsFit, ClientEvent
  <2>2. CASE y = current /\ d = c
    BY <1>e, <1>c, <2>1, <2>2, <1>a, UrlFacts
  <2>3. CASE y # current \/ d # c
    BY <1>a, <1>k, <2>1, <2>3 DEF CellsFit
  <2> QED BY <2>2, <2>3
<1>3. HoldersAreHeard'
  BY <1>a, <1>u DEF HoldersAreHeard
<1>4. ProxiesInOrder' /\ RoomIsKept' /\ StatesAreFollowed'
  BY <1>a, CliIsKept DEF ClientEvent
<1>5. ClosedLetGo'
  <2> SUFFICES ASSUME NEW y \in closed, NEW d \in Client, <<y, d>> \notin overtaken
               PROVE  LetsGo(mirror[y][d], tasks'[y][d])
    BY <1>u DEF ClosedLetGo
  <2>0. y \in Proxy /\ y # 0
    BY <1>a, UrlFacts DEF TypeOK
  <2>1. LetsGo(mirror[y][d], tasks[y][d])
    BY <1>a DEF ClosedLetGo
  <2>2. CASE y = current /\ d = c
    BY <1>e, <2>0, <2>1, <2>2
  <2>3. CASE y # current \/ d # c
    BY <1>k, <2>0, <2>1, <2>3
  <2> QED BY <2>2, <2>3
<1>6. TrackedAgrees'
  <2>0. Tracked' = Tracked
    BY <1>u DEF Tracked, Newest
  <2>v. \A d \in listed' : version'[d] > 0
    <3> SUFFICES ASSUME NEW d \in listed' PROVE version'[d] > 0
      OBVIOUS
    <3>0. d \in Client
      BY <1>1 DEF TypeOK
    <3>1. CASE d = c
      BY <3>1 DEF ClientEvent
    <3>2. CASE d # c
      BY <1>a, <3>0, <3>2 DEF TrackedAgrees, ClientEvent
    <3> QED BY <3>1, <3>2
  <2>a. ASSUME Tracked # NoProxy, NEW d \in Client \ missed'
        PROVE  Agrees(Tracked, d)'
    <3> PICK z : z = Tracked
      OBVIOUS
    <3>z. z \in DOMAIN upstreamUrl /\ z \notin closed /\ z \in Proxy /\ z # 0
      BY <1>a, <2>a, TrackedIsMade, UrlFacts
    <3>1. CASE d # c
      <4>1. d \notin missed
        BY <2>a, <3>1 DEF ClientEvent
      <4>2. Agrees(z, d)
        BY <1>a, <2>a, <4>1 DEF TrackedAgrees
      <4>3. \A y \in Proxy : tasks'[y][d] = tasks[y][d]
        BY <1>k, <3>1
      <4>4. version'[d] = version[d] /\ (d \in listed' <=> d \in listed)
        BY <3>1 DEF ClientEvent
      <4>5. \A y \in DOMAIN upstreamUrl : y \in Proxy
        BY <1>a, UrlFacts
      <4> QED BY <1>u, <2>0, <3>z, <4>2, <4>3, <4>4, <4>5 DEF Agrees
    <3>2. CASE d = c
      <4>1. phase # "syncing" /\ (c \notin missed \/ Settled(c))
        BY <2>a, <3>2 DEF ClientEvent
      <4>2. z = current
        BY <2>a, <4>1 DEF Tracked
      <4>3. tasks'[z][c] # <<>> /\ Outcome(mirror[z][c], tasks'[z][c]) =
              IF c \in listed' THEN version'[c] ELSE 0
        BY <1>e, <3>z, <4>2 DEF ClientEvent
      <4>4. ASSUME NEW y \in DOMAIN upstreamUrl, y # z, upstreamUrl[y] = upstreamUrl[z]
            PROVE  Inert(mirror[y][c], tasks'[y][c], y \in closed)
        <5>0. y \in Proxy /\ tasks'[y][c] = tasks[y][c]
          BY <1>a, <1>k, <4>2, <4>4, UrlFacts
        <5>1. CASE c \notin missed
          <6>1. Agrees(z, c)
            BY <1>a, <2>a, <5>1 DEF TrackedAgrees
          <6> QED BY <4>4, <5>0, <6>1 DEF Agrees
        <5>2. CASE Settled(c)
          <6>1. SettledIn(y, c)
            BY <5>0, <5>2 DEF Settled
          <6>2. Fits(mirror[y][c], tasks[y][c])
            BY <1>a, <5>0 DEF CellsFit
          <6>3. mirror[y][c].stage \in {"ready", "disconnecting", "connecting"}
            BY <1>m, <5>0 DEF Mirror
          <6> QED BY <5>0, <6>1, <6>2, <6>3, SettledIsInert
        <5> QED BY <4>1, <5>1, <5>2
      <4> QED BY <1>u, <2>0, <3>2, <3>z, <4>3, <4>4 DEF Agrees
    <3> QED BY <3>1, <3>2
  <2> QED BY <2>0, <2>v, <2>a DEF TrackedAgrees
<1> QED BY <1>1, <1>2, <1>3, <1>4, <1>5, <1>6 DEF MirrorInvariant

(* The tasks the listeners of the CLI queue.                                *)
LEMMA TasksOfEvents ==
    ASSUME NEW v \in 0 .. MaxVersion
    PROVE  /\ SyncTask(v) \in Task /\ RemoveTask \in Task /\ CloseTask \in Task
           /\ Syncs(SyncTask(v)) /\ SyncTask(v).version = v
           /\ ~ Syncs(RemoveTask) /\ ~ Syncs(CloseTask)
<1>1. 0 \in 0 .. MaxVersion
  BY ConstantsAssumption
<1> QED BY <1>1 DEF SyncTask, RemoveTask, CloseTask, Task, Syncs

(* A client registers, or a newer session of it does.                       *)
LEMMA ClientRegisteredKeeps ==
    ASSUME MirrorInvariant, NEW c \in Client, ClientRegistered(c)
    PROVE  MirrorInvariant'
<1>0. /\ version[c] < IF c \in Busy THEN MaxVersion ELSE 1
      /\ version' = [version EXCEPT ![c] = @ + 1]
      /\ listed' = listed \cup {c}
      /\ UNCHANGED <<clusterVars, cliVars, mirror, holder, drops, overtaken>>
      /\ missed' = IF phase = "syncing" THEN missed \cup {c}
                   ELSE IF Settled(c) THEN missed \ {c} ELSE missed
  BY DEF ClientRegistered
<1>1. version \in [Client -> 0 .. MaxVersion] /\ listed \subseteq Client
        /\ MaxVersion \in Nat \ {0}
  BY ConstantsAssumption DEF MirrorInvariant, TypeOK
<1>2. version[c] + 1 \in 0 .. MaxVersion /\ version[c] + 1 > 0
  BY <1>0, <1>1
<1> PICK v : v = version[c] + 1
  OBVIOUS
<1>3. /\ version' \in [Client -> 0 .. MaxVersion]
      /\ version'[c] = v /\ v > 0 /\ v \in 0 .. MaxVersion
      /\ \A d \in Client : d # c => version'[d] = version[d]
  BY <1>0, <1>1, <1>2
<1>4. /\ missed' \subseteq Client
      /\ \A d \in Client : d # c => (d \in missed' <=> d \in missed)
      /\ c \notin missed' => phase # "syncing" /\ (c \notin missed \/ Settled(c))
  BY <1>0, RestOf
<1>5. \A y \in Proxy, d \in Client : <<y, d>> \in serving => d \in listed'
  BY <1>0 DEF MirrorInvariant, CellsFit
<1>6. SyncTask(v) \in Task /\ RemoveTask \in Task
        /\ Syncs(SyncTask(v)) /\ SyncTask(v).version = v
  BY <1>3, TasksOfEvents
<1>7. /\ listed' \subseteq Client /\ c \in listed'
      /\ \A d \in Client : d # c => (d \in listed' <=> d \in listed)
  BY <1>0, <1>1
<1>8. CASE Enqueue(current, c, <<SyncTask(v)>>) /\ UNCHANGED callVars
  <2> PICK ts : ts = <<SyncTask(v)>>
    OBVIOUS
  <2>1. ts \in Seq(Task) /\ Len(ts) = 1 /\ ts[1] = SyncTask(v) /\ ts # <<>>
    BY <1>6
  <2>2. UNCHANGED <<serving, orphaned, crash>>
    BY <1>8 DEF callVars
  <2>3. (IF Syncs(ts[Len(ts)]) THEN ts[Len(ts)].version ELSE 0)
          = (IF c \in listed' THEN version'[c] ELSE 0)
    BY <1>3, <1>6, <1>7, <2>1
  <2>4. ClientEvent(c, ts)
    BY <1>0, <1>3, <1>4, <1>5, <1>7, <1>8, <2>1, <2>2, <2>3, RestOf DEF ClientEvent
  <2> QED BY <2>4, ClientEventKeeps
<1>9. CASE Enqueue(current, c, <<RemoveTask, SyncTask(v)>>) /\ SettleCalls(c)
  <2> PICK ts : ts = <<RemoveTask, SyncTask(v)>>
    OBVIOUS
  <2>1. ts \in Seq(Task) /\ Len(ts) = 2 /\ ts[2] = SyncTask(v) /\ ts # <<>>
    BY <1>6
  <2>2. /\ serving' \subseteq Proxy \X Client /\ orphaned' \subseteq Client
        /\ crash' \in {"none", "sync", "send"}
        /\ \A y \in Proxy, d \in Client : <<y, d>> \in serving' => <<y, d>> \in serving
    BY <1>9, SettledCalls
  <2>3. (IF Syncs(ts[Len(ts)]) THEN ts[Len(ts)].version ELSE 0)
          = (IF c \in listed' THEN version'[c] ELSE 0)
    BY <1>3, <1>6, <1>7, <2>1
  <2>4. ClientEvent(c, ts)
    BY <1>0, <1>3, <1>4, <1>5, <1>7, <1>9, <2>1, <2>2, <2>3 DEF ClientEvent
  <2> QED BY <2>4, ClientEventKeeps
<1> QED BY <1>3, <1>8, <1>9 DEF ClientRegistered

(* A client leaves.                                                         *)
LEMMA ClientRemovedKeeps ==
    ASSUME MirrorInvariant, NEW c \in Client, ClientRemoved(c)
    PROVE  MirrorInvariant'
<1>0. /\ listed' = listed \ {c}
      /\ UNCHANGED <<clusterVars, cliVars, version, mirror, holder, drops, overtaken>>
      /\ missed' = IF phase = "syncing" THEN missed \cup {c} ELSE missed
      /\ Enqueue(current, c, <<RemoveTask>>) /\ SettleCalls(c)
  BY DEF ClientRemoved
<1>1. version \in [Client -> 0 .. MaxVersion] /\ listed \subseteq Client
        /\ MaxVersion \in Nat \ {0}
  BY ConstantsAssumption DEF MirrorInvariant, TypeOK
<1>4. /\ missed' \subseteq Client
      /\ \A d \in Client : d # c => (d \in missed' <=> d \in missed)
      /\ c \notin missed' => phase # "syncing" /\ c \notin missed
  BY <1>0, RestOf
<1>5. \A y \in Proxy, d \in Client : <<y, d>> \in serving => d \in listed
  BY DEF MirrorInvariant, CellsFit
<1>6. 0 \in 0 .. MaxVersion /\ RemoveTask \in Task /\ ~ Syncs(RemoveTask)
  BY <1>1, TasksOfEvents
<1> PICK ts : ts = <<RemoveTask>>
  OBVIOUS
<1>7. ts \in Seq(Task) /\ Len(ts) = 1 /\ ts[1] = RemoveTask /\ ts # <<>>
  BY <1>6
<1>8. /\ serving' \subseteq Proxy \X Client /\ orphaned' \subseteq Client
      /\ crash' \in {"none", "sync", "send"}
      /\ \A y \in Proxy, d \in Client : <<y, d>> \in serving' =>
            <<y, d>> \in serving /\ d # c
  BY <1>0, SettledCalls
<1>9. (IF Syncs(ts[Len(ts)]) THEN ts[Len(ts)].version ELSE 0)
          = (IF c \in listed' THEN version'[c] ELSE 0)
  BY <1>0, <1>6, <1>7
<1>10. ClientEvent(c, ts)
  BY <1>0, <1>1, <1>4, <1>5, <1>7, <1>8, <1>9 DEF ClientEvent
<1> QED BY <1>10, ClientEventKeeps

-----------------------------------------------------------------------------
(* The queue of reconciles.                                                *)

Makers(r, busy) == {i \in DOMAIN r : r[i].leader # None /\ ~ (i = 1 /\ busy)}

(* The queued states that may make a proxy can be counted.                  *)
LEMMA MakersAreFinite ==
    ASSUME NEW r \in Seq(State), NEW busy \in BOOLEAN
    PROVE  /\ IsFiniteSet(Makers(r, busy)) /\ Cardinality(Makers(r, busy)) \in Nat
           /\ Makers(r, busy) \subseteq 1 .. Len(r) /\ Len(r) \in Nat
<1>1. Len(r) \in Nat /\ DOMAIN r = 1 .. Len(r)
  OBVIOUS
<1>2. Makers(r, busy) \subseteq 1 .. Len(r)
  BY <1>1 DEF Makers
<1>3. IsFiniteSet(1 .. Len(r))
  BY <1>1, FS_Interval
<1>4. IsFiniteSet(Makers(r, busy))
  BY <1>2, <1>3, FS_Subset
<1>5. Cardinality(Makers(r, busy)) \in Nat
  BY <1>4, FS_CardinalityType
<1> QED BY <1>1, <1>2, <1>4, <1>5

(* A state put at the end of the queue makes at most one proxy more, and   *)
(* none without a leader.                                                  *)
LEMMA MakersOfAppend ==
    ASSUME NEW r \in Seq(State), NEW busy \in BOOLEAN, NEW e \in State
    PROVE  /\ e.leader = None => Makers(Append(r, e), busy) = Makers(r, busy)
           /\ Cardinality(Makers(Append(r, e), busy)) <= Cardinality(Makers(r, busy)) + 1
<1> PICK w : w = Append(r, e)
  OBVIOUS
<1>0. /\ w \in Seq(State) /\ Len(r) \in Nat /\ Len(w) = Len(r) + 1
      /\ \A i \in 1 .. Len(r) : w[i] = r[i]
      /\ w[Len(r) + 1] = e
  BY AppendOf
<1>1. DOMAIN r = 1 .. Len(r) /\ DOMAIN w = 1 .. Len(r) + 1
  BY <1>0
<1>2. e.leader = None => Makers(w, busy) = Makers(r, busy)
  BY <1>0, <1>1 DEF Makers
<1>3. Makers(w, busy) \subseteq Makers(r, busy) \cup {Len(r) + 1}
  BY <1>0, <1>1 DEF Makers
<1>4. /\ IsFiniteSet(Makers(r, busy)) /\ Cardinality(Makers(r, busy)) \in Nat
      /\ Cardinality(Makers(w, busy)) \in Nat
  BY <1>0, MakersAreFinite
<1>5. /\ IsFiniteSet(Makers(r, busy) \cup {Len(r) + 1})
      /\ Cardinality(Makers(r, busy) \cup {Len(r) + 1}) <= Cardinality(Makers(r, busy)) + 1
      /\ Cardinality(Makers(r, busy) \cup {Len(r) + 1}) \in Nat
  <2>1. /\ IsFiniteSet(Makers(r, busy) \cup {Len(r) + 1})
        /\ Cardinality(Makers(r, busy) \cup {Len(r) + 1}) =
              IF Len(r) + 1 \in Makers(r, busy) THEN Cardinality(Makers(r, busy))
              ELSE Cardinality(Makers(r, busy)) + 1
    BY <1>4, FS_AddElement
  <2> QED BY <1>4, <2>1
<1>6. Cardinality(Makers(w, busy)) <= Cardinality(Makers(r, busy) \cup {Len(r) + 1})
  BY <1>3, <1>5, FS_Subset
<1>7. Cardinality(Makers(w, busy)) <= Cardinality(Makers(r, busy)) + 1
  BY <1>4, <1>5, <1>6
<1> QED BY <1>2, <1>7

(* When the first state is done the others still count, and it counts as    *)
(* one if it has a leader.                                                  *)
LEMMA MakersOfTail ==
    ASSUME NEW r \in Seq(State), r # <<>>
    PROVE  /\ Cardinality(Makers(Tail(r), FALSE)) <= Cardinality(Makers(r, TRUE))
           /\ Head(r).leader = None => Makers(r, TRUE) = Makers(r, FALSE)
           /\ Head(r).leader # None =>
                 Cardinality(Makers(r, FALSE)) = Cardinality(Makers(r, TRUE)) + 1
<1> PICK w : w = Tail(r)
  OBVIOUS
<1>0. /\ w \in Seq(State) /\ Len(r) \in Nat \ {0} /\ Len(w) = Len(r) - 1
      /\ \A i \in 1 .. Len(r) - 1 : w[i] = r[i + 1]
      /\ Head(r) = r[1]
  BY TailOf
<1>1. DOMAIN r = 1 .. Len(r) /\ DOMAIN w = 1 .. Len(r) - 1
  BY <1>0
<1>2. IsFiniteSet(Makers(r, TRUE)) /\ IsFiniteSet(Makers(r, FALSE))
        /\ Cardinality(Makers(r, TRUE)) \in Nat
  BY MakersAreFinite
<1>3. Cardinality(Makers(w, FALSE)) <= Cardinality(Makers(r, TRUE))
  <2>1. PICK f : f = [j \in Makers(w, FALSE) |-> j + 1]
    OBVIOUS
  <2>2. Makers(w, FALSE) \subseteq Nat
    BY <1>0, <1>1 DEF Makers
  <2>3. ASSUME NEW j \in Makers(w, FALSE) PROVE j + 1 \in Makers(r, TRUE)
    <3>1. j \in 1 .. Len(r) - 1 /\ w[j].leader # None
      BY <1>1, <2>3 DEF Makers
    <3>2. w[j] = r[j + 1] /\ j + 1 \in 1 .. Len(r) /\ j + 1 # 1
      BY <1>0, <3>1
    <3> QED BY <1>1, <3>1, <3>2 DEF Makers
  <2>4. f \in [Makers(w, FALSE) -> Makers(r, TRUE)]
    BY <2>1, <2>3
  <2>5. \A a, b \in Makers(w, FALSE) : f[a] = f[b] => a = b
    <3> SUFFICES ASSUME NEW a \in Makers(w, FALSE), NEW b \in Makers(w, FALSE), f[a] = f[b]
                 PROVE  a = b
      OBVIOUS
    <3>1. f[a] = a + 1 /\ f[b] = b + 1
      BY <2>1
    <3>2. a \in Nat /\ b \in Nat
      BY <2>2
    <3>3. a + 1 = b + 1
      BY <3>1, Zenon
    <3> QED BY <3>2, <3>3
  <2>6. f \in Injection(Makers(w, FALSE), Makers(r, TRUE))
    BY <2>4, <2>5 DEF Injection, IsInjective
  <2> QED BY <1>2, <2>6, FS_Injection
<1>4. Head(r).leader = None => Makers(r, TRUE) = Makers(r, FALSE)
  BY <1>0, <1>1 DEF Makers
<1>5. ASSUME Head(r).leader # None
      PROVE  Cardinality(Makers(r, FALSE)) = Cardinality(Makers(r, TRUE)) + 1
  <2>1. Makers(r, FALSE) = Makers(r, TRUE) \cup {1}
    BY <1>0, <1>1, <1>5 DEF Makers
  <2>2. 1 \notin Makers(r, TRUE)
    BY DEF Makers
  <2> QED BY <1>2, <2>1, <2>2, FS_AddElement
<1> QED BY <1>3, <1>4, <1>5

(* The bound on proxies, in these terms.                                    *)
LEMMA RoomIsMakers ==
    /\ MayMakeProxy = Makers(reconciles, phase # "idle")
    /\ MayMakeProxy' = Makers(reconciles', phase' # "idle")
    /\ RoomIsKept <=>
          Len(upstreamUrl) + Cardinality(Makers(reconciles, phase # "idle")) <= MaxProxies
    /\ RoomIsKept' <=>
          Len(upstreamUrl') + Cardinality(Makers(reconciles', phase' # "idle")) <= MaxProxies
<1>1. MayMakeProxy = Makers(reconciles, phase # "idle")
  BY DEF MayMakeProxy, Makers
<1>2. MayMakeProxy' = Makers(reconciles', phase' # "idle")
  BY DEF MayMakeProxy, Makers
<1> QED BY <1>1, <1>2 DEF RoomIsKept

-----------------------------------------------------------------------------
(* Steps of the cluster manager.                                           *)

(* A step that queues states only keeps the invariant, if they lead to the  *)
(* leader.                                                                  *)
LEMMA ClusterStepKeeps ==
    ASSUME MirrorInvariant,
           UNCHANGED <<cliVars, runtimeVars, tasks, mirror, holder, callVars, drops, missed,
                       overtaken>>,
           cluster' \in State, reconciles' \in Seq(State),
           started' \in BOOLEAN, unreported' \in BOOLEAN,
           reconciles # <<>> => reconciles' # <<>> /\ Head(reconciles') = Head(reconciles),
           RoomIsKept',
           started' => started \/ reconciles' # <<>>,
           started' => FinalState' \in State,
           started' /\ ~ unreported' => FinalState'.leader = cluster'.leader,
           unreported' => cluster'.leader # None
    PROVE  MirrorInvariant'
<1>a. TypeOK /\ CellsFit /\ HoldersAreHeard /\ ProxiesInOrder /\ RoomIsKept
        /\ StatesAreFollowed /\ ClosedLetGo /\ TrackedAgrees
  BY DEF MirrorInvariant
<1>u. UNCHANGED <<active, phase, current, upstreamUrl, closed, version, listed, tasks,
                  mirror, holder, serving, orphaned, crash, drops, missed, overtaken>>
  BY DEF cliVars, runtimeVars, callVars
<1>1. TypeOK'
  BY <1>a, <1>u DEF TypeOK
<1>2. CellsFit'
  BY <1>a, <1>u DEF CellsFit
<1>3. HoldersAreHeard'
  BY <1>a, <1>u DEF HoldersAreHeard
<1>4. ProxiesInOrder'
  BY <1>a, <1>u DEF ProxiesInOrder, Newest
<1>5. StatesAreFollowed'
  BY <1>a, <1>u DEF StatesAreFollowed, Newest, ProxiesInOrder
<1>6. ClosedLetGo'
  BY <1>a, <1>u DEF ClosedLetGo
<1>7. TrackedAgrees'
  BY <1>a, <1>u DEF TrackedAgrees, Tracked, Newest, Agrees
<1> QED BY <1>1, <1>2, <1>3, <1>4, <1>5, <1>6, <1>7 DEF MirrorInvariant

(* Types of the cluster manager's and the CLI's variables.                  *)
LEMMA CliFacts ==
    ASSUME MirrorInvariant
    PROVE  /\ cluster \in State /\ reconciles \in Seq(State) /\ started \in BOOLEAN
           /\ unreported \in BOOLEAN /\ (phase # "idle") \in BOOLEAN
           /\ phase \in {"idle", "syncing", "closing", "leaving"}
           /\ Len(upstreamUrl) \in Nat
           /\ MaxProxies \in Nat /\ MaxTerm \in Nat /\ None \notin Primary
           /\ Cardinality(MayMakeProxy) \in Nat
           /\ RoomIsKept
  BY ConstantsAssumption, UrlFacts, RoomIsMakers, MakersAreFinite DEF MirrorInvariant, TypeOK

(* The first state stays the first.                                         *)
LEMMA AppendedHead ==
    ASSUME NEW r \in Seq(State), NEW e \in State
    PROVE  /\ Append(r, e) \in Seq(State) /\ Append(r, e) # <<>>
           /\ r # <<>> => Head(Append(r, e)) = Head(r)
           /\ Append(r, e)[Len(Append(r, e))] = e
<1>1. Append(r, e) \in Seq(State) /\ Append(r, e) # <<>>
        /\ Append(r, e)[Len(Append(r, e))] = e
  OBVIOUS
<1>2. r # <<>> => Head(Append(r, e)) = Head(r)
  OBVIOUS
<1> QED BY <1>1, <1>2

(* The leader is lost.                                                      *)
LEMMA LosesLeaderKeeps ==
    ASSUME MirrorInvariant, LosesLeader
    PROVE  MirrorInvariant'
<1>1. PICK t \in cluster.term .. MaxTerm : cluster' = [term |-> t, leader |-> None]
  BY DEF LosesLeader
<1>2. cluster' \in State /\ cluster'.leader = None
  BY <1>1, CliFacts DEF State
<1>3. /\ reconciles' = IF cluster.leader = None THEN reconciles
                       ELSE Append(reconciles, cluster')
      /\ unreported' = FALSE
      /\ UNCHANGED <<started, cliVars, runtimeVars, tasks, mirror, holder, callVars, drops,
                     missed, overtaken>>
  BY DEF LosesLeader
<1>u. UNCHANGED <<active, phase, upstreamUrl>>
  BY <1>3 DEF cliVars
<1>4. CASE cluster.leader = None
  <2>1. reconciles' = reconciles
    BY <1>3, <1>4
  <2>2. RoomIsKept'
    BY <1>u, <2>1, CliFacts, RoomIsMakers
  <2>3. started => ~ unreported /\ FinalState \in State /\ FinalState.leader = None
    BY <1>4, CliFacts DEF MirrorInvariant, StatesAreFollowed
  <2>4. FinalState' = FinalState
    BY <1>u, <2>1 DEF FinalState
  <2> QED BY <1>2, <1>3, <2>1, <2>2, <2>3, <2>4, CliFacts, ClusterStepKeeps
<1>5. CASE cluster.leader # None
  <2>1. reconciles' = Append(reconciles, cluster')
    BY <1>3, <1>5
  <2>2. RoomIsKept'
    BY <1>u, <1>2, <2>1, CliFacts, RoomIsMakers, MakersOfAppend
  <2>3. /\ reconciles' \in Seq(State) /\ reconciles' # <<>>
        /\ reconciles # <<>> => Head(reconciles') = Head(reconciles)
        /\ reconciles'[Len(reconciles')] = cluster'
    BY <1>2, <2>1, CliFacts, AppendedHead
  <2>4. FinalState' = cluster'
    BY <2>3 DEF FinalState
  <2> QED BY <1>2, <1>3, <2>2, <2>3, <2>4, CliFacts, ClusterStepKeeps
<1> QED BY <1>4, <1>5

(* The first reconcile is queued.                                           *)
LEMMA StartupKeeps ==
    ASSUME MirrorInvariant, Startup
    PROVE  MirrorInvariant'
<1>1. /\ cluster.leader # None => RoomForProxy
      /\ started' = TRUE /\ reconciles' = Append(reconciles, cluster) /\ unreported' = FALSE
      /\ UNCHANGED <<cluster, cliVars, runtimeVars, tasks, mirror, holder, callVars, drops,
                     missed, overtaken>>
  BY DEF Startup
<1>u. UNCHANGED <<active, phase, upstreamUrl>>
  BY <1>1 DEF cliVars
<1>2. /\ reconciles' \in Seq(State) /\ reconciles' # <<>>
      /\ reconciles # <<>> => Head(reconciles') = Head(reconciles)
      /\ reconciles'[Len(reconciles')] = cluster
  BY <1>1, CliFacts, AppendedHead
<1>3. FinalState' = cluster
  BY <1>2 DEF FinalState
<1>4. RoomIsKept'
  <2>1. CASE cluster.leader = None
    BY <1>u, <1>1, <2>1, CliFacts, RoomIsMakers, MakersOfAppend
  <2>2. CASE cluster.leader # None
    <3>1. Len(upstreamUrl) + Cardinality(Makers(reconciles, phase # "idle")) < MaxProxies
      BY <1>1, <2>2, RoomIsMakers DEF RoomForProxy
    <3>2. /\ Cardinality(Makers(reconciles', phase # "idle"))
               <= Cardinality(Makers(reconciles, phase # "idle")) + 1
          /\ Cardinality(Makers(reconciles', phase # "idle")) \in Nat
          /\ Cardinality(Makers(reconciles, phase # "idle")) \in Nat
      BY <1>1, <1>2, CliFacts, MakersOfAppend, MakersAreFinite
    <3>3. Len(upstreamUrl) + Cardinality(Makers(reconciles', phase # "idle")) <= MaxProxies
      BY <3>1, <3>2, CliFacts
    <3> QED BY <1>u, <3>3, RoomIsMakers
  <2> QED BY <2>1, <2>2
<1> QED BY <1>1, <1>2, <1>3, <1>4, CliFacts, ClusterStepKeeps

(* A leader is observed: the state without a leader that stepDown reports,  *)
(* if any, is queued first.                                                 *)
LEMMA ObservesLeaderKeeps ==
    ASSUME MirrorInvariant, ObservesLeader
    PROVE  MirrorInvariant'
<1>1. PICK p \in Primary, t \in 1 .. MaxTerm :
        /\ t > cluster.term \/ (t = cluster.term /\ cluster.leader = None)
        /\ cluster' = [term |-> t, leader |-> p]
        /\ QueueObserved(p, t)
        /\ unreported' = (p = cluster.leader)
  BY DEF ObservesLeader
<1>2. /\ RoomForProxy
      /\ UNCHANGED <<started, cliVars, runtimeVars, tasks, mirror, holder, callVars, drops,
                     missed, overtaken>>
  BY DEF ObservesLeader
<1>u. UNCHANGED <<active, phase, upstreamUrl>>
  BY <1>2 DEF cliVars
<1>3. p # None /\ t \in 0 .. MaxTerm
  BY CliFacts
<1> PICK off : off = [term |-> t, leader |-> None]
  OBVIOUS
<1> PICK on : on = [term |-> t, leader |-> p]
  OBVIOUS
<1>4. off \in State /\ off.leader = None /\ on \in State /\ on.leader = p
  BY <1>3 DEF State
<1> PICK r : r = IF t > cluster.term /\ cluster.leader # None
                 THEN Append(reconciles, off) ELSE reconciles
  OBVIOUS
<1>5. /\ r \in Seq(State)
      /\ reconciles # <<>> => r # <<>> /\ Head(r) = Head(reconciles)
      /\ Makers(r, phase # "idle") = Makers(reconciles, phase # "idle")
  <2>1. CASE t > cluster.term /\ cluster.leader # None
    <3>1. r = Append(reconciles, off)
      BY <2>1
    <3>2. reconciles \in Seq(State) /\ (phase # "idle") \in BOOLEAN
      BY CliFacts
    <3>3. /\ r \in Seq(State) /\ r # <<>>
          /\ reconciles # <<>> => Head(r) = Head(reconciles)
      BY <1>4, <3>1, <3>2, AppendedHead
    <3>4. Makers(Append(reconciles, off), phase # "idle") = Makers(reconciles, phase # "idle")
      BY <1>4, <3>2, MakersOfAppend
    <3> QED BY <3>1, <3>3, <3>4
  <2>2. CASE ~ (t > cluster.term /\ cluster.leader # None)
    BY <2>2, CliFacts
  <2> QED BY <2>1, <2>2
<1>6. Len(upstreamUrl) + Cardinality(Makers(r, phase # "idle")) < MaxProxies
  BY <1>2, <1>5, RoomIsMakers DEF RoomForProxy
<1>7. CASE p # cluster.leader
  <2>1. reconciles' = Append(r, on)
    <3>1. reconciles' = r \o <<on>>
      BY <1>1, <1>7 DEF QueueObserved
    <3> QED BY <1>4, <1>5, <3>1
  <2>2. /\ reconciles' \in Seq(State) /\ reconciles' # <<>>
        /\ r # <<>> => Head(reconciles') = Head(r)
        /\ reconciles'[Len(reconciles')] = on
    BY <1>4, <1>5, <2>1, AppendedHead
  <2>3. FinalState' = on
    BY <2>2 DEF FinalState
  <2>4. RoomIsKept'
    <3>1. /\ Cardinality(Makers(reconciles', phase # "idle"))
               <= Cardinality(Makers(r, phase # "idle")) + 1
          /\ Cardinality(Makers(reconciles', phase # "idle")) \in Nat
          /\ Cardinality(Makers(r, phase # "idle")) \in Nat
      BY <1>4, <1>5, <2>1, <2>2, CliFacts, MakersOfAppend, MakersAreFinite
    <3>2. Len(upstreamUrl) + Cardinality(Makers(reconciles', phase # "idle")) <= MaxProxies
      BY <1>6, <3>1, CliFacts
    <3> QED BY <1>u, <3>2, RoomIsMakers
  <2>5. cluster' = on /\ unreported' = FALSE
    BY <1>1, <1>7
  <2> QED BY <1>2, <1>4, <1>5, <2>2, <2>3, <2>4, <2>5, CliFacts, ClusterStepKeeps
<1>8. CASE p = cluster.leader
  <2>1. r = Append(reconciles, off)
    BY <1>1, <1>3, <1>8
  <2>2. reconciles' = r
    <3>1. reconciles' = r \o <<>>
      BY <1>1, <1>8 DEF QueueObserved
    <3> QED BY <1>5, <3>1
  <2>3. reconciles' # <<>> /\ reconciles'[Len(reconciles')] = off
    BY <1>4, <2>1, <2>2, CliFacts, AppendedHead
  <2>4. FinalState' = off
    BY <2>3 DEF FinalState
  <2>5. RoomIsKept'
    <3>1. Cardinality(Makers(r, phase # "idle")) \in Nat
      BY <1>5, CliFacts, MakersAreFinite
    <3>2. Len(upstreamUrl) + Cardinality(Makers(r, phase # "idle")) <= MaxProxies
      BY <1>6, <3>1, CliFacts
    <3> QED BY <1>u, <2>2, <3>2, RoomIsMakers
  <2>6. cluster' = on /\ unreported' = TRUE
    BY <1>1, <1>8
  <2> QED BY <1>2, <1>3, <1>4, <1>5, <2>2, <2>4, <2>5, <2>6, CliFacts, ClusterStepKeeps
<1> QED BY <1>7, <1>8

-----------------------------------------------------------------------------
(* Steps of the reconciliation.                                            *)

(* close() queues the removal of a mirror in the map; then a removal is     *)
(* there unless the mirror is being replaced.                               *)
LEMMA CellCloses ==
    ASSUME NEW m \in Mirror, NEW t \in Seq(Task), Fits(m, t), NEW u,
           u = IF m.kept THEN Append(t, CloseTask) ELSE t
    PROVE  /\ u \in Seq(Task)
           /\ Fits(m, u)
           /\ LetsGo(m, t) => LetsGo(m, u)
           /\ ~ (m.stage = "disconnecting" /\ Syncs(Head(t))) => LetsGo(m, u)
           /\ \A gone \in BOOLEAN : Inert(m, t, gone) => Inert(m, u, TRUE)
<1>1. CASE ~ m.kept
  <2>1. u = t
    BY <1>1
  <2>2. m.link \notin {"open", "opening"}
    BY <1>1 DEF Fits
  <2>3. m.link = "closing" => m.stage = "disconnecting"
    BY DEF Fits
  <2>4. ~ (m.stage = "disconnecting" /\ Syncs(Head(t))) => LetsGo(m, t)
    BY <2>2, <2>3 DEF LetsGo
  <2>5. \A gone \in BOOLEAN : Inert(m, t, gone) => Inert(m, t, TRUE)
    BY DEF Inert
  <2> QED BY <2>1, <2>4, <2>5
<1>2. CASE m.kept
  <2>0. CloseTask \in Task /\ ~ Syncs(CloseTask)
    <3>1. 0 \in 0 .. MaxVersion
      BY ConstantsAssumption
    <3> QED BY <3>1, TasksOfEvents
  <2> PICK e : e = <<CloseTask>>
    OBVIOUS
  <2>1. e \in Seq(Task) /\ e # <<>> /\ Len(e) = 1 /\ e[1] = CloseTask
    BY <2>0
  <2>2. u = t \o e
    <3>1. u = Append(t, CloseTask)
      BY <1>2
    <3> QED BY <2>0, <3>1
  <2>3. Removes(e)
    BY <2>0, <2>1 DEF Removes
  <2>4. /\ u \in Seq(Task) /\ u # <<>>
        /\ t # <<>> => Head(u) = Head(t)
        /\ Removes(u)
        /\ t # <<>> => RemovesLater(u)
    BY <2>1, <2>2, <2>3, ConcatKeeps
  <2>5. Fits(m, u) /\ (LetsGo(m, t) => LetsGo(m, u))
    BY <2>1, <2>2, CellEnqueues
  <2>6. m.link \in {"opening", "closing"} => t # <<>>
    BY DEF Fits
  <2>7. LetsGo(m, u)
    BY <2>4, <2>6 DEF LetsGo
  <2>8. \A gone \in BOOLEAN : Inert(m, t, gone) => Inert(m, u, TRUE)
    BY <2>4, <2>6 DEF Inert
  <2> QED BY <2>4, <2>5, <2>7, <2>8
<1> QED BY <1>1, <1>2

(* The proxies that are closed in a step get the removals of their clients, *)
(* the chains of the others stay.                                          *)
CloseStep ==
    /\ tasks' \in [Proxy -> [Client -> Seq(Task)]]
    /\ closed \subseteq closed' /\ overtaken \subseteq overtaken'
    /\ overtaken' \subseteq Proxy \X Client
    /\ \A y \in Proxy, d \in Client :
        /\ Fits(mirror[y][d], tasks'[y][d])
        /\ y \notin DOMAIN upstreamUrl => tasks'[y][d] = <<>>
        /\ y \notin closed' => tasks'[y][d] = tasks[y][d]
        /\ y \in closed' /\ <<y, d>> \notin overtaken' => LetsGo(mirror[y][d], tasks'[y][d])
        /\ Inert(mirror[y][d], tasks[y][d], y \in closed)
              => Inert(mirror[y][d], tasks'[y][d], y \in closed')

(* A step that closes no proxy leaves the chains.                           *)
LEMMA ClosesNone ==
    ASSUME MirrorInvariant, UNCHANGED <<closed, tasks, overtaken>>
    PROVE  CloseStep
<1>1. TypeOK /\ CellsFit /\ ClosedLetGo
  BY DEF MirrorInvariant
<1>2. tasks \in [Proxy -> [Client -> Seq(Task)]] /\ overtaken \subseteq Proxy \X Client
  BY <1>1 DEF TypeOK
<1> QED BY <1>1, <1>2 DEF CloseStep, CellsFit, ClosedLetGo

(* A proxy is closed.                                                       *)
LEMMA ClosesProxy ==
    ASSUME MirrorInvariant, NEW z \in DOMAIN upstreamUrl, CloseProxy(z)
    PROVE  CloseStep /\ closed' = closed \cup {z}
<1>1. TypeOK /\ CellsFit /\ ClosedLetGo
  BY DEF MirrorInvariant
<1>2. /\ tasks \in [Proxy -> [Client -> Seq(Task)]]
      /\ mirror \in [Proxy -> [Client -> Mirror]]
      /\ overtaken \subseteq Proxy \X Client
  BY <1>1 DEF TypeOK
<1>3. z \in Proxy
  BY <1>1, UrlFacts
<1>4. /\ closed' = closed \cup {z}
      /\ tasks' = [tasks EXCEPT ![z] = [c \in Client |->
            IF mirror[z][c].kept THEN Append(tasks[z][c], CloseTask) ELSE tasks[z][c]]]
      /\ overtaken' = overtaken \cup {<<z, c>> : c \in {d \in Client :
            /\ mirror[z][d].stage = "disconnecting"
            /\ Syncs(Head(tasks[z][d]))}}
  BY DEF CloseProxy
<1>5. \A y \in Proxy, d \in Client : y # z => tasks'[y][d] = tasks[y][d]
  BY <1>2, <1>3, <1>4
<1>6. \A d \in Client : tasks'[z][d] =
          IF mirror[z][d].kept THEN Append(tasks[z][d], CloseTask) ELSE tasks[z][d]
  BY <1>2, <1>3, <1>4
<1>7. ASSUME NEW d \in Client
      PROVE  /\ tasks'[z][d] \in Seq(Task)
             /\ Fits(mirror[z][d], tasks'[z][d])
             /\ LetsGo(mirror[z][d], tasks[z][d]) => LetsGo(mirror[z][d], tasks'[z][d])
             /\ ~ (mirror[z][d].stage = "disconnecting" /\ Syncs(Head(tasks[z][d])))
                   => LetsGo(mirror[z][d], tasks'[z][d])
             /\ Inert(mirror[z][d], tasks[z][d], z \in closed)
                   => Inert(mirror[z][d], tasks'[z][d], TRUE)
  <2>1. mirror[z][d] \in Mirror /\ tasks[z][d] \in Seq(Task)
          /\ Fits(mirror[z][d], tasks[z][d])
    BY <1>1, <1>2, <1>3 DEF CellsFit
  <2>2. (z \in closed) \in BOOLEAN
    OBVIOUS
  <2>3. /\ tasks'[z][d] \in Seq(Task)
        /\ Fits(mirror[z][d], tasks'[z][d])
        /\ LetsGo(mirror[z][d], tasks[z][d]) => LetsGo(mirror[z][d], tasks'[z][d])
        /\ ~ (mirror[z][d].stage = "disconnecting" /\ Syncs(Head(tasks[z][d])))
              => LetsGo(mirror[z][d], tasks'[z][d])
        /\ \A gone \in BOOLEAN : Inert(mirror[z][d], tasks[z][d], gone)
              => Inert(mirror[z][d], tasks'[z][d], TRUE)
    BY <1>6, <2>1, CellCloses
  <2> QED BY <2>2, <2>3
<1>8. tasks' \in [Proxy -> [Client -> Seq(Task)]]
  <2>1. [c \in Client |-> IF mirror[z][c].kept THEN Append(tasks[z][c], CloseTask)
                          ELSE tasks[z][c]] \in [Client -> Seq(Task)]
    BY <1>6, <1>7
  <2> QED BY <1>2, <1>3, <1>4, <2>1
<1>9. overtaken \subseteq overtaken' /\ overtaken' \subseteq Proxy \X Client
  BY <1>2, <1>3, <1>4
<1>10. ASSUME NEW d \in Client, <<z, d>> \notin overtaken'
       PROVE  ~ (mirror[z][d].stage = "disconnecting" /\ Syncs(Head(tasks[z][d])))
  BY <1>4, <1>10
<1>11. ASSUME NEW y \in Proxy, NEW d \in Client
       PROVE  /\ Fits(mirror[y][d], tasks'[y][d])
              /\ y \notin DOMAIN upstreamUrl => tasks'[y][d] = <<>>
              /\ y \notin closed' => tasks'[y][d] = tasks[y][d]
              /\ y \in closed' /\ <<y, d>> \notin overtaken'
                    => LetsGo(mirror[y][d], tasks'[y][d])
              /\ Inert(mirror[y][d], tasks[y][d], y \in closed)
                    => Inert(mirror[y][d], tasks'[y][d], y \in closed')
  <2>1. CASE y = z
    <3>1. (y \in closed') = TRUE
      BY <1>4, <2>1
    <3> QED BY <1>7, <1>10, <2>1, <3>1
  <2>2. CASE y # z
    <3>1. (y \in closed') = (y \in closed)
      BY <1>4, <2>2
    <3> QED BY <1>1, <1>5, <1>9, <2>2, <3>1 DEF CellsFit, ClosedLetGo
  <2> QED BY <2>1, <2>2
<1> QED BY <1>4, <1>8, <1>9, <1>11 DEF CloseStep

(* A step of the reconciliation that makes no proxy keeps the invariant, if *)
(* the CLI's own parts hold after it.                                       *)
LEMMA ReconcileStepKeeps ==
    ASSUME MirrorInvariant, CloseStep,
           UNCHANGED <<cluster, started, unreported, runtimeVars, mirror, holder, callVars,
                       drops, upstreamUrl, missed>>,
           reconciles' \in Seq(State), active' \in State \cup {None},
           phase' \in {"idle", "syncing", "closing", "leaving"},
           current' \in 0 .. Len(upstreamUrl),
           ProxiesInOrder', RoomIsKept', StatesAreFollowed',
           Tracked' \in {NoProxy, Tracked}, Tracked' \notin closed'
    PROVE  MirrorInvariant'
<1> USE DEF NoProxy
<1>a. TypeOK /\ CellsFit /\ HoldersAreHeard /\ ProxiesInOrder /\ RoomIsKept
        /\ StatesAreFollowed /\ ClosedLetGo /\ TrackedAgrees
  BY DEF MirrorInvariant
<1>u. UNCHANGED <<cluster, started, unreported, upstreamUrl, version, listed, mirror, holder,
                  serving, orphaned, crash, drops, missed>>
  BY DEF runtimeVars, callVars
<1>1. TypeOK'
  <2>1. closed' \subseteq Proxy
    BY <1>a, <1>u, UrlFacts DEF ProxiesInOrder
  <2> QED BY <1>a, <1>u, <2>1 DEF TypeOK, CloseStep
<1>2. CellsFit'
  <2> SUFFICES ASSUME NEW y \in Proxy, NEW d \in Client
               PROVE  /\ Fits(mirror[y][d], tasks'[y][d])
                      /\ <<y, d>> \in serving => mirror[y][d].link = "open" /\ d \in listed
                      /\ y \notin DOMAIN upstreamUrl =>
                            mirror[y][d] = NoMirror /\ tasks'[y][d] = <<>>
    BY <1>u DEF CellsFit
  <2> QED BY <1>a DEF CellsFit, CloseStep
<1>3. HoldersAreHeard'
  BY <1>a, <1>u DEF HoldersAreHeard
<1>4. ClosedLetGo'
  <2> SUFFICES ASSUME NEW y \in closed', NEW d \in Client, <<y, d>> \notin overtaken'
               PROVE  LetsGo(mirror[y][d], tasks'[y][d])
    BY <1>u DEF ClosedLetGo
  <2>1. y \in Proxy
    BY <1>1 DEF TypeOK
  <2> QED BY <2>1 DEF CloseStep
<1>5. TrackedAgrees'
  <2> PICK z : z = Tracked'
    OBVIOUS
  <2> SUFFICES ASSUME z # 0, NEW d \in Client \ missed PROVE Agrees(z, d)'
    BY <1>a, <1>u DEF TrackedAgrees
  <2>1. z = Tracked
    OBVIOUS
  <2>2. z \in DOMAIN upstreamUrl /\ z \in Proxy
    BY <1>a, <2>1, TrackedIsMade, UrlFacts
  <2>3. Agrees(z, d)
    BY <1>a, <2>1 DEF TrackedAgrees
  <2>4. tasks'[z][d] = tasks[z][d]
    BY <2>2 DEF CloseStep
  <2>5. ASSUME NEW y \in DOMAIN upstreamUrl, y # z, upstreamUrl[y] = upstreamUrl[z]
        PROVE  Inert(mirror[y][d], tasks'[y][d], y \in closed')
    <3>1. y \in Proxy
      BY <1>a, UrlFacts
    <3>2. Inert(mirror[y][d], tasks[y][d], y \in closed)
      BY <2>3, <2>5 DEF Agrees
    <3> QED BY <3>1, <3>2 DEF CloseStep
  <2> QED BY <1>u, <2>3, <2>4, <2>5 DEF Agrees
<1> QED BY <1>1, <1>2, <1>3, <1>4, <1>5 DEF MirrorInvariant

(* The last state queued is the one the CLI ends with when the first is     *)
(* done.                                                                   *)
LEMMA FinalOfTail ==
    ASSUME NEW r \in Seq(State), r # <<>>
    PROVE  /\ Tail(r) \in Seq(State) /\ Head(r) \in State
           /\ (IF Tail(r) = <<>> THEN Head(r) ELSE Tail(r)[Len(Tail(r))]) = r[Len(r)]
<1>0. /\ Tail(r) \in Seq(State) /\ Head(r) \in State
      /\ Len(r) \in Nat \ {0} /\ Len(Tail(r)) = Len(r) - 1
      /\ \A i \in 1 .. Len(r) - 1 : Tail(r)[i] = r[i + 1]
      /\ Head(r) = r[1]
  BY TailOf
<1>1. CASE Tail(r) = <<>>
  <2>1. Len(r) = 1
    BY <1>0, <1>1, EmptyOf
  <2> QED BY <1>0, <1>1, <2>1
<1>2. CASE Tail(r) # <<>>
  <2>1. Len(r) - 1 # 0
    BY <1>0, <1>2, EmptyOf
  <2>2. Len(r) - 1 \in 1 .. Len(r) - 1 /\ (Len(r) - 1) + 1 = Len(r)
    BY <1>0, <2>1
  <2>3. Tail(r)[Len(Tail(r))] = r[Len(r)]
    BY <1>0, <2>2
  <2> QED BY <1>2, <2>3
<1> QED BY <1>1, <1>2

(* A reconcile that is done leaves the state it was for, and room.         *)
LEMMA DoneReconcile ==
    ASSUME MirrorInvariant, ReconcileDone, reconciles # <<>>, active' = Head(reconciles),
           UNCHANGED <<upstreamUrl, cluster, started, unreported>>
    PROVE  /\ RoomIsKept'
           /\ reconciles' \in Seq(State) /\ active' \in State
           /\ FinalState' = FinalState
<1>1. reconciles' = Tail(reconciles) /\ phase' = "idle"
  BY DEF ReconcileDone
<1>2. reconciles \in Seq(State)
  BY CliFacts
<1>3. /\ Tail(reconciles) \in Seq(State) /\ Head(reconciles) \in State
      /\ (IF Tail(reconciles) = <<>> THEN Head(reconciles)
          ELSE Tail(reconciles)[Len(Tail(reconciles))]) = reconciles[Len(reconciles)]
  BY <1>2, FinalOfTail
<1>4. FinalState' = FinalState
  BY <1>1, <1>3 DEF FinalState
<1>5. RoomIsKept'
  <2>1. Cardinality(Makers(Tail(reconciles), FALSE)) <= Cardinality(Makers(reconciles, TRUE))
    BY <1>2, MakersOfTail
  <2>2. Makers(reconciles, TRUE) \subseteq Makers(reconciles, phase # "idle")
    BY DEF Makers
  <2>3. /\ IsFiniteSet(Makers(reconciles, phase # "idle"))
        /\ Cardinality(Makers(reconciles, phase # "idle")) \in Nat
        /\ Cardinality(Makers(reconciles, TRUE)) \in Nat
        /\ Cardinality(Makers(Tail(reconciles), FALSE)) \in Nat
    BY <1>2, <1>3, CliFacts, MakersAreFinite
  <2>4. Cardinality(Makers(reconciles, TRUE)) <= Cardinality(Makers(reconciles, phase # "idle"))
    BY <2>2, <2>3, FS_Subset
  <2>5. Len(upstreamUrl) + Cardinality(Makers(reconciles, phase # "idle")) <= MaxProxies
    BY CliFacts, RoomIsMakers
  <2>6. Len(upstreamUrl) + Cardinality(Makers(Tail(reconciles), FALSE)) <= MaxProxies
    <3>k. PICK k : k = Cardinality(Makers(Tail(reconciles), FALSE))
      OBVIOUS
    <3>l. PICK l : l = Cardinality(Makers(reconciles, TRUE))
      OBVIOUS
    <3>n. PICK n : n = Cardinality(Makers(reconciles, phase # "idle"))
      OBVIOUS
    <3>1. k \in Nat /\ l \in Nat /\ n \in Nat /\ k <= l /\ l <= n
      BY <2>1, <2>3, <2>4, <3>k, <3>l, <3>n
    <3>2. Len(upstreamUrl) \in Nat /\ MaxProxies \in Nat /\ Len(upstreamUrl) + n <= MaxProxies
      BY <2>5, <3>n, CliFacts
    <3>3. Len(upstreamUrl) + k <= MaxProxies
      BY <3>1, <3>2
    <3> QED BY <3>3, <3>k
  <2>7. (phase' # "idle") = FALSE
    BY <1>1
  <2> QED BY <1>1, <2>6, <2>7, RoomIsMakers
<1> QED BY <1>1, <1>3, <1>4, <1>5

(* A proxy that has begun to be closed was made for a state that counted    *)
(* already.                                                                *)
LEMMA BusyRoom ==
    ASSUME MirrorInvariant, reconciles # <<>>, phase' # "idle",
           UNCHANGED <<upstreamUrl, reconciles>>
    PROVE  RoomIsKept'
<1>1. reconciles \in Seq(State)
  BY CliFacts
<1>2. Makers(reconciles, TRUE) \subseteq Makers(reconciles, phase # "idle")
  BY DEF Makers
<1>3. /\ IsFiniteSet(Makers(reconciles, phase # "idle"))
      /\ Cardinality(Makers(reconciles, phase # "idle")) \in Nat
      /\ Cardinality(Makers(reconciles, TRUE)) \in Nat
  BY <1>1, CliFacts, MakersAreFinite
<1>4. Cardinality(Makers(reconciles, TRUE)) <= Cardinality(Makers(reconciles, phase # "idle"))
  BY <1>2, <1>3, FS_Subset
<1>5. Len(upstreamUrl) + Cardinality(Makers(reconciles, phase # "idle")) <= MaxProxies
  BY CliFacts, RoomIsMakers
<1>6. Len(upstreamUrl) + Cardinality(Makers(reconciles, TRUE)) <= MaxProxies
  <2>l. PICK l : l = Cardinality(Makers(reconciles, TRUE))
    OBVIOUS
  <2>n. PICK n : n = Cardinality(Makers(reconciles, phase # "idle"))
    OBVIOUS
  <2>1. l \in Nat /\ n \in Nat /\ l <= n
    BY <1>3, <1>4, <2>l, <2>n
  <2>2. Len(upstreamUrl) \in Nat /\ MaxProxies \in Nat /\ Len(upstreamUrl) + n <= MaxProxies
    BY <1>5, <2>n, CliFacts
  <2>3. Len(upstreamUrl) + l <= MaxProxies
    BY <2>1, <2>2
  <2> QED BY <2>3, <2>l
<1>7. (phase' # "idle") = TRUE
  OBVIOUS
<1> QED BY <1>6, <1>7, RoomIsMakers

(* What the steps of the reconciliation leave alone.                       *)
ReconcileFrame ==
    /\ reconciles # <<>>
    /\ UNCHANGED <<cluster, started, unreported, runtimeVars, mirror, holder, callVars, drops>>

(* What is known of the CLI.                                               *)
LEMMA CliState ==
    ASSUME MirrorInvariant
    PROVE  /\ ProxiesInOrder /\ StatesAreFollowed /\ reconciles \in Seq(State)
           /\ active \in State \cup {None}
           /\ current \in 0 .. Len(upstreamUrl) /\ Len(upstreamUrl) \in Nat
           /\ DOMAIN upstreamUrl = 1 .. Len(upstreamUrl)
           /\ Newest = Len(upstreamUrl)
           /\ closed \subseteq 1 .. Len(upstreamUrl)
           /\ reconciles # <<>> => Head(reconciles) \in State
           /\ 0 \notin closed
<1>1. TypeOK /\ ProxiesInOrder /\ StatesAreFollowed
  BY DEF MirrorInvariant
<1>2. /\ reconciles \in Seq(State) /\ active \in State \cup {None}
      /\ current \in 0 .. Len(upstreamUrl)
  BY <1>1 DEF TypeOK
<1>3. closed \subseteq 1 .. Len(upstreamUrl)
  BY <1>1, UrlFacts DEF ProxiesInOrder
<1>4. reconciles # <<>> => Head(reconciles) \in State
  BY <1>2, TailOf
<1> QED BY <1>1, <1>2, <1>3, <1>4, UrlFacts

(* A reconcile for a state without a leader.                                *)
LEMMA LeaderlessKeeps ==
    ASSUME MirrorInvariant, ReconcileFrame, ReconcileLeaderless
    PROVE  MirrorInvariant'
<1> USE DEF NoProxy
<1>0. /\ phase = "idle" /\ Head(reconciles).leader = None /\ active' = Head(reconciles)
      /\ UNCHANGED <<current, upstreamUrl, missed>>
      /\ reconciles # <<>>
      /\ UNCHANGED <<cluster, started, unreported, runtimeVars, mirror, holder, callVars,
                     drops>>
  BY DEF ReconcileLeaderless, ReconcileFrame
<1>1. CASE current = 0
  <2>1. ReconcileDone /\ UNCHANGED <<closed, tasks, overtaken>>
    BY <1>1 DEF ReconcileLeaderless
  <2>2. phase' = "idle"
    BY <2>1 DEF ReconcileDone
  <2>3. RoomIsKept' /\ reconciles' \in Seq(State) /\ active' \in State
          /\ FinalState' = FinalState
    BY <1>0, <2>1, DoneReconcile
  <2>4. ProxiesInOrder'
    BY <1>0, <1>1, <2>1, <2>2, CliState DEF ProxiesInOrder, Newest
  <2>5. StatesAreFollowed'
    BY <1>0, <1>1, <2>2, <2>3, CliState DEF StatesAreFollowed
  <2>6. Tracked' = 0 /\ 0 \notin closed'
    BY <1>0, <1>1, <2>1, <2>2, CliState DEF Tracked
  <2>7. CloseStep
    BY <2>1, ClosesNone
  <2> QED BY <1>0, <2>2, <2>3, <2>4, <2>5, <2>6, <2>7, CliState, ReconcileStepKeeps
<1>2. CASE current # 0
  <2>1. phase' = "leaving" /\ CloseProxy(current) /\ UNCHANGED reconciles
    BY <1>2 DEF ReconcileLeaderless
  <2>2. current \in DOMAIN upstreamUrl
    BY <1>2, CliState
  <2>3. CloseStep /\ closed' = closed \cup {current}
    BY <2>1, <2>2, ClosesProxy
  <2>4. RoomIsKept'
    BY <1>0, <2>1, BusyRoom
  <2>5. ProxiesInOrder'
    BY <1>0, <1>2, <2>1, <2>2, <2>3, CliState DEF ProxiesInOrder, Newest
  <2>6. StatesAreFollowed'
    BY <1>0, <2>1, CliState DEF StatesAreFollowed, FinalState
  <2>7. Tracked' = 0 /\ 0 \notin closed'
    BY <1>2, <2>1, <2>3, CliState DEF Tracked
  <2> QED BY <1>0, <2>1, <2>3, <2>4, <2>5, <2>6, <2>7, CliState, ReconcileStepKeeps
<1> QED BY <1>1, <1>2

(* A reconcile for the state the proxy already follows.                     *)
LEMMA SameKeeps ==
    ASSUME MirrorInvariant, ReconcileFrame, ReconcileSame
    PROVE  MirrorInvariant'
<1> USE DEF NoProxy
<1>0. /\ phase = "idle" /\ ReconcileDone /\ current # 0 /\ active = Head(reconciles)
      /\ UNCHANGED <<active, current, upstreamUrl, closed, tasks, missed, overtaken>>
      /\ reconciles # <<>>
      /\ UNCHANGED <<cluster, started, unreported, runtimeVars, mirror, holder, callVars,
                     drops>>
  BY DEF ReconcileSame, ReconcileFrame, AlreadyFollowing
<1>2. phase' = "idle"
  BY <1>0 DEF ReconcileDone
<1>3. RoomIsKept' /\ reconciles' \in Seq(State) /\ active' \in State
        /\ FinalState' = FinalState
  BY <1>0, DoneReconcile
<1>4. ProxiesInOrder'
  BY <1>0, <1>2, CliState DEF ProxiesInOrder, Newest
<1>5. StatesAreFollowed'
  BY <1>0, <1>2, <1>3, CliState DEF StatesAreFollowed
<1>6. Tracked' = Tracked /\ Tracked' \notin closed'
  BY <1>0, <1>2, CliState DEF Tracked, ProxiesInOrder
<1>7. CloseStep
  BY <1>0, ClosesNone
<1> QED BY <1>0, <1>2, <1>3, <1>4, <1>5, <1>6, <1>7, CliState, ReconcileStepKeeps

(* The new proxy takes over.                                                *)
LEMMA SwapKeeps ==
    ASSUME MirrorInvariant, ReconcileFrame, SwapProxy
    PROVE  MirrorInvariant'
<1> USE DEF NoProxy
<1>0. /\ phase = "syncing" /\ current' = Newest
      /\ UNCHANGED <<active, upstreamUrl, missed>>
      /\ reconciles # <<>>
      /\ UNCHANGED <<cluster, started, unreported, runtimeVars, mirror, holder, callVars,
                     drops>>
  BY DEF SwapProxy, ReconcileFrame
<1>a. active = Head(reconciles) /\ active \in State
  BY <1>0, CliState DEF StatesAreFollowed
<1>n. Newest \in DOMAIN upstreamUrl /\ Newest \notin closed /\ current # Newest
        /\ Newest' = Newest /\ Newest # 0
  BY <1>0, CliState DEF ProxiesInOrder, Newest, Proxy
<1>1. CASE current = 0
  <2>1. ReconcileDone /\ UNCHANGED <<closed, tasks, overtaken>>
    BY <1>1 DEF SwapProxy
  <2>2. phase' = "idle"
    BY <2>1 DEF ReconcileDone
  <2>3. RoomIsKept' /\ reconciles' \in Seq(State) /\ active' \in State
          /\ FinalState' = FinalState
    BY <1>0, <1>a, <2>1, DoneReconcile
  <2>4. ProxiesInOrder'
    BY <1>0, <1>1, <1>n, <2>1, <2>2, CliState DEF ProxiesInOrder
  <2>5. StatesAreFollowed'
    BY <1>0, <1>1, <1>a, <1>n, <2>2, <2>3, CliState DEF StatesAreFollowed
  <2>6. Tracked' = Tracked /\ Tracked' \notin closed'
    BY <1>0, <1>n, <2>1, <2>2 DEF Tracked
  <2>7. CloseStep
    BY <2>1, ClosesNone
  <2> QED BY <1>0, <1>n, <2>2, <2>3, <2>4, <2>5, <2>6, <2>7, CliState, ReconcileStepKeeps
<1>2. CASE current # 0
  <2>1. phase' = "closing" /\ CloseProxy(current) /\ UNCHANGED reconciles
    BY <1>2 DEF SwapProxy
  <2>2. current \in DOMAIN upstreamUrl
    BY <1>2, CliState
  <2>3. CloseStep /\ closed' = closed \cup {current}
    BY <2>1, <2>2, ClosesProxy
  <2>4. RoomIsKept'
    BY <1>0, <2>1, BusyRoom
  <2>5. ProxiesInOrder'
    BY <1>0, <1>2, <1>n, <2>1, <2>2, <2>3, CliState DEF ProxiesInOrder
  <2>6. StatesAreFollowed'
    BY <1>0, <1>a, <1>n, <2>1, CliState DEF StatesAreFollowed, FinalState
  <2>7. Tracked' = Tracked /\ Tracked' \notin closed'
    BY <1>0, <1>2, <1>n, <2>1, <2>3 DEF Tracked
  <2> QED BY <1>0, <1>n, <2>1, <2>3, <2>4, <2>5, <2>6, <2>7, CliState, ReconcileStepKeeps
<1> QED BY <1>1, <1>2

(* The old proxy is gone.                                                   *)
LEMMA ProxyClosedKeeps ==
    ASSUME MirrorInvariant, ReconcileFrame, ProxyClosed
    PROVE  MirrorInvariant'
<1> USE DEF NoProxy
<1>0. /\ phase \in {"closing", "leaving"} /\ ReconcileDone
      /\ current' = IF phase = "leaving" THEN 0 ELSE current
      /\ UNCHANGED <<active, upstreamUrl, closed, tasks, missed, overtaken>>
      /\ reconciles # <<>>
      /\ UNCHANGED <<cluster, started, unreported, runtimeVars, mirror, holder, callVars,
                     drops>>
  BY DEF ProxyClosed, ReconcileFrame
<1>a. active = Head(reconciles) /\ active \in State
  BY <1>0, CliState DEF StatesAreFollowed
<1>n. current = Newest /\ current # 0 /\ (current \in closed <=> phase = "leaving")
        /\ Newest' = Newest
        /\ \A y \in DOMAIN upstreamUrl : y \in closed \/ y = current
  BY <1>0, CliState DEF ProxiesInOrder, Newest
<1>2. phase' = "idle"
  BY <1>0 DEF ReconcileDone
<1>3. RoomIsKept' /\ reconciles' \in Seq(State) /\ active' \in State
        /\ FinalState' = FinalState
  BY <1>0, <1>a, DoneReconcile
<1>4. ProxiesInOrder'
  BY <1>0, <1>n, <1>2, CliState DEF ProxiesInOrder
<1>5. StatesAreFollowed'
  BY <1>0, <1>a, <1>n, <1>2, <1>3, CliState DEF StatesAreFollowed
<1>6. Tracked' \in {0, Tracked} /\ Tracked' \notin closed'
  BY <1>0, <1>n, <1>2, CliState DEF Tracked
<1>7. CloseStep
  BY <1>0, ClosesNone
<1>8. current' \in 0 .. Len(upstreamUrl)
  BY <1>0, CliState
<1> QED BY <1>0, <1>2, <1>3, <1>4, <1>5, <1>6, <1>7, <1>8, ReconcileStepKeeps

(* The snapshot task of a client that is listed when its proxy is made.     *)
LEMMA SnapshotCell ==
    ASSUME NEW v \in 0 .. MaxVersion, NEW e,
           e = [kind |-> "snapshot", version |-> v], NEW t, t = <<e>>
    PROVE  /\ t \in Seq(Task) /\ t # <<>>
           /\ Fits(NoMirror, t) /\ Outcome(NoMirror, t) = v
<1>1. e \in Task /\ Syncs(e) /\ e.version = v
  BY DEF Task, Syncs
<1>2. t \in Seq(Task) /\ t # <<>> /\ Len(t) = 1 /\ t[1] = e
  BY <1>1
<1>3. Fits(NoMirror, t)
  BY <1>2, NoMirrorIsMirror DEF Fits
<1>4. Outcome(NoMirror, t) = v
  BY <1>1, <1>2 DEF Outcome
<1> QED BY <1>2, <1>3, <1>4

(* A client that is not listed when its proxy is made.                      *)
LEMMA EmptyCell ==
    /\ <<>> \in Seq(Task) /\ Fits(NoMirror, <<>>) /\ Outcome(NoMirror, <<>>) = 0
<1>1. <<>> \in Seq(Task)
  OBVIOUS
<1>2. Fits(NoMirror, <<>>)
  BY NoMirrorIsMirror DEF Fits
<1>3. Outcome(NoMirror, <<>>) = 0
  BY NoMirrorIsMirror DEF Outcome
<1> QED BY <1>1, <1>2, <1>3

(* A new proxy is made: there is room for it, nothing is known of it, and   *)
(* it gets a snapshot.                                                      *)
LEMMA NewPrimaryKeeps ==
    ASSUME MirrorInvariant, ReconcileFrame, ReconcileNewPrimary
    PROVE  MirrorInvariant'
<1> USE DEF NoProxy
<1>a. TypeOK /\ CellsFit /\ HoldersAreHeard /\ ProxiesInOrder /\ RoomIsKept
        /\ StatesAreFollowed /\ ClosedLetGo /\ TrackedAgrees
  BY DEF MirrorInvariant
<1>0. /\ phase = "idle" /\ Head(reconciles).leader # None /\ active' = Head(reconciles)
      /\ phase' = "syncing" /\ upstreamUrl' = Append(upstreamUrl, Head(reconciles).leader)
      /\ tasks' = [tasks EXCEPT ![Newest + 1] = [c \in Client |->
            IF c \in listed THEN <<[kind |-> "snapshot", version |-> version[c]]>>
            ELSE <<>>]]
      /\ missed' = {c \in Client : \E x \in DOMAIN upstreamUrl :
            upstreamUrl[x] = Head(reconciles).leader /\ ~ SettledIn(x, c)}
      /\ reconciles # <<>>
  BY DEF ReconcileNewPrimary, ReconcileFrame
<1>u. UNCHANGED <<reconciles, current, closed, overtaken, cluster, started, unreported,
                  version, listed, mirror, holder, serving, orphaned, crash, drops>>
  BY DEF ReconcileNewPrimary, ReconcileFrame, runtimeVars, callVars
<1> PICK p : p = Head(reconciles).leader
  OBVIOUS
<1> PICK n : n = Newest + 1
  OBVIOUS
<1>p. p \in Primary
  <2>1. Head(reconciles) \in State
    BY <1>0, CliState
  <2> QED BY <1>0, <2>1 DEF State
<1>n. n \in Nat /\ n = Len(upstreamUrl) + 1 /\ n # 0 /\ n \notin DOMAIN upstreamUrl
  BY CliState
<1>l. /\ Len(upstreamUrl') = n /\ upstreamUrl' \in Seq(Primary)
      /\ DOMAIN upstreamUrl' = DOMAIN upstreamUrl \cup {n}
      /\ upstreamUrl'[n] = p
      /\ \A y \in DOMAIN upstreamUrl : upstreamUrl'[y] = upstreamUrl[y]
  <2>1. upstreamUrl \in Seq(Primary)
    BY <1>a DEF TypeOK
  <2>2. /\ Append(upstreamUrl, p) \in Seq(Primary)
        /\ Len(Append(upstreamUrl, p)) = Len(upstreamUrl) + 1
        /\ \A i \in 1 .. Len(upstreamUrl) : Append(upstreamUrl, p)[i] = upstreamUrl[i]
        /\ Append(upstreamUrl, p)[Len(upstreamUrl) + 1] = p
    BY <1>p, <2>1, AppendOf
  <2>3. upstreamUrl' = Append(upstreamUrl, p)
    BY <1>0
  <2>4. DOMAIN upstreamUrl = 1 .. Len(upstreamUrl) /\ Len(upstreamUrl) \in Nat
    BY CliState
  <2>5. DOMAIN upstreamUrl' = 1 .. n
    BY <1>n, <2>2, <2>3
  <2>6. DOMAIN upstreamUrl' = DOMAIN upstreamUrl \cup {n}
    BY <1>n, <2>4, <2>5
  <2> QED BY <1>n, <2>2, <2>3, <2>4, <2>6
<1>r. RoomIsKept' /\ n <= MaxProxies
  <2>k. PICK k : k = Cardinality(Makers(reconciles, TRUE))
    OBVIOUS
  <2>f. PICK f : f = Cardinality(Makers(reconciles, FALSE))
    OBVIOUS
  <2>0. reconciles \in Seq(State)
    BY CliState
  <2>1. f = k + 1
    BY <1>0, <2>0, <2>k, <2>f, MakersOfTail
  <2>2. k \in Nat
    BY <2>0, <2>k, MakersAreFinite
  <2>3. (phase # "idle") = FALSE /\ (phase' # "idle") = TRUE
    BY <1>0
  <2>4. Len(upstreamUrl) + f <= MaxProxies
    BY <1>a, <2>3, <2>f, RoomIsMakers
  <2>5. Len(upstreamUrl) \in Nat /\ MaxProxies \in Nat
    BY CliFacts
  <2>6. n + k <= MaxProxies /\ n <= MaxProxies
    BY <1>n, <2>1, <2>2, <2>4, <2>5
  <2>7. Len(upstreamUrl') + Cardinality(Makers(reconciles, TRUE)) <= MaxProxies
    BY <1>l, <2>6, <2>k
  <2> QED BY <1>u, <2>3, <2>6, <2>7, RoomIsMakers
<1>q. n \in Proxy
  BY <1>n, <1>r, ConstantsAssumption DEF Proxy
<1>m. mirror \in [Proxy -> [Client -> Mirror]] /\ tasks \in [Proxy -> [Client -> Seq(Task)]]
        /\ version \in [Client -> 0 .. MaxVersion]
  BY <1>a DEF TypeOK
<1>t. /\ \A y \in Proxy, d \in Client : y # n => tasks'[y][d] = tasks[y][d]
      /\ \A d \in Client : tasks'[n][d] =
            IF d \in listed THEN <<[kind |-> "snapshot", version |-> version[d]]>> ELSE <<>>
  BY <1>0, <1>m, <1>q
<1>c. ASSUME NEW d \in Client
      PROVE  /\ mirror[n][d] = NoMirror /\ tasks'[n][d] \in Seq(Task)
             /\ Fits(NoMirror, tasks'[n][d])
             /\ Outcome(NoMirror, tasks'[n][d]) = IF d \in listed THEN version[d] ELSE 0
  <2>0. mirror[n][d] = NoMirror
    BY <1>a, <1>n, <1>q DEF CellsFit
  <2>1. CASE d \in listed
    <3> PICK v : v = version[d]
      OBVIOUS
    <3>0. v \in 0 .. MaxVersion
      BY <1>m
    <3> PICK e : e = [kind |-> "snapshot", version |-> v]
      OBVIOUS
    <3> PICK t : t = <<e>>
      OBVIOUS
    <3>1. tasks'[n][d] = t
      BY <1>t, <2>1
    <3>2. /\ t \in Seq(Task) /\ t # <<>>
          /\ Fits(NoMirror, t) /\ Outcome(NoMirror, t) = v
      BY <3>0, SnapshotCell
    <3> QED BY <2>0, <2>1, <3>1, <3>2
  <2>2. CASE d \notin listed
    BY <1>t, <2>0, <2>2, EmptyCell
  <2> QED BY <2>1, <2>2
<1>1. TypeOK'
  <2>1. tasks' \in [Proxy -> [Client -> Seq(Task)]]
    <3>1. [c \in Client |-> IF c \in listed
             THEN <<[kind |-> "snapshot", version |-> version[c]]>> ELSE <<>>]
           \in [Client -> Seq(Task)]
      BY <1>t, <1>c
    <3> QED BY <1>0, <1>m, <1>q, <3>1
  <2>2. active' \in State \cup {None}
    BY <1>0, CliState
  <2>3. current' \in 0 .. Len(upstreamUrl')
    BY <1>u, <1>l, <1>n, CliState
  <2>4. Len(upstreamUrl') <= MaxProxies
    BY <1>l, <1>r
  <2>5. missed' \subseteq Client
    BY <1>0
  <2> QED BY <1>a, <1>0, <1>u, <1>l, <2>1, <2>2, <2>3, <2>4, <2>5 DEF TypeOK
<1>2. CellsFit'
  <2> SUFFICES ASSUME NEW y \in Proxy, NEW d \in Client
               PROVE  /\ Fits(mirror[y][d], tasks'[y][d])
                      /\ <<y, d>> \in serving => mirror[y][d].link = "open" /\ d \in listed
                      /\ y \notin DOMAIN upstreamUrl' =>
                            mirror[y][d] = NoMirror /\ tasks'[y][d] = <<>>
    BY <1>u DEF CellsFit
  <2>0. <<y, d>> \in serving => mirror[y][d].link = "open" /\ d \in listed
    BY <1>a DEF CellsFit
  <2>1. CASE y = n
    BY <1>c, <1>l, <2>0, <2>1
  <2>2. CASE y # n
    BY <1>a, <1>l, <1>t, <2>0, <2>2 DEF CellsFit
  <2> QED BY <2>1, <2>2
<1>3. HoldersAreHeard'
  BY <1>a, <1>u, <1>l DEF HoldersAreHeard
<1>w. Newest' = n
  BY <1>l DEF Newest
<1>4. ProxiesInOrder'
  <2>1. n \notin closed /\ current # n
    BY <1>n, CliState
  <2> QED BY <1>0, <1>u, <1>l, <1>w, <1>q, <2>1, CliState DEF ProxiesInOrder
<1>5. StatesAreFollowed'
  <2>1. FinalState' = FinalState
    BY <1>0, <1>u DEF FinalState
  <2> QED BY <1>0, <1>u, <1>l, <1>w, <2>1, CliState DEF StatesAreFollowed
<1>6. ClosedLetGo'
  <2> SUFFICES ASSUME NEW y \in closed, NEW d \in Client, <<y, d>> \notin overtaken
               PROVE  LetsGo(mirror[y][d], tasks'[y][d])
    BY <1>u DEF ClosedLetGo
  <2>1. y \in Proxy /\ y # n
    BY <1>a, <1>n, CliState DEF TypeOK
  <2> QED BY <1>a, <1>t, <2>1 DEF ClosedLetGo
<1>7. TrackedAgrees'
  <2>1. Tracked' = n
    BY <1>0, <1>w DEF Tracked
  <2> SUFFICES ASSUME NEW d \in Client \ missed' PROVE Agrees(n, d)'
    BY <1>a, <1>u, <2>1 DEF TrackedAgrees
  <2>2. Outcome(mirror[n][d], tasks'[n][d]) = IF d \in listed THEN version[d] ELSE 0
    BY <1>c
  <2>3. mirror[n][d].link = "none"
    BY <1>c, NoMirrorIsMirror
  <2>4. ASSUME NEW y \in DOMAIN upstreamUrl', y # n, upstreamUrl'[y] = upstreamUrl'[n]
        PROVE  Inert(mirror[y][d], tasks'[y][d], y \in closed)
    <3>1. y \in DOMAIN upstreamUrl /\ upstreamUrl[y] = p
      BY <1>l, <2>4
    <3>2. SettledIn(y, d)
      BY <1>0, <3>1
    <3>3. y \in Proxy
      BY <1>a, <3>1, UrlFacts
    <3>4. Fits(mirror[y][d], tasks[y][d])
      BY <1>a, <3>3 DEF CellsFit
    <3>5. mirror[y][d].stage \in {"ready", "disconnecting", "connecting"}
      BY <1>m, <3>3 DEF Mirror
    <3>6. Inert(mirror[y][d], tasks[y][d], y \in closed)
      BY <3>2, <3>4, <3>5, SettledIsInert
    <3> QED BY <1>t, <2>4, <3>3, <3>6
  <2> QED BY <1>u, <2>2, <2>3, <2>4 DEF Agrees
<1> QED BY <1>1, <1>2, <1>3, <1>4, <1>5, <1>6, <1>7, <1>r DEF MirrorInvariant

-----------------------------------------------------------------------------
(* The specification.                                                      *)

(* The invariant holds at first,                                            *)
LEMMA InitHolds == Init => MirrorInvariant
<1> SUFFICES ASSUME Init PROVE MirrorInvariant
  OBVIOUS
<1> USE DEF NoProxy
<1>0. 0 \in 0 .. MaxVersion /\ 0 \in 0 .. MaxTerm /\ 0 \in 0 .. MaxDrops
        /\ 0 \in 0 .. 0 /\ MaxProxies \in Nat
  BY ConstantsAssumption
<1>1. /\ mirror = [x \in Proxy |-> [c \in Client |-> NoMirror]]
      /\ tasks = [x \in Proxy |-> [c \in Client |-> <<>>]]
      /\ upstreamUrl = <<>> /\ reconciles = <<>> /\ closed = {} /\ phase = "idle"
      /\ current = 0 /\ active = None /\ started = FALSE /\ unreported = FALSE
      /\ listed = {} /\ serving = {} /\ version = [c \in Client |-> 0]
      /\ holder = [p \in Primary |-> [c \in Client |-> 0]]
      /\ orphaned = {} /\ crash = "none" /\ drops = 0 /\ missed = {} /\ overtaken = {}
      /\ cluster = [term |-> 0, leader |-> None]
  BY DEF Init
<1>2. NoMirror \in Mirror /\ Fits(NoMirror, <<>>) /\ <<>> \in Seq(Task)
  BY NoMirrorIsMirror, EmptyCell
<1>3. cluster \in State
  BY <1>0, <1>1 DEF State
<1>4. /\ mirror \in [Proxy -> [Client -> Mirror]]
      /\ tasks \in [Proxy -> [Client -> Seq(Task)]]
      /\ holder \in [Primary -> [Client -> Proxy \cup {0}]]
      /\ version \in [Client -> 0 .. MaxVersion]
  BY <1>0, <1>1, <1>2
<1>5. Len(upstreamUrl) = 0 /\ DOMAIN upstreamUrl = {} /\ upstreamUrl \in Seq(Primary)
        /\ reconciles \in Seq(State)
  BY <1>1
<1>6. TypeOK
  <2>1. started \in BOOLEAN /\ unreported \in BOOLEAN
    BY <1>1
  <2>2. /\ current \in 0 .. Len(upstreamUrl) /\ Len(upstreamUrl) <= MaxProxies
        /\ drops \in 0 .. MaxDrops
    BY <1>0, <1>1, <1>5
  <2>3. /\ active \in State \cup {None} /\ phase \in {"idle", "syncing", "closing", "leaving"}
        /\ closed \subseteq Proxy /\ listed \subseteq Client /\ serving \subseteq Proxy \X Client
        /\ orphaned \subseteq Client /\ crash \in {"none", "sync", "send"}
        /\ missed \subseteq Client /\ overtaken \subseteq Proxy \X Client
    BY <1>1
  <2>4. holder \in [Primary -> [Client -> Proxy \cup {NoProxy}]]
    BY <1>4
  <2> QED BY <1>3, <1>4, <1>5, <2>1, <2>2, <2>3, <2>4 DEF TypeOK
<1>7. CellsFit
  BY <1>1, <1>2 DEF CellsFit
<1>8. HoldersAreHeard
  BY <1>1 DEF HoldersAreHeard
<1>9. ProxiesInOrder
  BY <1>1, <1>5 DEF ProxiesInOrder, Newest
<1>10. RoomIsKept
  <2>1. MayMakeProxy = {}
    BY <1>1 DEF MayMakeProxy
  <2>2. Cardinality(MayMakeProxy) = 0
    BY <2>1, FS_EmptySet
  <2> QED BY <1>0, <1>5, <2>2 DEF RoomIsKept
<1>11. StatesAreFollowed
  BY <1>1 DEF StatesAreFollowed
<1>12. ClosedLetGo
  BY <1>1 DEF ClosedLetGo
<1>13. TrackedAgrees
  BY <1>1 DEF TrackedAgrees, Tracked
<1> QED BY <1>6, <1>7, <1>8, <1>9, <1>10, <1>11, <1>12, <1>13 DEF MirrorInvariant

(* every step of the reconciliation keeps it,                               *)
LEMMA ReconcileKeeps ==
    ASSUME MirrorInvariant, Reconcile
    PROVE  MirrorInvariant'
<1>1. ReconcileFrame
  BY DEF Reconcile, ReconcileFrame, ReconcileReady
<1> QED BY <1>1, LeaderlessKeeps, SameKeeps, NewPrimaryKeeps, SwapKeeps, ProxyClosedKeeps
        DEF Reconcile

(* a step of something else keeps it,                                       *)
LEMMA StutterKeeps ==
    ASSUME MirrorInvariant, UNCHANGED vars
    PROVE  MirrorInvariant'
<1>1. \A y \in Proxy, d \in Client : <<y, d>> \in serving =>
          mirror[y][d].link = "open" /\ d \in listed
  BY DEF MirrorInvariant, CellsFit
<1>2. UNCHANGED <<clusterVars, cliVars, runtimeVars, tasks, mirror, holder, drops, missed,
                  overtaken, serving, orphaned, crash>>
  BY DEF vars, callVars
<1> QED BY <1>1, <1>2, RestOf, CallStepKeeps

(* and so does every step.                                                  *)
LEMMA NextKeeps == MirrorInvariant /\ [Next]_vars => MirrorInvariant'
<1> SUFFICES ASSUME MirrorInvariant, [Next]_vars PROVE MirrorInvariant'
  OBVIOUS
<1>1. ASSUME NEW x \in Proxy, NEW c \in Client, StartTask(x, c) PROVE MirrorInvariant'
  BY <1>1, StartTaskStep, CellStepKeeps
<1>2. ASSUME NEW x \in Proxy, NEW c \in Client, Closes(x, c) PROVE MirrorInvariant'
  BY <1>2, ClosesStep, CellStepKeeps
<1>3. ASSUME NEW x \in Proxy, NEW c \in Client, Opens(x, c) PROVE MirrorInvariant'
  BY <1>3, OpensStep, CellStepKeeps
<1>4. ASSUME NEW x \in Proxy, NEW c \in Client, Fails(x, c) PROVE MirrorInvariant'
  BY <1>4, FailsStep, CellStepKeeps
<1>5. ASSUME NEW x \in Proxy, NEW c \in Client, Registers(x, c) PROVE MirrorInvariant'
  BY <1>5, RegistersStep, CellStepKeeps
<1>6. ASSUME NEW x \in Proxy, NEW c \in Client, Drops(x, c) PROVE MirrorInvariant'
  BY <1>6, DropsStep, CellStepKeeps
<1>7. ASSUME NEW x \in Proxy, NEW c \in Client, Call(x, c) PROVE MirrorInvariant'
  BY <1>7, CallKeeps
<1>8. ASSUME NEW x \in Proxy, NEW c \in Client, AnswerWithoutSocket(x, c)
      PROVE MirrorInvariant'
  BY <1>8, AnswerKeeps
<1>9. ASSUME NEW c \in Client, CallSettles(c) PROVE MirrorInvariant'
  BY <1>9, CallSettlesKeeps
<1>10. ASSUME NEW c \in Client, ClientRegistered(c) PROVE MirrorInvariant'
  BY <1>10, ClientRegisteredKeeps
<1>11. ASSUME NEW c \in Client, ClientRemoved(c) PROVE MirrorInvariant'
  BY <1>11, ClientRemovedKeeps
<1>12. CASE LosesLeader
  BY <1>12, LosesLeaderKeeps
<1>13. CASE ObservesLeader
  BY <1>13, ObservesLeaderKeeps
<1>14. CASE Startup
  BY <1>14, StartupKeeps
<1>15. CASE Reconcile
  BY <1>15, ReconcileKeeps
<1>16. CASE UNCHANGED vars
  BY <1>16, StutterKeeps
<1> QED BY <1>1, <1>2, <1>3, <1>4, <1>5, <1>6, <1>7, <1>8, <1>9, <1>10, <1>11, <1>12, <1>13,
           <1>14, <1>15, <1>16 DEF Next

(* The mirrors, the primaries' registries and the reconciliation fit        *)
(* together at every step, in every cluster history and for every number of *)
(* clients, primaries, proxies and socket failures (upstream-               *)
(* proxy.ts:41-245, cli.ts:123-202).                                        *)
THEOREM MirrorIsInvariant == Spec => []MirrorInvariant
  BY InitHolds, NextKeeps, PTL DEF Spec

-----------------------------------------------------------------------------
(* What follows from the invariant in every state.                         *)

(* With nothing under way no reconcile is at work and every chain is empty. *)
LEMMA RestOfWork ==
    ASSUME MirrorInvariant, AtRest
    PROVE  /\ phase = "idle" /\ reconciles = <<>> /\ started
           /\ \A x \in Proxy, c \in Client : SettledIn(x, c)
  BY CliState DEF AtRest, ProxiesInOrder, Settled

(* With nothing under way the CLI mirrors to the leader the cluster manager *)
(* knows, and to nobody when it knows none (cli.ts:127-190, 226-231): what  *)
(* is queued always ends with the state last reported.                      *)
THEOREM CliFollowsCluster == Spec => []FollowsCluster
<1>1. MirrorInvariant => FollowsCluster
  <2> SUFFICES ASSUME MirrorInvariant, AtRest, ~ unreported PROVE UpstreamIsLeader
    BY DEF FollowsCluster
  <2>1. phase = "idle" /\ reconciles = <<>> /\ started
    BY RestOfWork
  <2>2. active \in State /\ active.leader = cluster.leader
    BY <2>1, CliState DEF StatesAreFollowed, FinalState
  <2>3. current # NoProxy => upstreamUrl[current] = active.leader /\ current \notin closed
    BY <2>1, CliState DEF StatesAreFollowed, ProxiesInOrder
  <2>4. current = NoProxy => active.leader = None
    BY <2>1, CliState DEF StatesAreFollowed
  <2> QED BY <2>2, <2>3, <2>4 DEF UpstreamIsLeader
<1> QED BY <1>1, MirrorIsInvariant, PTL

(* With nothing under way a closed proxy has no mirror left but one that    *)
(* was being replaced when it was closed (upstream-proxy.ts:43-49, 74-80):  *)
(* until then a removal is in its chain.                                    *)
THEOREM ProxiesLetGo == Spec => []ClosedProxiesLetGo
<1>1. MirrorInvariant => ClosedProxiesLetGo
  <2> SUFFICES ASSUME MirrorInvariant, AtRest, NEW x \in closed, NEW c \in Client,
                      mirror[x][c].link = "open", <<x, c>> \notin overtaken
               PROVE  FALSE
    BY DEF ClosedProxiesLetGo
  <2>1. x \in Proxy
    BY DEF MirrorInvariant, TypeOK
  <2>2. tasks[x][c] = <<>>
    BY <2>1, RestOfWork DEF SettledIn
  <2>3. Removes(tasks[x][c])
    BY DEF MirrorInvariant, ClosedLetGo, LetsGo
  <2> QED BY <2>2, <2>3 DEF Removes
<1> QED BY <1>1, MirrorIsInvariant, PTL

(* A reconcile that is held up waits for a socket that opens or closes,     *)
(* never for a chain without one (cli.ts:184-192, upstream-                 *)
(* proxy.ts:102-115).                                                       *)
THEOREM ReconcileIsNotStuck == Spec => []ReconcileWaitsForSocket
<1>1. MirrorInvariant => ReconcileWaitsForSocket
  <2> SUFFICES ASSUME MirrorInvariant, Quiet, reconciles # <<>>
               PROVE  \E x \in Proxy, c \in Client :
                          mirror[x][c].link \in {"opening", "closing"}
    BY DEF ReconcileWaitsForSocket
  <2>1. ~ ReconcileReady
    BY DEF Quiet
  <2>2. PICK x \in Proxy, c \in Client : tasks[x][c] # <<>>
    <3>1. CASE phase = "syncing"
      <4>1. Newest \in Proxy
        BY <3>1, CliState DEF ProxiesInOrder
      <4>2. ~ Drained(Newest)
        BY <2>1, <3>1 DEF ReconcileReady
      <4> QED BY <4>1, <4>2 DEF Drained
    <3>2. CASE phase \in {"closing", "leaving"}
      <4>1. CloseAwaited
        BY <2>1, <3>2 DEF ReconcileReady
      <4> QED BY <4>1 DEF CloseAwaited
    <3>3. phase # "idle"
      BY <2>1 DEF ReconcileReady
    <3> QED BY <3>1, <3>2, <3>3, CliFacts
  <2>3. mirror[x][c].stage # "ready"
    BY <2>2 DEF Quiet, TaskReady
  <2>4. Fits(mirror[x][c], tasks[x][c]) /\ mirror[x][c] \in Mirror
    BY CellOf
  <2> QED BY <2>3, <2>4 DEF Fits, Mirror
<1> QED BY <1>1, MirrorIsInvariant, PTL

(* With nothing under way the primary has of every client what the runtime  *)
(* lists, but for the clients that the model names as disturbed             *)
(* (cli.ts:178-192, upstream-proxy.ts:46-64, 196-203): the chain of the     *)
(* tracked proxy ends with it, and no other proxy takes the id.             *)
THEOREM CopiesAgree == Spec => []MirrorsAgree
<1>1. MirrorInvariant => MirrorsAgree
  <2> USE DEF NoProxy
  <2> SUFFICES ASSUME MirrorInvariant, AtRest, current # 0,
                      NEW c \in Client \ (missed \cup Contested)
               PROVE  UpToDate(c)
    BY DEF MirrorsAgree
  <2> PICK z : z = current
    OBVIOUS
  <2>a. TypeOK /\ CellsFit /\ HoldersAreHeard /\ ProxiesInOrder /\ ClosedLetGo
          /\ TrackedAgrees
    BY DEF MirrorInvariant
  <2>r. phase = "idle" /\ \A x \in Proxy, d \in Client : SettledIn(x, d)
    BY RestOfWork
  <2>1. Tracked = z
    BY <2>r DEF Tracked
  <2>2. z \in DOMAIN upstreamUrl /\ z \in Proxy /\ upstreamUrl[z] \in Primary
    BY <2>a, <2>1, TrackedIsMade, UrlFacts
  <2>3. Agrees(z, c)
    BY <2>a, <2>1 DEF TrackedAgrees
  <2>4. tasks[z][c] = <<>> /\ (mirror[z][c].link = "open" => mirror[z][c].heard)
    BY <2>r, <2>2 DEF SettledIn
  <2>5. (IF mirror[z][c].link = "open" THEN mirror[z][c].version ELSE 0)
          = IF c \in listed THEN version[c] ELSE 0
    BY <2>3, <2>4 DEF Agrees, Outcome
  <2>6. CASE mirror[z][c].link = "open"
    <3>1. holder[upstreamUrl[z]][c] = z
      BY <2>3, <2>4, <2>6 DEF Agrees
    <3> QED BY <2>2, <2>5, <2>6, <3>1 DEF UpToDate, Copy
  <2>7. CASE mirror[z][c].link # "open"
    <3> PICK y : y = holder[upstreamUrl[z]][c]
      OBVIOUS
    <3>1. y = 0
      <4> SUFFICES ASSUME y # 0 PROVE FALSE
        OBVIOUS
      <4>1. /\ y \in DOMAIN upstreamUrl /\ upstreamUrl[y] = upstreamUrl[z]
            /\ mirror[y][c].link \in {"open", "closing"}
        BY <2>a, <2>2 DEF HoldersAreHeard
      <4>2. y \in Proxy
        BY <2>a, <4>1, UrlFacts
      <4>3. tasks[y][c] = <<>>
        BY <2>r, <4>2 DEF SettledIn
      <4>4. Fits(mirror[y][c], tasks[y][c])
        BY <2>a, <4>2 DEF CellsFit
      <4>5. mirror[y][c].link = "open"
        BY <4>1, <4>3, <4>4 DEF Fits
      <4>6. y \in closed
        BY <2>a, <2>r, <2>7, <4>1, <4>5 DEF ProxiesInOrder
      <4>7. <<y, c>> \notin overtaken
        BY <4>1, <4>2 DEF Contested
      <4>8. Removes(tasks[y][c])
        BY <2>a, <4>5, <4>6, <4>7 DEF ClosedLetGo, LetsGo
      <4> QED BY <4>3, <4>8 DEF Removes
    <3> QED BY <2>5, <2>7, <3>1 DEF UpToDate, Copy
  <2> QED BY <2>6, <2>7
<1> QED BY <1>1, MirrorIsInvariant, PTL
=============================================================================
