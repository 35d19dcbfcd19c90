------------------------- MODULE MCOrderedElection -------------------------
(* MCClusterElection with one socket between two servers, which delivers   *)
(* in order: what goes wrong here does not need messages that overtake one *)
(* another.                                                                *)
EXTENDS MCClusterElection, SequencesExt

VARIABLE queue          \* the messages in flight, oldest first

SameSocket(m, n) == m.from = n.from /\ m.to = n.to /\ "meta" \notin {m.type, n.type}

(* No message is taken before an older one on its socket.                  *)
InOrder ==
    \A m \in msgs \ msgs' : \A k \in DOMAIN queue :
        SameSocket(queue[k], m) /\ queue[k] \in msgs' =>
            \E l \in 1 .. k : queue[l] = m

OrderedInit == FormedInit /\ queue = <<>>

OrderedNext ==
    /\ Next
    /\ InOrder
    /\ queue' = SelectSeq(queue, LAMBDA m : m \in msgs') \o SetToSeq(msgs' \ msgs)

OrderedSpec == OrderedInit /\ [][OrderedNext]_<<vars, queue>>
=============================================================================
