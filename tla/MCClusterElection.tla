------------------------- MODULE MCClusterElection -------------------------
(* ClusterElection for TLC: a bound on the messages in flight, symmetric    *)
(* servers, and a cluster that has already found itself as initial state.  *)
EXTENDS ClusterElection, TLC

CONSTANT MaxInFlight    \* states with more messages in flight are not extended

FewInFlight == Cardinality(msgs) <= MaxInFlight

(* Servers that the constants do not tell apart.                           *)
Symmetry == Permutations(Node \ (Flaky \cup Silent \cup Stoppable \cup Probing \cup Calling))

(* All servers have started, are joined by links and have handled every    *)
(* hello; no election timer has fired yet.                                 *)
FormedInit ==
    /\ mgr = [i \in Node |->
                 [phase |-> "running", term |-> 0, role |-> "follower",
                  leader |-> None, vote |-> None, lease |-> FALSE, votes |-> {},
                  electionTimer |-> TRUE, heartbeatTimer |-> FALSE,
                  members |-> Node, known |-> Node \ {i}, fresh |-> Node \ {i},
                  rpc |-> None]]
    /\ link = {l \in SUBSET Node : Cardinality(l) = 2}
    /\ msgs = {}
    /\ elected = {}
=============================================================================
