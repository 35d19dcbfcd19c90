-------------------------- MODULE MCFormedElection --------------------------
(* A cluster that has found itself, for TLC.  Either nothing fails, which   *)
(* leaves room for more messages in flight, or the constants say what does. *)
EXTENDS MCClusterElection

CONSTANT MaxInCalm    \* the bound on messages in flight when nothing fails

VARIABLE calm

FewerInStorm == Cardinality(msgs) <= IF calm THEN MaxInCalm ELSE MaxInFlight

FormedNext ==
    /\ Next
    /\ calm => /\ UNCHANGED link
               /\ \A i \in Node : mgr[i].fresh \subseteq mgr'[i].fresh
    /\ UNCHANGED calm

CalmOrNotInit == FormedInit /\ calm \in BOOLEAN

FormedSpec == CalmOrNotInit /\ [][FormedNext]_<<vars, calm>>
=============================================================================
