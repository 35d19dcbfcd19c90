----------------------------- MODULE MCServices ----------------------------
(* Two services around the runtime of a server for TLC: the state store,    *)
(* and the calls of an MCP bridge.  They have no state in common: a         *)
(* behaviour is one of either, and part says which.                         *)
EXTENDS StateStore, BridgeCalls

VARIABLE part

ServicesInit ==
    /\ part \in {"store", "bridge"}
    /\ StoreInit /\ BridgeInit
    /\ part = "store" => leads = {} /\ known = {}

ServicesNext ==
    \/ part = "store" /\ StoreNext /\ UNCHANGED <<part, bridgeVars>>
    \/ part = "bridge" /\ BridgeNext /\ UNCHANGED <<part, storeVars>>

ServicesSpec ==
    /\ ServicesInit /\ [][ServicesNext]_<<part, storeVars, bridgeVars>>
    /\ StoreFairness /\ BridgeFairness
=============================================================================
