------------------------------ MODULE MCServers -----------------------------
(* What a server is told late, for TLC: by the connections of its clients,  *)
(* which the runtime may have closed, and by the servers it looks for,      *)
(* which may have stopped or moved.  The two have no state in common: a     *)
(* behaviour is one of either, and part says which.                         *)
EXTENDS MCServerRuntime, MCServerDiscovery

VARIABLE part

ServersInit ==
    /\ part \in {"runtime", "discovery"}
    /\ Init /\ DiscoveryInit
    /\ part = "runtime" => options = Together(Given("m", 1), Given("n", 2), Given("o", 3))

ServersNext ==
    \/ part = "runtime" /\ Next /\ UNCHANGED <<part, discoveryVars>>
    \/ part = "discovery" /\ DiscoveryNext /\ UNCHANGED <<part, vars>>

ServersSpec == ServersInit /\ [][ServersNext]_<<part, vars, discoveryVars>>
=============================================================================
