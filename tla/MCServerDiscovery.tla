------------------------- MODULE MCServerDiscovery --------------------------
(* ServerDiscovery for TLC: what is started together.  Processes are "w",   *)
(* "x", "y" and "z".                                                        *)
EXTENDS ServerDiscovery, TLC

Plain == [port |-> 0, name |-> "", wildcard |-> FALSE, members |-> {}, cluster |-> "c",
          version |-> 1, mode |-> "auto", seed |-> 0]

Given(n, p) == [Plain EXCEPT !.name = n, !.port = p]

Of(line, ns) == [line EXCEPT !.members = {<<n>> : n \in ns}]

Together(a, b, c) == "x" :> a @@ "y" :> b @@ "z" :> c

MCDeployments == {
    (* Three servers, one on a port that is not probed.                     *)
    Together(Given("m", 1), Given("n", 2), Given("o", 3)),
    (* Two that choose their ports, and another cluster on the next port.   *)
    Together(Plain, Plain, [Given("m", 2) EXCEPT !.cluster = "d"]),
    (* Two clusters that share a name.                                      *)
    Together(Given("m", 1), Given("n", 3), [Given("m", 2) EXCEPT !.cluster = "d"]),
    (* A configured membership, and a server that is not of it.             *)
    Together(Of(Given("m", 1), {"m", "n"}), Of(Given("n", 2), {"m", "n"}), Given("o", 3)),
    (* A stranger takes over the port of a configured member.               *)
    Together(Of(Given("m", 1), {"m", "n"}), Given("o", 1), Of(Given("n", 3), {"m", "n"})),
    (* A server that is started again, at its port and at another.          *)
    Together(Given("m", 1), Given("m", 1), Given("n", 2)),
    Together(Given("m", 1), Given("m", 2), Given("n", 3)),
    (* A port that another server takes over, and a restart elsewhere.      *)
    Together(Given("m", 1), Given("o", 1), Given("m", 2)) @@ "w" :> Given("n", 3),
    (* Three with one id, one of which takes over the port of another.      *)
    Together(Given("m", 1), Given("m", 1), Given("m", 2)) @@ "w" :> Given("n", 3),
    (* Another version.                                                     *)
    Together(Given("m", 1), Given("n", 2), [Given("o", 3) EXCEPT !.version = 2]),
    (* One that is no cluster member, and one that needs a peer.            *)
    Together([Plain EXCEPT !.mode = "standalone"], Given("n", 2), [Plain EXCEPT !.mode = "proxy-required"]),
    (* One that listens on every address.                                   *)
    "x" :> [Plain EXCEPT !.wildcard = TRUE] @@ "y" :> Given("n", 2),
    (* Upstream URLs, one of another cluster, one of a server that is no    *)
    (* member.                                                              *)
    Together([Given("n", 2) EXCEPT !.seed = 3], [Given("m", 3) EXCEPT !.cluster = "d"], Given("o", 1)),
    Together(Given("m", 3), [Given("n", 2) EXCEPT !.seed = 3], [Of(Given("o", 1), {"o", "n"}) EXCEPT !.seed = 3])}

(* The hub of the documentation and two edges that choose their ports.      *)
MCHubAndEdges == {
    Together(Given("hub", 1), [Plain EXCEPT !.name = "edge-01"], [Plain EXCEPT !.name = "edge-02"])}
=============================================================================
