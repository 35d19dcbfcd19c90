-------------------------- MODULE MCServerRuntime --------------------------
(* ServerRuntime for TLC: connections that the constants do not tell apart, *)
(* clients and invocations are symmetric.                                  *)
EXTENDS ServerRuntime, TLC

Symmetry ==
    Permutations(Session \ (HttpLoop \cup Lingering))
        \cup Permutations(HttpLoop \ Lingering) \cup Permutations(Client)
        \cup Permutations(Request)
=============================================================================
