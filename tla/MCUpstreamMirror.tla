-------------------------- MODULE MCUpstreamMirror --------------------------
(* UpstreamMirror for TLC: primaries are symmetric, and clients that the    *)
(* constants do not tell apart.                                            *)
EXTENDS UpstreamMirror, TLC

Symmetry == Permutations(Primary) \cup Permutations(Client \ Busy)
=============================================================================
