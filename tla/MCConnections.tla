---------------------------- MODULE MCConnections ----------------------------
(* Connections for TLC.                                                    *)
EXTENDS Connections, TLC

Symmetry ==
  Permutations(Conns) \cup Permutations(Fds) \cup Permutations(Workers)
==============================================================================
