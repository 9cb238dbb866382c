----------------------------- MODULE MCEventLoop -----------------------------
(* EventLoop for TLC.                                                      *)
EXTENDS EventLoop, TLC

Symmetry == Permutations(Producers) \cup Permutations(Tasks)
==============================================================================
