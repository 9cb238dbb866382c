---------------------------- MODULE MCThreadPool -----------------------------
(* ThreadPool for TLC.  No symmetry: one of the tasks does not return, and *)
(* the runs but one check liveness.                                        *)
EXTENDS ThreadPool
==============================================================================
