---------------------------- MODULE MCConnectionIO ---------------------------
(* ConnectionIO for TLC.                                                   *)
EXTENDS ConnectionIO
==============================================================================
