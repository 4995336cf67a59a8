------------------------------- MODULE MCTftp --------------------------------
(* Values for TLC. *)
EXTENDS Tftp

CONSTANTS f1, f2
==============================================================================
