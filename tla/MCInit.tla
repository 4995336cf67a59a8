------------------------------ MODULE MCInit --------------------------------
(* Values for TLC. *)
EXTENDS InitMachine, TLC

CONSTANTS l1, l2, p1, p2, p3, p4

Numbers == Permutations(Pid)
==============================================================================
