------------------------------ MODULE MCShlock -------------------------------
(* Values for TLC. *)
EXTENDS Shlock, TLC

CONSTANTS s1, s2, s3

AnyOrder == Permutations(Scripts)
==============================================================================
