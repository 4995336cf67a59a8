------------------------------- MODULE MCTape --------------------------------
(* Values for TLC: where headers fall in the dump, and where the tapes end.   *)
EXTENDS TapeRing

Headers == {{}, {1}, {Total}, {i \in 1..Total : i % 3 = 1}}
SomeKinds == {[i \in 1..Total |-> IF i \in H THEN "mem" ELSE "disk"] : H \in Headers}
SomeRooms == {<<>>} \cup {<<r>> : r \in 2..8} \cup {<<3, 3>>, <<5, 1>>}
==============================================================================
