------------------------------ MODULE FileCopy -------------------------------
(* What the user of tftp sees of one command: the blocks of a file are copied *)
(* one after the other, each once, and the command is successful only when    *)
(* all of them are there.  How the blocks travel is left open.                *)
EXTENDS Integers

CONSTANT MaxBlocks

VARIABLES size,      \* the blocks of the file
          copied,    \* how many of them have been copied
          outcome    \* "none" before the command, "busy", "ok" or "failed"

vars == <<size, copied, outcome>>

Init == size = 0 /\ copied = 0 /\ outcome = "none"

Begin == /\ outcome = "none"
         /\ outcome' = "busy"
         /\ size' \in 1..MaxBlocks
         /\ UNCHANGED copied

Copy == /\ copied < size
        /\ copied' = copied + 1
        /\ UNCHANGED <<size, outcome>>

(* The one who copies the last block may know at once that it is the last.    *)
Succeed == /\ outcome = "busy"
           /\ copied' = size /\ copied' - copied \in {0, 1}
           /\ outcome' = "ok"
           /\ UNCHANGED size

(* A command may fail at any time, even when everything has been copied.      *)
Fail == /\ outcome = "busy"
        /\ outcome' = "failed"
        /\ UNCHANGED <<size, copied>>

Next == Begin \/ Copy \/ Succeed \/ Fail

Spec == Init /\ [][Next]_vars /\ WF_vars(Succeed \/ Fail)
==============================================================================
