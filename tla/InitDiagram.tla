---------------------------- MODULE InitDiagram -----------------------------
(***************************************************************************)
(* The states init goes through and the transitions it may make, as its    *)
(* design notes have them (NOTES, "necessary states and state              *)
(* transitions"), and two kinds of transition init.c makes besides.        *)
(* Boring mode is multi-user operation here: both react to the same        *)
(* signals, and what distinguishes them is in the sessions.                *)
(***************************************************************************)
EXTENDS Naturals

VARIABLE mode

Mode == {"single user", "rc", "read ttys", "multi-user", "clean up", "death"}

Init == mode = "rc"

ShellExits    == mode = "single user" /\ mode' = "rc"
RcFails       == mode = "rc"          /\ mode' = "single user"
RcSucceeds    == mode = "rc"          /\ mode' = "read ttys"
TtysRead      == mode = "read ttys"   /\ mode' = "multi-user"
Terminate     == mode = "multi-user"  /\ mode' = "death"
Hangup        == mode = "multi-user"  /\ mode' = "clean up"
CleanedUp     == mode = "clean up"    /\ mode' = "multi-user"
AllDead       == mode = "death"       /\ mode' = "single user"

\* Not in the notes: a signal during the single-user shell or the boot script,
\* and no memory for the sessions.
Interrupted   == mode \in {"single user", "rc"} /\ mode' \in {"death", "clean up", "multi-user"}
NoSessions    == mode = "read ttys"   /\ mode' = "single user"

Next == \/ ShellExits \/ RcFails \/ RcSucceeds \/ TtysRead
        \/ Terminate \/ Hangup \/ CleanedUp \/ AllDead
        \/ Interrupted \/ NoSessions

\* Neither reading the ttys file nor cleaning up may last.
Spec == Init /\ [][Next]_mode /\ WF_mode(TtysRead \/ NoSessions \/ CleanedUp)
==============================================================================
