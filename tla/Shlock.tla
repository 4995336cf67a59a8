------------------------------- MODULE Shlock --------------------------------
(* shlock (shlock.c) makes and verifies lock files for shell scripts: a file  *)
(* with the pid of the script is made under a name of its own and linked to   *)
(* the name of the lock, which fails when that exists.  An extant lock whose  *)
(* process is gone is removed.  The scripts use it as shlock.1 shows.         *)
EXTENDS FiniteSets, Integers

CONSTANTS Scripts,   \* pids of scripts
          Mortal,    \* pids whose process may end, and be given out again
          Extant,    \* what may be at the lock's name to begin with
          Overlap,   \* how many shlocks run at a time
          Faults,    \* system calls may fail and shlock may be killed
          NoFile, Blank

(* A file is Blank when no pid of a script can be read from it.               *)
Files == Scripts \cup {Blank}
Names == Files \cup {NoFile}

ASSUME ShlockAssumption ==
  /\ NoFile \notin Files /\ Blank \notin Scripts
  /\ Mortal \subseteq Scripts /\ Extant \subseteq Names
  /\ IsFiniteSet(Scripts) /\ Overlap \in Nat /\ Faults \in BOOLEAN

VARIABLES
  lock,     \* the file at the lock's name
  tmp,      \* the file at the temporary name of a script's shlock
  pc,       \* the system call a script's shlock makes next; see Calls
  only,     \* only_check of that shlock
  fd,       \* the file it has opened
  same,     \* is that file still the one at the lock's name?
  ret,      \* its return code, TRUE for success
  alive,    \* pids in use
  inside,   \* scripts that do what requires the lock
  stolen    \* history: a shlock has removed another lock than it had tested

vars == <<lock, tmp, pc, only, fd, same, ret, alive, inside, stolen>>
scripts == <<alive, inside, stolen>>

Calls == {"none", "create", "write", "link", "open", "test", "break", "unlink"}
Running == {s \in Scripts : pc[s] # "none"}

Init ==
  /\ lock \in Extant
  /\ tmp = [s \in Scripts |-> NoFile]
  /\ pc = [s \in Scripts |-> "none"]
  /\ only = [s \in Scripts |-> FALSE]
  /\ fd = [s \in Scripts |-> NoFile]
  /\ same = [s \in Scripts |-> FALSE]
  /\ ret = [s \in Scripts |-> FALSE]
  /\ alive = {} /\ inside = {} /\ stolen = FALSE

(* --- The scripts ---------------------------------------------------------- *)

Begin(s) ==
  /\ s \notin alive /\ pc[s] = "none"
  /\ alive' = alive \cup {s}
  /\ UNCHANGED <<lock, tmp, pc, only, fd, same, ret, inside, stolen>>

(* The temporary file is named after the pid of shlock: one that is left over *)
(* is met again if that pid is.                                               *)
Call(s) ==
  /\ s \in alive \ inside /\ pc[s] = "none" /\ Cardinality(Running) < Overlap
  /\ \E check \in BOOLEAN :
       /\ only' = [only EXCEPT ![s] = check]
       /\ pc' = [pc EXCEPT ![s] = IF check THEN "open" ELSE "create"]
  /\ tmp' \in {tmp, [tmp EXCEPT ![s] = NoFile]}
  /\ ret' = [ret EXCEPT ![s] = FALSE]
  /\ UNCHANGED <<lock, fd, same, scripts>>

(* unlink, and what it would be if it failed without a word.                  *)
KeptLock == UNCHANGED <<lock, same>>
Unlinked ==
  /\ lock' = NoFile
  /\ same' = [s \in Scripts |-> FALSE]

(* rm, which does not ask whose lock it is.                                   *)
Remove(s) ==
  /\ s \in inside
  /\ inside' = inside \ {s}
  /\ Unlinked
  /\ UNCHANGED <<tmp, pc, only, fd, ret, alive, stolen>>

(* The script has done its work, or crashes wherever it is; the shlock it has *)
(* started runs on.                                                           *)
End(s) ==
  /\ s \in alive \cap Mortal
  /\ alive' = alive \ {s} /\ inside' = inside \ {s}
  /\ UNCHANGED <<lock, tmp, pc, only, fd, same, ret, stolen>>

(* --- shlock --------------------------------------------------------------- *)

Goto(s, c) == pc' = [pc EXCEPT ![s] = c]
LeftOpen(s) == UNCHANGED <<fd, same>>
Closed(s) ==
  /\ fd' = [fd EXCEPT ![s] = NoFile]
  /\ same' = [same EXCEPT ![s] = FALSE]
Exit(s, good) ==
  /\ Goto(s, "none")
  /\ ret' = [ret EXCEPT ![s] = good]

(* kill(pid, 0): ESRCH, or the process is there.  Changed: EPERM, the answer  *)
(* for another user's process, is taken for its absence; every error for a    *)
(* process.                                                                   *)
NoneExists(pid) == FALSE
AllExist(pid) == TRUE
p_exists(pid) == pid \in alive

(* xtmpfile: what is there already is unlinked first.                         *)
Create(s) ==
  /\ pc[s] = "create"
  /\ \/ /\ tmp' = [tmp EXCEPT ![s] = Blank]
        /\ Goto(s, "write")
        /\ UNCHANGED ret
     \/ /\ Faults
        /\ Exit(s, FALSE)
        /\ tmp' \in {tmp, [tmp EXCEPT ![s] = NoFile]}
  /\ UNCHANGED <<lock, only, fd, same, scripts>>

(* A full disk is noticed and the file taken away; unless it goes unnoticed.  *)
WriteIgnored(s) == Goto(s, "link") /\ UNCHANGED <<tmp, ret>>
WriteFails(s) ==
  /\ Exit(s, FALSE)
  /\ tmp' \in {tmp, [tmp EXCEPT ![s] = NoFile]}

Write(s) ==
  /\ pc[s] = "write"
  /\ \/ /\ tmp' = [tmp EXCEPT ![s] = s]
        /\ Goto(s, "link")
        /\ UNCHANGED ret
     \/ Faults /\ WriteFails(s)
  /\ UNCHANGED <<lock, only, fd, same, scripts>>

(* link fails with EEXIST; rename would not.                                  *)
Renames == FALSE
Exists == lock # NoFile

Link(s) ==
  /\ pc[s] = "link"
  /\ \/ /\ ~Exists
        /\ lock' = tmp[s]
        /\ ret' = [ret EXCEPT ![s] = TRUE]
        /\ Goto(s, "unlink")
     \/ /\ Exists
        /\ Goto(s, "open")
        /\ UNCHANGED <<lock, ret>>
     \/ /\ Faults
        /\ Goto(s, "unlink")
        /\ UNCHANGED <<lock, ret>>
  /\ UNCHANGED <<tmp, only, fd, same, scripts>>

(* cklock returns good: a check ends with it, an attempt gives up on TRUE.    *)
Checked(s, good) ==
  IF only[s] THEN Exit(s, good)
  ELSE Goto(s, IF good THEN "unlink" ELSE "break") /\ UNCHANGED ret

(* A lock that cannot be opened counts as valid.                              *)
Open(s) ==
  /\ pc[s] = "open"
  /\ \/ /\ lock # NoFile
        /\ fd' = [fd EXCEPT ![s] = lock]
        /\ same' = [same EXCEPT ![s] = TRUE]
        /\ Goto(s, "test")
        /\ UNCHANGED ret
     \/ /\ lock = NoFile \/ Faults
        /\ Checked(s, TRUE)
        /\ UNCHANGED <<fd, same>>
  /\ UNCHANGED <<lock, tmp, only, scripts>>

(* cklock: the pid is read and the process sent a null signal.                *)
Test(s) ==
  /\ pc[s] = "test"
  /\ Checked(s, p_exists(fd[s]))
  /\ IF ~only[s] /\ ~p_exists(fd[s]) THEN UNCHANGED <<fd, same>> ELSE Closed(s)
  /\ UNCHANGED <<lock, tmp, only, scripts>>

(* mklock: unlink takes what is at the name now, which was tested or not.     *)
Break(s) ==
  /\ pc[s] = "break"
  /\ \/ /\ lock # NoFile
        /\ Unlinked
        /\ Goto(s, "link")
        /\ fd' = [fd EXCEPT ![s] = NoFile]
        /\ stolen' = (stolen \/ ~same[s])
        /\ UNCHANGED ret
     \/ /\ lock = NoFile \/ Faults
        /\ Goto(s, "unlink")
        /\ Closed(s)
        /\ UNCHANGED <<lock, ret, stolen>>
  /\ UNCHANGED <<tmp, only, alive, inside>>

(* The temporary name goes; the script, if it lives, sees the return code.    *)
Unlink(s) ==
  /\ pc[s] = "unlink"
  /\ Exit(s, ret[s])
  /\ tmp' \in {[tmp EXCEPT ![s] = NoFile]} \cup (IF Faults THEN {tmp} ELSE {})
  /\ inside' = IF ret[s] /\ s \in alive THEN inside \cup {s} ELSE inside
  /\ UNCHANGED <<lock, only, fd, same, alive, stolen>>

Kill(s) ==
  /\ Faults /\ pc[s] # "none"
  /\ Exit(s, FALSE) /\ Closed(s)
  /\ UNCHANGED <<lock, tmp, only, scripts>>

shlock(s) ==
  \/ Create(s) \/ Write(s) \/ Link(s) \/ Open(s) \/ Test(s) \/ Break(s) \/ Unlink(s)

Next == \E s \in Scripts :
  \/ Begin(s) \/ Call(s) \/ Remove(s) \/ End(s)
  \/ shlock(s) \/ Kill(s)

Spec == Init /\ [][Next]_vars
FairSpec == Spec /\ \A s \in Scripts : WF_vars(shlock(s))

(* --- What holds ----------------------------------------------------------- *)

(* What is known of a shlock at each of its system calls: it has opened what  *)
(* it tests, breaks and links only to make a lock, links only what it has     *)
(* written, and has no success to report before (shlock.c:229-275).           *)
Knows(s) ==
  /\ fd[s] # NoFile <=> pc[s] \in {"test", "break"}
  /\ same[s] => fd[s] # NoFile /\ fd[s] = lock
  /\ pc[s] \in {"create", "write", "link", "break", "unlink"} => ~only[s]
  /\ pc[s] \in {"link", "open", "test", "break", "unlink"} /\ ~only[s] => tmp[s] = s
  /\ ret[s] => pc[s] \in {"none", "unlink"}

(* The types, and Knows of every shlock, whichever calls fail and whoever is  *)
(* killed.                                                                    *)
TypeOK ==
  /\ lock \in Names
  /\ tmp \in [Scripts -> Names]
  /\ pc \in [Scripts -> Calls]
  /\ only \in [Scripts -> BOOLEAN]
  /\ fd \in [Scripts -> Names]
  /\ same \in [Scripts -> BOOLEAN]
  /\ ret \in [Scripts -> BOOLEAN]
  /\ alive \subseteq Scripts /\ inside \subseteq alive /\ stolen \in BOOLEAN
  /\ \A s \in Scripts : Knows(s)

(* Two scripts never do at once what requires the lock: "reliable locks"      *)
(* (shlock.c:4).                                                              *)
AtMostOne == \A s, t \in inside : s = t

(* What is true of it: the lock is exclusive, however shlocks overlap, fail,  *)
(* are killed and find pids in use again, until a shlock removes at the       *)
(* lock's name another file than the one it has tested (shlock.c:252).        *)
Exclusive == stolen \/ AtMostOne

(* "That way we have a valid lock the instant the link succeeds"              *)
(* (shlock.c:129-133): whatever fails and whoever is killed, a file that      *)
(* appears at the lock's name holds the whole pid of its script.              *)
ValidTheInstant == [][lock' \in {lock, NoFile} \cup Scripts]_vars

(* A shlock that is about to remove the file it has tested (shlock.c:203-225, *)
(* 252) does not take the lock of a script that has it: only what has come to *)
(* the name since the test can be a lock in use.                              *)
TestIsSound ==
  \A s \in Scripts, t \in inside : pc[s] = "break" /\ same[s] => lock # t

(* A call of this shlock fails, or it is killed.                              *)
Fails(s) ==
  /\ pc[s] \in {"link", "open", "test", "break"}
  /\ \/ Kill(s)
     \/ pc[s] # "test" /\ pc'[s] = "unlink" /\ ~ret'[s]

(* "Locks do not survive crashes of either the system or the application by   *)
(* any appreciable period of time" (shlock.c:192-193): a lock whose process   *)
(* is gone, and not replaced by another with its pid, does not outlast a      *)
(* script that keeps trying, unless its shlocks keep failing.                 *)
StaleGoes == \A s, d \in Scripts :
  []<>(pc[s] = "link" /\ lock = d /\ d \notin alive)
    => []<>(lock # d \/ d \in alive) \/ []<><<Fails(s)>>_vars

(* Every shlock returns, however often it meets locks that are stale when it  *)
(* tests them (shlock.c:241-262), unless scripts end for ever.                *)
Returns == \A s \in Scripts :
  []<>(pc[s] = "none") \/ []<><<\E t \in Scripts : End(t)>>_vars
==============================================================================
