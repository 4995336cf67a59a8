---------------------------- MODULE ShlockProofs -----------------------------
(* What shlock.c guarantees for any number of scripts: the types, that a lock *)
(* is valid the instant it appears, that a tested lock is not taken from a    *)
(* script that has it, and when that makes the lock exclusive.                *)
EXTENDS Shlock, FiniteSetTheorems, TLAPS

(* The part of TypeOK that gives the sets.                                    *)
Types ==
  /\ lock \in Names
  /\ tmp \in [Scripts -> Names]
  /\ pc \in [Scripts -> Calls]
  /\ only \in [Scripts -> BOOLEAN]
  /\ fd \in [Scripts -> Names]
  /\ same \in [Scripts -> BOOLEAN]
  /\ ret \in [Scripts -> BOOLEAN]
  /\ alive \subseteq Scripts /\ inside \subseteq alive /\ stolen \in BOOLEAN

LEMMA Parts == TypeOK <=> Types /\ \A s \in Scripts : Knows(s)
  BY DEF TypeOK, Types

(* NoFile is not the name of a file.                                          *)
LEMMA NoFileIsNone == NoFile \notin Files
  BY ShlockAssumption

LEMMA InitTypes == Init => TypeOK
<1> SUFFICES ASSUME Init PROVE TypeOK
  OBVIOUS
<1>1. Types
  BY ShlockAssumption DEF Init, Types, Names, Calls
<1>2. \A s \in Scripts : Knows(s)
  BY DEF Init, Knows
<1> QED  BY <1>1, <1>2, Parts

(* What the scripts do keeps the types.                                       *)
LEMMA ScriptTypes ==
  ASSUME TypeOK, NEW s \in Scripts, Begin(s) \/ Call(s) \/ Remove(s) \/ End(s)
  PROVE  TypeOK'
<1> USE NoFileIsNone, Parts
<1>1. CASE Begin(s)
  <2>1. Types'  BY <1>1 DEF Begin, Types
  <2>2. \A t \in Scripts : Knows(t)'  BY <1>1 DEF Begin, Knows, Types
  <2> QED  BY <2>1, <2>2, Parts DEF TypeOK, Types
<1>2. CASE Call(s)
  <2>1. Types'  BY <1>2 DEF Call, scripts, Types, Names, Calls
  <2>2. \A t \in Scripts : Knows(t)'  BY <1>2 DEF Call, Knows, Types
  <2> QED  BY <2>1, <2>2 DEF TypeOK, Types
<1>3. CASE Remove(s)
  <2>1. Types'  BY <1>3 DEF Remove, Unlinked, Types, Names
  <2>2. \A t \in Scripts : Knows(t)'  BY <1>3 DEF Remove, Unlinked, Knows, Types
  <2> QED  BY <2>1, <2>2 DEF TypeOK, Types
<1>4. CASE End(s)
  <2>1. Types'  BY <1>4 DEF End, Types
  <2>2. \A t \in Scripts : Knows(t)'  BY <1>4 DEF End, Knows, Types
  <2> QED  BY <2>1, <2>2 DEF TypeOK, Types
<1> QED  BY <1>1, <1>2, <1>3, <1>4

(* So does every system call of shlock, and a signal that kills it.           *)
(* A return code is TRUE or FALSE, and so is what kill answers.               *)
LEMMA Answered ==
  ASSUME Types, NEW s \in Scripts, NEW d,
         Checked(s, TRUE) \/ Checked(s, p_exists(d))
  PROVE  ret' \in [Scripts -> BOOLEAN]
<1>1. CASE Checked(s, TRUE)
  BY <1>1 DEF Checked, Exit, Types
<1>2. CASE Checked(s, p_exists(d))
  <2>1. PICK good \in BOOLEAN : good = (d \in alive)
    <3>1. CASE d \in alive
      <4>1. TRUE = (d \in alive)  BY <3>1
      <4> QED  BY <4>1
    <3>2. CASE d \notin alive
      <4>1. FALSE = (d \in alive)  BY <3>2
      <4> QED  BY <4>1
    <3> QED  BY <3>1, <3>2
  <2>2. Checked(s, good)  BY <1>2, <2>1 DEF p_exists
  <2>3. CASE only[s]
    <3>1. ret' = [ret EXCEPT ![s] = good]  BY <2>2, <2>3 DEF Checked, Exit
    <3> QED  BY <2>1, <3>1 DEF Types
  <2>4. CASE ~only[s]
    BY <2>2, <2>4 DEF Checked, Types
  <2> QED  BY <2>3, <2>4
<1> QED  BY <1>1, <1>2

LEMMA ShlockTypes ==
  ASSUME TypeOK, NEW s \in Scripts, shlock(s) \/ Kill(s)
  PROVE  TypeOK'
<1> USE NoFileIsNone DEF Goto, Exit, scripts
<1>0. Types /\ Knows(s) /\ \A t \in Scripts : Knows(t)
  BY Parts
<1>1. CASE Create(s)
  <2>1. Types'  BY <1>0, <1>1 DEF Create, Types, Names, Files, Calls
  <2>2. \A t \in Scripts : Knows(t)'  BY <1>0, <1>1 DEF Create, Knows, Types
  <2> QED  BY <2>1, <2>2 DEF TypeOK, Types
<1>2. CASE Write(s)
  <2>1. Types'
    <3>1. lock' \in Names /\ tmp' \in [Scripts -> Names]
      BY <1>0, <1>2 DEF Write, WriteFails, Types, Names, Files, Calls
    <3>2. pc' \in [Scripts -> Calls]
      BY <1>0, <1>2 DEF Write, WriteFails, Types, Names, Files, Calls
    <3>3. ret' \in [Scripts -> BOOLEAN]
      BY <1>0, <1>2 DEF Write, WriteFails, Types, Names, Files, Calls
    <3>4. fd' \in [Scripts -> Names] /\ same' \in [Scripts -> BOOLEAN]
      BY <1>0, <1>2 DEF Write, WriteFails, Types, Names, Files, Calls
    <3>5. UNCHANGED <<only, alive, inside, stolen>>
      BY <1>2 DEF Write
    <3> QED  BY <1>0, <3>1, <3>2, <3>3, <3>4, <3>5 DEF Types
  <2>2. \A t \in Scripts : Knows(t)'  BY <1>0, <1>2 DEF Write, WriteFails, Knows, Types
  <2> QED  BY <2>1, <2>2 DEF TypeOK, Types
<1>3. CASE Link(s)
  <2>1. Types'
    <3>1. lock' \in Names /\ tmp' \in [Scripts -> Names]
      BY <1>0, <1>3 DEF Link, Types, Names, Files, Calls
    <3>2. pc' \in [Scripts -> Calls]
      BY <1>0, <1>3 DEF Link, Types, Names, Files, Calls
    <3>3. ret' \in [Scripts -> BOOLEAN]
      BY <1>0, <1>3 DEF Link, Types, Names, Files, Calls
    <3>4. fd' \in [Scripts -> Names] /\ same' \in [Scripts -> BOOLEAN]
      BY <1>0, <1>3 DEF Link, Types, Names, Files, Calls
    <3>5. UNCHANGED <<only, alive, inside, stolen>>
      BY <1>3 DEF Link
    <3> QED  BY <1>0, <3>1, <3>2, <3>3, <3>4, <3>5 DEF Types
  <2>2. \A t \in Scripts : Knows(t)'  BY <1>0, <1>3 DEF Link, Exists, Knows, Types
  <2> QED  BY <2>1, <2>2 DEF TypeOK, Types
<1>4. CASE Open(s)
  <2>1. Types'
    <3>1. lock' \in Names /\ tmp' \in [Scripts -> Names]
      BY <1>0, <1>4 DEF Open, Checked, Types, Names, Files, Calls
    <3>2. pc' \in [Scripts -> Calls]
      BY <1>0, <1>4 DEF Open, Checked, Types, Names, Files, Calls
    <3>3. ret' \in [Scripts -> BOOLEAN]
      <4>1. CASE UNCHANGED ret  BY <1>0, <4>1 DEF Types
      <4>2. CASE Checked(s, TRUE)  BY <1>0, <4>2, Answered
      <4> QED  BY <1>4, <4>1, <4>2 DEF Open
    <3>4. fd' \in [Scripts -> Names] /\ same' \in [Scripts -> BOOLEAN]
      <4>1. CASE UNCHANGED <<fd, same>>  BY <1>0, <4>1 DEF Types
      <4>2. CASE fd' = [fd EXCEPT ![s] = lock] /\ same' = [same EXCEPT ![s] = TRUE]
        BY <1>0, <4>2 DEF Types
      <4> QED  BY <1>4, <4>1, <4>2 DEF Open
    <3>5. UNCHANGED <<only, alive, inside, stolen>>
      BY <1>4 DEF Open
    <3> QED  BY <1>0, <3>1, <3>2, <3>3, <3>4, <3>5 DEF Types
  <2>2. \A t \in Scripts : Knows(t)'  BY <1>0, <1>4 DEF Open, Checked, Knows, Types
  <2> QED  BY <2>1, <2>2 DEF TypeOK, Types
<1>5. CASE Test(s)
  <2>1. Types'
    <3>1. lock' \in Names /\ tmp' \in [Scripts -> Names]
      BY <1>0, <1>5 DEF Test, Checked, Closed, p_exists, Types, Names, Calls
    <3>2. pc' \in [Scripts -> Calls]
      BY <1>0, <1>5 DEF Test, Checked, Closed, p_exists, Types, Names, Calls
    <3>3. ret' \in [Scripts -> BOOLEAN]
      BY <1>0, <1>5, Answered DEF Test
    <3>4. fd' \in [Scripts -> Names] /\ same' \in [Scripts -> BOOLEAN]
      BY <1>0, <1>5 DEF Test, Checked, Closed, p_exists, Types, Names, Calls
    <3>5. UNCHANGED <<only, alive, inside, stolen>>
      BY <1>5 DEF Test
    <3> QED  BY <1>0, <3>1, <3>2, <3>3, <3>4, <3>5 DEF Types
  <2>2. \A t \in Scripts : Knows(t)'
    BY <1>0, <1>5 DEF Test, Checked, Closed, p_exists, Knows, Types
  <2> QED  BY <2>1, <2>2 DEF TypeOK, Types
<1>6. CASE Break(s)
  <2>1. Types'  BY <1>0, <1>6 DEF Break, Unlinked, Closed, Types, Names, Calls
  <2>2. \A t \in Scripts : Knows(t)'  BY <1>0, <1>6 DEF Break, Unlinked, Closed, Knows, Types
  <2> QED  BY <2>1, <2>2 DEF TypeOK, Types
<1>7. CASE Unlink(s)
  <2>1. Types'  BY <1>0, <1>7 DEF Unlink, Types, Names, Calls
  <2>2. \A t \in Scripts : Knows(t)'  BY <1>0, <1>7 DEF Unlink, Knows, Types
  <2> QED  BY <2>1, <2>2 DEF TypeOK, Types
<1>8. CASE Kill(s)
  <2>1. Types'  BY <1>0, <1>8 DEF Kill, Closed, Types, Names, Calls
  <2>2. \A t \in Scripts : Knows(t)'  BY <1>0, <1>8 DEF Kill, Closed, Knows, Types
  <2> QED  BY <2>1, <2>2 DEF TypeOK, Types
<1> QED  BY <1>1, <1>2, <1>3, <1>4, <1>5, <1>6, <1>7, <1>8 DEF shlock

LEMMA NextTypes == ASSUME TypeOK, [Next]_vars PROVE TypeOK'
<1>1. CASE Next  BY <1>1, ScriptTypes, ShlockTypes DEF Next
<1>2. CASE UNCHANGED vars
  BY <1>2 DEF vars, TypeOK, Knows
<1> QED  BY <1>1, <1>2

(* Whichever calls fail and whoever is killed, each shlock has opened what it *)
(* tests, written what it links, and reports success only after a link.       *)
THEOREM TypeCorrect == Spec => []TypeOK
<1> QED  BY InitTypes, NextTypes, PTL DEF Spec

(* Only link puts a file at the lock's name, and the file it puts there has   *)
(* been written.                                                              *)
LEMMA NewLock ==
  ASSUME TypeOK, NEW s \in Scripts,
         Begin(s) \/ Call(s) \/ Remove(s) \/ End(s) \/ shlock(s) \/ Kill(s)
  PROVE  \/ lock' \in {lock, NoFile}
         \/ Link(s) /\ lock = NoFile /\ lock' = s
<1>1. CASE Begin(s) \/ Call(s) \/ Remove(s) \/ End(s) \/ Kill(s)
  BY <1>1 DEF Begin, Call, Remove, Unlinked, End, Kill
<1>2. CASE Create(s) \/ Write(s) \/ Open(s) \/ Test(s) \/ Break(s) \/ Unlink(s)
  BY <1>2 DEF Create, Write, Open, Test, Break, Unlinked, Unlink
<1>3. CASE Link(s)
  <2>1. tmp[s] = s  BY <1>3, Parts DEF Link, Knows
  <2> QED  BY <1>3, <2>1 DEF Link, Exists
<1> QED  BY <1>1, <1>2, <1>3 DEF shlock

(* A file that appears at the lock's name holds the pid of its script: a      *)
(* write that fails and a shlock that is killed leave none there.             *)
THEOREM ValidAtOnce == Spec => ValidTheInstant
<1>1. ASSUME TypeOK, [Next]_vars
      PROVE  [lock' \in {lock, NoFile} \cup Scripts]_vars
  <2>1. CASE Next
    <3>1. PICK s \in Scripts :
            Begin(s) \/ Call(s) \/ Remove(s) \/ End(s) \/ shlock(s) \/ Kill(s)
      BY <2>1 DEF Next
    <3> QED  BY <1>1, <3>1, NewLock
  <2> QED  BY <1>1, <2>1
<1> QED  BY <1>1, TypeCorrect, PTL DEF Spec, ValidTheInstant

(* A script has the lock, or its shlock is about to tell it so.               *)
Owns(t) == t \in inside \/ (pc[t] = "unlink" /\ ret[t] /\ t \in alive)

(* What a shlock has tested and is still there belongs to nobody, not even to *)
(* a new process with the old pid: that one would have to link a file of its  *)
(* own.  A script that has the lock runs no shlock.                           *)
SoundInv ==
  /\ \A b, t \in Scripts : pc[b] = "break" /\ same[b] /\ lock = t => ~Owns(t)
  /\ \A t \in inside : pc[t] = "none"

LEMMA InitSound == Init => SoundInv
  BY DEF Init, SoundInv

LEMMA ScriptSound ==
  ASSUME TypeOK, SoundInv, NEW s \in Scripts,
         Begin(s) \/ Call(s) \/ Remove(s) \/ End(s)
  PROVE  SoundInv'
<1>0. Types  BY Parts
<1>1. CASE Begin(s)  BY <1>0, <1>1 DEF Begin, SoundInv, Owns, Types
<1>2. CASE Call(s)  BY <1>0, <1>2 DEF Call, scripts, SoundInv, Owns, Types
<1>3. CASE Remove(s)  BY <1>0, <1>3 DEF Remove, Unlinked, SoundInv, Owns, Types
<1>4. CASE End(s)  BY <1>0, <1>4 DEF End, SoundInv, Owns, Types
<1> QED  BY <1>1, <1>2, <1>3, <1>4

LEMMA ShlockSound ==
  ASSUME TypeOK, SoundInv, NEW s \in Scripts, shlock(s) \/ Kill(s)
  PROVE  SoundInv'
<1> USE NoFileIsNone DEF Goto, Exit, scripts
<1>0. Types /\ \A t \in Scripts : Knows(t)  BY Parts
<1>1. CASE Create(s)  BY <1>0, <1>1 DEF Create, SoundInv, Owns, Types
<1>2. CASE Write(s)  BY <1>0, <1>2 DEF Write, WriteFails, SoundInv, Owns, Types
<1>3. CASE Link(s)
  <2>1. CASE lock = NoFile
    <3>1. \A b \in Scripts : ~same[b]  BY <1>0, <2>1 DEF Knows
    <3> QED  BY <1>0, <1>3, <3>1 DEF Link, SoundInv, Types
  <2>2. CASE lock # NoFile
    BY <1>0, <1>3, <2>2 DEF Link, Exists, SoundInv, Owns, Types, Knows
  <2> QED  BY <2>1, <2>2
<1>4. CASE Open(s)
  BY <1>0, <1>4 DEF Open, Checked, SoundInv, Owns, Types, Knows
<1>5. CASE Test(s)
  BY <1>0, <1>5 DEF Test, Checked, Closed, p_exists, SoundInv, Owns, Types, Knows
<1>6. CASE Break(s)
  BY <1>0, <1>6 DEF Break, Unlinked, Closed, SoundInv, Owns, Types, Knows
<1>7. CASE Unlink(s)
  BY <1>0, <1>7 DEF Unlink, SoundInv, Owns, Types
<1>8. CASE Kill(s)
  BY <1>0, <1>8 DEF Kill, Closed, SoundInv, Owns, Types
<1> QED  BY <1>1, <1>2, <1>3, <1>4, <1>5, <1>6, <1>7, <1>8 DEF shlock

LEMMA NextSound == ASSUME TypeOK, SoundInv, [Next]_vars PROVE SoundInv'
<1>1. CASE Next  BY <1>1, ScriptSound, ShlockSound DEF Next
<1>2. CASE UNCHANGED vars  BY <1>2 DEF vars, SoundInv, Owns
<1> QED  BY <1>1, <1>2

LEMMA Sound == Spec => []SoundInv
  BY InitSound, NextSound, TypeCorrect, PTL DEF Spec

(* Between the test of a lock and its removal, the lock of a script that has  *)
(* it is never the one that was tested, whatever pids are given out again.    *)
THEOREM TestSound == Spec => []TestIsSound
<1>1. ASSUME TypeOK, SoundInv PROVE TestIsSound
  BY <1>1, Parts DEF SoundInv, TestIsSound, Owns, Types
<1> QED  BY <1>1, Sound, TypeCorrect, PTL

(* --- Exclusion --------------------------------------------------------------- *)

(* While nothing was stolen, who has the lock has its own file there.         *)
OwnInPlace == stolen \/ \A t \in Scripts : Owns(t) => lock = t

LEMMA InitOwn == Init => OwnInPlace
  BY DEF Init, OwnInPlace, Owns

LEMMA ScriptOwn ==
  ASSUME TypeOK, SoundInv, OwnInPlace, NEW s \in Scripts,
         Begin(s) \/ Call(s) \/ Remove(s) \/ End(s)
  PROVE  OwnInPlace'
<1>0. Types  BY Parts
<1>1. CASE Begin(s)  BY <1>0, <1>1 DEF Begin, OwnInPlace, Owns, Types
<1>2. CASE Call(s)  BY <1>0, <1>2 DEF Call, scripts, OwnInPlace, Owns, Types
<1>3. CASE Remove(s)
  <2>1. stolen \/ \A t \in Scripts : Owns(t) => t = s
    BY <1>3 DEF Remove, OwnInPlace, Owns
  <2>2. pc[s] = "none"  BY <1>3 DEF Remove, SoundInv
  <2> QED  BY <1>0, <1>3, <2>1, <2>2 DEF Remove, Unlinked, OwnInPlace, Owns, Types
<1>4. CASE End(s)  BY <1>0, <1>4 DEF End, OwnInPlace, Owns, Types
<1> QED  BY <1>1, <1>2, <1>3, <1>4

LEMMA ShlockOwn ==
  ASSUME TypeOK, SoundInv, OwnInPlace, NEW s \in Scripts, shlock(s) \/ Kill(s)
  PROVE  OwnInPlace'
<1> USE NoFileIsNone DEF Goto, Exit, scripts
<1>0. Types /\ \A t \in Scripts : Knows(t)  BY Parts
<1>1. CASE Create(s)  BY <1>0, <1>1 DEF Create, OwnInPlace, Owns, Types
<1>2. CASE Write(s)  BY <1>0, <1>2 DEF Write, WriteFails, OwnInPlace, Owns, Types
<1>3. CASE Link(s)
  <2>1. CASE lock = NoFile
    <3>1. stolen \/ \A t \in Scripts : ~Owns(t)
      BY <1>0, <2>1 DEF OwnInPlace, Files
    <3>2. tmp[s] = s  BY <1>0, <1>3 DEF Link, Knows
    <3> QED
      BY <1>0, <1>3, <2>1, <3>1, <3>2 DEF Link, Exists, OwnInPlace, Owns, Types, Knows
  <2>2. CASE lock # NoFile
    BY <1>0, <1>3, <2>2 DEF Link, Exists, OwnInPlace, Owns, Types, Knows
  <2> QED  BY <2>1, <2>2
<1>4. CASE Open(s)
  BY <1>0, <1>4 DEF Open, Checked, OwnInPlace, Owns, Types, Knows
<1>5. CASE Test(s)
  BY <1>0, <1>5 DEF Test, Checked, Closed, p_exists, OwnInPlace, Owns, Types, Knows
<1>6. CASE Break(s)
  <2>1. same[s] => stolen \/ \A t \in Scripts : ~Owns(t)
    BY <1>6 DEF Break, OwnInPlace, SoundInv
  <2> QED
    BY <1>0, <1>6, <2>1 DEF Break, Unlinked, Closed, OwnInPlace, Owns, Types, Knows
<1>7. CASE Unlink(s)  BY <1>0, <1>7 DEF Unlink, OwnInPlace, Owns, Types
<1>8. CASE Kill(s)  BY <1>0, <1>8 DEF Kill, Closed, OwnInPlace, Owns, Types
<1> QED  BY <1>1, <1>2, <1>3, <1>4, <1>5, <1>6, <1>7, <1>8 DEF shlock

LEMMA NextOwn ==
  ASSUME TypeOK, SoundInv, OwnInPlace, [Next]_vars PROVE OwnInPlace'
<1>1. CASE Next  BY <1>1, ScriptOwn, ShlockOwn DEF Next
<1>2. CASE UNCHANGED vars  BY <1>2 DEF vars, OwnInPlace, Owns
<1> QED  BY <1>1, <1>2

(* The lock is exclusive until a shlock removes another file than the one it  *)
(* has tested, whatever overlaps, fails, is killed, ends, or is given an old  *)
(* pid.                                                                       *)
THEOREM Exclusion == Spec => []Exclusive
<1>1. ASSUME TypeOK, OwnInPlace PROVE Exclusive
  BY <1>1, Parts DEF OwnInPlace, Exclusive, AtMostOne, Owns, Types
<1> QED  BY <1>1, InitOwn, NextOwn, Sound, TypeCorrect, PTL DEF Spec

(* --- One shlock at a time ---------------------------------------------------- *)

(* What the only shlock has opened is still there, or nothing is.             *)
SerialInv ==
  /\ ~stolen
  /\ \A s, t \in Running : s = t
  /\ \A s \in Scripts : pc[s] \in {"test", "break"} => same[s] \/ lock = NoFile

LEMMA NobodyRuns ==
  ASSUME Overlap = 1, Cardinality(Running) < Overlap PROVE Running = {}
<1>1. IsFiniteSet(Running)
  BY FS_Subset, ShlockAssumption DEF Running
<1>2. Cardinality(Running) \in Nat  BY <1>1, FS_CardinalityType
<1>3. Cardinality(Running) = 0  BY <1>2
<1> QED  BY <1>1, <1>3, FS_EmptySet

LEMMA InitSerial == Init => SerialInv
  BY DEF Init, SerialInv, Running

LEMMA ScriptSerial ==
  ASSUME Overlap = 1, TypeOK, SerialInv, NEW s \in Scripts,
         Begin(s) \/ Call(s) \/ Remove(s) \/ End(s)
  PROVE  SerialInv'
<1>0. Types  BY Parts
<1>1. CASE Begin(s)  BY <1>0, <1>1 DEF Begin, SerialInv, Running, Types
<1>2. CASE Call(s)
  <2>1. \A t \in Scripts : pc[t] = "none"
    BY <1>2, NobodyRuns DEF Call, Running
  <2> QED  BY <1>0, <1>2, <2>1 DEF Call, scripts, SerialInv, Running, Types
<1>3. CASE Remove(s)
  BY <1>0, <1>3 DEF Remove, Unlinked, SerialInv, Running, Types
<1>4. CASE End(s)  BY <1>0, <1>4 DEF End, SerialInv, Running, Types
<1> QED  BY <1>1, <1>2, <1>3, <1>4

LEMMA ShlockSerial ==
  ASSUME TypeOK, SerialInv, NEW s \in Scripts, shlock(s) \/ Kill(s)
  PROVE  SerialInv'
<1> USE NoFileIsNone DEF Goto, Exit, scripts
<1>0. Types /\ \A t \in Scripts : Knows(t)  BY Parts
<1>1. CASE Create(s)  BY <1>0, <1>1 DEF Create, SerialInv, Running, Types
<1>2. CASE Write(s)
  BY <1>0, <1>2 DEF Write, WriteFails, SerialInv, Running, Types
<1>3. CASE Link(s)
  <2>1. \A t \in Scripts : pc[t] # "none" => t = s
    BY <1>3 DEF Link, SerialInv, Running
  <2>2. \A t \in Scripts : pc'[t] # "none" => t = s
    BY <1>0, <1>3, <2>1 DEF Link, Types
  <2>3. pc'[s] \notin {"test", "break"}  BY <1>0, <1>3 DEF Link, Types
  <2> QED  BY <1>3, <2>2, <2>3 DEF Link, SerialInv, Running
<1>4. CASE Open(s)
  BY <1>0, <1>4 DEF Open, Checked, SerialInv, Running, Types, Knows
<1>5. CASE Test(s)
  BY <1>0, <1>5 DEF Test, Checked, Closed, SerialInv, Running, Types, Knows
<1>6. CASE Break(s)
  <2>1. \A t \in Scripts : pc[t] # "none" => t = s
    BY <1>6 DEF Break, SerialInv, Running
  <2> QED
    BY <1>0, <1>6, <2>1 DEF Break, Unlinked, Closed, SerialInv, Running, Types, Knows
<1>7. CASE Unlink(s)  BY <1>0, <1>7 DEF Unlink, SerialInv, Running, Types
<1>8. CASE Kill(s)  BY <1>0, <1>8 DEF Kill, Closed, SerialInv, Running, Types
<1> QED  BY <1>1, <1>2, <1>3, <1>4, <1>5, <1>6, <1>7, <1>8 DEF shlock

LEMMA NextSerial ==
  ASSUME Overlap = 1, TypeOK, SerialInv, [Next]_vars PROVE SerialInv'
<1>1. CASE Next  BY <1>1, ScriptSerial, ShlockSerial DEF Next
<1>2. CASE UNCHANGED vars  BY <1>2 DEF vars, SerialInv, Running
<1> QED  BY <1>1, <1>2

(* When shlocks do not overlap the lock is exclusive, whatever stale locks,   *)
(* crashes, ends of scripts, pids given out again and failures there are.     *)
THEOREM SerialExclusion == ASSUME Overlap = 1 PROVE Spec => []AtMostOne
<1>1. ASSUME Exclusive, SerialInv PROVE AtMostOne
  BY <1>1 DEF SerialInv, Exclusive
<1>2. TypeOK /\ SerialInv /\ [Next]_vars => SerialInv'
  BY NextSerial
<1> QED  BY <1>1, <1>2, InitSerial, Exclusion, TypeCorrect, PTL DEF Spec

(* --- Scripts that stay ------------------------------------------------------- *)

(* Nobody meets a pid that is not in use.                                     *)
LastingInv ==
  /\ ~stolen
  /\ lock # NoFile => lock \in alive
  /\ \A s \in Scripts : fd[s] # NoFile => fd[s] \in alive
  /\ \A s \in Scripts : pc[s] # "none" => s \in alive
  /\ \A s \in Scripts : pc[s] # "break"

LEMMA InitLasting == ASSUME Extant = {NoFile}, Init PROVE LastingInv
  BY DEF Init, LastingInv

LEMMA ScriptLasting ==
  ASSUME Mortal = {}, TypeOK, LastingInv, NEW s \in Scripts,
         Begin(s) \/ Call(s) \/ Remove(s) \/ End(s)
  PROVE  LastingInv'
<1>0. Types  BY Parts
<1>1. CASE Begin(s)  BY <1>0, <1>1 DEF Begin, LastingInv, Types
<1>2. CASE Call(s)  BY <1>0, <1>2 DEF Call, scripts, LastingInv, Types
<1>3. CASE Remove(s)  BY <1>0, <1>3 DEF Remove, Unlinked, LastingInv, Types
<1>4. CASE End(s)  BY <1>4 DEF End
<1> QED  BY <1>1, <1>2, <1>3, <1>4

LEMMA ShlockLasting ==
  ASSUME TypeOK, LastingInv, NEW s \in Scripts, shlock(s) \/ Kill(s)
  PROVE  LastingInv'
<1> USE NoFileIsNone DEF Goto, Exit, scripts
<1>0. Types /\ \A t \in Scripts : Knows(t)  BY Parts
<1>1. CASE Create(s)  BY <1>0, <1>1 DEF Create, LastingInv, Types
<1>2. CASE Write(s)  BY <1>0, <1>2 DEF Write, WriteFails, LastingInv, Types
<1>3. CASE Link(s)
  <2>1. tmp[s] = s /\ s \in alive  BY <1>0, <1>3 DEF Link, Knows, LastingInv
  <2>2. lock' \in {lock, s}  BY <1>3, <2>1 DEF Link
  <2>3. \A t \in Scripts : pc'[t] # "none" => pc[t] # "none"
    BY <1>0, <1>3 DEF Link, Types
  <2>4. \A t \in Scripts : pc'[t] # "break"
    BY <1>0, <1>3 DEF Link, LastingInv, Types
  <2>5. UNCHANGED <<fd, alive, stolen>>  BY <1>3 DEF Link
  <2> QED  BY <2>1, <2>2, <2>3, <2>4, <2>5 DEF LastingInv
<1>4. CASE Open(s)
  BY <1>0, <1>4 DEF Open, Checked, LastingInv, Types, Knows
<1>5. CASE Test(s)
  <2>1. fd[s] \in alive  BY <1>0, <1>5 DEF Test, Knows, LastingInv
  <2> QED
    BY <1>0, <1>5, <2>1 DEF Test, Checked, Closed, p_exists, LastingInv, Types, Knows
<1>6. CASE Break(s)  BY <1>6 DEF Break, LastingInv
<1>7. CASE Unlink(s)  BY <1>0, <1>7 DEF Unlink, LastingInv, Types
<1>8. CASE Kill(s)  BY <1>0, <1>8 DEF Kill, Closed, LastingInv, Types
<1> QED  BY <1>1, <1>2, <1>3, <1>4, <1>5, <1>6, <1>7, <1>8 DEF shlock

LEMMA NextLasting ==
  ASSUME Mortal = {}, TypeOK, LastingInv, [Next]_vars PROVE LastingInv'
<1>1. CASE Next  BY <1>1, ScriptLasting, ShlockLasting DEF Next
<1>2. CASE UNCHANGED vars  BY <1>2 DEF vars, LastingInv
<1> QED  BY <1>1, <1>2

(* Without a stale lock to begin with, and while no script ends, the lock is  *)
(* exclusive however many shlocks overlap and whichever of them fail.         *)
THEOREM LastingExclusion ==
  ASSUME Mortal = {}, Extant = {NoFile} PROVE Spec => []AtMostOne
<1>1. ASSUME Exclusive, LastingInv PROVE AtMostOne
  BY <1>1 DEF LastingInv, Exclusive
<1>2. TypeOK /\ LastingInv /\ [Next]_vars => LastingInv'
  BY NextLasting
<1>3. Init => LastingInv
  BY InitLasting
<1> QED  BY <1>1, <1>2, <1>3, Exclusion, TypeCorrect, PTL DEF Spec
==============================================================================
