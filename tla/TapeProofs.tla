----------------------------- MODULE TapeProofs ------------------------------
(* OneTurn, TypeOK and RestoresInOrder for every number of slaves, blocking   *)
(* factor, dump and tape.                                                     *)
EXTENDS TapeRing, FiniteSetTheorems, SequenceTheorems, TLAPS

USE DEF Slaves

(* The control state the turn depends on has its type.                        *)
ControlOK ==
  /\ slp \in Slaves
  /\ state \in [Slaves -> States]
  /\ caught \in [Slaves -> BOOLEAN]
  /\ signalled \in [Slaves -> BOOLEAN]

(* A slave has the turn in one way only: the signal is on its way, has been   *)
(* caught, or has been used.                                                  *)
Once(s) ==
  /\ ~(caught[s] /\ signalled[s])
  /\ state[s] \in {"write", "tell", "pass"} => ~caught[s] /\ ~signalled[s]

Exclusive == \A s, t \in Slaves : HasTurn(s) /\ HasTurn(t) => s = t
Kept == (\A s \in Slaves : state[s] # "exit") => \E s \in Slaves : HasTurn(s)

Inv ==
  /\ ControlOK
  /\ \A s \in Slaves : Once(s)
  /\ Exclusive
  /\ Kept

(* The ring: the slave after a slave is a slave.                              *)
LEMMA AfterIsSlave == ASSUME NEW s \in Slaves PROVE After(s) \in Slaves
  BY TapeAssumption DEF After

(* Slave 0 exists and begins.                                                 *)
LEMMA SlaveZero == 0 \in Slaves
  BY TapeAssumption

(* Steps that touch none of it keep the invariant.                            *)
LEMMA Untouched == ASSUME Inv, UNCHANGED <<state, caught, signalled>>, slp' \in Slaves
                   PROVE  Inv'
  BY DEF Inv, ControlOK, Once, Exclusive, Kept, HasTurn

(* New slaves have one turn among them, the one enslave gives to slp.         *)
LEMMA Enslaved ==
  ASSUME slp \in Slaves, slp' = slp,
         state' = [s \in Slaves |-> "read"],
         caught' = [s \in Slaves |-> s = slp],
         signalled' = [s \in Slaves |-> FALSE]
  PROVE  Inv'
  BY DEF Inv, ControlOK, Once, Exclusive, Kept, HasTurn, States

(* Killed slaves have nothing to write any more.                              *)
LEMMA Killed ==
  ASSUME Inv, state' = [s \in Slaves |-> "exit"], UNCHANGED <<slp, caught, signalled>>
  PROVE  Inv'
<1>1. ControlOK'  BY DEF Inv, ControlOK, States
<1>2. \A s \in Slaves : Once(s)'  BY DEF Inv, Once
<1>3. Exclusive'  BY DEF Inv, Exclusive, HasTurn
<1>4. Kept'  BY SlaveZero DEF Kept
<1> QED  BY <1>1, <1>2, <1>3, <1>4 DEF Inv

(* The first slaves, like later ones, start with one turn.                    *)
LEMMA InitInv == Init => Inv
<1> SUFFICES ASSUME Init PROVE Inv
  OBVIOUS
<1>1. /\ slp = 0 /\ state = [s \in Slaves |-> "read"]
      /\ caught = [s \in Slaves |-> s = 0]
      /\ signalled = [s \in Slaves |-> FALSE]
  BY DEF Init
<1>2. ControlOK  BY <1>1, SlaveZero DEF ControlOK, States
<1>3. \A s \in Slaves : Once(s)  BY <1>1 DEF Once
<1>4. \A s \in Slaves : HasTurn(s) <=> s = 0  BY <1>1 DEF HasTurn
<1>5. Exclusive  BY <1>4 DEF Exclusive
<1>6. Kept  BY <1>4, SlaveZero DEF Kept
<1> QED  BY <1>2, <1>3, <1>5, <1>6 DEF Inv

(* A slave that moves on and neither gains nor loses the turn.                *)
LEMMA Moves ==
  ASSUME Inv, NEW s \in Slaves, NEW to \in States \ {"exit"},
         state[s] # "exit",
         state' = [state EXCEPT ![s] = to],
         to \in {"write", "tell", "pass"} <=> state[s] \in {"write", "tell", "pass"},
         UNCHANGED <<slp, caught, signalled>>
  PROVE  Inv'
<1>1. \A t \in Slaves : HasTurn(t)' <=> HasTurn(t)
  BY DEF Inv, ControlOK, HasTurn
<1>2. ControlOK'  BY DEF Inv, ControlOK
<1>3. \A t \in Slaves : Once(t)'  BY DEF Inv, ControlOK, Once
<1>4. Exclusive'  BY <1>1 DEF Inv, Exclusive
<1>5. Kept'  BY <1>1 DEF Inv, ControlOK, Kept
<1> QED  BY <1>2, <1>3, <1>4, <1>5 DEF Inv

(* A slave that uses up its turn, caught or signalled, and writes.            *)
LEMMA Begins ==
  ASSUME Inv, NEW s \in Slaves,
         caught[s] \/ signalled[s],
         state[s] # "exit",
         state' = [state EXCEPT ![s] = "write"],
         caught' = [caught EXCEPT ![s] = FALSE],
         signalled' = [signalled EXCEPT ![s] = FALSE],
         slp' = slp
  PROVE  Inv'
<1>1. \A t \in Slaves : HasTurn(t)' <=> HasTurn(t)
  BY DEF Inv, ControlOK, HasTurn
<1>2. ControlOK'  BY DEF Inv, ControlOK, States
<1>3. \A t \in Slaves : Once(t)'  BY DEF Inv, ControlOK, Once
<1>4. Exclusive'  BY <1>1 DEF Inv, Exclusive
<1>5. Kept'  BY <1>1 DEF Inv, ControlOK, Kept
<1> QED  BY <1>2, <1>3, <1>4, <1>5 DEF Inv

LEMMA LockInv == ASSUME Inv, NEW s \in Slaves, Lock(s) PROVE Inv'
<1>1. CASE caught[s]
  <2>1. signalled' = [signalled EXCEPT ![s] = FALSE]
    BY <1>1 DEF Inv, ControlOK, Once, Lock
  <2> QED  BY <1>1, <2>1, Begins DEF Lock, Cleared, masters, buffers
<1>2. CASE ~caught[s]
  BY <1>2, Moves DEF Lock, masters, buffers, States
<1> QED  BY <1>1, <1>2

LEMMA ProceedInv == ASSUME Inv, NEW s \in Slaves, proceed(s) PROVE Inv'
<1>1. CASE Awaits(s)
  BY <1>1, Begins DEF proceed, Awaits, Cleared, masters, buffers
<1>2. CASE ~Awaits(s)
  <2>1. /\ caught' = [caught EXCEPT ![s] = TRUE]
        /\ signalled' = [signalled EXCEPT ![s] = FALSE]
        /\ signalled[s] /\ UNCHANGED <<slp, state>>
    BY <1>2 DEF proceed, masters, buffers
  <2>2. \A t \in Slaves : HasTurn(t)' <=> HasTurn(t)
    BY <2>1 DEF Inv, ControlOK, HasTurn
  <2>3. ControlOK'  BY <2>1 DEF Inv, ControlOK
  <2>4. \A t \in Slaves : Once(t)'  BY <2>1 DEF Inv, ControlOK, Once
  <2>5. Exclusive'  BY <2>2 DEF Inv, Exclusive
  <2>6. Kept'  BY <2>1, <2>2 DEF Inv, Kept
  <2> QED  BY <2>3, <2>4, <2>5, <2>6 DEF Inv
<1> QED  BY <1>1, <1>2

(* The turn goes from a slave to the next, or is lost if that one has exited. *)
LEMMA PassInv == ASSUME Inv, NEW s \in Slaves, Pass(s) PROVE Inv'
<1> DEFINE n == After(s)
<1>1. n \in Slaves  BY AfterIsSlave
<1>2. /\ signalled' = [signalled EXCEPT ![n] = state[n] # "exit"]
      /\ state' = [state EXCEPT ![s] = "read"]
      /\ state[s] = "pass"
      /\ UNCHANGED <<slp, caught>>
  BY DEF Pass, masters, buffers
<1> HIDE DEF n
<1>3. \A t \in Slaves \ {s} : ~caught[t] /\ ~signalled[t]
                              /\ state[t] \notin {"write", "tell", "pass"}
  BY <1>2 DEF Inv, Exclusive, HasTurn
<1>4. ~caught[s] /\ ~signalled[s]
  BY <1>2 DEF Inv, Once
<1>5. ControlOK'  BY <1>1, <1>2 DEF Inv, ControlOK, States
<1>6. \A t \in Slaves : HasTurn(t)' => t = n /\ state[n] # "exit"
  BY <1>1, <1>2, <1>3, <1>4 DEF Inv, ControlOK, HasTurn
<1>7. \A t \in Slaves : Once(t)'
  BY <1>1, <1>2, <1>3, <1>4 DEF Inv, ControlOK, Once
<1>8. Exclusive'  BY <1>6 DEF Exclusive
<1>9. Kept'
  <2> SUFFICES ASSUME (\A t \in Slaves : state[t] # "exit")'
               PROVE  HasTurn(n)'
    BY <1>1 DEF Kept
  <2>1. state[n] # "exit"  BY <1>1, <1>2 DEF Inv, ControlOK
  <2> QED  BY <1>1, <1>2, <2>1 DEF Inv, ControlOK, HasTurn
<1> QED  BY <1>5, <1>7, <1>8, <1>9 DEF Inv

LEMMA ExitInv == ASSUME Inv, NEW s \in Slaves, Exit(s) PROVE Inv'
<1>1. /\ state' = [state EXCEPT ![s] = "exit"] /\ state[s] = "read"
      /\ UNCHANGED <<slp, caught, signalled>>
  BY DEF Exit, masters, buffers
<1>2. \A t \in Slaves : HasTurn(t)' <=> HasTurn(t)
  BY <1>1 DEF Inv, ControlOK, HasTurn
<1>3. ControlOK'  BY <1>1 DEF Inv, ControlOK, States
<1>4. \A t \in Slaves : Once(t)'  BY <1>1 DEF Inv, ControlOK, Once
<1>5. Exclusive'  BY <1>2 DEF Inv, Exclusive
<1>6. Kept'  BY <1>1 DEF Inv, ControlOK, Kept
<1> QED  BY <1>3, <1>4, <1>5, <1>6 DEF Inv

LEMMA SlaveInv == ASSUME Inv, NEW s \in Slaves, Slave(s) PROVE Inv'
<1>1. CASE Read(s)
  BY <1>1, Moves DEF Read, masters, buffers, States
<1>2. CASE Lock(s)  BY <1>2, LockInv
<1>3. CASE Pause(s)
  BY <1>3, Moves DEF Pause, masters, buffers, States
<1>4. CASE Write(s)
  BY <1>4, Moves DEF Write, masters, buffers, States
<1>5. CASE Tell(s)
  BY <1>5, Moves DEF Tell, masters, buffers, States
<1>6. CASE Pass(s)  BY <1>6, PassInv
<1>7. CASE Exit(s)  BY <1>7, ExitInv
<1> QED  BY <1>1, <1>2, <1>3, <1>4, <1>5, <1>6, <1>7 DEF Slave

(* Of the master's steps only those that make or kill slaves touch the turn.  *)
LEMMA MasterInv == ASSUME Inv, Master PROVE Inv'
<1> USE DEF slaves, buffers
<1>0. slp \in Slaves  BY DEF Inv, ControlOK
<1>1. CASE Dump
  BY <1>0, <1>1, Untouched, AfterIsSlave DEF Dump, Put
<1>2. CASE Finish  BY <1>0, <1>2, Untouched DEF Finish
<1>3. CASE NextBlock  BY <1>0, <1>3, Untouched DEF NextBlock
<1>4. CASE EndOfTape  BY <1>0, <1>4, Untouched DEF EndOfTape
<1>5. CASE Drained  BY <1>0, <1>5, Untouched DEF Drained
<1>6. ASSUME NEW s \in Slaves, Drain(s) PROVE Inv'
  BY <1>0, <1>6, Untouched DEF Drain
<1>7. ASSUME NEW s \in Slaves, trewind(s) PROVE Inv'
  BY <1>0, <1>7, Untouched, Killed DEF trewind, quit
<1>8. CASE Done  BY <1>0, <1>8, Untouched DEF Done
<1>9. CASE Refuse  BY <1>9, Killed DEF Refuse, quit
<1>10. CASE startnewtape
  BY <1>0, <1>10, Enslaved DEF startnewtape, enslave
<1>11. CASE rollforward
  BY <1>0, <1>11, Enslaved DEF rollforward, enslave
<1>12. CASE First
  BY <1>0, <1>12, Untouched, Killed DEF First, quit
<1> QED  BY <1>1, <1>2, <1>3, <1>4, <1>5, <1>6, <1>7, <1>8, <1>9, <1>10, <1>11, <1>12
           DEF Master

(* Every step keeps the turn single.                                          *)
LEMMA NextInv == Inv /\ [Next]_vars => Inv'
<1> SUFFICES ASSUME Inv, [Next]_vars PROVE Inv'
  OBVIOUS
<1>1. CASE Master  BY <1>1, MasterInv
<1>2. ASSUME NEW s \in Slaves, Slave(s) PROVE Inv'  BY <1>2, SlaveInv
<1>3. ASSUME NEW s \in Slaves, proceed(s) PROVE Inv'  BY <1>3, ProceedInv
<1>4. CASE UNCHANGED vars
  <2>1. slp \in Slaves  BY DEF Inv, ControlOK
  <2> QED  BY <1>4, <2>1, Untouched DEF vars, slaves, buffers
<1> QED  BY <1>1, <1>2, <1>3, <1>4 DEF Next

(* The signals pass one turn round the ring, for every number of slaves: two  *)
(* slaves never write at once, and no signal is lost or doubled.              *)
THEOREM SingleTurn == Spec => []OneTurn
<1>1. Inv => OneTurn  BY DEF Inv, Exclusive, Kept, OneTurn
<1> QED  BY InitInv, NextInv, <1>1, PTL DEF Spec

------------------------------------------------------------------------------
(* Numbers and the ring *)

(* Induction, for sets of numbers, from the pigeonhole principle. *)
LEMMA Induction ==
  ASSUME NEW T, 0 \in T, \A n \in Nat : n \in T => n + 1 \in T
  PROVE  \A n \in Nat : n \in T
<1> SUFFICES ASSUME NEW m \in Nat, m \notin T PROVE FALSE
  OBVIOUS
<1> DEFINE S == 0 .. m
           U == 0 .. (m - 1)
           h == [k \in S |-> IF k \in T THEN k ELSE k - 1]
<1>1. \A k \in S : k \notin T => k - 1 \in Nat /\ k - 1 \notin T
  <2> SUFFICES ASSUME NEW k \in S, k \notin T PROVE k - 1 \in Nat /\ k - 1 \notin T
    OBVIOUS
  <2>1. k # 0 /\ k - 1 \in Nat
    OBVIOUS
  <2> QED BY <2>1
<1>2. h \in [S -> U]
  BY <1>1
<1>3. \A x, y \in S : h[x] = h[y] => x = y
  BY <1>1
<1>4. IsFiniteSet(S) /\ Cardinality(S) = m + 1
  BY FS_Interval
<1>5. IsFiniteSet(U) /\ Cardinality(U) = m
  <2>1. 0 \in Int /\ m - 1 \in Int
    OBVIOUS
  <2>2. IsFiniteSet(U) /\ Cardinality(U) = IF 0 > m - 1 THEN 0 ELSE (m - 1) - 0 + 1
    BY <2>1, FS_Interval
  <2> HIDE DEF U
  <2> QED BY <2>2
<1> HIDE DEF h, S, U
<1>6. Cardinality(U) < Cardinality(S)
  BY <1>4, <1>5
<1> QED
  BY <1>2, <1>3, <1>4, <1>5, <1>6, FS_PigeonHole

(* The ring without remainders, *)
LEMMA Around ==
  ASSUME NEW s \in Slaves
  PROVE  /\ After(s) = IF s = SLAVES - 1 THEN 0 ELSE s + 1
         /\ Before(s) = IF s = 0 THEN SLAVES - 1 ELSE s - 1
<1>1. SLAVES \in Nat \ {0}  BY TapeAssumption
<1>2. After(s) = IF s = SLAVES - 1 THEN 0 ELSE s + 1
  BY <1>1 DEF After
<1>3. Before(s) = IF s = 0 THEN SLAVES - 1 ELSE s - 1
  <2>1. CASE s = 0
    BY <1>1, <2>1 DEF Before
  <2>2. CASE s # 0
    <3>1. s + SLAVES - 1 = (s - 1) + SLAVES /\ s - 1 \in 0..(SLAVES - 1)
      BY <1>1, <2>2
    <3>2. ((s - 1) + SLAVES) % SLAVES = s - 1
      BY <1>1, <3>1
    <3> QED BY <2>2, <3>1, <3>2 DEF Before
  <2> QED BY <2>1, <2>2
<1> QED BY <1>2, <1>3

(* and that After and Before undo each other. *)
LEMMA RingFacts ==
  /\ \A s \in Slaves : After(s) \in Slaves /\ Before(s) \in Slaves
  /\ \A s \in Slaves : After(Before(s)) = s /\ Before(After(s)) = s
<1>1. SLAVES \in Nat \ {0}  BY TapeAssumption
<1>2. \A s \in Slaves : After(s) \in Slaves /\ Before(s) \in Slaves
  BY <1>1, Around
<1>3. \A s \in Slaves : After(Before(s)) = s
  BY <1>1, <1>2, Around
<1>4. \A s \in Slaves : Before(After(s)) = s
  BY <1>1, <1>2, Around
<1> QED BY <1>2, <1>3, <1>4

(* What holds for one slave, and for the next after each up to the one before *)
(* it, holds for all.                                                         *)
LEMMA RingInduction ==
  ASSUME NEW r \in Slaves, NEW S, r \in S,
         \A s \in Slaves : s \in S /\ s # Before(r) => After(s) \in S
  PROVE  \A s \in Slaves : s \in S
<1>1. SLAVES \in Nat \ {0}  BY TapeAssumption
<1> DEFINE at(k) == IF r + k < SLAVES THEN r + k ELSE r + k - SLAVES
           T == {k \in Nat : k < SLAVES => at(k) \in S}
<1>2. 0 \in T
  BY <1>1
<1>3. ASSUME NEW k \in Nat, k \in T PROVE k + 1 \in T
  <2> SUFFICES ASSUME k + 1 < SLAVES PROVE at(k + 1) \in S
    OBVIOUS
  <2>1. at(k) \in Slaves /\ at(k) \in S
    BY <1>1, <1>3
  <2>2. at(k) # Before(r)
    BY <1>1, Around
  <2>3. After(at(k)) = at(k + 1)
    BY <1>1, <2>1, Around
  <2> QED BY <2>1, <2>2, <2>3
<1>4. \A k \in Nat : k \in T
  <2> HIDE DEF T
  <2> QED BY <1>2, <1>3, Induction
<1> SUFFICES ASSUME NEW s \in Slaves PROVE s \in S
  OBVIOUS
<1>5. CASE s >= r
  <2>1. s - r \in Nat /\ s - r < SLAVES /\ at(s - r) = s
    BY <1>1, <1>5
  <2> QED BY <1>4, <2>1
<1>6. CASE s < r
  <2>1. s - r + SLAVES \in Nat /\ s - r + SLAVES < SLAVES /\ at(s - r + SLAVES) = s
    BY <1>1, <1>6
  <2> QED BY <1>4, <2>1
<1> QED BY <1>5, <1>6

HIDE DEF Slaves

------------------------------------------------------------------------------
(* TypeOK: blocks stay blocks, requests and answers meet, and the slaves     *)
(* that wait for the turn are one stretch of the ring *)

(* A slave that has a block to write, and, when the turn is with slave s, the *)
(* slave that writes next.                                                    *)
Pending(s) == pipe[s] # <<>> \/ state[s] \in {"lock", "ready", "pause", "write"}
Writer(t) == \E s \in Slaves :
  HasTurn(s) /\ t = IF state[s] \in {"tell", "pass"} THEN After(s) ELSE s

(* The blocks that were on their way at the end of a tape wait for the next.  *)
Rolling == pc = "drain" \/ (pc = "rewind" /\ goal = "roll")
Filling == pc \notin {"result", "quit"} /\ ~Rolling

Requests ==
  /\ \A s \in Slaves : pipe[s] # <<>> => state[s] \in {"read", "pass"}
  /\ \A s \in Slaves : Pending(s) \/ state[s] = "tell" => sent[s] /\ result[s] = NoResult
  /\ \A s \in Slaves : result[s] # NoResult => sent[s]
  /\ \A s \in Slaves : closed[s] => ~sent[s]
  /\ pc = "dump" => ~sent[slp]
  /\ pc = "result" => sent[Before(slp)]
  /\ pc \in {"dump", "result", "first"} =>
       \A s \in Slaves : sent[s] /\ s # Before(slp) => sent[After(s)]
  /\ pc \in {"dump", "result", "first", "drain"} =>
       \A s \in Slaves : state[s] # "exit" /\ ~closed[s]

Sizes ==
  /\ \A s \in Slaves : sent[s] => Len(block[s]) = ntrec \/ (pc = "first" /\ s = slp)
  /\ Rolling => \A s \in Slaves : Len(block[s]) = ntrec
  /\ Filling => Len(block[slp]) < ntrec
  /\ \A s \in Slaves : pipe[s] # <<>> => Len(pipe[s]) = ntrec
  /\ \A s \in Slaves : state[s] \in {"lock", "ready", "pause", "write"} => Len(buf[s]) = ntrec
  /\ volume <= Len(room) => Len(volumes[volume]) <= room[volume]

(* Who waits to write: one stretch of the ring, which begins with the slave   *)
(* that has the turn and ends before the slave being filled.                  *)
Stretch(t) ==
  /\ ~Pending(t) => t = slp
  /\ Pending(slp) => t = slp
  /\ \A x \in Slaves : Pending(x) /\ x # t => Pending(Before(x))
  /\ Pending(Before(t)) => Pending(t) /\ t = slp
  /\ Pending(Before(slp)) \/ (t = slp /\ ~Pending(slp))
Turns ==
  /\ \A x \in Slaves : Pending(x) /\ x # Before(slp) => Pending(After(x))
  /\ \A t \in Slaves : Writer(t) => Stretch(t)

(* What a run can still reach.                                                *)
Ending ==
  /\ volume >= 1 /\ rolled <= volume
  /\ pc = "quit" => \A s \in Slaves : state[s] = "exit"
  /\ pc \in {"done", "rewind"} /\ goal = "done" => next = Ends + 1
  /\ pc = "first" => rolled # 0
  /\ pc = "done" => goal = "done" /\ \A s \in Slaves : state[s] = "exit" /\ ~sent[s]
  
Control == pc # "quit" => Requests /\ Sizes /\ Turns

(* Types of the requests and of the records.                                  *)
LEMMA NoBlock == Idle \in [Slaves -> Seq(Records)]
  BY DEF Idle

LEMMA RecordsOK ==
  /\ \A n \in Nat : Header(n) \in Records
  /\ \A i \in 1..Ends : Record(i) \in Records
  /\ Junk \in Records
  BY DEF Header, Record, Records

(* The initial states.                                                        *)
LEMMA InitControl == Init => TypeOK /\ Ending /\ Control
<1> SUFFICES ASSUME Init PROVE TypeOK /\ Ending /\ Control
  OBVIOUS
<1> USE SlaveZero, TapeAssumption, RecordsOK, RingFacts DEF Init
<1>0. Ends \in Nat /\ Ends >= 1
  BY DEF Ends
<1>1. TypeOK
  <2>1. block \in [Slaves -> Seq(Records)] /\ head \in [Slaves -> Records]
    BY <1>0
  <2>2. volumes \in Seq(Seq(Records))
    OBVIOUS
  <2>3. result \in [Slaves -> {NoResult} \cup 0..ntrec] /\ size \in [Slaves -> 0..ntrec]
    OBVIOUS
  <2>4. pipe \in [Slaves -> Seq(Records)] /\ buf \in [Slaves -> Seq(Records)]
    BY NoBlock
  <2>5. next \in 1..(Ends + 1) /\ slp \in Slaves /\ firstrec \in [Slaves -> Nat]
    BY <1>0
  <2>6. /\ kind \in Kinds /\ room \in Rooms /\ limit \in Limits
        /\ pc \in Places /\ goal \in {"new", "roll", "done"}
        /\ sent \in [Slaves -> BOOLEAN] /\ blocks \in Nat
        /\ dated \in BOOLEAN /\ rolled \in Nat /\ stale \in BOOLEAN
    BY DEF Places
  <2>7. /\ state \in [Slaves -> States] /\ closed \in [Slaves -> BOOLEAN]
        /\ caught \in [Slaves -> BOOLEAN] /\ signalled \in [Slaves -> BOOLEAN]
    BY DEF States
  <2> QED BY <2>1, <2>2, <2>3, <2>4, <2>5, <2>6, <2>7 DEF TypeOK
<1>2. Ending
  BY DEF Ending, volume
<1>3. \A s \in Slaves : ~Pending(s)
  BY DEF Pending, Idle
<1>4. Requests
  BY <1>3 DEF Requests, Idle
<1>5. Sizes
  <2>1. \A r \in Rooms : r # <<>> => r[1] \in Nat
    OBVIOUS
  <2> QED BY <2>1 DEF Sizes, Idle, Rolling, Filling, volume
<1>6. Turns
  BY <1>3 DEF Turns, Stretch, HasTurn, Writer
<1> QED BY <1>1, <1>2, <1>4, <1>5, <1>6 DEF Control

(* Steps that leave who waits to write, and who writes next, as it is.        *)
LEMMA TurnsKept ==
  ASSUME Turns, slp \in Slaves, slp' = slp,
         \A x \in Slaves : Pending(x)' <=> Pending(x),
         \A t \in Slaves : Writer(t)' => Writer(t)
  PROVE  Turns'
<1>1. PICK p \in Slaves : p = slp
  OBVIOUS
<1>2. ASSUME NEW t \in Slaves, Stretch(t) PROVE Stretch(t)'
  <2>1. Stretch(t)' <=>
          /\ ~Pending(t)' => t = p
          /\ Pending(p)' => t = p
          /\ \A x \in Slaves : Pending(x)' /\ x # t => Pending(Before(x))'
          /\ Pending(Before(t))' => Pending(t)' /\ t = p
          /\ Pending(Before(p))' \/ (t = p /\ ~Pending(p)')
    BY <1>1 DEF Stretch, Pending
  <2>2. Stretch(t) <=>
          /\ ~Pending(t) => t = p
          /\ Pending(p) => t = p
          /\ \A x \in Slaves : Pending(x) /\ x # t => Pending(Before(x))
          /\ Pending(Before(t)) => Pending(t) /\ t = p
          /\ Pending(Before(p)) \/ (t = p /\ ~Pending(p))
    BY <1>1 DEF Stretch, Pending
  <2> QED BY <1>2, <2>1, <2>2, RingFacts
<1>3. Turns' <=> /\ \A x \in Slaves : Pending(x)' /\ x # Before(p) => Pending(After(x))'
                 /\ \A t \in Slaves : Writer(t)' => Stretch(t)'
  BY <1>1 DEF Turns
<1>4. Turns <=> /\ \A x \in Slaves : Pending(x) /\ x # Before(p) => Pending(After(x))
                /\ \A t \in Slaves : Writer(t) => Stretch(t)
  BY <1>1 DEF Turns
<1>5. \A x \in Slaves : Pending(x)' /\ x # Before(p) => Pending(After(x))'
  BY <1>4, RingFacts
<1>6. \A t \in Slaves : Writer(t)' => Stretch(t)'
  BY <1>2, <1>4
<1> QED BY <1>3, <1>5, <1>6

(* The inductive invariant behind TypeOK, and the parts of TypeOK.            *)
Reached == TypeOK /\ Ending /\ Control /\ Inv

MasterOK ==
  /\ kind \in Kinds /\ room \in Rooms /\ limit \in Limits
  /\ pc \in Places /\ goal \in {"new", "roll", "done"} /\ next \in 1..(Ends + 1)
  /\ slp \in Slaves /\ block \in [Slaves -> Seq(Records)] /\ head \in [Slaves -> Records]
  /\ firstrec \in [Slaves -> Nat] /\ sent \in [Slaves -> BOOLEAN] /\ blocks \in Nat
  /\ dated \in BOOLEAN /\ rolled \in Nat /\ stale \in BOOLEAN
SlavesOK ==
  /\ state \in [Slaves -> States]
  /\ pipe \in [Slaves -> Seq(Records)] /\ buf \in [Slaves -> Seq(Records)]
  /\ size \in [Slaves -> 0..ntrec] /\ result \in [Slaves -> {NoResult} \cup 0..ntrec]
  /\ closed \in [Slaves -> BOOLEAN] /\ caught \in [Slaves -> BOOLEAN]
  /\ signalled \in [Slaves -> BOOLEAN]
VolumesOK == volumes \in Seq(Seq(Records))

LEMMA TypeParts ==
  /\ TypeOK <=> MasterOK /\ VolumesOK /\ SlavesOK
  /\ TypeOK' <=> MasterOK' /\ VolumesOK' /\ SlavesOK'
<1>1. TypeOK <=> MasterOK /\ VolumesOK /\ SlavesOK
  BY Zenon DEF TypeOK, MasterOK, VolumesOK, SlavesOK
<1>2. TypeOK' <=> MasterOK' /\ VolumesOK' /\ SlavesOK'
  BY Zenon DEF TypeOK, MasterOK, VolumesOK, SlavesOK
<1> QED BY <1>1, <1>2

LEMMA MasterSame == ASSUME UNCHANGED masters, MasterOK PROVE MasterOK'
BY Zenon DEF masters, given, buffers, history, MasterOK

(* A step of a slave is no step of the master.                                *)
LEMMA SlaveEnding ==
  ASSUME TypeOK, Ending, NEW s \in Slaves, state[s] # "exit",
         UNCHANGED masters, Len(volumes') = Len(volumes)
  PROVE  Ending' /\ pc # "quit"
<1>1. pc # "quit" /\ pc # "done"
  BY DEF Ending
<1>2. UNCHANGED <<pc, goal, next, rolled, sent>>
  BY DEF masters, buffers, history
<1> QED BY <1>1, <1>2 DEF Ending, volume, Ends

LEMMA SlaveSame ==
  ASSUME UNCHANGED masters
  PROVE  /\ UNCHANGED <<kind, room, limit, pc, goal, next, slp, block, head, firstrec, blocks>>
         /\ UNCHANGED <<sent, dated, rolled, stale>>
         /\ Rolling' = Rolling /\ Filling' = Filling
BY DEF masters, given, buffers, history, Rolling, Filling

(* What a step of a slave must keep to leave requests and answers in step.    *)
LEMMA RequestsKept ==
  ASSUME Requests, UNCHANGED <<masters, closed>>,
         \A x \in Slaves : pipe'[x] # <<>> => state'[x] \in {"read", "pass"},
         \A x \in Slaves : Pending(x)' => Pending(x),
         \A x \in Slaves : state'[x] = "tell" => state[x] = "tell" \/ Pending(x),
         \A x \in Slaves : result'[x] # result[x] => state[x] = "tell" /\ state'[x] = "pass",
         \A x \in Slaves : state'[x] = "pass" /\ state[x] # "pass" => ~Pending(x)',
         \A x \in Slaves : state'[x] = "exit" /\ state[x] # "exit" => closed[x]
  PROVE  Requests'
<1>1. UNCHANGED <<pc, slp, sent, closed>>  BY SlaveSame
<1>2. \A x \in Slaves : Pending(x)' \/ state'[x] = "tell" => sent'[x] /\ result'[x] = NoResult
  BY <1>1 DEF Requests
<1>3. \A x \in Slaves : result'[x] # NoResult => sent'[x]
  BY <1>1 DEF Requests
<1>4. pc \in {"dump", "result", "first", "drain"} => \A x \in Slaves : state'[x] # "exit" /\ ~closed'[x]
  BY <1>1 DEF Requests
<1>5. \A x \in Slaves : closed'[x] => ~sent'[x]
  BY <1>1 DEF Requests
<1>6. /\ pc = "dump" => ~sent[slp]
      /\ pc = "result" => sent[Before(slp)]
      /\ pc \in {"dump", "result", "first"} =>
           \A s \in Slaves : sent[s] /\ s # Before(slp) => sent[After(s)]
  BY DEF Requests
<1> QED BY <1>1, <1>2, <1>3, <1>4, <1>5, <1>6 DEF Requests

(* And to leave the blocks as long as they are.                               *)
LEMMA SizesKept ==
  ASSUME Sizes, UNCHANGED <<masters, volumes>>,
         \A x \in Slaves : pipe'[x] # <<>> => Len(pipe'[x]) = ntrec,
         \A x \in Slaves : state'[x] \in {"lock", "ready", "pause", "write"} => Len(buf'[x]) = ntrec
  PROVE  Sizes'
<1>1. UNCHANGED <<pc, slp, sent, block, room, volumes, Rolling, Filling>>  BY SlaveSame
<1> QED BY <1>1 DEF Sizes, volume

(* The steps of a slave, one by one.                                          *)
LEMMA ReadControl ==
  ASSUME Reached, NEW s \in Slaves, Read(s) PROVE TypeOK' /\ Ending' /\ Control'
<1>1. /\ state[s] = "read" /\ pipe[s] # <<>>
      /\ buf' = [buf EXCEPT ![s] = pipe[s]]
      /\ pipe' = [pipe EXCEPT ![s] = <<>>]
      /\ state' = [state EXCEPT ![s] = "lock"]
      /\ UNCHANGED masters
      /\ UNCHANGED <<volumes, size, result, closed, caught, signalled>>
  BY DEF Read
<1>2. TypeOK /\ Ending /\ Control /\ Inv  BY DEF Reached
<1>3. Ending' /\ pc # "quit"  BY <1>1, <1>2, SlaveEnding
<1>4. Requests /\ Sizes /\ Turns  BY <1>2, <1>3 DEF Control
<1>5. TypeOK'
  <2>1. SlavesOK' /\ VolumesOK'
    BY <1>1, <1>2, TypeParts DEF SlavesOK, VolumesOK, States
  <2> QED BY <1>1, <1>2, <2>1, TypeParts, MasterSame
<1>6. \A x \in Slaves : Pending(x)' <=> Pending(x)
  BY <1>1, <1>2 DEF Pending, TypeOK
<1>7. Turns'
  <2>1. slp \in Slaves /\ slp' = slp  BY <1>1, <1>2, SlaveSame DEF TypeOK
  <2>2. \A t \in Slaves : Writer(t)' => Writer(t)
    BY <1>1, <1>2 DEF Writer, HasTurn, TypeOK, After
  <2> QED BY <1>4, <1>6, <2>1, <2>2, TurnsKept
<1>8. Requests'
  BY <1>1, <1>2, <1>4, <1>6, RequestsKept DEF Requests, Pending, TypeOK
<1>9. Sizes'
  BY <1>1, <1>2, <1>4, SizesKept DEF Sizes, TypeOK
<1> QED BY <1>3, <1>5, <1>7, <1>8, <1>9 DEF Control

LEMMA LockControl ==
  ASSUME Reached, NEW s \in Slaves, Lock(s) PROVE TypeOK' /\ Ending' /\ Control'
<1>1. /\ state[s] = "lock"
      /\ state' = [state EXCEPT ![s] = IF caught[s] THEN "write" ELSE "ready"]
      /\ caught' = IF caught[s] THEN [caught EXCEPT ![s] = FALSE] ELSE caught
      /\ UNCHANGED masters
      /\ UNCHANGED <<volumes, pipe, buf, size, result, closed, signalled>>
  BY DEF Lock, Cleared
<1>2. TypeOK /\ Ending /\ Control /\ Inv  BY DEF Reached
<1>3. Ending' /\ pc # "quit"  BY <1>1, <1>2, SlaveEnding DEF TypeOK
<1>4. Requests /\ Sizes /\ Turns  BY <1>2, <1>3 DEF Control
<1>5. TypeOK'
  <2>1. SlavesOK' /\ VolumesOK'
    BY <1>1, <1>2, TypeParts, RingFacts DEF SlavesOK, VolumesOK, States
  <2> QED BY <1>1, <1>2, <2>1, TypeParts, MasterSame
<1>6. \A x \in Slaves : Pending(x)' <=> Pending(x)
  BY <1>1, <1>2, <1>4 DEF Pending, TypeOK, Requests
<1>7. Turns'
  <2>1. slp \in Slaves /\ slp' = slp  BY <1>1, <1>2, SlaveSame DEF TypeOK
  <2>2. \A t \in Slaves : Writer(t)' => Writer(t)
    BY <1>1, <1>2 DEF Writer, HasTurn, TypeOK, After
  <2> QED BY <1>4, <1>6, <2>1, <2>2, TurnsKept
<1>8. Requests'
  BY <1>1, <1>2, <1>4, <1>6, RequestsKept DEF Requests, Pending, TypeOK
<1>9. Sizes'
  BY <1>1, <1>2, <1>4, SizesKept DEF Sizes, TypeOK
<1> QED BY <1>3, <1>5, <1>7, <1>8, <1>9 DEF Control

LEMMA PauseControl ==
  ASSUME Reached, NEW s \in Slaves, Pause(s) PROVE TypeOK' /\ Ending' /\ Control'
<1>1. /\ state[s] = "ready"
      /\ state' = [state EXCEPT ![s] = "pause"]
      /\ UNCHANGED masters
      /\ UNCHANGED <<volumes, pipe, buf, size, result, closed, caught, signalled>>
  BY DEF Pause
<1>2. TypeOK /\ Ending /\ Control /\ Inv  BY DEF Reached
<1>3. Ending' /\ pc # "quit"  BY <1>1, <1>2, SlaveEnding DEF TypeOK
<1>4. Requests /\ Sizes /\ Turns  BY <1>2, <1>3 DEF Control
<1>5. TypeOK'
  <2>1. SlavesOK' /\ VolumesOK'
    BY <1>1, <1>2, TypeParts, RingFacts DEF SlavesOK, VolumesOK, States
  <2> QED BY <1>1, <1>2, <2>1, TypeParts, MasterSame
<1>6. \A x \in Slaves : Pending(x)' <=> Pending(x)
  BY <1>1, <1>2, <1>4 DEF Pending, TypeOK, Requests
<1>7. Turns'
  <2>1. slp \in Slaves /\ slp' = slp  BY <1>1, <1>2, SlaveSame DEF TypeOK
  <2>2. \A t \in Slaves : Writer(t)' => Writer(t)
    BY <1>1, <1>2 DEF Writer, HasTurn, TypeOK, After
  <2> QED BY <1>4, <1>6, <2>1, <2>2, TurnsKept
<1>8. Requests'
  <2>1. \A x \in Slaves : pipe'[x] # <<>> => state'[x] \in {"read", "pass"}
    BY <1>1, <1>2, <1>4 DEF Requests, TypeOK
  <2>2. \A x \in Slaves : state'[x] \in {"tell", "pass", "exit"} => state'[x] = state[x]
    BY <1>1, <1>2 DEF TypeOK
  <2> QED BY <1>1, <1>4, <1>6, <2>1, <2>2, RequestsKept
<1>9. Sizes'
  BY <1>1, <1>2, <1>4, SizesKept DEF Sizes, TypeOK
<1> QED BY <1>3, <1>5, <1>7, <1>8, <1>9 DEF Control

LEMMA ProceedControl ==
  ASSUME Reached, NEW s \in Slaves, proceed(s) PROVE TypeOK' /\ Ending' /\ Control'
<1>1. /\ signalled[s] /\ state[s] # "exit"
      /\ signalled' = [signalled EXCEPT ![s] = FALSE]
      /\ state' = IF state[s] \in {"ready", "pause"} THEN [state EXCEPT ![s] = "write"] ELSE state
      /\ caught' = [caught EXCEPT ![s] = state[s] \notin {"ready", "pause"}]
      /\ UNCHANGED masters
      /\ UNCHANGED <<volumes, pipe, buf, size, result, closed>>
  BY DEF proceed, Cleared, Awaits
<1>2. TypeOK /\ Ending /\ Control /\ Inv  BY DEF Reached
<1>3. Ending' /\ pc # "quit"  BY <1>1, <1>2, SlaveEnding DEF TypeOK
<1>4. Requests /\ Sizes /\ Turns  BY <1>2, <1>3 DEF Control
<1>5. TypeOK'
  <2>1. SlavesOK' /\ VolumesOK'
    BY <1>1, <1>2, TypeParts, RingFacts DEF SlavesOK, VolumesOK, States
  <2> QED BY <1>1, <1>2, <2>1, TypeParts, MasterSame
<1>6. \A x \in Slaves : Pending(x)' <=> Pending(x)
  BY <1>1, <1>2, <1>4 DEF Pending, TypeOK, Requests
<1>7. Turns'
  <2>1. slp \in Slaves /\ slp' = slp  BY <1>1, <1>2, SlaveSame DEF TypeOK
  <2>2. \A t \in Slaves : Writer(t)' => Writer(t)
    BY <1>1, <1>2 DEF Writer, HasTurn, TypeOK, After, Inv, Once
  <2> QED BY <1>4, <1>6, <2>1, <2>2, TurnsKept
<1>8. Requests'
  <2>1. \A x \in Slaves : pipe'[x] # <<>> => state'[x] \in {"read", "pass"}
    BY <1>1, <1>2, <1>4 DEF Requests, TypeOK
  <2>2. \A x \in Slaves : state'[x] \in {"tell", "pass", "exit"} => state'[x] = state[x]
    BY <1>1, <1>2 DEF TypeOK
  <2> QED BY <1>1, <1>4, <1>6, <2>1, <2>2, RequestsKept
<1>9. Sizes'
  BY <1>1, <1>2, <1>4, SizesKept DEF Sizes, TypeOK
<1> QED BY <1>3, <1>5, <1>7, <1>8, <1>9 DEF Control

LEMMA TellControl ==
  ASSUME Reached, NEW s \in Slaves, Tell(s) PROVE TypeOK' /\ Ending' /\ Control'
<1>0. PICK n \in Answers(size[s]) : result' = [result EXCEPT ![s] = n]  BY DEF Tell
<1>1. /\ state[s] = "tell"
      /\ result' = [result EXCEPT ![s] = n]
      /\ state' = [state EXCEPT ![s] = "pass"]
      /\ UNCHANGED masters
      /\ UNCHANGED <<volumes, pipe, buf, size, closed, caught, signalled>>
  BY <1>0 DEF Tell
<1>2. TypeOK /\ Ending /\ Control /\ Inv  BY DEF Reached
<1>3. Ending' /\ pc # "quit"  BY <1>1, <1>2, SlaveEnding DEF TypeOK
<1>4. Requests /\ Sizes /\ Turns  BY <1>2, <1>3 DEF Control
<1>5. TypeOK'
  <2>1. n \in 0..ntrec  BY <1>0, <1>2, TapeAssumption DEF Answers, TypeOK
  <2>2. SlavesOK' /\ VolumesOK'
    BY <1>1, <1>2, <2>1, TypeParts, RingFacts DEF SlavesOK, VolumesOK, States
  <2> QED BY <1>1, <1>2, <2>2, TypeParts, MasterSame
<1>6. \A x \in Slaves : Pending(x)' <=> Pending(x)
  BY <1>1, <1>2, <1>4 DEF Pending, TypeOK, Requests
<1>7. Turns'
  <2>1. slp \in Slaves /\ slp' = slp  BY <1>1, <1>2, SlaveSame DEF TypeOK
  <2>2. \A t \in Slaves : Writer(t)' => Writer(t)
    BY <1>1, <1>2 DEF Writer, HasTurn, TypeOK, After
  <2> QED BY <1>4, <1>6, <2>1, <2>2, TurnsKept
<1>8. Requests'
  BY <1>1, <1>2, <1>4, <1>6, RequestsKept DEF Requests, Pending, TypeOK
<1>9. Sizes'
  BY <1>1, <1>2, <1>4, SizesKept DEF Sizes, TypeOK
<1> QED BY <1>3, <1>5, <1>7, <1>8, <1>9 DEF Control

LEMMA PassControl ==
  ASSUME Reached, NEW s \in Slaves, Pass(s) PROVE TypeOK' /\ Ending' /\ Control'
<1>1. /\ state[s] = "pass"
      /\ signalled' = [signalled EXCEPT ![After(s)] = state[After(s)] # "exit"]
      /\ state' = [state EXCEPT ![s] = "read"]
      /\ UNCHANGED masters
      /\ UNCHANGED <<volumes, pipe, buf, size, result, closed, caught>>
  BY DEF Pass
<1>2. TypeOK /\ Ending /\ Control /\ Inv  BY DEF Reached
<1>3. Ending' /\ pc # "quit"  BY <1>1, <1>2, SlaveEnding DEF TypeOK
<1>4. Requests /\ Sizes /\ Turns  BY <1>2, <1>3 DEF Control
<1>5. TypeOK'
  <2>1. SlavesOK' /\ VolumesOK'
    BY <1>1, <1>2, TypeParts, RingFacts DEF SlavesOK, VolumesOK, States
  <2> QED BY <1>1, <1>2, <2>1, TypeParts, MasterSame
<1>6. \A x \in Slaves : Pending(x)' <=> Pending(x)
  BY <1>1, <1>2, <1>4 DEF Pending, TypeOK, Requests
<1>7. Turns'
  <2>1. slp \in Slaves /\ slp' = slp  BY <1>1, <1>2, SlaveSame DEF TypeOK
  <2>2. \A t \in Slaves : Writer(t)' => Writer(t)
    <3>1. \A r \in Slaves \ {s} : ~HasTurn(r)
      BY <1>1, <1>2 DEF Inv, Exclusive, HasTurn
    <3>2. ~caught[s] /\ ~signalled[s]
      BY <1>1, <1>2 DEF Inv, Once
    <3>3. Writer(After(s))
      BY <1>1 DEF Writer, HasTurn
    <3>4. \A r \in Slaves : HasTurn(r)' => r = After(s) /\ state'[r] \notin {"tell", "pass"}
      BY <1>1, <1>2, <3>1, <3>2 DEF HasTurn, TypeOK
    <3> QED BY <3>3, <3>4 DEF Writer
  <2> QED BY <1>4, <1>6, <2>1, <2>2, TurnsKept
<1>8. Requests'
  BY <1>1, <1>2, <1>4, <1>6, RequestsKept DEF Requests, Pending, TypeOK
<1>9. Sizes'
  BY <1>1, <1>2, <1>4, SizesKept DEF Sizes, TypeOK
<1> QED BY <1>3, <1>5, <1>7, <1>8, <1>9 DEF Control

LEMMA ExitControl ==
  ASSUME Reached, NEW s \in Slaves, Exit(s) PROVE TypeOK' /\ Ending' /\ Control'
<1>1. /\ state[s] = "read" /\ pipe[s] = <<>> /\ closed[s]
      /\ state' = [state EXCEPT ![s] = "exit"]
      /\ UNCHANGED masters
      /\ UNCHANGED <<volumes, pipe, buf, size, result, closed, caught, signalled>>
  BY DEF Exit
<1>2. TypeOK /\ Ending /\ Control /\ Inv  BY DEF Reached
<1>3. Ending' /\ pc # "quit"  BY <1>1, <1>2, SlaveEnding DEF TypeOK
<1>4. Requests /\ Sizes /\ Turns  BY <1>2, <1>3 DEF Control
<1>5. TypeOK'
  <2>1. SlavesOK' /\ VolumesOK'
    BY <1>1, <1>2, TypeParts, RingFacts DEF SlavesOK, VolumesOK, States
  <2> QED BY <1>1, <1>2, <2>1, TypeParts, MasterSame
<1>6. \A x \in Slaves : Pending(x)' <=> Pending(x)
  BY <1>1, <1>2, <1>4 DEF Pending, TypeOK, Requests
<1>7. Turns'
  <2>1. slp \in Slaves /\ slp' = slp  BY <1>1, <1>2, SlaveSame DEF TypeOK
  <2>2. \A t \in Slaves : Writer(t)' => Writer(t)
    BY <1>1, <1>2 DEF Writer, HasTurn, TypeOK, After
  <2> QED BY <1>4, <1>6, <2>1, <2>2, TurnsKept
<1>8. Requests'
  BY <1>1, <1>2, <1>4, <1>6, RequestsKept DEF Requests, Pending, TypeOK
<1>9. Sizes'
  BY <1>1, <1>2, <1>4, SizesKept DEF Sizes, TypeOK
<1> QED BY <1>3, <1>5, <1>7, <1>8, <1>9 DEF Control

(* What fits is a number of records of the block.                             *)
LEMMA FitsOK ==
  ASSUME MasterOK, VolumesOK, volume >= 1,
         volume <= Len(room) => Len(volumes[volume]) <= room[volume]
  PROVE  /\ Fits \in 0..ntrec
         /\ volume <= Len(room) /\ Fits # ntrec => Fits = room[volume] - Len(volumes[volume])
         /\ volume <= Len(room) => Len(volumes[volume]) + Fits <= room[volume]
         /\ volume > Len(room) => Fits = ntrec
         /\ volume \in Nat /\ volume \in DOMAIN volumes
<1>1. /\ volumes \in Seq(Seq(Records)) /\ ntrec \in Nat /\ room \in Seq(Nat \ {0})
  BY TapeAssumption DEF MasterOK, VolumesOK
<1>2. volume \in Nat /\ volume \in DOMAIN volumes /\ Len(volumes[volume]) \in Nat
  BY <1>1 DEF volume
<1>3. volume <= Len(room) => room[volume] \in Nat
  BY <1>1, <1>2
<1> DEFINE n == Len(volumes[volume])
           m == room[volume]
<1>4. Fits = IF volume > Len(room) \/ m - n >= ntrec THEN ntrec ELSE m - n
  BY DEF Fits
<1>5. Len(room) \in Nat  BY <1>1
<1> HIDE DEF n, m
<1> QED BY <1>1, <1>2, <1>3, <1>4, <1>5 DEF n, m

(* A slave writes: the tape takes no more than it holds.                      *)
LEMMA WriteControl ==
  ASSUME Reached, NEW s \in Slaves, Write(s) PROVE TypeOK' /\ Ending' /\ Control'
<1>1. /\ state[s] = "write"
      /\ volumes' = [volumes EXCEPT ![volume] = volumes[volume] \o SubSeq(buf[s], 1, Fits)]
      /\ size' = [size EXCEPT ![s] = Fits]
      /\ state' = [state EXCEPT ![s] = "tell"]
      /\ UNCHANGED masters
      /\ UNCHANGED <<pipe, buf, result, closed, caught, signalled>>
  BY DEF Write
<1>2. /\ TypeOK /\ Ending /\ Control /\ Inv
      /\ MasterOK /\ VolumesOK /\ SlavesOK /\ volume >= 1
  BY TypeParts DEF Reached, Ending
<1>3. pc # "quit" /\ Requests /\ Sizes /\ Turns
  BY <1>1, <1>2 DEF Control, Ending
<1>4. /\ volume \in Nat /\ volume \in DOMAIN volumes /\ Fits \in 0..ntrec
      /\ volume <= Len(room) => Len(volumes[volume]) + Fits <= room[volume]
  BY <1>2, <1>3, FitsOK DEF Sizes
<1> DEFINE part == SubSeq(buf[s], 1, Fits)
<1>5. part \in Seq(Records) /\ Len(part) = Fits
  <2>1. buf[s] \in Seq(Records) /\ Len(buf[s]) = ntrec
    BY <1>1, <1>2, <1>3 DEF Sizes, SlavesOK
  <2>2. ntrec \in Nat  BY TapeAssumption
  <2> QED BY <1>4, <2>1, <2>2
<1>6. volumes \in Seq(Seq(Records)) /\ volumes[volume] \in Seq(Records)
  BY <1>2, <1>4 DEF VolumesOK
<1> HIDE DEF part
<1>7. volumes' = [volumes EXCEPT ![volume] = volumes[volume] \o part]
  BY <1>1 DEF part
<1>8. /\ volumes' \in Seq(Seq(Records)) /\ Len(volumes') = Len(volumes)
      /\ Len(volumes'[volume]) = Len(volumes[volume]) + Fits
  <2>1. /\ volumes[volume] \o part \in Seq(Records)
        /\ Len(volumes[volume] \o part) = Len(volumes[volume]) + Fits
    BY <1>5, <1>6, ConcatProperties
  <2>2. volume \in 1..Len(volumes)  BY <1>4, <1>6
  <2> QED BY <1>6, <1>7, <2>1, <2>2, ExceptSeq
<1>9. Ending'  BY <1>1, <1>2, <1>8, SlaveEnding
<1>10. TypeOK'
  <2>1. SlavesOK'
    BY <1>1, <1>2, <1>4 DEF SlavesOK, States
  <2>2. VolumesOK'
    BY <1>8 DEF VolumesOK
  <2> QED BY <1>1, <1>2, <2>1, <2>2, TypeParts, MasterSame
<1>11. \A x \in Slaves : Pending(x)' <=> Pending(x) /\ x # s
  BY <1>1, <1>2, <1>3 DEF Pending, SlavesOK, Requests
<1>12. slp' = slp /\ slp \in Slaves /\ pc' = pc
  BY <1>1, <1>2, SlaveSame DEF MasterOK
<1>13. PICK p \in Slaves : p = slp  BY <1>12
<1>14. Writer(s) /\ Pending(s)
  BY <1>1 DEF Writer, HasTurn, Pending
<1>15. /\ Pending(p) => s = p
       /\ \A x \in Slaves : Pending(x) /\ x # s => Pending(Before(x))
       /\ Pending(Before(s)) => s = p
       /\ Pending(Before(p))
  BY <1>3, <1>13, <1>14 DEF Turns, Stretch
<1>16. \A x \in Slaves : Pending(x) /\ x # Before(p) => Pending(After(x))
  BY <1>3, <1>13 DEF Turns
<1>17. \A t \in Slaves : Writer(t)' => t = After(s)
  <2>1. \A r \in Slaves : HasTurn(r)' => r = s
    BY <1>1, <1>2 DEF HasTurn, SlavesOK, Inv, Exclusive
  <2> QED BY <1>1, <1>2, <2>1 DEF Writer, SlavesOK
<1>18. Turns'
  <2> DEFINE t == After(s)
  <2>1. t \in Slaves /\ Before(t) = s /\ Before(p) \in Slaves /\ After(Before(p)) = p
    BY RingFacts
  <2>2. ~Pending(t)' => t = p
    <3>1. s # Before(p) => Pending(t)  BY <1>14, <1>16
    <3>2. t = s => s = p  BY <1>14, <1>15, <2>1
    <3>3. s = Before(p) => t = p  BY <2>1
    <3> QED BY <1>11, <2>1, <3>1, <3>2, <3>3
  <2>3. ~Pending(p)'
    BY <1>11, <1>15
  <2>4. \A x \in Slaves : Pending(x)' /\ x # t => Pending(Before(x))'
    <3> SUFFICES ASSUME NEW x \in Slaves, Pending(x)', x # t PROVE Pending(Before(x))'
      OBVIOUS
    <3>1. Pending(x) /\ x # s  BY <1>11
    <3>2. Pending(Before(x))  BY <1>15, <3>1
    <3>3. Before(x) # s /\ Before(x) \in Slaves  BY RingFacts
    <3> QED BY <1>11, <3>2, <3>3
  <2>5. ~Pending(s)'
    BY <1>11
  <2>6. Pending(Before(p))' \/ t = p
    BY <1>11, <1>15, <2>1
  <2>7. \A x \in Slaves : Pending(x)' /\ x # Before(p) => Pending(After(x))'
    <3> SUFFICES ASSUME NEW x \in Slaves, Pending(x)', x # Before(p) PROVE Pending(After(x))'
      OBVIOUS
    <3>1. Pending(x) /\ x # s  BY <1>11
    <3>2. Pending(After(x)) /\ After(x) \in Slaves BY <1>16, <3>1, RingFacts
    <3>3. After(x) # s  BY <1>15, <3>1, RingFacts
    <3> QED BY <1>11, <3>2, <3>3
  <2>8. Stretch(t)'
    <3> HIDE DEF t
    <3>1. Stretch(t)' <=>
            /\ ~Pending(t)' => t = p
            /\ Pending(p)' => t = p
            /\ \A x \in Slaves : Pending(x)' /\ x # t => Pending(Before(x))'
            /\ Pending(Before(t))' => Pending(t)' /\ t = p
            /\ Pending(Before(p))' \/ (t = p /\ ~Pending(p)')
      BY <1>12, <1>13 DEF Stretch, Pending
    <3> QED BY <2>1, <2>2, <2>3, <2>4, <2>5, <2>6, <3>1
  <2>9. Turns' <=> /\ \A x \in Slaves : Pending(x)' /\ x # Before(p) => Pending(After(x))'
                   /\ \A u \in Slaves : Writer(u)' => Stretch(u)'
    BY <1>12, <1>13 DEF Turns
  <2> QED BY <1>17, <2>7, <2>8, <2>9
<1>19. Requests'
  <2>1. \A x \in Slaves : state'[x] = "tell" => state[x] = "tell" \/ Pending(x)
    BY <1>1, <1>2, <1>14 DEF SlavesOK
  <2>2. \A x \in Slaves : state'[x] \in {"pass", "exit"} => state'[x] = state[x]
    BY <1>1, <1>2 DEF SlavesOK
  <2>3. \A x \in Slaves : pipe'[x] # <<>> => state'[x] \in {"read", "pass"}
    BY <1>1, <1>2, <1>3 DEF Requests, SlavesOK
  <2> QED BY <1>1, <1>3, <1>11, <2>1, <2>2, <2>3, RequestsKept
<1>20. Sizes'
  <2>1. UNCHANGED <<pc, slp, sent, block, room, pipe, buf, Rolling, Filling>>
    BY <1>1, SlaveSame
  <2>2. \A x \in Slaves : state'[x] \in {"lock", "ready", "pause", "write"} => state'[x] = state[x]
    BY <1>1, <1>2 DEF SlavesOK
  <2>3. volume' = volume  BY <1>8 DEF volume
  <2>4. volume <= Len(room) => Len(volumes'[volume]) <= room[volume]
    BY <1>4, <1>8
  <2> QED BY <1>3, <2>1, <2>2, <2>3, <2>4 DEF Sizes
<1> QED BY <1>3, <1>9, <1>10, <1>18, <1>19, <1>20 DEF Control

(* The order in which the slaves write is only theirs.                        *)
LEMMA TurnsSame ==
  ASSUME Turns, slp \in Slaves, UNCHANGED <<slp, state, pipe, caught, signalled>>
  PROVE  Turns'
<1>1. \A x \in Slaves : Pending(x)' <=> Pending(x)  BY DEF Pending
<1>2. \A t \in Slaves : Writer(t)' => Writer(t)  BY DEF Writer, HasTurn
<1> QED BY <1>1, <1>2, TurnsKept

LEMMA VolumesSame == ASSUME VolumesOK, UNCHANGED volumes PROVE VolumesOK'
BY DEF VolumesOK

(* The steps of the master, one by one.                                       *)
LEMMA QuitControl ==
  ASSUME Reached, quit, result' \in [Slaves -> {NoResult} \cup 0..ntrec],
         sent' \in [Slaves -> BOOLEAN]
  PROVE  TypeOK' /\ Ending' /\ Control'
<1>1. MasterOK /\ VolumesOK /\ SlavesOK /\ Ending  BY TypeParts DEF Reached
<1>2. MasterOK'  BY <1>1 DEF MasterOK, quit, given, buffers, history, Places
<1>3. SlavesOK'  BY <1>1 DEF SlavesOK, quit, States
<1>4. VolumesOK'  BY <1>1, VolumesSame DEF quit
<1>5. Ending'  BY <1>1 DEF Ending, quit, volume, history
<1>6. Control'  BY DEF Control, quit
<1> QED BY <1>2, <1>3, <1>4, <1>5, <1>6, TypeParts

LEMMA TakeOK ==
  ASSUME SlavesOK, MasterOK, NEW s \in Slaves,
         Take(s) \/ UNCHANGED <<sent, result>>
  PROVE  sent' \in [Slaves -> BOOLEAN] /\ result' \in [Slaves -> {NoResult} \cup 0..ntrec]
BY DEF Take, MasterOK, SlavesOK

LEMMA FinishControl == ASSUME Reached, Finish PROVE TypeOK' /\ Ending' /\ Control'
<1>1. /\ pc = "dump" /\ next > Ends /\ dated' = TRUE /\ pc' = "rewind" /\ goal' = "done"
      /\ UNCHANGED <<kind, room, limit, next, slp, block, head, firstrec, blocks>>
      /\ UNCHANGED <<sent, rolled, stale, volumes>>
      /\ UNCHANGED <<state, pipe, buf, size, result, closed, caught, signalled>>
  BY DEF Finish, given, buffers, slaves
<1>2. /\ TypeOK /\ Ending /\ MasterOK /\ VolumesOK /\ SlavesOK
      /\ Requests /\ Sizes /\ Turns
  BY <1>1, TypeParts DEF Reached, Control
<1>3. MasterOK'  BY <1>1, <1>2 DEF MasterOK, Places
<1>4. SlavesOK'  BY <1>1, <1>2 DEF SlavesOK
<1>5. VolumesOK'  BY <1>1, <1>2, VolumesSame
<1>6. Ending'
  <2>1. next = Ends + 1  BY <1>1, <1>2, TapeAssumption DEF MasterOK, Ends
  <2> QED BY <1>1, <1>2, <2>1 DEF Ending, volume, Ends
<1>7. Requests'  BY <1>1, <1>2 DEF Requests, Pending
<1>8. Sizes'  BY <1>1, <1>2 DEF Sizes, volume, Rolling, Filling
<1>9. Turns'  BY <1>1, <1>2, TurnsSame DEF MasterOK
<1> QED BY <1>3, <1>4, <1>5, <1>6, <1>7, <1>8, <1>9, TypeParts DEF Control

(* When the master has read the result of slave s.                            *)
LEMMA Taken ==
  ASSUME Requests, MasterOK, SlavesOK, NEW s \in Slaves,
         Take(s) \/ (~sent[s] /\ UNCHANGED <<sent, result>>), UNCHANGED <<state, pipe>>
  PROVE  /\ sent' = [sent EXCEPT ![s] = FALSE] /\ ~sent'[s]
         /\ \A x \in Slaves : sent'[x] => sent[x] /\ x # s
         /\ \A x \in Slaves : Pending(x)' <=> Pending(x)
         /\ \A x \in Slaves : Pending(x)' \/ state[x] = "tell" => sent'[x] /\ result'[x] = NoResult
         /\ \A x \in Slaves : result'[x] # NoResult => sent'[x]
         /\ \A x \in Slaves : closed[x] => ~sent'[x]
         /\ \A x \in Slaves : pipe[x] # <<>> => state[x] \in {"read", "pass"}
<1>1. sent' = [sent EXCEPT ![s] = FALSE]
  BY DEF Take, MasterOK
<1>2. \A x \in Slaves : Pending(x)' <=> Pending(x)
  BY DEF Pending
<1>3. \/ sent[s] /\ result[s] # NoResult /\ result' = [result EXCEPT ![s] = NoResult]
      \/ ~sent[s] /\ result' = result
  BY DEF Take
<1>4. ~Pending(s) /\ state[s] # "tell"
  BY <1>3 DEF Requests
<1>5. ~sent'[s] /\ \A x \in Slaves : sent'[x] => sent[x] /\ x # s
  BY <1>1 DEF MasterOK
<1>6. \A x \in Slaves : Pending(x)' \/ state[x] = "tell" => sent'[x] /\ result'[x] = NoResult
  BY <1>1, <1>2, <1>3, <1>4 DEF Requests, MasterOK, SlavesOK
<1>7. \A x \in Slaves : result'[x] # NoResult => sent'[x]
  BY <1>1, <1>3 DEF Requests, MasterOK, SlavesOK
<1>8. \A x \in Slaves : closed[x] => ~sent'[x]
  BY <1>5 DEF Requests
<1>9. \A x \in Slaves : pipe[x] # <<>> => state[x] \in {"read", "pass"}
  BY DEF Requests
<1> QED BY <1>1, <1>2, <1>5, <1>6, <1>7, <1>8, <1>9

LEMMA NextBlockControl == ASSUME Reached, NextBlock PROVE TypeOK' /\ Ending' /\ Control'
<1>1. /\ pc = "result"
      /\ \/ Take(slp) /\ Full(slp)
         \/ ~sent[slp] /\ UNCHANGED <<sent, result>>
      /\ block' = [block EXCEPT ![slp] = <<>>]
      /\ firstrec' = [firstrec EXCEPT ![slp] = FirstRecord]
      /\ blocks' = blocks + 1
      /\ \/ pc' = "rewind" /\ goal' = "new"
         \/ pc' = "dump" /\ goal' = goal
      /\ UNCHANGED <<kind, room, limit, next, slp, head, dated, rolled, stale, volumes>>
      /\ UNCHANGED <<state, pipe, buf, size, closed, caught, signalled>>
  BY DEF NextBlock, given, history
<1>2. /\ TypeOK /\ Ending /\ MasterOK /\ VolumesOK /\ SlavesOK
      /\ Requests /\ Sizes /\ Turns /\ slp \in Slaves
  BY <1>1, TypeParts DEF Reached, Control, MasterOK
<1>3. /\ sent' = [sent EXCEPT ![slp] = FALSE]
      /\ \/ sent[slp] /\ result[slp] # NoResult /\ result' = [result EXCEPT ![slp] = NoResult]
         \/ ~sent[slp] /\ result' = result
  BY <1>1, <1>2 DEF Take, MasterOK
<1>4. MasterOK'
  <2>1. FirstRecord \in Nat
    <3>1. Before(slp) \in Slaves  BY <1>2, RingFacts
    <3>2. firstrec[Before(slp)] \in Nat  BY <1>2, <3>1 DEF MasterOK
    <3> QED BY <3>2, TapeAssumption DEF FirstRecord
  <2>2. <<>> \in Seq(Records)  OBVIOUS
  <2> QED BY <1>1, <1>2, <1>3, <2>1, <2>2 DEF MasterOK, Places
<1>5. SlavesOK'  BY <1>1, <1>2, TakeOK DEF SlavesOK
<1>6. VolumesOK'  BY <1>1, <1>2, VolumesSame
<1>7. Ending'  BY <1>1, <1>2 DEF Ending, volume, Ends
<1>8. Requests'
  <2>1. Take(slp) \/ (~sent[slp] /\ UNCHANGED <<sent, result>>)  BY <1>1
  <2>2. \A s \in Slaves : sent'[s] /\ s # Before(slp) => sent'[After(s)]
    BY <1>1, <1>2, <1>3, RingFacts DEF Requests, MasterOK
  <2>3. \A s \in Slaves : state[s] # "exit" /\ ~closed[s]
    BY <1>1, <1>2 DEF Requests
  <2> QED BY <1>1, <1>2, <2>1, <2>2, <2>3, Taken DEF Requests
<1>9. Sizes'
  <2>1. \A s \in Slaves : sent'[s] => sent[s] /\ s # slp
    BY <1>2, <1>3 DEF MasterOK
  <2>2. \A s \in Slaves : sent'[s] => Len(block'[s]) = ntrec
    BY <1>1, <1>2, <2>1 DEF Sizes, MasterOK
  <2>3. Len(block'[slp]) < ntrec
    BY <1>1, <1>2, TapeAssumption DEF MasterOK
  <2>4. ~Rolling'
    BY <1>1 DEF Rolling
  <2> QED BY <1>1, <1>2, <2>2, <2>3, <2>4 DEF Sizes, volume
<1>10. Turns'  BY <1>1, <1>2, TurnsSame
<1> QED BY <1>4, <1>5, <1>6, <1>7, <1>8, <1>9, <1>10, TypeParts DEF Control

(* The tape is full: all buffers are, and the results are drained.            *)
LEMMA EndOfTapeControl == ASSUME Reached, EndOfTape PROVE TypeOK' /\ Ending' /\ Control'
<1>1. /\ pc = "result" /\ pc' = "drain" /\ Take(slp) /\ ~Full(slp)
      /\ UNCHANGED <<kind, room, limit, goal, next, slp, block, head, firstrec, blocks>>
      /\ UNCHANGED <<dated, rolled, stale, volumes>>
      /\ UNCHANGED <<state, pipe, buf, size, closed, caught, signalled>>
  BY DEF EndOfTape, given, buffers, history
<1>2. /\ TypeOK /\ Ending /\ MasterOK /\ VolumesOK /\ SlavesOK
      /\ Requests /\ Sizes /\ Turns /\ slp \in Slaves
  BY <1>1, TypeParts DEF Reached, Control, MasterOK
<1>3. MasterOK'  BY <1>1, <1>2, TakeOK DEF MasterOK, Places
<1>4. SlavesOK'  BY <1>1, <1>2, TakeOK DEF SlavesOK
<1>5. VolumesOK'  BY <1>1, <1>2, VolumesSame
<1>6. Ending'  BY <1>1, <1>2 DEF Ending, volume, Ends
<1>7. Requests'
  <2>1. \A s \in Slaves : state[s] # "exit" /\ ~closed[s]
    BY <1>1, <1>2 DEF Requests
  <2> QED BY <1>1, <1>2, <2>1, Taken DEF Requests
<1>8. Sizes'
  <2>1. \A s \in Slaves : sent[s]
    <3> DEFINE S == {s \in Slaves : sent[s]}
    <3>1. slp \in S  BY <1>1, <1>2 DEF Take
    <3>2. \A s \in Slaves : s \in S /\ s # Before(slp) => After(s) \in S
      BY <1>1, <1>2, RingFacts DEF Requests
    <3>3. \A s \in Slaves : s \in S
      <4> HIDE DEF S
      <4> QED BY <1>2, <3>1, <3>2, RingInduction
    <3> QED BY <3>3
  <2>2. \A s \in Slaves : Len(block[s]) = ntrec
    BY <1>1, <1>2, <2>1 DEF Sizes
  <2> QED BY <1>1, <1>2, <2>2 DEF Sizes, Rolling, Filling, volume
<1>9. Turns'  BY <1>1, <1>2, TurnsSame
<1> QED BY <1>3, <1>4, <1>5, <1>6, <1>7, <1>8, <1>9, TypeParts DEF Control

LEMMA DrainControl ==
  ASSUME Reached, NEW s \in Slaves, Drain(s) PROVE TypeOK' /\ Ending' /\ Control'
<1>1. /\ pc = "drain" /\ Take(s)
      /\ UNCHANGED <<kind, room, limit, pc, goal, next, slp, block, head, firstrec, blocks>>
      /\ UNCHANGED <<dated, rolled, stale, volumes>>
      /\ UNCHANGED <<state, pipe, buf, size, closed, caught, signalled>>
  BY DEF Drain, given, buffers, history
<1>2. /\ TypeOK /\ Ending /\ MasterOK /\ VolumesOK /\ SlavesOK
      /\ Requests /\ Sizes /\ Turns /\ slp \in Slaves
  BY <1>1, TypeParts DEF Reached, Control, MasterOK
<1>3. MasterOK'  BY <1>1, <1>2, TakeOK DEF MasterOK
<1>4. SlavesOK'  BY <1>1, <1>2, TakeOK DEF SlavesOK
<1>5. VolumesOK'  BY <1>1, <1>2, VolumesSame
<1>6. Ending'  BY <1>1, <1>2 DEF Ending, volume
<1>7. Requests'
  <2>1. \A x \in Slaves : state[x] # "exit" /\ ~closed[x]
    BY <1>1, <1>2 DEF Requests
  <2> QED BY <1>1, <1>2, <2>1, Taken DEF Requests
<1>8. Sizes'
  <2>1. \A x \in Slaves : sent'[x] => sent[x]
    BY <1>1, <1>2, Taken
  <2> QED BY <1>1, <1>2, <2>1 DEF Sizes, Rolling, Filling, volume
<1>9. Turns'  BY <1>1, <1>2, TurnsSame
<1> QED BY <1>3, <1>4, <1>5, <1>6, <1>7, <1>8, <1>9, TypeParts DEF Control

LEMMA DrainedControl == ASSUME Reached, Drained PROVE TypeOK' /\ Ending' /\ Control'
<1>1. /\ pc = "drain" /\ pc' = "rewind" /\ goal' = "roll"
      /\ UNCHANGED <<kind, room, limit, next, slp, block, head, firstrec, blocks>>
      /\ UNCHANGED <<sent, dated, rolled, stale, volumes>>
      /\ UNCHANGED <<state, pipe, buf, size, result, closed, caught, signalled>>
  BY DEF Drained, given, buffers, history, slaves
<1>2. /\ TypeOK /\ Ending /\ MasterOK /\ VolumesOK /\ SlavesOK
      /\ Requests /\ Sizes /\ Turns /\ slp \in Slaves
  BY <1>1, TypeParts DEF Reached, Control, MasterOK
<1>3. MasterOK'  BY <1>1, <1>2 DEF MasterOK, Places
<1>4. SlavesOK'  BY <1>1, <1>2 DEF SlavesOK
<1>5. VolumesOK'  BY <1>1, <1>2, VolumesSame
<1>6. Ending'  BY <1>1, <1>2 DEF Ending, volume
<1>7. Requests'  BY <1>1, <1>2 DEF Requests, Pending
<1>8. Sizes'  BY <1>1, <1>2 DEF Sizes, Rolling, Filling, volume
<1>9. Turns'  BY <1>1, <1>2, TurnsSame
<1> QED BY <1>3, <1>4, <1>5, <1>6, <1>7, <1>8, <1>9, TypeParts DEF Control

LEMMA TrewindControl ==
  ASSUME Reached, NEW s \in Slaves, trewind(s) PROVE TypeOK' /\ Ending' /\ Control'
<1>1. /\ TypeOK /\ Ending /\ MasterOK /\ VolumesOK /\ SlavesOK
      /\ Requests /\ Sizes /\ Turns /\ slp \in Slaves /\ pc = "rewind"
  BY TypeParts DEF Reached, Control, MasterOK, trewind
<1>2. CASE Take(s) /\ ~Full(s) /\ quit
  BY <1>1, <1>2, TakeOK, QuitControl
<1>3. CASE /\ \/ Take(s) /\ Full(s)
              \/ ~sent[s] /\ UNCHANGED <<sent, result>>
           /\ closed' = [closed EXCEPT ![s] = TRUE]
           /\ UNCHANGED <<given, pc, goal, buffers, history, volumes>>
           /\ UNCHANGED <<state, pipe, buf, size, caught, signalled>>
  <2>1. /\ Take(s) \/ (~sent[s] /\ UNCHANGED <<sent, result>>)
        /\ closed' = [closed EXCEPT ![s] = TRUE]
        /\ UNCHANGED <<kind, room, limit, pc, goal, next, slp, block, head, firstrec, blocks>>
        /\ UNCHANGED <<dated, rolled, stale, volumes>>
        /\ UNCHANGED <<state, pipe, buf, size, caught, signalled>>
    BY <1>3 DEF given, buffers, history
  <2>2. MasterOK'  BY <1>1, <2>1, TakeOK DEF MasterOK
  <2>3. SlavesOK'  BY <1>1, <2>1, TakeOK DEF SlavesOK
  <2>4. VolumesOK'  BY <1>1, <2>1, VolumesSame
  <2>5. Ending'  BY <1>1, <2>1 DEF Ending, volume
  <2>6. Requests'
    <3>1. \A x \in Slaves : closed'[x] => closed[x] \/ x = s
      BY <1>1, <2>1 DEF SlavesOK
    <3> QED BY <1>1, <2>1, <3>1, Taken DEF Requests
  <2>7. Sizes'
    <3>1. \A x \in Slaves : sent'[x] => sent[x]
      BY <1>1, <2>1, Taken
    <3> QED BY <1>1, <2>1, <3>1 DEF Sizes, Rolling, Filling, volume
  <2>8. Turns'  BY <1>1, <2>1, TurnsSame
  <2> QED BY <2>2, <2>3, <2>4, <2>5, <2>6, <2>7, <2>8, TypeParts DEF Control
<1> QED BY <1>2, <1>3 DEF trewind

LEMMA DoneControl == ASSUME Reached, Done PROVE TypeOK' /\ Ending' /\ Control'
<1>1. /\ pc = "rewind" /\ goal = "done" /\ pc' = "done"
      /\ \A s \in Slaves : closed[s] /\ state[s] = "exit"
      /\ UNCHANGED <<kind, room, limit, goal, next, slp, block, head, firstrec, blocks>>
      /\ UNCHANGED <<sent, dated, rolled, stale, volumes>>
      /\ UNCHANGED <<state, pipe, buf, size, result, closed, caught, signalled>>
  BY DEF Done, Rewound, given, buffers, history, slaves
<1>2. /\ TypeOK /\ Ending /\ MasterOK /\ VolumesOK /\ SlavesOK
      /\ Requests /\ Sizes /\ Turns /\ slp \in Slaves
  BY <1>1, TypeParts DEF Reached, Control, MasterOK
<1>3. MasterOK'  BY <1>1, <1>2 DEF MasterOK, Places
<1>4. SlavesOK'  BY <1>1, <1>2 DEF SlavesOK
<1>5. VolumesOK'  BY <1>1, <1>2, VolumesSame
<1>6. Ending'
  <2>1. \A s \in Slaves : ~sent[s]  BY <1>1, <1>2 DEF Requests
  <2> QED BY <1>1, <1>2, <2>1 DEF Ending, volume, Ends
<1>7. Requests'  BY <1>1, <1>2 DEF Requests, Pending
<1>8. Sizes'  BY <1>1, <1>2 DEF Sizes, Rolling, Filling, volume
<1>9. Turns'  BY <1>1, <1>2, TurnsSame
<1> QED BY <1>3, <1>4, <1>5, <1>6, <1>7, <1>8, <1>9, TypeParts DEF Control

LEMMA FirstControl == ASSUME Reached, First PROVE TypeOK' /\ Ending' /\ Control'
<1>1. /\ TypeOK /\ Ending /\ MasterOK /\ VolumesOK /\ SlavesOK /\ Take(slp)
      /\ Requests /\ Sizes /\ Turns /\ slp \in Slaves /\ pc = "first"
  BY TypeParts DEF Reached, Control, MasterOK, First
<1>2. CASE ~Full(slp) /\ quit
  BY <1>1, <1>2, TakeOK, QuitControl
<1>3. CASE /\ Full(slp) /\ pc' = "dump"
           /\ UNCHANGED <<given, goal, buffers, history, volumes>>
           /\ UNCHANGED <<state, pipe, buf, size, closed, caught, signalled>>
  <2>1. /\ pc' = "dump"
        /\ UNCHANGED <<kind, room, limit, goal, next, slp, block, head, firstrec, blocks>>
        /\ UNCHANGED <<dated, rolled, stale, volumes>>
        /\ UNCHANGED <<state, pipe, buf, size, closed, caught, signalled>>
    BY <1>3 DEF given, buffers, history
  <2>2. MasterOK'  BY <1>1, <2>1, TakeOK DEF MasterOK, Places
  <2>3. SlavesOK'  BY <1>1, <2>1, TakeOK DEF SlavesOK
  <2>4. VolumesOK'  BY <1>1, <2>1, VolumesSame
  <2>5. Ending'  BY <1>1, <2>1 DEF Ending, volume
  <2>6. sent' = [sent EXCEPT ![slp] = FALSE] /\ ~sent'[slp]
    BY <1>1, <2>1, Taken
  <2>7. Requests'
    <3>1. \A x \in Slaves : sent'[x] /\ x # Before(slp) => sent'[After(x)]
      BY <1>1, <2>6, RingFacts DEF Requests, MasterOK
    <3>2. \A x \in Slaves : state[x] # "exit" /\ ~closed[x]
      BY <1>1 DEF Requests
    <3> QED BY <1>1, <2>1, <2>6, <3>1, <3>2, Taken DEF Requests
  <2>8. Sizes'
    <3>1. \A x \in Slaves : sent'[x] => sent[x] /\ x # slp
      BY <1>1, <2>1, Taken
    <3> QED BY <1>1, <2>1, <3>1 DEF Sizes, Rolling, Filling, volume
  <2>9. Turns'  BY <1>1, <2>1, TurnsSame
  <2> QED BY <2>2, <2>3, <2>4, <2>5, <2>7, <2>8, <2>9, TypeParts DEF Control
<1> QED BY <1>2, <1>3 DEF First

LEMMA RecordOK == ASSUME MasterOK, next <= Ends
                  PROVE  Record(next) \in Records /\ next + 1 \in 1..(Ends + 1)
BY RecordsOK, TapeAssumption DEF MasterOK, Ends

(* A record that does not fill the block.                                     *)
LEMMA DumpPartControl ==
  ASSUME Reached, Dump, Len(block[slp]) + 1 < ntrec PROVE TypeOK' /\ Ending' /\ Control'
<1> DEFINE b == Append(block[slp], Record(next))
<1>1. /\ TypeOK /\ Ending /\ MasterOK /\ VolumesOK /\ SlavesOK
      /\ Requests /\ Sizes /\ Turns /\ slp \in Slaves /\ pc = "dump" /\ next <= Ends
  BY TypeParts DEF Reached, Control, MasterOK, Dump
<1>2. b \in Seq(Records) /\ Len(b) = Len(block[slp]) + 1
  BY <1>1, RecordOK, AppendProperties DEF MasterOK
<1>3. /\ block' = [block EXCEPT ![slp] = b]
      /\ head' = head \/ head' = [head EXCEPT ![slp] = Record(next)]
      /\ next' = next + 1
      /\ UNCHANGED <<kind, room, limit, pc, goal, slp, firstrec, blocks>>
      /\ UNCHANGED <<sent, dated, rolled, stale, volumes>>
      /\ UNCHANGED <<state, pipe, buf, size, result, closed, caught, signalled>>
  BY <1>2 DEF Dump, Put, given, history
<1> HIDE DEF b
<1>4. MasterOK'  BY <1>1, <1>2, <1>3, RecordOK DEF MasterOK
<1>5. SlavesOK'  BY <1>1, <1>3 DEF SlavesOK
<1>6. VolumesOK'  BY <1>1, <1>3, VolumesSame
<1>7. Ending'  BY <1>1, <1>3 DEF Ending, volume
<1>8. Requests'  BY <1>1, <1>3 DEF Requests, Pending
<1>9. Sizes'
  <2>1. Len(block'[slp]) < ntrec  BY <1>1, <1>2, <1>3 DEF MasterOK
  <2>2. \A s \in Slaves : s # slp => block'[s] = block[s]  BY <1>3, <1>1 DEF MasterOK
  <2>3. ~sent[slp]  BY <1>1 DEF Requests
  <2> QED BY <1>1, <1>3, <2>1, <2>2, <2>3 DEF Sizes, Rolling, Filling, volume
<1>10. Turns'  BY <1>1, <1>3, TurnsSame
<1> QED BY <1>4, <1>5, <1>6, <1>7, <1>8, <1>9, <1>10, TypeParts DEF Control

(* A record that fills it: the block is on its way, and the next slave's      *)
(* buffer is filled next.                                                     *)
LEMMA DumpFullControl ==
  ASSUME Reached, Dump, ~(Len(block[slp]) + 1 < ntrec) PROVE TypeOK' /\ Ending' /\ Control'
<1> DEFINE b == Append(block[slp], Record(next))
<1>1. /\ TypeOK /\ Ending /\ MasterOK /\ VolumesOK /\ SlavesOK
      /\ Requests /\ Sizes /\ Turns /\ slp \in Slaves /\ pc = "dump" /\ next <= Ends
  BY TypeParts DEF Reached, Control, MasterOK, Dump
<1>2. b \in Seq(Records) /\ Len(b) = ntrec /\ b # <<>>
  <2>1. b \in Seq(Records) /\ Len(b) = Len(block[slp]) + 1 /\ b # <<>>
    BY <1>1, RecordOK, AppendProperties DEF MasterOK
  <2>2. Len(block[slp]) < ntrec  BY <1>1 DEF Sizes, Filling, Rolling
  <2>3. Len(block[slp]) \in Nat /\ ntrec \in Nat
    BY <1>1, TapeAssumption DEF MasterOK
  <2> QED BY <2>1, <2>2, <2>3
<1>3. /\ block' = [block EXCEPT ![slp] = b]
      /\ head' = head \/ head' = [head EXCEPT ![slp] = Record(next)]
      /\ next' = next + 1
      /\ pipe' = [pipe EXCEPT ![slp] = b]
      /\ sent' = [sent EXCEPT ![slp] = TRUE]
      /\ slp' = After(slp) /\ pc' = "result"
      /\ UNCHANGED <<kind, room, limit, goal, firstrec, blocks>>
      /\ UNCHANGED <<dated, rolled, stale, volumes>>
      /\ UNCHANGED <<state, buf, size, result, closed, caught, signalled>>
  <2>1. ~(Len(b) < ntrec)
    BY <1>2, TapeAssumption
  <2> QED BY <2>1 DEF Dump, Put, given, history
<1> HIDE DEF b
<1>4. MasterOK'  BY <1>1, <1>2, <1>3, RecordOK, RingFacts DEF MasterOK, Places
<1>5. SlavesOK'  BY <1>1, <1>2, <1>3 DEF SlavesOK
<1>6. VolumesOK'  BY <1>1, <1>3, VolumesSame
<1>7. Ending'  BY <1>1, <1>3 DEF Ending, volume
<1>8. PICK o \in Slaves : o = slp  BY <1>1
<1>9. PICK p \in Slaves : p = slp' /\ p = After(o) /\ Before(p) = o
  BY <1>3, <1>8, RingFacts
<1>10. \A x \in Slaves : Pending(x)' <=> Pending(x) \/ x = o
  BY <1>1, <1>2, <1>3, <1>8 DEF Pending, SlavesOK
<1>11. ~sent[o] /\ ~Pending(o) /\ result[o] = NoResult /\ state[o] \in {"read", "pass"}
  BY <1>1, <1>8 DEF Requests, Pending, SlavesOK, States
<1>12. Requests'
  <2>1. \A x \in Slaves : pipe'[x] # <<>> => state'[x] \in {"read", "pass"}
    BY <1>1, <1>3, <1>8, <1>11 DEF Requests, SlavesOK
  <2>2. \A x \in Slaves : sent'[x] <=> sent[x] \/ x = o
    BY <1>1, <1>3, <1>8 DEF MasterOK
  <2>3. \A x \in Slaves : Pending(x)' \/ state'[x] = "tell" => sent'[x] /\ result'[x] = NoResult
    BY <1>1, <1>3, <1>10, <1>11, <2>2 DEF Requests
  <2>4. \A x \in Slaves : result'[x] # NoResult => sent'[x]
    BY <1>1, <1>3, <2>2 DEF Requests
  <2>5. \A x \in Slaves : state'[x] # "exit" /\ ~closed'[x]
    BY <1>1, <1>3 DEF Requests
  <2>6. \A x \in Slaves : sent'[x] /\ x # Before(p) => sent'[After(x)]
    <3> SUFFICES ASSUME NEW x \in Slaves, sent'[x], x # o PROVE sent'[After(x)]
      BY <1>9
    <3>1. CASE x = Before(o)  BY <2>2, <3>1, RingFacts
    <3>2. CASE x # Before(o)
      <4>1. sent[x]  BY <2>2
      <4>2. sent[After(x)]  BY <1>1, <1>8, <3>2, <4>1 DEF Requests
      <4> QED BY <2>2, <4>2, RingFacts
    <3> QED BY <3>1, <3>2
  <2>7. sent'[Before(p)]  BY <1>9, <2>2
  <2> QED BY <1>3, <1>9, <2>1, <2>3, <2>4, <2>5, <2>6, <2>7 DEF Requests
<1>13. Sizes'
  <2>1. \A x \in Slaves : sent'[x] => Len(block'[x]) = ntrec
    BY <1>1, <1>2, <1>3, <1>8 DEF Sizes, MasterOK
  <2>2. \A x \in Slaves : pipe'[x] # <<>> => Len(pipe'[x]) = ntrec
    BY <1>1, <1>2, <1>3, <1>8 DEF Sizes, SlavesOK
  <2> QED BY <1>1, <1>3, <2>1, <2>2 DEF Sizes, Rolling, Filling, volume
<1>14. Turns'
  <2>1. \A x \in Slaves : Pending(x) /\ x # Before(o) => Pending(After(x))
    BY <1>1, <1>8 DEF Turns
  <2>2. \A x \in Slaves : Pending(x)' /\ x # Before(p) => Pending(After(x))'
    <3> SUFFICES ASSUME NEW x \in Slaves, Pending(x)', x # o PROVE Pending(After(x))'
      BY <1>9
    <3>1. x = Before(o) => After(x) = o  BY RingFacts
    <3> QED BY <1>10, <2>1, <3>1, RingFacts
  <2>3. ASSUME NEW t \in Slaves, Writer(t)' PROVE Stretch(t)'
    <3>1. Writer(t)  BY <1>3, <2>3 DEF Writer, HasTurn
    <3>2. /\ ~Pending(t) => t = o
          /\ \A x \in Slaves : Pending(x) /\ x # t => Pending(Before(x))
          /\ Pending(Before(t)) => Pending(t) /\ t = o
          /\ Pending(Before(o)) \/ t = o
      BY <1>1, <1>8, <3>1 DEF Turns, Stretch
    <3>3. Pending(t)'  BY <1>10, <3>2
    <3>4. Pending(p)' => t = p
      <4> SUFFICES ASSUME Pending(p)', t # p PROVE FALSE
        OBVIOUS
      <4>1. CASE p = o
        <5>1. t # o /\ Before(o) = o  BY <1>9, <4>1
        <5> QED BY <1>11, <3>2, <5>1
      <4>2. CASE p # o
        <5>1. Pending(p)  BY <1>10, <4>2
        <5> QED BY <1>9, <1>11, <3>2, <5>1
      <4> QED BY <4>1, <4>2
    <3>5. \A x \in Slaves : Pending(x)' /\ x # t => Pending(Before(x))'
      BY <1>10, <3>2, RingFacts
    <3>6. Pending(Before(t))' => Pending(t)' /\ t = p
      <4> SUFFICES ASSUME Pending(Before(t))' PROVE t = p
        BY <3>3
      <4>1. CASE Before(t) = o  BY <1>9, <4>1, RingFacts
      <4>2. CASE Before(t) # o
        BY <1>10, <1>11, <3>2, <4>2, RingFacts
      <4> QED BY <4>1, <4>2
    <3>7. Pending(Before(p))'  BY <1>9, <1>10
    <3>8. Stretch(t)' <=>
            /\ ~Pending(t)' => t = p
            /\ Pending(p)' => t = p
            /\ \A x \in Slaves : Pending(x)' /\ x # t => Pending(Before(x))'
            /\ Pending(Before(t))' => Pending(t)' /\ t = p
            /\ Pending(Before(p))' \/ (t = p /\ ~Pending(p)')
      BY <1>9 DEF Stretch, Pending
    <3> QED BY <3>3, <3>4, <3>5, <3>6, <3>7, <3>8
  <2>4. Turns' <=> /\ \A x \in Slaves : Pending(x)' /\ x # Before(p) => Pending(After(x))'
                   /\ \A u \in Slaves : Writer(u)' => Stretch(u)'
    BY <1>9 DEF Turns
  <2> QED BY <2>2, <2>3, <2>4
<1> QED BY <1>4, <1>5, <1>6, <1>7, <1>12, <1>13, <1>14, TypeParts DEF Control

(* A volume is mounted, and is empty.                                         *)
LEMMA NewVolume ==
  ASSUME VolumesOK, volumes' = Append(volumes, <<>>)
  PROVE  /\ VolumesOK' /\ volume' = volume + 1 /\ volume \in Nat
         /\ volumes'[volume'] = <<>> /\ \A v \in 1..volume : volumes'[v] = volumes[v]
<1>1. volumes \in Seq(Seq(Records)) /\ <<>> \in Seq(Records)
  BY DEF VolumesOK
<1> QED BY <1>1, AppendProperties DEF VolumesOK, volume

(* When new slaves have been made.                                            *)
LEMMA NewSlaves ==
  ASSUME NEW q, enslave(q), q \in [Slaves -> Seq(Records)], slp \in Slaves
  PROVE  /\ SlavesOK'
         /\ \A s \in Slaves : /\ state'[s] = "read" /\ pipe'[s] = q[s] /\ result'[s] = NoResult
                              /\ ~closed'[s]
                              /\ HasTurn(s)' <=> s = slp
                              /\ Pending(s)' <=> q[s] # <<>>
                              /\ Writer(s)' <=> s = slp
<1>1. /\ state' = [s \in Slaves |-> "read"] /\ pipe' = q
      /\ buf' = [s \in Slaves |-> <<>>] /\ size' = [s \in Slaves |-> 0]
      /\ result' = [s \in Slaves |-> NoResult] /\ closed' = [s \in Slaves |-> FALSE]
      /\ caught' = [s \in Slaves |-> s = slp] /\ signalled' = [s \in Slaves |-> FALSE]
  BY DEF enslave
<1>2. SlavesOK'
  <2>1. size' \in [Slaves -> 0..ntrec]  BY <1>1, TapeAssumption
  <2>2. buf' \in [Slaves -> Seq(Records)]  BY <1>1
  <2> QED BY <1>1, <2>1, <2>2 DEF SlavesOK, States
<1>3. \A s \in Slaves : HasTurn(s)' <=> s = slp
  BY <1>1 DEF HasTurn
<1>4. \A s \in Slaves : Pending(s)' <=> q[s] # <<>>
  BY <1>1 DEF Pending
<1>5. \A s \in Slaves : Writer(s)' <=> s = slp
  BY <1>1, <1>3 DEF Writer
<1> QED BY <1>1, <1>2, <1>3, <1>4, <1>5

(* New slaves after a volume that was long enough.                            *)
LEMMA StartnewtapeControl == ASSUME Reached, startnewtape PROVE TypeOK' /\ Ending' /\ Control'
<1>1. /\ pc = "rewind" /\ goal = "new"
      /\ volumes' = Append(volumes, <<>>) /\ blocks' = 0 /\ enslave(Idle)
      /\ block' = [block EXCEPT ![slp] = <<VolumeHeader>>]
      /\ head' = [head EXCEPT ![slp] = VolumeHeader]
      /\ sent' = [s \in Slaves |-> FALSE] /\ pc' = "dump"
      /\ UNCHANGED <<kind, room, limit, goal, next, slp, firstrec, dated, rolled, stale>>
  BY DEF startnewtape, Rewound, given, history
<1>2. /\ TypeOK /\ Ending /\ MasterOK /\ VolumesOK /\ SlavesOK
      /\ Requests /\ Sizes /\ Turns /\ slp \in Slaves
  BY <1>1, TypeParts DEF Reached, Control, MasterOK
<1>3. VolumeHeader \in Records
  BY <1>2, RecordsOK DEF VolumeHeader, MasterOK
<1>4. <<VolumeHeader>> \in Seq(Records) /\ Len(<<VolumeHeader>>) = 1
  BY <1>3
<1>5. MasterOK'  BY <1>1, <1>2, <1>3, <1>4 DEF MasterOK, Places
<1>6. /\ SlavesOK'
      /\ \A s \in Slaves : /\ state'[s] = "read" /\ pipe'[s] = <<>> /\ result'[s] = NoResult
                           /\ ~closed'[s] /\ ~Pending(s)'
                           /\ HasTurn(s)' <=> s = slp
                           /\ Writer(s)' <=> s = slp
  <2>1. \A s \in Slaves : Idle[s] = <<>>  BY DEF Idle
  <2> QED BY <1>1, <1>2, <2>1, NoBlock, NewSlaves
<1>7. /\ VolumesOK' /\ volume' = volume + 1 /\ volume \in Nat /\ volumes'[volume'] = <<>>
  BY <1>1, <1>2, NewVolume
<1>8. Ending'
  BY <1>1, <1>2, <1>7 DEF Ending, MasterOK
<1>9. Requests'
  <2>1. \A s \in Slaves : ~sent'[s]  BY <1>1
  <2> QED BY <1>1, <1>2, <1>6, <2>1, RingFacts DEF Requests
<1>10. Sizes'
  <2>1. Len(block'[slp]) < ntrec  BY <1>1, <1>2, <1>4, TapeAssumption DEF MasterOK
  <2>2. volume' <= Len(room') => room'[volume'] \in Nat
    BY <1>1, <1>2, <1>7, TapeAssumption DEF MasterOK
  <2>3. volume' <= Len(room') => Len(volumes'[volume']) <= room'[volume']
    BY <1>7, <2>2
  <2>4. \A s \in Slaves : ~sent'[s]  BY <1>1
  <2> QED BY <1>1, <1>6, <2>1, <2>3, <2>4 DEF Sizes, Rolling, Filling
<1>11. Turns'
  <2>1. PICK p \in Slaves : p = slp /\ p = slp'  BY <1>1, <1>2
  <2>2. Stretch(p)'  BY <1>6, <2>1, RingFacts DEF Stretch
  <2> QED BY <1>6, <2>1, <2>2 DEF Turns
<1> QED BY <1>5, <1>6, <1>7, <1>8, <1>9, <1>10, <1>11, TypeParts DEF Control

(* New slaves that write again the blocks of the volume before: each block,   *)
(* moved on by one record, is as long as it was.                              *)
LEMMA RollforwardControl == ASSUME Reached, rollforward PROVE TypeOK' /\ Ending' /\ Control'
<1> DEFINE q == [s \in Slaves |-> Shifted(s)]
<1>1. /\ pc = "rewind" /\ goal = "roll"
      /\ volumes' = Append(volumes, <<>>) /\ blocks' = 0 /\ enslave(q)
      /\ sent' = [s \in Slaves |-> TRUE]
      /\ block' = [block EXCEPT ![slp] = <<LeftOver>>]
      /\ rolled' = IF rolled = 0 THEN volume + 1 ELSE rolled
      /\ stale' = (stale \/ LeftOver # Last)
      /\ pc' = "first"
      /\ UNCHANGED <<kind, room, limit, goal, next, slp, head, firstrec, dated>>
  BY DEF rollforward, Rewound, given, volume
<1>2. /\ TypeOK /\ Ending /\ MasterOK /\ VolumesOK /\ SlavesOK
      /\ Requests /\ Sizes /\ Turns /\ slp \in Slaves
  BY <1>1, TypeParts DEF Reached, Control, MasterOK
<1>3. ntrec \in Nat /\ ntrec >= 2  BY TapeAssumption
<1>4. \A s \in Slaves : /\ block[s] \in Seq(Records) /\ Len(block[s]) = ntrec
                        /\ block[s][ntrec] \in Records
  <2>1. \A s \in Slaves : block[s] \in Seq(Records) /\ Len(block[s]) = ntrec
    BY <1>1, <1>2 DEF Sizes, Rolling, MasterOK
  <2> QED BY <1>3, <2>1
<1>5. VolumeHeader \in Records
  BY <1>2, RecordsOK DEF VolumeHeader, MasterOK
<1>6. LeftOver \in Records
  BY <1>2, <1>4, RingFacts DEF LeftOver, Last, MasterOK
<1>7. \A s \in Slaves : Shifted(s) \in Seq(Records) /\ Len(Shifted(s)) = ntrec /\ Shifted(s) # <<>>
  <2> SUFFICES ASSUME NEW s \in Slaves
               PROVE  Shifted(s) \in Seq(Records) /\ Len(Shifted(s)) = ntrec /\ Shifted(s) # <<>>
    OBVIOUS
  <2> DEFINE x == IF s = slp THEN VolumeHeader ELSE block[Before(s)][ntrec]
             rest == SubSeq(block[s], 1, ntrec - 1)
  <2>1. x \in Records  BY <1>4, <1>5, RingFacts
  <2>2. rest \in Seq(Records) /\ Len(rest) = ntrec - 1
    BY <1>3, <1>4
  <2>3. Shifted(s) = <<x>> \o rest  BY DEF Shifted
  <2> HIDE DEF x, rest
  <2>4. <<x>> \in Seq(Records) /\ Len(<<x>>) = 1  BY <2>1
  <2>5. <<x>> \o rest \in Seq(Records) /\ Len(<<x>> \o rest) = 1 + (ntrec - 1)
    BY <2>2, <2>4, ConcatProperties
  <2> QED BY <1>3, <2>3, <2>5
<1>8. q \in [Slaves -> Seq(Records)] /\ \A s \in Slaves : q[s] # <<>> /\ Len(q[s]) = ntrec
  BY <1>7
<1>9. /\ SlavesOK'
      /\ \A s \in Slaves : /\ state'[s] = "read" /\ pipe'[s] = q[s] /\ result'[s] = NoResult
                           /\ ~closed'[s] /\ Pending(s)'
                           /\ HasTurn(s)' <=> s = slp
                           /\ Writer(s)' <=> s = slp
  <2> HIDE DEF q
  <2> QED BY <1>1, <1>2, <1>8, NewSlaves
<1> HIDE DEF q
<1>10. <<LeftOver>> \in Seq(Records) /\ Len(<<LeftOver>>) = 1
  BY <1>6
<1>11. /\ VolumesOK' /\ volume' = volume + 1 /\ volume \in Nat /\ volumes'[volume'] = <<>>
  BY <1>1, <1>2, NewVolume
<1>12. MasterOK'
  <2>1. rolled' \in Nat /\ stale' \in BOOLEAN  BY <1>1, <1>2, <1>11 DEF MasterOK
  <2> QED BY <1>1, <1>2, <1>10, <2>1 DEF MasterOK, Places
<1>13. Ending'
  BY <1>1, <1>2, <1>11 DEF Ending, MasterOK
<1>14. Requests'
  <2>1. \A s \in Slaves : sent'[s]  BY <1>1
  <2> QED BY <1>1, <1>2, <1>9, <2>1, RingFacts DEF Requests
<1>15. Sizes'
  <2>1. Len(block'[slp]) < ntrec  BY <1>1, <1>2, <1>3, <1>10 DEF MasterOK
  <2>2. \A s \in Slaves : s # slp => Len(block'[s]) = ntrec
    BY <1>1, <1>2, <1>4 DEF MasterOK
  <2>3. volume' <= Len(room') => room'[volume'] \in Nat
    BY <1>1, <1>2, <1>11, TapeAssumption DEF MasterOK
  <2>4. volume' <= Len(room') => Len(volumes'[volume']) <= room'[volume']
    BY <1>11, <2>3
  <2> QED BY <1>1, <1>8, <1>9, <2>1, <2>2, <2>4 DEF Sizes, Rolling, Filling
<1>16. Turns'
  <2>1. PICK p \in Slaves : p = slp /\ p = slp'  BY <1>1, <1>2
  <2>2. Stretch(p)'  BY <1>9, <2>1, RingFacts DEF Stretch
  <2> QED BY <1>9, <2>1, <2>2, RingFacts DEF Turns
<1> QED BY <1>9, <1>11, <1>12, <1>13, <1>14, <1>15, <1>16, TypeParts DEF Control

(* Every step of the ring keeps it.                                           *)
LEMMA NextControl == Reached /\ [Next]_vars => Reached'
<1> SUFFICES ASSUME Reached, [Next]_vars PROVE Reached'
  OBVIOUS
<1>1. Inv'  BY NextInv DEF Reached
<1>2. SUFFICES TypeOK' /\ Ending' /\ Control'
  BY <1>1 DEF Reached
<1>3. CASE Master
  <2>1. CASE Dump
    BY <2>1, DumpPartControl, DumpFullControl
  <2>2. CASE Refuse
    <3>1. MasterOK /\ SlavesOK  BY TypeParts DEF Reached
    <3> QED BY <2>2, <3>1, TakeOK, QuitControl, SlaveZero DEF Refuse
  <2> QED BY <1>3, <2>1, <2>2, FinishControl, NextBlockControl, EndOfTapeControl, DrainControl,
             DrainedControl, TrewindControl, DoneControl, FirstControl,
             StartnewtapeControl, RollforwardControl DEF Master
<1>4. ASSUME NEW s \in Slaves, Slave(s) PROVE TypeOK' /\ Ending' /\ Control'
  BY <1>4, ReadControl, LockControl, PauseControl, WriteControl, TellControl, PassControl,
     ExitControl DEF Slave
<1>5. ASSUME NEW s \in Slaves, proceed(s) PROVE TypeOK' /\ Ending' /\ Control'
  BY <1>5, ProceedControl
<1>6. CASE UNCHANGED vars
  <2>1. TypeOK /\ Ending /\ Control  BY DEF Reached
  <2>2. /\ UNCHANGED <<kind, room, limit, pc, goal, next, slp, block, head, firstrec, blocks>>
        /\ UNCHANGED <<sent, dated, rolled, stale, volumes>>
        /\ UNCHANGED <<state, pipe, buf, size, result, closed, caught, signalled>>
    BY <1>6 DEF vars, given, buffers, history, slaves
  <2>3. TypeOK'  BY Zenon, <2>1, <2>2 DEF TypeOK
  <2>4. Ending'  BY <2>1, <2>2 DEF Ending, volume, Ends
  <2>5. Control'
    <3> SUFFICES ASSUME pc # "quit" PROVE Requests' /\ Sizes' /\ Turns'
      BY <2>2 DEF Control
    <3>1. Requests /\ Sizes /\ Turns /\ slp \in Slaves  BY <2>1 DEF Control, TypeOK
    <3>2. Requests'  BY <2>2, <3>1 DEF Requests, Pending
    <3>3. Sizes'  BY <2>2, <3>1 DEF Sizes, Rolling, Filling, volume
    <3> QED BY <2>2, <3>1, <3>2, <3>3, TurnsSame
  <2> QED BY <2>3, <2>4, <2>5
<1> QED BY <1>3, <1>4, <1>5, <1>6 DEF Next

(* TypeOK, and with it that no request or buffer is ever longer than a block. *)
THEOREM TypeCorrect == Spec => []TypeOK
<1>1. Init => Reached  BY InitControl, InitInv DEF Reached
<1>2. Reached => TypeOK  BY DEF Reached
<1> QED BY <1>1, <1>2, NextControl, PTL DEF Spec

------------------------------------------------------------------------------
(* RestoresInOrder *)

(* The tapes, when f[v] is the position of the header of volume v: records    *)
(* and headers are numbered from 0 in the order the first is written in; a    *)
(* volume that repeats records begins at the position of the first it repeats.*)
Came(f, v) == IF v = 1 THEN 0 ELSE f[v - 1] + Len(volumes[v - 1])
Follows(f, v) ==
  /\ volumes[v - 1] # <<>>
  /\ v # rolled => f[v] = Came(f, v)
  /\ v = rolled => 0 < f[v] /\ f[v] <= Came(f, v)
Written(f) == f[volume] + Len(volumes[volume])
Tapes(f) ==
  /\ f \in [1..volume -> Nat] /\ f[1] = 0
  /\ \A v \in 2..volume : Follows(f, v)
  /\ \A v \in 1..volume : \A j \in 1..Len(volumes[v]) :
       /\ j = 1 => volumes[v][j] = Header(f[v])
       /\ f[v] + j - 1 > Came(f, v) => volumes[v][j] = Record(f[v] + j - v)

(* The recursion of ReadBack, and that there is the function it defines.      *)
ReadTo(u, v) ==
  IF v = 0 THEN [read |-> 0, out |-> <<>>]
  ELSE IF volumes[v] = <<>> THEN u[v - 1]
  ELSE [read |-> u[v - 1].read + Len(volumes[v]),
        out  |-> u[v - 1].out \o SubSeq(volumes[v], 2 + Skips(volumes[v][1][2], u[v - 1].read),
                                        Len(volumes[v]))]
Upto(k) == CHOOSE u : u = [v \in 0..k |-> ReadTo(u, v)]

LEMMA ReadBackIs == ReadBack = Upto(volume)[volume].out
BY DEF ReadBack, Upto, ReadTo

(* The recursion has a solution, by induction over the volumes: the value of  *)
(* ReadBack is not an arbitrary one.                                          *)
LEMMA UptoIs ==
  ASSUME NEW k \in Nat
  PROVE  Upto(k) = [v \in 0..k |-> ReadTo(Upto(k), v)]
<1> DEFINE Exists(m) == \E u : u = [v \in 0..m |-> ReadTo(u, v)]
           T == {m \in Nat : Exists(m)}
<1>1. 0 \in T
  <2> DEFINE u == [v \in 0..0 |-> [read |-> 0, out |-> <<>>]]
  <2>1. u = [v \in 0..0 |-> ReadTo(u, v)]
    BY DEF ReadTo
  <2> HIDE DEF u
  <2> QED BY <2>1
<1>2. ASSUME NEW m \in Nat, m \in T PROVE m + 1 \in T
  <2>1. PICK u : u = [v \in 0..m |-> ReadTo(u, v)]
    BY <1>2
  <2> DEFINE w == [v \in 0..(m + 1) |-> IF v = m + 1 THEN ReadTo(u, v) ELSE u[v]]
  <2>2. \A v \in 0..m : w[v] = u[v] /\ u[v] = ReadTo(u, v)
    BY <2>1
  <2>3. w[m + 1] = ReadTo(u, m + 1)
    OBVIOUS
  <2> HIDE DEF w
  <2>4. \A v \in 0..(m + 1) : ReadTo(w, v) = ReadTo(u, v)
    <3> SUFFICES ASSUME NEW v \in 0..(m + 1) PROVE ReadTo(w, v) = ReadTo(u, v)
      OBVIOUS
    <3>1. v # 0 => w[v - 1] = u[v - 1]
      <4> SUFFICES ASSUME v # 0 PROVE w[v - 1] = u[v - 1]
        OBVIOUS
      <4>1. v - 1 \in 0..m  OBVIOUS
      <4> QED BY <2>2, <4>1
    <3> QED BY <3>1 DEF ReadTo
  <2>5. \A v \in 0..(m + 1) : w[v] = ReadTo(w, v)
    <3> SUFFICES ASSUME NEW v \in 0..(m + 1) PROVE w[v] = ReadTo(w, v)
      OBVIOUS
    <3>1. w[v] = ReadTo(u, v)
      BY <2>2, <2>3
    <3> QED BY <2>4, <3>1
  <2>6. w = [v \in 0..(m + 1) |-> w[v]]
    BY DEF w
  <2>7. w = [v \in 0..(m + 1) |-> ReadTo(w, v)]
    BY <2>5, <2>6
  <2> QED BY <2>7
<1> HIDE DEF T
<1>3. k \in T  BY <1>1, <1>2, Induction
<1>4. Exists(k)  BY <1>3 DEF T
<1> QED BY <1>4 DEF Upto

(* One volume, read back after c records and headers of the v - 1 volumes     *)
(* before it: it begins at position g.                                        *)
Readable(tape, out, c, g, v) ==
  /\ tape \in Seq(Records) /\ out \in Seq(Records) /\ tape # <<>>
  /\ c \in Nat /\ g \in Nat /\ v \in Nat \ {0}
  /\ g <= c /\ (g < c => 0 < g)
  /\ Len(out) = c - (v - 1) /\ \A i \in 1..Len(out) : out[i] = Record(i)
  /\ \A j \in 1..Len(tape) : g + j - 1 > c => tape[j] = Record(g + j - v)
Readout(tape, out, c, g, v, o) ==
  /\ o \in Seq(Records) /\ \A i \in 1..Len(o) : o[i] = Record(i)
  /\ Len(o) = IF g + Len(tape) > c THEN g + Len(tape) - v ELSE c - (v - 1)

(* A volume that goes on where the ones before it end, or repeats some of     *)
(* their records, adds its new records and nothing else.                      *)
LEMMA ReadStep ==
  ASSUME NEW tape, NEW out, NEW c, NEW g, NEW v, Readable(tape, out, c, g, v)
  PROVE  Readout(tape, out, c, g, v, out \o SubSeq(tape, 2 + Skips(g, c), Len(tape)))
<1> USE DEF Readable
<1>1. Skips(g, c) = c - g
  BY DEF Skips
<1> DEFINE n == Len(tape)
           m == 2 + (c - g)
           rest == SubSeq(tape, m, n)
           o == out \o rest
<1>2. n \in Nat /\ n >= 1 /\ m \in Nat /\ m >= 2 /\ \A i \in 1..n : tape[i] \in Records
  OBVIOUS
<1>3. /\ rest \in Seq(Records)
      /\ Len(rest) = IF m <= n THEN n - m + 1 ELSE 0
      /\ \A i \in 1..(n - m + 1) : rest[i] = tape[m + i - 1]
  <2>1. \A i \in m..n : tape[i] \in Records  BY <1>2
  <2> HIDE DEF n, m
  <2> QED BY <1>2, <2>1, SubSeqProperties
<1>4. /\ o \in Seq(Records) /\ Len(o) = Len(out) + Len(rest)
      /\ \A i \in 1..(Len(out) + Len(rest)) :
           o[i] = IF i <= Len(out) THEN out[i] ELSE rest[i - Len(out)]
  <2> HIDE DEF rest
  <2> QED BY <1>3, ConcatProperties
<1> HIDE DEF o, rest
<1>5. Len(o) = IF g + n > c THEN g + n - v ELSE c - (v - 1)
  <2> HIDE DEF n
  <2> QED BY <1>2, <1>3, <1>4
<1>6. ASSUME NEW i \in 1..Len(o) PROVE o[i] = Record(i)
  <2>0. i \in 1..(Len(out) + Len(rest)) /\ Len(out) \in Nat /\ Len(rest) \in Nat
    <3>1. Len(out) \in Nat  OBVIOUS
    <3>2. Len(rest) \in Nat  BY <1>3
    <3>3. Len(o) = Len(out) + Len(rest)  BY <1>4
    <3> QED BY <3>1, <3>2, <3>3
  <2>1. CASE i <= Len(out)
    <3>1. o[i] = out[i] /\ i \in 1..Len(out)  BY <1>4, <2>0, <2>1
    <3> QED BY <3>1
  <2>2. CASE i > Len(out)
    <3> DEFINE k == i - Len(out)
               j == m + k - 1
    <3>1. k \in 1..Len(rest) /\ m <= n /\ o[i] = rest[k]
      <4>1. k \in 1..Len(rest)  BY <2>0, <2>2
      <4>2. o[i] = rest[k]  BY <1>4, <2>0, <2>2
      <4>3. m <= n
        <5> HIDE DEF m, n, k
        <5> QED BY <1>2, <1>3, <2>0, <4>1
      <4> QED BY <4>1, <4>2, <4>3
    <3>2. rest[k] = tape[j] /\ j \in 1..n
      <4> HIDE DEF n
      <4> QED BY <1>2, <1>3, <3>1
    <3>3. g + j - 1 > c /\ g + j - v = i
      <4>1. i \in Nat  BY <1>4
      <4> QED BY <2>2, <4>1
    <3> HIDE DEF j
    <3>4. tape[j] = Record(g + j - v)
      BY <3>2, <3>3
    <3> QED BY <3>1, <3>2, <3>3, <3>4
  <2>3. i \in Nat /\ Len(out) \in Nat  BY <1>4
  <2> QED BY <2>1, <2>2, <2>3
<1> QED BY <1>1, <1>4, <1>5, <1>6 DEF o, rest, Readout

(* The records of the volumes before volume v, all of them and in order.      *)
Whole(f, u, v) ==
  /\ u.read = Came(f, v) /\ u.out \in Seq(Records)
  /\ Len(u.out) = Came(f, v) - (v - 1)
  /\ \A i \in 1..Len(u.out) : u.out[i] = Record(i)

(* Positions are numbers.                                                     *)
LEMMA CameOK ==
  ASSUME NEW f, Tapes(f), VolumesOK, volume \in Nat
  PROVE  /\ \A v \in 1..(volume + 1) : Came(f, v) \in Nat
         /\ \A v \in 1..volume : /\ volumes[v] \in Seq(Records) /\ Len(volumes[v]) \in Nat
                                 /\ f[v] \in Nat
         /\ \A v \in 1..volume : Came(f, v + 1) = f[v] + Len(volumes[v])
<1>1. \A v \in 1..volume : volumes[v] \in Seq(Records) /\ Len(volumes[v]) \in Nat /\ f[v] \in Nat
  <2>1. volumes \in Seq(Seq(Records)) /\ f \in [1..Len(volumes) -> Nat]
    BY DEF VolumesOK, Tapes, volume
  <2>2. \A v \in 1..Len(volumes) : volumes[v] \in Seq(Records) /\ f[v] \in Nat
    <3>1. \A v \in 1..Len(volumes) : volumes[v] \in Seq(Records)
      BY <2>1, ElementOfSeq
    <3> QED BY <2>1, <3>1
  <2>3. \A v \in 1..Len(volumes) : Len(volumes[v]) \in Nat
    BY <2>2
  <2> QED BY <2>2, <2>3 DEF volume
<1>2. \A v \in 1..volume : Came(f, v + 1) = f[v] + Len(volumes[v])
  BY <1>1 DEF Came
<1>3. \A v \in 1..(volume + 1) : Came(f, v) \in Nat
  <2> SUFFICES ASSUME NEW v \in 1..(volume + 1) PROVE Came(f, v) \in Nat
    OBVIOUS
  <2>1. CASE v = 1  BY <2>1 DEF Came
  <2>2. CASE v # 1
    <3>1. v - 1 \in 1..volume  BY <2>2
    <3> QED BY <1>1, <2>2, <3>1 DEF Came
  <2> QED BY <2>1, <2>2
<1> QED BY <1>1, <1>2, <1>3

(* Volume v read after the volumes before it.                                 *)
LEMMA ReadVolume ==
  ASSUME NEW f, Tapes(f), VolumesOK, volume \in Nat, volumes # <<>>,
         NEW u, NEW v \in 1..volume, Whole(f, u[v - 1], v),
         volumes[v] # <<>>
  PROVE  LET o == ReadTo(u, v).out
         IN /\ o \in Seq(Records) /\ \A i \in 1..Len(o) : o[i] = Record(i)
            /\ Len(o) = IF f[v] + Len(volumes[v]) > Came(f, v)
                          THEN f[v] + Len(volumes[v]) - v ELSE Came(f, v) - (v - 1)
            /\ ReadTo(u, v).read = Came(f, v) + Len(volumes[v])
<1> DEFINE tape == volumes[v]
           out == u[v - 1].out
           c == Came(f, v)
           g == f[v]
           o == out \o SubSeq(tape, 2 + Skips(g, c), Len(tape))
<1>1. /\ tape \in Seq(Records) /\ tape # <<>> /\ out \in Seq(Records) /\ c \in Nat /\ g \in Nat
      /\ Len(out) = c - (v - 1) /\ \A i \in 1..Len(out) : out[i] = Record(i)
      /\ u[v - 1].read = c
  <2>1. tape \in Seq(Records) /\ c \in Nat /\ g \in Nat  BY CameOK
  <2>2. Whole(f, u[v - 1], v)  OBVIOUS
  <2> HIDE DEF tape, c, g
  <2> QED BY <2>1, <2>2 DEF Whole, tape, c
<1>2. g <= c /\ (g < c => 0 < g)
  <2>1. CASE v = 1  BY <2>1 DEF Tapes, Came
  <2>2. CASE v # 1
    <3>1. Follows(f, v)  BY <2>2 DEF Tapes
    <3> QED BY <1>1, <3>1 DEF Follows
  <2> QED BY <2>1, <2>2
<1>3. tape[1] = Header(g) /\ \A j \in 1..Len(tape) : g + j - 1 > c => tape[j] = Record(g + j - v)
  <2>1. 1 \in 1..Len(tape)  BY <1>1
  <2> QED BY <2>1 DEF Tapes
<1>4. tape[1][2] = g
  BY <1>3 DEF Header
<1>5. ReadTo(u, v) = [read |-> c + Len(tape), out |-> o]
  BY <1>1, <1>4 DEF ReadTo
<1>6. Readout(tape, out, c, g, v, o)
  <2>1. v \in Nat \ {0}  OBVIOUS
  <2> HIDE DEF tape, out, c, g
  <2>2. Readable(tape, out, c, g, v)
    BY <1>1, <1>2, <1>3, <2>1 DEF Readable
  <2> QED BY <2>2, ReadStep, Zenon
<1> HIDE DEF o
<1>7. ReadTo(u, v).out = o /\ ReadTo(u, v).read = c + Len(tape)
  BY <1>5
<1> QED BY <1>6, <1>7 DEF Readout

(* All volumes but the last, by induction.                                    *)
LEMMA ReadBefore ==
  ASSUME NEW f, Tapes(f), Lucky, VolumesOK, volume \in Nat \ {0}
  PROVE  \A v \in 1..volume : Whole(f, Upto(volume)[v - 1], v)
<1> DEFINE u == Upto(volume)
           T == {k \in Nat : k < volume => Whole(f, u[k], k + 1)}
<1>1. \A v \in 0..volume : u[v] = ReadTo(u, v)
  <2>1. u = [v \in 0..volume |-> ReadTo(u, v)]
    BY UptoIs
  <2> HIDE DEF u
  <2> QED BY <2>1
<1> HIDE DEF u
<1>2. 0 \in T
  <2>1. u[0] = ReadTo(u, 0)  BY <1>1
  <2>2. u[0].read = 0 /\ u[0].out = <<>>  BY <2>1 DEF ReadTo
  <2>3. Came(f, 1) = 0  BY DEF Came
  <2>4. Whole(f, u[0], 1)  BY <2>2, <2>3 DEF Whole
  <2> QED BY <2>4
<1>3. ASSUME NEW k \in Nat, k \in T PROVE k + 1 \in T
  <2> SUFFICES ASSUME k + 1 < volume PROVE Whole(f, u[k + 1], k + 2)
    OBVIOUS
  <2> DEFINE v == k + 1
             o == ReadTo(u, v).out
  <2>1. v \in 1..volume /\ v + 1 \in 2..volume /\ v - 1 = k /\ v # rolled /\ v \in Nat
    BY DEF Lucky
  <2>2. Whole(f, u[v - 1], v)  BY <1>3, <2>1
  <2>3. volumes[v] # <<>>
    <3>1. Follows(f, v + 1)  BY <2>1 DEF Tapes
    <3> QED BY <2>1, <3>1 DEF Follows
  <2>4. f[v] = Came(f, v)
    <3>1. CASE v = 1  BY <3>1 DEF Tapes, Came
    <3>2. CASE v # 1
      <4>1. Follows(f, v)  BY <2>1, <3>2 DEF Tapes
      <4> QED BY <2>1, <4>1 DEF Follows
    <3> QED BY <3>1, <3>2
  <2>5. volumes[v] \in Seq(Records) /\ f[v] \in Nat /\ Came(f, v + 1) = f[v] + Len(volumes[v])
    BY <2>1, CameOK
  <2>6. volumes # <<>>  BY DEF volume
  <2> HIDE DEF v
  <2>7. /\ o \in Seq(Records) /\ \A i \in 1..Len(o) : o[i] = Record(i)
        /\ Len(o) = IF f[v] + Len(volumes[v]) > Came(f, v)
                      THEN f[v] + Len(volumes[v]) - v ELSE Came(f, v) - (v - 1)
        /\ ReadTo(u, v).read = Came(f, v) + Len(volumes[v])
    BY <2>1, <2>2, <2>3, <2>6, ReadVolume
  <2>8. Len(volumes[v]) > 0 /\ Len(volumes[v]) \in Nat  BY <2>3, <2>5
  <2>9. u[v] = ReadTo(u, v)  BY <1>1, <2>1
  <2> HIDE DEF o
  <2>10. Len(o) = Came(f, v + 1) - v /\ ReadTo(u, v).read = Came(f, v + 1)
    <3> DEFINE len == Len(volumes[v])
               c == Came(f, v)
    <3>1. Len(o) = IF f[v] + len > c THEN f[v] + len - v ELSE c - (v - 1)
      BY <2>7
    <3>2. ReadTo(u, v).read = c + len /\ f[v] = c /\ Came(f, v + 1) = f[v] + len
      BY <2>4, <2>5, <2>7
    <3>3. len \in Nat /\ len > 0 /\ f[v] \in Nat  BY <2>5, <2>8
    <3> HIDE DEF len, c
    <3> QED BY <2>1, <3>1, <3>2, <3>3
  <2>11. Whole(f, u[v], v + 1)
    BY <2>1, <2>7, <2>9, <2>10 DEF Whole, o
  <2> QED BY <2>1, <2>11 DEF v
<1>4. \A k \in Nat : k \in T
  <2> HIDE DEF T
  <2> QED BY <1>2, <1>3, Induction
<1> SUFFICES ASSUME NEW v \in 1..volume PROVE Whole(f, u[v - 1], v)
  BY DEF u
<1>5. v - 1 \in Nat /\ v - 1 < volume /\ (v - 1) + 1 = v
  OBVIOUS
<1> QED BY <1>4, <1>5

(* Tapes are read back in order, up to the last record written.               *)
LEMMA Restored ==
  ASSUME NEW f, Tapes(f), Lucky, VolumesOK, volume \in Nat \ {0}
  PROVE  Ordered /\ Len(ReadBack) \in Nat /\ Len(ReadBack) >= Written(f) - volume
<1> DEFINE u == Upto(volume)
           o == ReadBack
<1>1. u[volume] = ReadTo(u, volume)
  <2>1. u = [v \in 0..volume |-> ReadTo(u, v)]
    BY UptoIs
  <2> HIDE DEF u
  <2> QED BY <2>1
<1>2. o = u[volume].out  BY ReadBackIs
<1>3. Whole(f, u[volume - 1], volume)
  BY ReadBefore
<1>4. /\ f[volume] \in Nat /\ volumes[volume] \in Seq(Records) /\ Came(f, volume) \in Nat
      /\ Len(volumes[volume]) \in Nat
  BY CameOK
<1>5. f[volume] <= Came(f, volume)
  <2>1. CASE volume = 1  BY <2>1 DEF Tapes, Came
  <2>2. CASE volume # 1
    <3>1. Follows(f, volume)  BY <2>2 DEF Tapes
    <3> QED BY <1>4, <3>1 DEF Follows
  <2> QED BY <2>1, <2>2
<1> HIDE DEF u, o
<1>6. CASE volumes[volume] = <<>>
  <2>1. u[volume] = u[volume - 1]
    BY <1>1, <1>6 DEF ReadTo
  <2>2. /\ o \in Seq(Records) /\ Len(o) = Came(f, volume) - (volume - 1)
        /\ \A i \in 1..Len(o) : o[i] = Record(i)
    BY <1>2, <1>3, <2>1 DEF Whole
  <2>3. Len(volumes[volume]) = 0  BY <1>6
  <2>4. Len(o) \in Nat /\ DOMAIN o = 1..Len(o)  BY <2>2
  <2>5. Len(o) >= Written(f) - volume
    BY <1>4, <1>5, <2>2, <2>3, <2>4 DEF Written
  <2> QED BY <2>2, <2>4, <2>5 DEF Ordered, o
<1>7. CASE volumes[volume] # <<>>
  <2>1. volumes # <<>>  BY DEF volume
  <2>2. volume \in 1..volume  OBVIOUS
  <2>3. /\ o \in Seq(Records) /\ \A i \in 1..Len(o) : o[i] = Record(i)
        /\ Len(o) = IF f[volume] + Len(volumes[volume]) > Came(f, volume)
                      THEN f[volume] + Len(volumes[volume]) - volume
                      ELSE Came(f, volume) - (volume - 1)
    BY <1>1, <1>2, <1>3, <1>7, <2>1, <2>2, ReadVolume
  <2>4. Len(o) \in Nat /\ DOMAIN o = 1..Len(o)  BY <2>3
  <2>5. Len(o) >= Written(f) - volume
    BY <1>4, <1>5, <2>3, <2>4 DEF Written
  <2> QED BY <2>3, <2>4, <2>5 DEF Ordered, o
<1> QED BY <1>6, <1>7

(* Positions count the records and headers in the order in which they were    *)
(* first meant to be written.  f[v] is that of the header of volume v, e[s]   *)
(* the end of the block that slave s has been sent; a roll forward moves the  *)
(* records that are written again on by the header that comes first.          *)
Partial == IF Filling THEN Len(block[slp]) ELSE 0
At == next - 1 + volume
Begin == At - Partial
Start(f) == f[volume]
Prev(f) == Came(f, volume)

(* What belongs at position q of volume v, which begins at h and of which the *)
(* records up to c are repeated.                                              *)
Right(h, c, v, x, q) ==
  /\ q = h => x = Header(h)
  /\ q > c => x = Record(q + 1 - v)
RightBlock(h, c, v, b, n) ==
  n >= h + ntrec /\ \A i \in 1..ntrec : Right(h, c, v, b[i], n - ntrec + i - 1)

(* The block that is on its way to slave s, or with it.                       *)
Content(s) == IF pipe[s] # <<>> THEN pipe[s] ELSE buf[s]

(* A slave has not written its whole block: the tape was full.                *)
Failed(s) == /\ sent[s]
             /\ \/ result[s] \notin {NoResult, ntrec}
                \/ state[s] = "tell" /\ size[s] # ntrec
(* The mounted tape is full.                                                  *)
Shortage == volume <= Len(room) /\ Len(volumes[volume]) = room[volume]
(* A slave whose turn comes after one that failed; its block is to be written *)
(* again.                                                                     *)
Lagging(t) == Shortage /\ (Rolling \/ (Failed(Before(t)) /\ (Pending(t) => t # slp)))

(* Positions, in every state before quit: the buffer being filled and every   *)
(* block on its way have what belongs there, the blocks follow one another up *)
(* to the buffer, and the slave whose turn it is has the block that begins    *)
(* where the tape ends, unless the tape is full.                              *)
FrontOK(f) == Begin >= Start(f) /\ At > Start(f)
FillOK(f) == Filling => \A i \in 1..Len(block[slp]) :
               Right(Start(f), Prev(f), volume, block[slp][i], Begin + i - 1)
NextOK(e, s) == /\ s # Before(slp) => e[After(s)] = e[s] + ntrec
                /\ s = Before(slp) => e[s] = Begin
QueueOK(f, e) == \A s \in Slaves : Pending(s) =>
                   /\ RightBlock(Start(f), Prev(f), volume, Content(s), e[s])
                   /\ NextOK(e, s)
TurnOK(f, e) == \A t \in Slaves : Writer(t) =>
                  (IF Pending(t) THEN e[t] = Written(f) + ntrec ELSE Begin = Written(f)) \/ Lagging(t)
LostOK(f) == (\A s \in Slaves : ~HasTurn(s)) =>
               Begin = Written(f) \/ (Shortage /\ (Rolling \/ \E s \in Slaves : Failed(s)))
Positions(f, e) == FrontOK(f) /\ FillOK(f) /\ QueueOK(f, e) /\ TurnOK(f, e) /\ LostOK(f)

(* Until the first roll forward the master's buffers tell what the slaves     *)
(* have, and firstrec where their blocks begin.                               *)
Held(s) == Rolling \/ (pc \in {"dump", "result"} /\ sent[s])
HeldOK(f, e) == \A s \in Slaves : Held(s) =>
                  /\ RightBlock(Start(f), Prev(f), volume, block[s], e[s])
                  /\ firstrec[s] + ntrec = e[s]
                  /\ NextOK(e, s)
FirstOK == Filling => firstrec[slp] = Begin
FailedOK(f) == pc \in {"dump", "result"} => \A s \in Slaves : Failed(s) =>
                 /\ volumes[volume] # <<>> /\ firstrec[s] > 0
                 /\ firstrec[s] <= Written(f) \/ (s # slp /\ Failed(Before(s)))
RollOK(f) == Rolling => volumes[volume] # <<>> /\ 0 < firstrec[slp] /\ firstrec[slp] <= Written(f)
NewOK(f) == pc = "rewind" /\ goal = "new" => Begin > Start(f) /\ block[slp] = <<>>
Unrolled(f, e) == HeldOK(f, e) /\ FirstOK /\ FailedOK(f) /\ RollOK(f) /\ NewOK(f)

Data(f, e) ==
  /\ Tapes(f) /\ e \in [Slaves -> Nat]
  /\ pc # "quit" => Positions(f, e)
  /\ pc # "quit" /\ rolled = 0 => Unrolled(f, e)

(* What the control state gives the steps below.                              *)
LEMMA Basics ==
  ASSUME Reached
  PROVE  /\ TypeOK /\ MasterOK /\ VolumesOK /\ SlavesOK /\ Ending
         /\ pc # "quit" => Requests /\ Sizes /\ Turns
         /\ volume \in Nat \ {0} /\ volume \in 1..volume
         /\ volumes[volume] \in Seq(Records) /\ Len(volumes[volume]) \in Nat
         /\ slp \in Slaves /\ block[slp] \in Seq(Records) /\ Len(block[slp]) \in Nat
         /\ Partial \in Nat /\ At \in Nat /\ Begin \in Int /\ next \in Nat /\ ntrec \in Nat /\ ntrec >= 2
<1>1. TypeOK /\ MasterOK /\ VolumesOK /\ SlavesOK /\ Ending /\ (pc # "quit" => Requests /\ Sizes /\ Turns)
  BY TypeParts DEF Reached, Control
<1>2. volumes \in Seq(Seq(Records)) /\ volume \in Nat \ {0} /\ volume \in 1..Len(volumes)
  BY <1>1 DEF VolumesOK, volume, Ending
<1>3. volumes[volume] \in Seq(Records)
  BY <1>2, ElementOfSeq
<1>4. slp \in Slaves /\ block[slp] \in Seq(Records)
  BY <1>1 DEF MasterOK
<1>5. Len(block[slp]) \in Nat /\ Len(volumes[volume]) \in Nat
  BY <1>3, <1>4
<1>6. next \in Nat /\ next >= 1 /\ ntrec \in Nat /\ ntrec >= 2
  BY <1>1, TapeAssumption DEF MasterOK, Ends
<1>7. Partial \in Nat /\ At \in Nat /\ Begin \in Int
  BY <1>2, <1>5, <1>6 DEF Partial, At, Begin
<1> QED BY <1>1, <1>2, <1>3, <1>4, <1>5, <1>6, <1>7

(* Where a volume begins; only the first begins at 0, where a header that is  *)
(* written again could not be told from the first (c_firstrec 0).             *)
LEMMA Positive ==
  ASSUME Reached, NEW f, Tapes(f)
  PROVE  /\ Start(f) \in Nat /\ Prev(f) \in Nat /\ Written(f) \in Nat
         /\ Start(f) <= Prev(f)
         /\ volume # 1 => Start(f) > 0
<1>1. /\ Start(f) \in Nat /\ Prev(f) \in Nat /\ Written(f) \in Nat
  BY Basics, CameOK DEF Start, Prev, Written
<1>2. CASE volume = 1
  <2>1. Start(f) = 0 /\ Prev(f) = 0
    BY <1>2 DEF Tapes, Came, Start, Prev
  <2> QED BY <1>1, <1>2, <2>1
<1>3. CASE volume # 1
  <2>1. Follows(f, volume) /\ volume - 1 \in 1..volume  BY <1>3, Basics DEF Tapes
  <2>2. volumes[volume - 1] \in Seq(Records) /\ f[volume - 1] \in Nat
    BY <2>1, Basics, CameOK
  <2>3. Came(f, volume) > 0
    BY <1>3, <2>1, <2>2 DEF Came, Follows
  <2> QED BY <1>1, <2>1, <2>3 DEF Follows, Start, Prev
<1> QED BY <1>1, <1>2, <1>3

(* The initial states.                                                        *)
LEMMA InitData == Init => \E f, e : Data(f, e)
<1> SUFFICES ASSUME Init PROVE Data(<<0>>, [s \in Slaves |-> 0])
  OBVIOUS
<1> DEFINE f == <<0>>
           e == [s \in Slaves |-> 0]
<1>1. /\ pc = "dump" /\ slp = 0 /\ next = 1 /\ volumes = <<<<>>>> /\ rolled = 0
      /\ block[slp] = <<Header(0)>> /\ firstrec[slp] = 0 /\ slp \in Slaves
      /\ \A s \in Slaves : ~sent[s]
      /\ \A s \in Slaves : HasTurn(s) <=> s = slp
      /\ \A s \in Slaves : ~Pending(s) /\ state[s] = "read"
  BY SlaveZero DEF Init, HasTurn, Pending, Idle
<1>2. volume = 1 /\ volumes[1] = <<>> /\ Len(volumes[1]) = 0 /\ Len(block[slp]) = 1
  BY <1>1 DEF volume
<1>3. Filling /\ ~Rolling /\ Partial = 1 /\ At = 1 /\ Begin = 0
  BY <1>1, <1>2 DEF Filling, Rolling, Partial, At, Begin
<1>4. f[1] = 0 /\ f \in [1..1 -> Nat] /\ e \in [Slaves -> Nat]
  OBVIOUS
<1>5. Start(f) = 0 /\ Prev(f) = 0 /\ Written(f) = 0
  BY <1>2, <1>4 DEF Start, Prev, Came, Written
<1> HIDE DEF f, e
<1>6. Tapes(f)
  BY <1>2, <1>4 DEF Tapes
<1>7. Positions(f, e)
  <2>1. FrontOK(f)  BY <1>3, <1>5 DEF FrontOK
  <2>2. FillOK(f)  BY <1>1, <1>2, <1>3, <1>5 DEF FillOK, Right
  <2>3. QueueOK(f, e)  BY <1>1 DEF QueueOK
  <2>4. TurnOK(f, e)  BY <1>1, <1>3, <1>5 DEF TurnOK
  <2>5. LostOK(f)  BY <1>1 DEF LostOK
  <2> QED BY <2>1, <2>2, <2>3, <2>4, <2>5 DEF Positions
<1>8. Unrolled(f, e)
  BY <1>1, <1>3 DEF Unrolled, HeldOK, Held, FirstOK, FailedOK, Failed, RollOK, NewOK
<1> QED BY <1>4, <1>6, <1>7, <1>8 DEF Data, f, e

(* Steps that change neither tapes nor positions.                             *)
LEMMA SamePlaces ==
  ASSUME NEW f, Reached, UNCHANGED <<volumes, rolled>>
  PROVE  /\ Tapes(f) => Tapes(f)'
         /\ Start(f)' = Start(f) /\ Prev(f)' = Prev(f) /\ Written(f)' = Written(f)
         /\ volume' = volume
BY DEF Tapes, Follows, Came, Start, Prev, Written, volume

(* A slave that will not write its block goes on not writing it.              *)
LEMMA LaggingKept ==
  ASSUME NEW t \in Slaves, slp \in Slaves, Lagging(t),
         UNCHANGED <<volumes, room, slp>>, Rolling => Rolling',
         \A s \in Slaves : Failed(s) => Failed(s)' \/ Rolling',
         \A s \in Slaves : Pending(s)' => Pending(s)
  PROVE  Lagging(t)'
<1>1. Shortage'  BY DEF Lagging, Shortage, volume
<1>2. CASE Rolling  BY <1>1, <1>2 DEF Lagging
<1>3. CASE ~Rolling
  <2>1. PICK r \in Slaves : r = Before(t)  BY RingFacts
  <2>2. Failed(r) /\ (Pending(t) => t # slp)  BY <1>3, <2>1 DEF Lagging
  <2>3. Lagging(t)' <=> Shortage' /\ (Rolling' \/ (Failed(r)' /\ (Pending(t)' => t # slp')))
    BY <2>1 DEF Lagging, Failed
  <2> QED BY <1>1, <2>2, <2>3
<1> QED BY <1>2, <1>3

LEMMA LostKept ==
  ASSUME NEW f, UNCHANGED <<volumes, room, Written(f)>>, Rolling => Rolling',
         \A s \in Slaves : Failed(s) => Failed(s)' \/ Rolling',
         Begin = Written(f) \/ (Shortage /\ (Rolling \/ \E s \in Slaves : Failed(s))),
         Begin' = Begin
  PROVE  Begin' = Written(f)' \/ (Shortage' /\ (Rolling' \/ \E s \in Slaves : Failed(s)'))
BY DEF Shortage, volume

(* A slave with nothing to write that has the turn, and nothing is late.      *)
LEMMA TurnLost ==
  ASSUME NEW f, NEW e, TurnOK(f, e), NEW t \in Slaves, Writer(t), ~Pending(t)
  PROVE  Begin = Written(f) \/ (Shortage /\ (Rolling \/ \E s \in Slaves : Failed(s)))
BY RingFacts DEF TurnOK, Lagging

(* A step of a slave that is not a write.                                     *)
LEMMA SlaveData ==
  ASSUME Reached, NEW f, NEW e, Data(f, e), UNCHANGED <<masters, volumes>>, pc # "quit",
         \A s \in Slaves : Pending(s)' <=> Pending(s),
         \A s \in Slaves : Pending(s) => Content(s)' = Content(s),
         \A s \in Slaves : Failed(s)' <=> Failed(s),
         \A t \in Slaves : Writer(t)' => Writer(t),
         (\A s \in Slaves : ~HasTurn(s)') =>
           \/ \A s \in Slaves : ~HasTurn(s)
           \/ \E t \in Slaves : Writer(t) /\ ~Pending(t)
  PROVE  Data(f, e)'
<1>1. /\ UNCHANGED <<kind, room, limit, pc, goal, next, slp, block, head, firstrec, blocks>>
      /\ UNCHANGED <<sent, dated, rolled, stale>>
      /\ Rolling' = Rolling /\ Filling' = Filling
  BY SlaveSame
<1>2. /\ Tapes(f)' /\ volume' = volume
      /\ Start(f)' = Start(f) /\ Prev(f)' = Prev(f) /\ Written(f)' = Written(f)
  BY <1>1, SamePlaces DEF Data
<1>3. Partial' = Partial /\ At' = At /\ Begin' = Begin
  BY <1>1, <1>2 DEF Partial, At, Begin
<1>4. slp \in Slaves  BY Basics
<1>5. Positions(f, e)'
  <2>1. /\ FrontOK(f) /\ FillOK(f) /\ QueueOK(f, e) /\ TurnOK(f, e) /\ LostOK(f)
    BY DEF Data, Positions
  <2>2. FrontOK(f)'  BY <1>2, <1>3, <2>1 DEF FrontOK
  <2>3. FillOK(f)'  BY <1>1, <1>2, <1>3, <2>1 DEF FillOK
  <2>4. QueueOK(f, e)'  BY <1>1, <1>2, <1>3, <2>1 DEF QueueOK, NextOK
  <2>5. TurnOK(f, e)'
    <3> SUFFICES ASSUME NEW t \in Slaves, Writer(t)'
                 PROVE  (IF Pending(t)' THEN e[t] = Written(f)' + ntrec ELSE Begin' = Written(f)')
                        \/ Lagging(t)'
      BY DEF TurnOK
    <3>1. (IF Pending(t) THEN e[t] = Written(f) + ntrec ELSE Begin = Written(f)) \/ Lagging(t)
      BY <2>1 DEF TurnOK
    <3>2. Lagging(t) => Lagging(t)'
      BY <1>1, <1>4, LaggingKept
    <3> QED BY <1>2, <1>3, <3>1, <3>2
  <2>6. LostOK(f)'
    <3> SUFFICES ASSUME \A s \in Slaves : ~HasTurn(s)'
                 PROVE  Begin' = Written(f)' \/ (Shortage' /\ (Rolling' \/ \E s \in Slaves : Failed(s)'))
      BY DEF LostOK
    <3>1. Begin = Written(f) \/ (Shortage /\ (Rolling \/ \E s \in Slaves : Failed(s)))
      BY <2>1, TurnLost DEF LostOK
    <3> QED BY <1>1, <1>2, <1>3, <3>1, LostKept
  <2> QED BY <2>2, <2>3, <2>4, <2>5, <2>6 DEF Positions
<1>6. rolled = 0 => Unrolled(f, e)'
  <2> SUFFICES ASSUME rolled = 0 PROVE Unrolled(f, e)'
    OBVIOUS
  <2>1. HeldOK(f, e) /\ FirstOK /\ FailedOK(f) /\ RollOK(f) /\ NewOK(f)
    BY DEF Data, Unrolled
  <2>2. HeldOK(f, e)'
    BY <1>1, <1>2, <1>3, <2>1 DEF HeldOK, Held, NextOK
  <2>3. FirstOK'  BY <1>1, <1>3, <2>1 DEF FirstOK
  <2>4. FailedOK(f)'
    <3> SUFFICES ASSUME pc \in {"dump", "result"}, NEW s \in Slaves, Failed(s)'
                 PROVE  /\ volumes'[volume'] # <<>> /\ firstrec'[s] > 0
                        /\ firstrec'[s] <= Written(f)' \/ (s # slp' /\ Failed(Before(s))')
      BY <1>1 DEF FailedOK
    <3>1. PICK r \in Slaves : r = Before(s)  BY RingFacts
    <3>2. Failed(Before(s))' <=> Failed(r)'  BY <3>1 DEF Failed
    <3> QED BY <1>1, <1>2, <2>1, <3>1, <3>2 DEF FailedOK
  <2>5. RollOK(f)'  BY <1>1, <1>2, <2>1 DEF RollOK
  <2>6. NewOK(f)'  BY <1>1, <1>2, <1>3, <2>1 DEF NewOK
  <2> QED BY <2>2, <2>3, <2>4, <2>5, <2>6 DEF Unrolled
<1> QED BY <1>1, <1>2, <1>5, <1>6 DEF Data

(* The steps of a slave, one by one.                                          *)
LEMMA ReadData ==
  ASSUME Reached, NEW s \in Slaves, Read(s), NEW f, NEW e, Data(f, e) PROVE Data(f, e)'
<1>1. /\ state[s] = "read" /\ pipe[s] # <<>>
      /\ buf' = [buf EXCEPT ![s] = pipe[s]]
      /\ pipe' = [pipe EXCEPT ![s] = <<>>]
      /\ state' = [state EXCEPT ![s] = "lock"]
      /\ UNCHANGED masters
      /\ UNCHANGED <<volumes, size, result, closed, caught, signalled>>
  BY DEF Read
<1>2. /\ TypeOK /\ MasterOK /\ VolumesOK /\ SlavesOK /\ Ending /\ Inv
  BY Basics DEF Reached
<1>3. pc # "quit" /\ Requests /\ Sizes /\ Turns
  BY <1>1, <1>2, Basics DEF Ending
<1>4. UNCHANGED <<masters, volumes, sent>>  BY <1>1, SlaveSame
<1>5. \A x \in Slaves : Pending(x)' <=> Pending(x)
    BY <1>1, <1>2, <1>3 DEF Pending, SlavesOK, Requests
<1>6. \A x \in Slaves : Pending(x) => Content(x)' = Content(x)
  BY <1>1, <1>2, <1>3 DEF Content, SlavesOK
<1>7. \A x \in Slaves : Failed(x)' <=> Failed(x)
  BY <1>1, <1>2, <1>3, <1>4 DEF Failed, SlavesOK, Requests
<1>8. \A t \in Slaves : Writer(t)' => Writer(t)
  BY <1>1, <1>2 DEF Writer, HasTurn, SlavesOK
<1>9. (\A x \in Slaves : ~HasTurn(x)') =>
        \/ \A x \in Slaves : ~HasTurn(x)
        \/ \E t \in Slaves : Writer(t) /\ ~Pending(t)
  BY <1>1, <1>2 DEF HasTurn, SlavesOK
<1> QED BY <1>3, <1>4, <1>5, <1>6, <1>7, <1>8, <1>9, SlaveData

LEMMA LockData ==
  ASSUME Reached, NEW s \in Slaves, Lock(s), NEW f, NEW e, Data(f, e) PROVE Data(f, e)'
<1>1. /\ state[s] = "lock"
      /\ state' = [state EXCEPT ![s] = IF caught[s] THEN "write" ELSE "ready"]
      /\ caught' = IF caught[s] THEN [caught EXCEPT ![s] = FALSE] ELSE caught
      /\ UNCHANGED masters
      /\ UNCHANGED <<volumes, pipe, buf, size, result, closed, signalled>>
  BY DEF Lock, Cleared
<1>2. /\ TypeOK /\ MasterOK /\ VolumesOK /\ SlavesOK /\ Ending /\ Inv
  BY Basics DEF Reached
<1>3. pc # "quit" /\ Requests /\ Sizes /\ Turns
  BY <1>1, <1>2, Basics DEF Ending
<1>4. UNCHANGED <<masters, volumes, sent>>  BY <1>1, SlaveSame
<1>5. \A x \in Slaves : Pending(x)' <=> Pending(x)
    BY <1>1, <1>2, <1>3 DEF Pending, SlavesOK, Requests
<1>6. \A x \in Slaves : Pending(x) => Content(x)' = Content(x)
  BY <1>1, <1>2, <1>3 DEF Content, SlavesOK
<1>7. \A x \in Slaves : Failed(x)' <=> Failed(x)
  BY <1>1, <1>2, <1>3, <1>4 DEF Failed, SlavesOK, Requests
<1>8. \A t \in Slaves : Writer(t)' => Writer(t)
  BY <1>1, <1>2 DEF Writer, HasTurn, SlavesOK
<1>9. (\A x \in Slaves : ~HasTurn(x)') =>
        \/ \A x \in Slaves : ~HasTurn(x)
        \/ \E t \in Slaves : Writer(t) /\ ~Pending(t)
  BY <1>1, <1>2 DEF HasTurn, SlavesOK
<1> QED BY <1>3, <1>4, <1>5, <1>6, <1>7, <1>8, <1>9, SlaveData

LEMMA PauseData ==
  ASSUME Reached, NEW s \in Slaves, Pause(s), NEW f, NEW e, Data(f, e) PROVE Data(f, e)'
<1>1. /\ state[s] = "ready"
      /\ state' = [state EXCEPT ![s] = "pause"]
      /\ UNCHANGED masters
      /\ UNCHANGED <<volumes, pipe, buf, size, result, closed, caught, signalled>>
  BY DEF Pause
<1>2. /\ TypeOK /\ MasterOK /\ VolumesOK /\ SlavesOK /\ Ending /\ Inv
  BY Basics DEF Reached
<1>3. pc # "quit" /\ Requests /\ Sizes /\ Turns
  BY <1>1, <1>2, Basics DEF Ending
<1>4. UNCHANGED <<masters, volumes, sent>>  BY <1>1, SlaveSame
<1>5. \A x \in Slaves : Pending(x)' <=> Pending(x)
    BY <1>1, <1>2, <1>3 DEF Pending, SlavesOK, Requests
<1>6. \A x \in Slaves : Pending(x) => Content(x)' = Content(x)
  BY <1>1, <1>2, <1>3 DEF Content, SlavesOK
<1>7. \A x \in Slaves : Failed(x)' <=> Failed(x)
  BY <1>1, <1>2, <1>3, <1>4 DEF Failed, SlavesOK, Requests
<1>8. \A t \in Slaves : Writer(t)' => Writer(t)
  BY <1>1, <1>2 DEF Writer, HasTurn, SlavesOK
<1>9. (\A x \in Slaves : ~HasTurn(x)') =>
        \/ \A x \in Slaves : ~HasTurn(x)
        \/ \E t \in Slaves : Writer(t) /\ ~Pending(t)
  BY <1>1, <1>2 DEF HasTurn, SlavesOK
<1> QED BY <1>3, <1>4, <1>5, <1>6, <1>7, <1>8, <1>9, SlaveData

LEMMA ProceedData ==
  ASSUME Reached, NEW s \in Slaves, proceed(s), NEW f, NEW e, Data(f, e) PROVE Data(f, e)'
<1>1. /\ signalled[s] /\ state[s] # "exit"
      /\ signalled' = [signalled EXCEPT ![s] = FALSE]
      /\ state' = IF state[s] \in {"ready", "pause"} THEN [state EXCEPT ![s] = "write"] ELSE state
      /\ caught' = [caught EXCEPT ![s] = state[s] \notin {"ready", "pause"}]
      /\ UNCHANGED masters
      /\ UNCHANGED <<volumes, pipe, buf, size, result, closed>>
  BY DEF proceed, Cleared, Awaits
<1>2. /\ TypeOK /\ MasterOK /\ VolumesOK /\ SlavesOK /\ Ending /\ Inv
  BY Basics DEF Reached
<1>3. pc # "quit" /\ Requests /\ Sizes /\ Turns
  BY <1>1, <1>2, Basics DEF Ending
<1>4. UNCHANGED <<masters, volumes, sent>>  BY <1>1, SlaveSame
<1>5. \A x \in Slaves : Pending(x)' <=> Pending(x)
    BY <1>1, <1>2, <1>3 DEF Pending, SlavesOK, Requests
<1>6. \A x \in Slaves : Pending(x) => Content(x)' = Content(x)
  BY <1>1, <1>2, <1>3 DEF Content, SlavesOK
<1>7. \A x \in Slaves : Failed(x)' <=> Failed(x)
  BY <1>1, <1>2, <1>3, <1>4 DEF Failed, SlavesOK, Requests
<1>8. \A t \in Slaves : Writer(t)' => Writer(t)
  BY <1>1, <1>2 DEF Writer, HasTurn, SlavesOK, Inv, Once
<1>9. (\A x \in Slaves : ~HasTurn(x)') =>
        \/ \A x \in Slaves : ~HasTurn(x)
        \/ \E t \in Slaves : Writer(t) /\ ~Pending(t)
  BY <1>1, <1>2 DEF HasTurn, SlavesOK
<1> QED BY <1>3, <1>4, <1>5, <1>6, <1>7, <1>8, <1>9, SlaveData

LEMMA TellData ==
  ASSUME Reached, NEW s \in Slaves, Tell(s), NEW f, NEW e, Data(f, e) PROVE Data(f, e)'
<1>0. PICK n \in Answers(size[s]) : result' = [result EXCEPT ![s] = n]  BY DEF Tell
<1>1. /\ state[s] = "tell"
      /\ result' = [result EXCEPT ![s] = n]
      /\ state' = [state EXCEPT ![s] = "pass"]
      /\ UNCHANGED masters
      /\ UNCHANGED <<volumes, pipe, buf, size, closed, caught, signalled>>
  BY <1>0 DEF Tell
<1>2. /\ TypeOK /\ MasterOK /\ VolumesOK /\ SlavesOK /\ Ending /\ Inv
  BY Basics DEF Reached
<1>3. pc # "quit" /\ Requests /\ Sizes /\ Turns
  BY <1>1, <1>2, Basics DEF Ending
<1>4. UNCHANGED <<masters, volumes, sent>>  BY <1>1, SlaveSame
<1>5. \A x \in Slaves : Pending(x)' <=> Pending(x)
    BY <1>1, <1>2, <1>3 DEF Pending, SlavesOK, Requests
<1>6. \A x \in Slaves : Pending(x) => Content(x)' = Content(x)
  BY <1>1, <1>2, <1>3 DEF Content, SlavesOK
<1>7. \A x \in Slaves : Failed(x)' <=> Failed(x)
  <2>1. \A x \in Slaves : x # s => (Failed(x)' <=> Failed(x))
    BY <1>1, <1>2, <1>4 DEF Failed, SlavesOK
  <2>2. result[s] = NoResult /\ sent[s]  BY <1>1, <1>3 DEF Requests
  <2>3. result'[s] = n /\ state'[s] = "pass"  BY <1>1, <1>2 DEF SlavesOK
  <2>4. size[s] \in 0..ntrec  BY <1>2 DEF SlavesOK
  <2>5. n # NoResult /\ (n = ntrec <=> size[s] = ntrec)
    BY <1>0, <2>4, TapeAssumption DEF Answers, NoResult
  <2>6. Failed(s)' <=> Failed(s)
    BY <1>1, <1>4, <2>2, <2>3, <2>5 DEF Failed
  <2> QED BY <2>1, <2>6
<1>8. \A t \in Slaves : Writer(t)' => Writer(t)
  BY <1>1, <1>2 DEF Writer, HasTurn, SlavesOK
<1>9. (\A x \in Slaves : ~HasTurn(x)') =>
        \/ \A x \in Slaves : ~HasTurn(x)
        \/ \E t \in Slaves : Writer(t) /\ ~Pending(t)
  BY <1>1, <1>2 DEF HasTurn, SlavesOK
<1> QED BY <1>3, <1>4, <1>5, <1>6, <1>7, <1>8, <1>9, SlaveData

LEMMA PassData ==
  ASSUME Reached, NEW s \in Slaves, Pass(s), NEW f, NEW e, Data(f, e) PROVE Data(f, e)'
<1>1. /\ state[s] = "pass"
      /\ signalled' = [signalled EXCEPT ![After(s)] = state[After(s)] # "exit"]
      /\ state' = [state EXCEPT ![s] = "read"]
      /\ UNCHANGED masters
      /\ UNCHANGED <<volumes, pipe, buf, size, result, closed, caught>>
  BY DEF Pass
<1>2. /\ TypeOK /\ MasterOK /\ VolumesOK /\ SlavesOK /\ Ending /\ Inv
  BY Basics DEF Reached
<1>3. pc # "quit" /\ Requests /\ Sizes /\ Turns
  BY <1>1, <1>2, Basics DEF Ending
<1>4. UNCHANGED <<masters, volumes, sent>>  BY <1>1, SlaveSame
<1>5. \A x \in Slaves : Pending(x)' <=> Pending(x)
    BY <1>1, <1>2, <1>3 DEF Pending, SlavesOK, Requests
<1>6. \A x \in Slaves : Pending(x) => Content(x)' = Content(x)
  BY <1>1, <1>2, <1>3 DEF Content, SlavesOK
<1>7. \A x \in Slaves : Failed(x)' <=> Failed(x)
  BY <1>1, <1>2, <1>3, <1>4 DEF Failed, SlavesOK, Requests
<1>8. \A t \in Slaves : Writer(t)' => Writer(t)
  <2>1. \A r \in Slaves \ {s} : ~HasTurn(r)
    BY <1>1, <1>2 DEF Inv, Exclusive, HasTurn
  <2>2. ~caught[s] /\ ~signalled[s]
    BY <1>1, <1>2 DEF Inv, Once
  <2>3. Writer(After(s))
    BY <1>1 DEF Writer, HasTurn
  <2>4. \A r \in Slaves : HasTurn(r)' => r = After(s) /\ state'[r] \notin {"tell", "pass"}
    BY <1>1, <1>2, <2>1, <2>2 DEF HasTurn, SlavesOK
  <2> QED BY <2>3, <2>4 DEF Writer
<1>9. (\A x \in Slaves : ~HasTurn(x)') =>
        \/ \A x \in Slaves : ~HasTurn(x)
        \/ \E t \in Slaves : Writer(t) /\ ~Pending(t)
  <2> SUFFICES ASSUME \A x \in Slaves : ~HasTurn(x)'
               PROVE  \E t \in Slaves : Writer(t) /\ ~Pending(t)
    OBVIOUS
  <2>1. Writer(After(s)) /\ After(s) \in Slaves
    BY <1>1, RingFacts DEF Writer, HasTurn
  <2>2. state[After(s)] = "exit"
    BY <1>1, <1>2, <2>1 DEF HasTurn, SlavesOK
  <2>3. ~Pending(After(s))
    BY <1>3, <2>1, <2>2 DEF Pending, Requests
  <2> QED BY <2>1, <2>3
<1> QED BY <1>3, <1>4, <1>5, <1>6, <1>7, <1>8, <1>9, SlaveData

LEMMA ExitData ==
  ASSUME Reached, NEW s \in Slaves, Exit(s), NEW f, NEW e, Data(f, e) PROVE Data(f, e)'
<1>1. /\ state[s] = "read" /\ pipe[s] = <<>> /\ closed[s]
      /\ state' = [state EXCEPT ![s] = "exit"]
      /\ UNCHANGED masters
      /\ UNCHANGED <<volumes, pipe, buf, size, result, closed, caught, signalled>>
  BY DEF Exit
<1>2. /\ TypeOK /\ MasterOK /\ VolumesOK /\ SlavesOK /\ Ending /\ Inv
  BY Basics DEF Reached
<1>3. pc # "quit" /\ Requests /\ Sizes /\ Turns
  BY <1>1, <1>2, Basics DEF Ending
<1>4. UNCHANGED <<masters, volumes, sent>>  BY <1>1, SlaveSame
<1>5. \A x \in Slaves : Pending(x)' <=> Pending(x)
    BY <1>1, <1>2, <1>3 DEF Pending, SlavesOK, Requests
<1>6. \A x \in Slaves : Pending(x) => Content(x)' = Content(x)
  BY <1>1, <1>2, <1>3 DEF Content, SlavesOK
<1>7. \A x \in Slaves : Failed(x)' <=> Failed(x)
  BY <1>1, <1>2, <1>3, <1>4 DEF Failed, SlavesOK, Requests
<1>8. \A t \in Slaves : Writer(t)' => Writer(t)
  BY <1>1, <1>2 DEF Writer, HasTurn, SlavesOK
<1>9. (\A x \in Slaves : ~HasTurn(x)') =>
        \/ \A x \in Slaves : ~HasTurn(x)
        \/ \E t \in Slaves : Writer(t) /\ ~Pending(t)
  BY <1>1, <1>2 DEF HasTurn, SlavesOK
<1> QED BY <1>3, <1>4, <1>5, <1>6, <1>7, <1>8, <1>9, SlaveData

(* A slave writes: its block begins where the tape ends, or the tape is full  *)
(* and takes nothing of it.  What does not fit is known to the master by the  *)
(* result.                                                                    *)
LEMMA WriteData ==
  ASSUME Reached, Reached', NEW s \in Slaves, Write(s), NEW f, NEW e, Data(f, e)
  PROVE  Data(f, e)'
<1>1. /\ state[s] = "write"
      /\ volumes' = [volumes EXCEPT ![volume] = volumes[volume] \o SubSeq(buf[s], 1, Fits)]
      /\ size' = [size EXCEPT ![s] = Fits]
      /\ state' = [state EXCEPT ![s] = "tell"]
      /\ UNCHANGED masters
      /\ UNCHANGED <<pipe, buf, result, closed, caught, signalled>>
  BY DEF Write
<1>2. /\ TypeOK /\ MasterOK /\ VolumesOK /\ SlavesOK /\ Ending
      /\ volume \in Nat \ {0} /\ volumes[volume] \in Seq(Records) /\ Len(volumes[volume]) \in Nat
      /\ slp \in Slaves /\ Begin \in Int /\ ntrec \in Nat /\ ntrec >= 2
  BY Basics
<1>3. pc # "quit" /\ Requests /\ Sizes /\ Turns
  BY <1>1, <1>2, Basics DEF Ending
<1>4. /\ UNCHANGED <<kind, room, limit, pc, goal, next, slp, block, head, firstrec, blocks>>
      /\ UNCHANGED <<sent, dated, rolled, stale>>
      /\ Rolling' = Rolling /\ Filling' = Filling
  BY <1>1, SlaveSame
<1>5. /\ Fits \in 0..ntrec
      /\ volume <= Len(room) /\ Fits # ntrec => Fits = room[volume] - Len(volumes[volume])
      /\ volume > Len(room) => Fits = ntrec
      /\ volume \in DOMAIN volumes
  BY <1>2, <1>3, FitsOK DEF Sizes
<1> DEFINE part == SubSeq(buf[s], 1, Fits)
           old == volumes[volume]
<1>6. buf[s] \in Seq(Records) /\ Len(buf[s]) = ntrec
  BY <1>1, <1>2, <1>3 DEF Sizes, SlavesOK
<1>7. /\ part \in Seq(Records) /\ Len(part) = Fits
      /\ \A i \in 1..Fits : part[i] = buf[s][i] /\ i \in 1..ntrec
  BY <1>2, <1>5, <1>6
<1> HIDE DEF part
<1>8. volumes \in Seq(Seq(Records)) /\ volume \in 1..Len(volumes) /\ volume = Len(volumes)
  BY <1>2, <1>5 DEF VolumesOK, volume
<1>9. /\ old \o part \in Seq(Records) /\ Len(old \o part) = Len(old) + Fits
      /\ \A j \in 1..(Len(old) + Fits) :
           (old \o part)[j] = IF j <= Len(old) THEN old[j] ELSE part[j - Len(old)]
  <2>1. old \in Seq(Records)  BY <1>2
  <2> HIDE DEF old
  <2> QED BY <1>7, <2>1, ConcatProperties
<1>10. /\ volumes' = [volumes EXCEPT ![volume] = old \o part]
       /\ Len(volumes') = Len(volumes)
       /\ \A v \in 1..volume : volumes'[v] = IF v = volume THEN old \o part ELSE volumes[v]
  BY <1>1, <1>8, <1>9, ExceptSeq DEF part
<1>11. volume' = volume  BY <1>10 DEF volume
<1> HIDE DEF old
<1>12. Tapes(f) /\ e \in [Slaves -> Nat] /\ Positions(f, e) /\ (rolled = 0 => Unrolled(f, e))
  BY <1>3 DEF Data
<1>13. Start(f)' = Start(f) /\ \A v \in 1..volume : Came(f, v)' = Came(f, v)
  <2>1. Start(f)' = Start(f)  BY <1>11 DEF Start
  <2>2. ASSUME NEW v \in 1..volume PROVE Came(f, v)' = Came(f, v)
    <3>1. v # 1 => v - 1 \in 1..volume /\ v - 1 # volume
      BY <1>2
    <3> QED BY <1>10, <3>1 DEF Came
  <2> QED BY <2>1, <2>2
<1>14. Prev(f)' = Prev(f)  BY <1>2, <1>11, <1>13 DEF Prev
<1>15. /\ Start(f) \in Nat /\ Prev(f) \in Nat /\ Written(f) \in Nat
       /\ volume # 1 => Start(f) > 0
       /\ Written(f) = Start(f) + Len(old)
  BY <1>12, Positive DEF Written, Start, old
<1>16. Written(f)' = Written(f) + Fits /\ volumes'[volume'] = old \o part
  <2>1. volumes'[volume'] = old \o part
    <3>1. volume \in 1..volume  BY <1>2
    <3>2. volumes'[volume] = old \o part  BY <1>10, <3>1
    <3> QED BY <1>11, <3>2
  <2>2. Written(f)' = f[volume] + Len(old \o part)  BY <1>11, <2>1 DEF Written
  <2>3. Len(old) \in Nat  BY <1>2 DEF old
  <2> QED BY <1>5, <1>9, <1>15, <2>1, <2>2, <2>3 DEF Start
<1>17. Begin' = Begin /\ At' = At
  BY <1>4, <1>11 DEF Begin, At, Partial
<1>18. \A x \in Slaves : Pending(x)' <=> Pending(x) /\ x # s
  BY <1>1, <1>2, <1>3 DEF Pending, SlavesOK, Requests
<1>19. \A x \in Slaves : Content(x)' = Content(x)
  BY <1>1 DEF Content
<1>20. Pending(s) /\ Content(s) = buf[s] /\ Writer(s) /\ sent[s]
  BY <1>1, <1>3 DEF Pending, Content, Requests, Writer, HasTurn
<1>21. RightBlock(Start(f), Prev(f), volume, buf[s], e[s]) /\ NextOK(e, s)
  BY <1>12, <1>20 DEF Positions, QueueOK
<1>22. e[s] = Written(f) + ntrec \/ Lagging(s)
  BY <1>12, <1>20 DEF Positions, TurnOK
<1>23. Fits # 0 => ~Lagging(s)
  <2> SUFFICES ASSUME Lagging(s) PROVE Fits = 0
    OBVIOUS
  <2>1. volume <= Len(room) /\ Len(volumes[volume]) = room[volume]
    BY DEF Lagging, Shortage
  <2>2. Len(room) \in Nat  BY <1>2, TapeAssumption DEF MasterOK
  <2> QED BY <1>2, <2>1, <2>2 DEF Fits
<1>24. Fits # ntrec => Shortage' /\ volume <= Len(room)
  <2> SUFFICES ASSUME Fits # ntrec PROVE Shortage' /\ volume <= Len(room)
    OBVIOUS
  <2>1. Len(room) \in Nat /\ (volume <= Len(room) => room[volume] \in Nat)
    BY <1>2, TapeAssumption DEF MasterOK
  <2>2. volume <= Len(room)  BY <1>2, <1>5, <2>1
  <2>3. Len(volumes'[volume']) = Len(old) + Fits  BY <1>9, <1>16
  <2> QED BY <1>2, <1>4, <1>5, <1>11, <2>1, <2>2, <2>3 DEF Shortage, old
<1>25. Failed(s)' <=> Fits # ntrec
  <2>1. result[s] = NoResult  BY <1>3, <1>20 DEF Requests
  <2> QED BY <1>1, <1>2, <1>4, <1>20, <2>1 DEF Failed, SlavesOK, NoResult
<1>26. \A x \in Slaves : x # s => (Failed(x)' <=> Failed(x))
  BY <1>1, <1>2, <1>4 DEF Failed, SlavesOK
<1>27. ~Failed(s)
  <2>1. result[s] = NoResult  BY <1>3, <1>20 DEF Requests
  <2> QED BY <1>1, <2>1 DEF Failed, NoResult
<1>28. Tapes(f)'
  <2>1. \A v \in 2..volume : Follows(f, v)'
    <3> SUFFICES ASSUME NEW v \in 2..volume PROVE Follows(f, v)'
      OBVIOUS
    <3>1. v - 1 \in 1..volume /\ v - 1 # volume /\ v \in 1..volume  BY <1>2
    <3>2. Follows(f, v)  BY <1>12 DEF Tapes
    <3> QED BY <1>4, <1>10, <1>13, <3>1, <3>2 DEF Follows
  <2>2. ASSUME NEW v \in 1..volume, NEW j \in 1..Len(volumes'[v])
        PROVE  /\ j = 1 => volumes'[v][j] = Header(f[v])
               /\ f[v] + j - 1 > Came(f, v)' => volumes'[v][j] = Record(f[v] + j - v)
    <3>1. CASE v # volume
      BY <1>10, <1>12, <1>13, <3>1 DEF Tapes
    <3>2. CASE v = volume
      <4>1. j \in 1..(Len(old) + Fits) /\ j \in Nat
        BY <1>2, <1>5, <1>9, <1>10, <3>2 DEF old
      <4>2. Came(f, v)' = Prev(f) /\ f[v] = Start(f) /\ volumes'[v] = old \o part
        BY <1>10, <1>13, <3>2 DEF Prev, Start
      <4>3. CASE j <= Len(old)
        <5>1. j \in 1..Len(volumes[volume]) /\ volumes'[v][j] = volumes[volume][j]
          BY <1>2, <1>9, <4>1, <4>2, <4>3 DEF old
        <5> QED BY <1>2, <1>12, <3>2, <4>2, <5>1 DEF Tapes, Prev, Start
      <4>4. CASE j > Len(old)
        <5> DEFINE i == j - Len(old)
        <5>1. i \in 1..Fits /\ volumes'[v][j] = part[i]
          BY <1>2, <1>5, <1>9, <4>1, <4>2, <4>4 DEF old
        <5>2. volumes'[v][j] = buf[s][i] /\ i \in 1..ntrec
          BY <1>7, <5>1
        <5>3. e[s] = Written(f) + ntrec
          BY <1>5, <1>22, <1>23, <5>1
        <5>4. e[s] - ntrec + i - 1 = Start(f) + j - 1
          BY <1>2, <1>15, <4>1, <5>3 DEF old
        <5>5. Right(Start(f), Prev(f), volume, buf[s][i], Start(f) + j - 1)
          BY <1>21, <5>2, <5>4 DEF RightBlock
        <5>6. Start(f) + j - 1 + 1 - volume = Start(f) + j - v
          BY <1>2, <1>15, <3>2, <4>1
        <5>7. j = 1 => Start(f) + j - 1 = Start(f)
          BY <1>15
        <5> HIDE DEF i
        <5> QED BY <4>2, <5>2, <5>5, <5>6, <5>7 DEF Right
      <4> QED BY <1>2, <4>1, <4>3, <4>4 DEF old
    <3> QED BY <3>1, <3>2
  <2>3. f \in [1..volume -> Nat] /\ f[1] = 0  BY <1>12 DEF Tapes
  <2> QED BY <1>11, <2>1, <2>2, <2>3 DEF Tapes
<1>29. Positions(f, e)'
  <2>1. FrontOK(f) /\ FillOK(f) /\ QueueOK(f, e)
    BY <1>12 DEF Positions
  <2>2. FrontOK(f)'  BY <1>13, <1>17, <2>1 DEF FrontOK
  <2>3. FillOK(f)'  BY <1>4, <1>11, <1>13, <1>14, <1>17, <2>1 DEF FillOK
  <2>4. QueueOK(f, e)'
    BY <1>4, <1>11, <1>13, <1>14, <1>17, <1>18, <1>19, <2>1 DEF QueueOK, NextOK
  <2>5. TurnOK(f, e)'
    <3> SUFFICES ASSUME NEW t \in Slaves, Writer(t)'
                 PROVE  (IF Pending(t)' THEN e[t] = Written(f)' + ntrec ELSE Begin' = Written(f)')
                        \/ Lagging(t)'
      BY DEF TurnOK
    <3>1. t = After(s) /\ Before(t) = s
      <4>1. \A r \in Slaves : HasTurn(r)' => r = s
        BY <1>1, <1>2 DEF HasTurn, SlavesOK, Inv, Exclusive, Reached
      <4>2. state'[s] = "tell"  BY <1>1, <1>2 DEF SlavesOK
      <4> QED BY <4>1, <4>2, RingFacts DEF Writer
    <3>2. PICK p \in Slaves : p = slp /\ p = slp'  BY <1>2, <1>4
    <3>3. Pending(p) => s = p
      BY <1>3, <1>20, <3>2 DEF Turns, Stretch
    <3>4. Pending(t)' => t # p
      BY <1>18, <3>3
    <3>5. ~Pending(t)' => t = p
      <4>1. Turns'  BY <1>3, <1>4 DEF Reached, Control
      <4>2. Stretch(t)'  BY <4>1 DEF Turns
      <4> QED BY <3>2, <4>2 DEF Stretch
    <3>6. CASE Fits # ntrec
      <4>1. Lagging(t)' <=> Shortage' /\ (Rolling' \/ (Failed(s)' /\ (Pending(t)' => t # p)))
        BY <3>1, <3>2 DEF Lagging, Failed
      <4> QED BY <1>24, <1>25, <3>4, <3>6, <4>1
    <3>7. CASE Fits = ntrec
      <4>1. e[s] = Written(f) + ntrec /\ Written(f)' = e[s] /\ e[s] \in Nat
        BY <1>2, <1>12, <1>16, <1>22, <1>23, <3>7
      <4>2. CASE Pending(t)'
        <5>1. s # Before(slp)  BY <3>1, <3>2, <3>4, <4>2, RingFacts
        <5> QED BY <1>21, <3>1, <4>1, <4>2, <5>1 DEF NextOK
      <4>3. CASE ~Pending(t)'
        <5>1. s = Before(slp)  BY <3>1, <3>2, <3>5, <4>3
        <5> QED BY <1>17, <1>21, <4>1, <4>3, <5>1 DEF NextOK
      <4> QED BY <4>2, <4>3
    <3> QED BY <3>6, <3>7
  <2>6. LostOK(f)'
    BY <1>1, <1>2 DEF LostOK, HasTurn, SlavesOK
  <2> QED BY <2>2, <2>3, <2>4, <2>5, <2>6 DEF Positions
<1>30. ASSUME rolled = 0 PROVE Unrolled(f, e)'
  <2>1. HeldOK(f, e) /\ FirstOK /\ FailedOK(f) /\ RollOK(f) /\ NewOK(f)
    BY <1>12, <1>30 DEF Unrolled
  <2>2. Len(volumes'[volume']) = Len(old) + Fits /\ volumes'[volume'] \in Seq(Records)
    BY <1>9, <1>16
  <2>3. old # <<>> => volumes'[volume'] # <<>>
    <3>1. old \in Seq(Records) /\ Len(old) \in Nat  BY <1>2 DEF old
    <3> QED BY <1>5, <2>2, <3>1
  <2>4. HeldOK(f, e)'
    BY <1>4, <1>11, <1>13, <1>14, <1>17, <2>1 DEF HeldOK, Held, NextOK
  <2>5. FirstOK'  BY <1>4, <1>17, <2>1 DEF FirstOK
  <2>6. FailedOK(f)'
    <3> SUFFICES ASSUME pc \in {"dump", "result"}, NEW x \in Slaves, Failed(x)'
                 PROVE  /\ volumes'[volume'] # <<>> /\ firstrec'[x] > 0
                        /\ firstrec'[x] <= Written(f)' \/ (x # slp' /\ Failed(Before(x))')
      BY <1>4 DEF FailedOK
    <3>1. PICK r \in Slaves : r = Before(x)  BY RingFacts
    <3>2. Failed(Before(x))' <=> Failed(r)'  BY <3>1 DEF Failed
    <3>3. \A y \in Slaves : Failed(y) => Failed(y)'  BY <1>26, <1>27
    <3>4. firstrec[x] \in Nat /\ firstrec'[x] = firstrec[x] /\ slp' = slp
      BY <1>2, <1>4 DEF MasterOK
    <3>5. CASE x # s
      <4>1. Failed(x)  BY <1>26, <3>5
      <4>2. /\ old # <<>> /\ firstrec[x] > 0
            /\ firstrec[x] <= Written(f) \/ (x # slp /\ Failed(r))
        BY <2>1, <3>1, <4>1 DEF FailedOK, old
      <4> QED BY <1>5, <1>15, <1>16, <2>3, <3>2, <3>3, <3>4, <4>2
    <3>6. CASE x = s
      <4>1. Fits # ntrec /\ Shortage' /\ volume <= Len(room)  BY <1>24, <1>25, <3>6
      <4>2. volumes'[volume'] # <<>>
        <5>1. room[volume] \in Nat \ {0}
          BY <1>2, <4>1, TapeAssumption DEF MasterOK
        <5>2. Len(volumes'[volume']) # 0
          BY <1>4, <1>11, <4>1, <5>1 DEF Shortage
        <5> QED BY <5>2
      <4>3. Held(s) /\ firstrec[s] + ntrec = e[s]
        BY <1>20, <2>1 DEF HeldOK, Held
      <4>4. CASE e[s] = Written(f) + ntrec
        <5>1. firstrec[s] = Written(f)
          BY <1>2, <1>15, <3>4, <3>6, <4>3, <4>4
        <5>2. Written(f) # 0
          <6> SUFFICES ASSUME Written(f) = 0 PROVE FALSE
            OBVIOUS
          <6>1. Start(f) = 0 /\ Len(old) = 0  BY <1>2, <1>15 DEF old
          <6>2. volume = 1  BY <1>15, <6>1
          <6>3. room # <<>> /\ room \in Rooms /\ 1 <= Len(room)  BY <1>2, <4>1, <6>2 DEF MasterOK
          <6>4. room[1] >= ntrec /\ room[1] \in Nat  BY <6>3, TapeAssumption
          <6>5. room[volume] - Len(volumes[volume]) >= ntrec
            BY <6>1, <6>2, <6>4 DEF old
          <6> QED BY <4>1, <6>5 DEF Fits
        <5> QED BY <1>5, <1>15, <1>16, <3>4, <3>6, <4>2, <5>1, <5>2
      <4>5. CASE Lagging(s)
        <5>1. Failed(r) /\ s # slp
          <6>1. ~Rolling  BY DEF Rolling
          <6> QED BY <1>20, <3>1, <3>6, <4>5, <6>1 DEF Lagging
        <5>2. firstrec[r] > 0  BY <2>1, <5>1 DEF FailedOK
        <5>3. Held(r)  BY <5>1 DEF Failed, Held
        <5>4. firstrec[r] + ntrec = e[r] /\ NextOK(e, r)
          BY <2>1, <5>3 DEF HeldOK
        <5>5. r # Before(slp) /\ After(r) = s
          BY <1>2, <3>1, <3>6, <5>1, RingFacts
        <5>6. e[s] = e[r] + ntrec  BY <5>4, <5>5 DEF NextOK
        <5>7. firstrec[r] \in Nat  BY <1>2 DEF MasterOK
        <5>8. firstrec[s] > 0
          BY <1>2, <3>4, <3>6, <4>3, <5>2, <5>4, <5>6, <5>7
        <5> QED BY <3>2, <3>3, <3>4, <3>6, <4>2, <5>1, <5>8
      <4> QED BY <1>22, <4>4, <4>5
    <3> QED BY <3>5, <3>6
  <2>7. RollOK(f)'
    <3>1. firstrec[slp] \in Nat  BY <1>2 DEF MasterOK
    <3> QED BY <1>4, <1>5, <1>15, <1>16, <2>1, <2>3, <3>1 DEF RollOK, old
  <2>8. NewOK(f)'  BY <1>4, <1>13, <1>17, <2>1 DEF NewOK
  <2> QED BY <2>4, <2>5, <2>6, <2>7, <2>8 DEF Unrolled
<1> QED BY <1>3, <1>4, <1>12, <1>28, <1>29, <1>30 DEF Data

(* What a step of the master keeps that writes no header and sends no block.  *)
LEMMA MasterKeeps ==
  ASSUME Reached, NEW f, NEW e, Data(f, e), pc # "quit",
         UNCHANGED <<room, volumes, rolled, slp, state, pipe, buf, size, caught, signalled>>,
         Begin' = Begin, At' \in Int, At' >= At, Rolling => Rolling',
         \A s \in Slaves : Failed(s) => Failed(s)' \/ Rolling'
  PROVE  /\ Tapes(f)' /\ FrontOK(f)' /\ QueueOK(f, e)' /\ TurnOK(f, e)' /\ LostOK(f)'
         /\ Start(f)' = Start(f) /\ Prev(f)' = Prev(f) /\ Written(f)' = Written(f)
         /\ volume' = volume
         /\ \A s \in Slaves : NextOK(e, s) => NextOK(e, s)'
<1>1. /\ Tapes(f)' /\ volume' = volume
      /\ Start(f)' = Start(f) /\ Prev(f)' = Prev(f) /\ Written(f)' = Written(f)
  BY SamePlaces DEF Data
<1>2. FrontOK(f) /\ QueueOK(f, e) /\ TurnOK(f, e) /\ LostOK(f)
  BY DEF Data, Positions
<1>3. /\ \A s \in Slaves : Pending(s)' <=> Pending(s)
      /\ \A s \in Slaves : Content(s)' = Content(s)
      /\ \A s \in Slaves : HasTurn(s)' <=> HasTurn(s)
      /\ \A s \in Slaves : Writer(s)' <=> Writer(s)
  BY DEF Pending, Content, HasTurn, Writer
<1>4. slp \in Slaves /\ At \in Int /\ Start(f) \in Int
  BY Basics, Positive DEF Data
<1>5. FrontOK(f)'
  BY <1>1, <1>2, <1>4 DEF FrontOK
<1>6. \A s \in Slaves : NextOK(e, s) => NextOK(e, s)'
  BY DEF NextOK
<1>7. QueueOK(f, e)'
  BY <1>1, <1>2, <1>3, <1>6 DEF QueueOK
<1>8. TurnOK(f, e)'
  <2> SUFFICES ASSUME NEW t \in Slaves, Writer(t)'
               PROVE  (IF Pending(t)' THEN e[t] = Written(f)' + ntrec ELSE Begin' = Written(f)')
                      \/ Lagging(t)'
    BY DEF TurnOK
  <2>1. (IF Pending(t) THEN e[t] = Written(f) + ntrec ELSE Begin = Written(f)) \/ Lagging(t)
    BY <1>2, <1>3 DEF TurnOK
  <2>2. Lagging(t) => Lagging(t)'
    BY <1>3, <1>4, LaggingKept
  <2> QED BY <1>1, <1>3, <2>1, <2>2
<1>9. LostOK(f)'
  <2> SUFFICES ASSUME \A s \in Slaves : ~HasTurn(s)'
               PROVE  Begin' = Written(f)' \/ (Shortage' /\ (Rolling' \/ \E s \in Slaves : Failed(s)'))
    BY DEF LostOK
  <2>1. Begin = Written(f) \/ (Shortage /\ (Rolling \/ \E s \in Slaves : Failed(s)))
    BY <1>2, <1>3 DEF LostOK
  <2> QED BY <1>1, <2>1, LostKept
<1> QED BY <1>1, <1>5, <1>6, <1>7, <1>8, <1>9

(* A result that is read and full, or not there, is none of a failure.        *)
LEMMA TakenFull ==
  ASSUME Requests, MasterOK, SlavesOK, NEW s \in Slaves,
         (Take(s) /\ Full(s)) \/ (~sent[s] /\ UNCHANGED <<sent, result>>),
         UNCHANGED <<state, pipe, size>>
  PROVE  /\ \A x \in Slaves : Failed(x)' <=> Failed(x)
         /\ ~Failed(s)
<1>1. CASE ~sent[s] /\ UNCHANGED <<sent, result>>
  BY <1>1 DEF Failed
<1>2. CASE Take(s) /\ Full(s)
  <2>1. result[s] = ntrec /\ result[s] # NoResult /\ result[s] # 0
    BY <1>2, TapeAssumption DEF Take, Full
  <2>2. state[s] # "tell"  BY <2>1 DEF Requests
  <2>3. ~Failed(s)  BY <2>1, <2>2 DEF Failed
  <2>4. /\ ~sent'[s]
        /\ \A x \in Slaves : x # s => sent'[x] = sent[x] /\ result'[x] = result[x]
    BY <1>2 DEF Take, MasterOK, SlavesOK
  <2> QED BY <2>3, <2>4 DEF Failed
<1> QED BY <1>1, <1>2

(* The steps of the master, one by one.                                       *)
LEMMA FinishData ==
  ASSUME Reached, Finish, NEW f, NEW e, Data(f, e) PROVE Data(f, e)'
<1>1. /\ pc = "dump" /\ pc' = "rewind" /\ goal' = "done"
      /\ UNCHANGED <<kind, room, limit, next, slp, block, head, firstrec, blocks>>
      /\ UNCHANGED <<sent, rolled, stale, volumes>>
      /\ UNCHANGED <<state, pipe, buf, size, result, closed, caught, signalled>>
  BY DEF Finish, given, buffers, slaves
<1>2. Filling /\ Filling' /\ ~Rolling /\ ~Rolling' /\ At' = At /\ Begin' = Begin
  BY <1>1 DEF Filling, Rolling, At, Begin, Partial, volume
<1>3. \A s \in Slaves : Failed(s)' <=> Failed(s)  BY <1>1 DEF Failed
<1>4. At \in Int  BY Basics
<1>5. /\ Tapes(f)' /\ FrontOK(f)' /\ QueueOK(f, e)' /\ TurnOK(f, e)' /\ LostOK(f)'
      /\ Start(f)' = Start(f) /\ Prev(f)' = Prev(f) /\ Written(f)' = Written(f)
      /\ volume' = volume
  BY <1>1, <1>2, <1>3, <1>4, MasterKeeps
<1>6. FillOK(f)'
  BY <1>1, <1>2, <1>5 DEF FillOK, Data, Positions
<1>7. rolled = 0 => Unrolled(f, e)'
  BY <1>1, <1>2 DEF Data, Unrolled, HeldOK, Held, FirstOK, FailedOK, RollOK, NewOK
<1> QED BY <1>1, <1>5, <1>6, <1>7 DEF Data, Positions

LEMMA NextBlockData ==
  ASSUME Reached, NextBlock, NEW f, NEW e, Data(f, e) PROVE Data(f, e)'
<1>1. /\ pc = "result"
      /\ (Take(slp) /\ Full(slp)) \/ (~sent[slp] /\ UNCHANGED <<sent, result>>)
      /\ block' = [block EXCEPT ![slp] = <<>>]
      /\ firstrec' = [firstrec EXCEPT ![slp] = FirstRecord]
      /\ pc' \in {"rewind", "dump"} /\ (pc' = "rewind" => goal' = "new")
      /\ UNCHANGED <<kind, room, limit, next, slp, head, dated, rolled, stale, volumes>>
      /\ UNCHANGED <<state, pipe, buf, size, closed, caught, signalled>>
  BY DEF NextBlock, given, history
<1>2. /\ MasterOK /\ SlavesOK /\ Requests /\ slp \in Slaves
      /\ At \in Int /\ ntrec \in Nat /\ ntrec >= 2
  BY <1>1, Basics
<1>3. /\ Filling' /\ ~Filling /\ ~Rolling /\ ~Rolling'
  BY <1>1 DEF Filling, Rolling
<1>4. block'[slp] = <<>> /\ Len(block'[slp]) = 0
  BY <1>1, <1>2 DEF MasterOK
<1>5. At' = At /\ Begin' = Begin
  BY <1>1, <1>2, <1>3, <1>4 DEF At, Begin, Partial, volume
<1>6. (\A s \in Slaves : Failed(s)' <=> Failed(s)) /\ ~Failed(slp)
  BY <1>1, <1>2, TakenFull
<1>7. /\ Tapes(f)' /\ FrontOK(f)' /\ QueueOK(f, e)' /\ TurnOK(f, e)' /\ LostOK(f)'
      /\ Start(f)' = Start(f) /\ Prev(f)' = Prev(f) /\ Written(f)' = Written(f)
      /\ volume' = volume
      /\ \A s \in Slaves : NextOK(e, s) => NextOK(e, s)'
  BY <1>1, <1>2, <1>3, <1>5, <1>6, MasterKeeps
<1>8. FillOK(f)'
  BY <1>1, <1>4 DEF FillOK
<1>9. ASSUME rolled = 0 PROVE Unrolled(f, e)'
  <2>1. HeldOK(f, e) /\ FirstOK /\ FailedOK(f) /\ RollOK(f) /\ NewOK(f)
    BY <1>1, <1>9 DEF Data, Unrolled
  <2>2. \A s \in Slaves : sent'[s] => sent[s] /\ s # slp
    <3>1. Take(slp) \/ (~sent[slp] /\ UNCHANGED <<sent, result>>)  BY <1>1
    <3> QED BY <1>1, <1>2, <3>1, Taken
  <2>3. \A s \in Slaves : s # slp => block'[s] = block[s] /\ firstrec'[s] = firstrec[s]
    BY <1>1, <1>2 DEF MasterOK
  <2>4. HeldOK(f, e)'
    <3> SUFFICES ASSUME NEW s \in Slaves, Held(s)'
                 PROVE  /\ RightBlock(Start(f), Prev(f), volume, block[s], e[s])'
                        /\ firstrec'[s] + ntrec = e[s] /\ NextOK(e, s)'
      BY DEF HeldOK
    <3>1. sent[s] /\ s # slp  BY <1>3, <2>2 DEF Held
    <3>2. Held(s)  BY <1>1, <3>1 DEF Held
    <3> QED BY <1>7, <2>1, <2>3, <3>1, <3>2 DEF HeldOK
  <2>5. PICK r \in Slaves : r = Before(slp)  BY <1>2, RingFacts
  <2>6. /\ firstrec[r] + ntrec = e[r] /\ e[r] = Begin
        /\ RightBlock(Start(f), Prev(f), volume, block[r], e[r])
    <3>1. Held(r)  BY <1>1, <1>2, <2>5 DEF Held, Requests
    <3> QED BY <2>1, <2>5, <3>1 DEF HeldOK, NextOK
  <2>7. FirstOK'
    <3>1. firstrec'[slp'] = firstrec[r] + ntrec
      BY <1>1, <1>2, <2>5 DEF MasterOK, FirstRecord
    <3> QED BY <1>5, <2>6, <3>1 DEF FirstOK
  <2>8. FailedOK(f)'
    <3> SUFFICES ASSUME NEW s \in Slaves, Failed(s)'
                 PROVE  /\ volumes'[volume'] # <<>> /\ firstrec'[s] > 0
                        /\ firstrec'[s] <= Written(f)' \/ (s # slp' /\ Failed(Before(s))')
      BY DEF FailedOK
    <3>1. PICK x \in Slaves : x = Before(s)  BY RingFacts
    <3>2. Failed(Before(s))' <=> Failed(x)'  BY <3>1 DEF Failed
    <3>3. Failed(s) /\ s # slp  BY <1>6
    <3> QED BY <1>1, <1>6, <1>7, <2>1, <2>3, <3>1, <3>2, <3>3 DEF FailedOK
  <2>9. RollOK(f)'  BY <1>3 DEF RollOK
  <2>10. NewOK(f)'
    <3>1. Begin > Start(f)
      <4>1. Start(f) \in Nat  BY Positive DEF Data
      <4>2. Begin \in Int  BY Basics
      <4> QED BY <1>2, <2>6, <4>1, <4>2 DEF RightBlock
    <3> QED BY <1>1, <1>4, <1>5, <1>7, <3>1 DEF NewOK
  <2> QED BY <2>4, <2>7, <2>8, <2>9, <2>10 DEF Unrolled
<1> QED BY <1>1, <1>7, <1>8, <1>9 DEF Data, Positions

(* When the next slave still has a block, all have.                           *)
LEMMA AllSent ==
  ASSUME Requests, MasterOK, pc = "result", sent[slp] PROVE \A s \in Slaves : sent[s]
<1> DEFINE S == {s \in Slaves : sent[s]}
<1>1. slp \in S /\ slp \in Slaves  BY DEF MasterOK
<1>2. \A s \in Slaves : s \in S /\ s # Before(slp) => After(s) \in S
  BY RingFacts DEF Requests
<1>3. \A s \in Slaves : s \in S
  <2> HIDE DEF S
  <2> QED BY <1>1, <1>2, RingInduction
<1> QED BY <1>3

(* The slave whose result is short has been sent a block that begins where    *)
(* the tape ended, or before.                                                 *)
LEMMA EndOfTapeData ==
  ASSUME Reached, EndOfTape, NEW f, NEW e, Data(f, e) PROVE Data(f, e)'
<1>1. /\ pc = "result" /\ pc' = "drain" /\ Take(slp) /\ ~Full(slp)
      /\ UNCHANGED <<kind, room, limit, goal, next, slp, block, head, firstrec, blocks>>
      /\ UNCHANGED <<dated, rolled, stale, volumes>>
      /\ UNCHANGED <<state, pipe, buf, size, closed, caught, signalled>>
  BY DEF EndOfTape, given, buffers, history
<1>2. /\ MasterOK /\ SlavesOK /\ Requests /\ slp \in Slaves /\ At \in Int
  BY <1>1, Basics
<1>3. ~Filling' /\ ~Filling /\ Rolling'
  BY <1>1 DEF Filling, Rolling
<1>4. At' = At /\ Begin' = Begin
  BY <1>1, <1>3 DEF At, Begin, Partial, volume
<1>5. /\ Tapes(f)' /\ FrontOK(f)' /\ QueueOK(f, e)' /\ TurnOK(f, e)' /\ LostOK(f)'
      /\ Start(f)' = Start(f) /\ Prev(f)' = Prev(f) /\ Written(f)' = Written(f)
      /\ volume' = volume
      /\ \A s \in Slaves : NextOK(e, s) => NextOK(e, s)'
  BY <1>1, <1>2, <1>3, <1>4, MasterKeeps
<1>6. FillOK(f)'  BY <1>3 DEF FillOK
<1>7. ASSUME rolled = 0 PROVE Unrolled(f, e)'
  <2>1. HeldOK(f, e) /\ FailedOK(f)
    BY <1>1, <1>7 DEF Data, Unrolled
  <2>2. \A s \in Slaves : Held(s)
    BY <1>1, <1>2, AllSent DEF Take, Held
  <2>3. HeldOK(f, e)'
    BY <1>1, <1>5, <2>1, <2>2 DEF HeldOK
  <2>4. Failed(slp)
    BY <1>1, <1>2 DEF Take, Full, Failed, SlavesOK
  <2>5. RollOK(f)'
    BY <1>1, <1>2, <1>5, <2>1, <2>4 DEF FailedOK, RollOK
  <2> QED BY <1>1, <1>3, <2>3, <2>5 DEF Unrolled, FirstOK, FailedOK, NewOK
<1> QED BY <1>1, <1>5, <1>6, <1>7 DEF Data, Positions

(* Steps of the master that change neither buffers nor tapes.                 *)
LEMMA MasterRests ==
  ASSUME Reached, NEW f, NEW e, Data(f, e), pc # "quit",
         UNCHANGED <<room, next, slp, block, firstrec, volumes, rolled>>,
         UNCHANGED <<state, pipe, buf, size, caught, signalled>>,
         Rolling' <=> Rolling, Filling' <=> Filling,
         \A s \in Slaves : Failed(s) => Failed(s)' \/ Rolling',
         rolled = 0 => /\ pc' \notin {"dump", "result"}
                       /\ pc' = "rewind" /\ goal' = "new" => pc = "rewind" /\ goal = "new"
  PROVE  Data(f, e)'
<1>1. At' = At /\ Begin' = Begin
  BY DEF At, Begin, Partial, volume
<1>2. At \in Int  BY Basics
<1>3. /\ Tapes(f)' /\ FrontOK(f)' /\ QueueOK(f, e)' /\ TurnOK(f, e)' /\ LostOK(f)'
      /\ Start(f)' = Start(f) /\ Prev(f)' = Prev(f) /\ Written(f)' = Written(f)
      /\ volume' = volume
      /\ \A s \in Slaves : NextOK(e, s) => NextOK(e, s)'
  BY <1>1, <1>2, MasterKeeps
<1>4. FillOK(f)'
  BY <1>1, <1>3 DEF FillOK, Data, Positions
<1>5. ASSUME rolled = 0 PROVE Unrolled(f, e)'
  <2>1. HeldOK(f, e) /\ FirstOK /\ RollOK(f) /\ NewOK(f)
    BY <1>5 DEF Data, Unrolled
  <2>2. \A s \in Slaves : Held(s)' => Held(s)
    BY <1>5 DEF Held
  <2>3. HeldOK(f, e)'
    BY <1>3, <2>1, <2>2 DEF HeldOK
  <2>4. FirstOK'  BY <1>1, <2>1 DEF FirstOK
  <2>5. FailedOK(f)'  BY <1>5 DEF FailedOK
  <2>6. RollOK(f)'  BY <1>3, <2>1 DEF RollOK
  <2>7. NewOK(f)'  BY <1>1, <1>3, <1>5, <2>1 DEF NewOK
  <2> QED BY <2>3, <2>4, <2>5, <2>6, <2>7 DEF Unrolled
<1> QED BY <1>3, <1>4, <1>5 DEF Data, Positions

LEMMA QuitData == ASSUME Reached, quit, NEW f, NEW e, Data(f, e) PROVE Data(f, e)'
<1>1. UNCHANGED <<volumes, rolled>> /\ pc' = "quit"  BY DEF quit, history
<1> QED BY <1>1, SamePlaces DEF Data

LEMMA DrainData ==
  ASSUME Reached, NEW s \in Slaves, Drain(s), NEW f, NEW e, Data(f, e) PROVE Data(f, e)'
<1>1. /\ pc = "drain" /\ pc' = pc
      /\ UNCHANGED <<room, next, slp, block, firstrec, volumes, rolled>>
      /\ UNCHANGED <<state, pipe, buf, size, caught, signalled>>
  BY DEF Drain, given, buffers, history
<1>2. Rolling /\ Rolling' /\ ~Filling /\ ~Filling'
  BY <1>1 DEF Rolling, Filling
<1> QED BY <1>1, <1>2, MasterRests

LEMMA DrainedData == ASSUME Reached, Drained, NEW f, NEW e, Data(f, e) PROVE Data(f, e)'
<1>1. /\ pc = "drain" /\ pc' = "rewind" /\ goal' = "roll"
      /\ UNCHANGED <<room, next, slp, block, firstrec, volumes, rolled>>
      /\ UNCHANGED <<state, pipe, buf, size, caught, signalled>>
  BY DEF Drained, given, buffers, history, slaves
<1>2. Rolling /\ Rolling' /\ ~Filling /\ ~Filling'
  BY <1>1 DEF Rolling, Filling
<1> QED BY <1>1, <1>2, MasterRests

LEMMA TrewindData ==
  ASSUME Reached, NEW s \in Slaves, trewind(s), NEW f, NEW e, Data(f, e) PROVE Data(f, e)'
<1>1. CASE quit  BY <1>1, QuitData
<1>2. CASE ~quit
  <2>1. /\ (Take(s) /\ Full(s)) \/ (~sent[s] /\ UNCHANGED <<sent, result>>)
        /\ pc = "rewind" /\ UNCHANGED <<pc, goal>>
        /\ UNCHANGED <<room, next, slp, block, firstrec, volumes, rolled>>
        /\ UNCHANGED <<state, pipe, buf, size, caught, signalled>>
    BY <1>2 DEF trewind, given, buffers, history
  <2>2. Requests /\ MasterOK /\ SlavesOK  BY <2>1, Basics
  <2>3. \A x \in Slaves : Failed(x)' <=> Failed(x)
    BY <2>1, <2>2, TakenFull
  <2>4. (Rolling' <=> Rolling) /\ (Filling' <=> Filling)
    BY <2>1 DEF Rolling, Filling
  <2> QED BY <2>1, <2>3, <2>4, MasterRests
<1> QED BY <1>1, <1>2

LEMMA DoneData == ASSUME Reached, Done, NEW f, NEW e, Data(f, e) PROVE Data(f, e)'
<1>1. /\ pc = "rewind" /\ goal = "done" /\ pc' = "done"
      /\ UNCHANGED <<room, next, slp, block, firstrec, volumes, rolled, sent, result>>
      /\ UNCHANGED <<state, pipe, buf, size, caught, signalled>>
  BY DEF Done, Rewound, given, buffers, history, slaves
<1>2. ~Rolling /\ ~Rolling' /\ Filling /\ Filling'
  BY <1>1 DEF Rolling, Filling
<1>3. \A s \in Slaves : Failed(s)' <=> Failed(s)  BY <1>1 DEF Failed
<1> QED BY <1>1, <1>2, <1>3, MasterRests

LEMMA FirstData == ASSUME Reached, First, NEW f, NEW e, Data(f, e) PROVE Data(f, e)'
<1>1. CASE quit  BY <1>1, QuitData
<1>2. CASE ~quit
  <2>1. /\ Take(slp) /\ Full(slp)
        /\ pc = "first" /\ pc' = "dump"
        /\ UNCHANGED <<room, next, slp, block, firstrec, volumes, rolled>>
        /\ UNCHANGED <<state, pipe, buf, size, caught, signalled>>
    BY <1>2 DEF First, given, buffers, history
  <2>2. Requests /\ MasterOK /\ SlavesOK /\ slp \in Slaves /\ rolled # 0
    BY <2>1, Basics DEF Ending
  <2>3. \A x \in Slaves : Failed(x)' <=> Failed(x)
    BY <2>1, <2>2, TakenFull
  <2>4. ~Rolling /\ ~Rolling' /\ Filling /\ Filling'
    BY <2>1 DEF Rolling, Filling
  <2> QED BY <2>1, <2>2, <2>3, <2>4, MasterRests
<1> QED BY <1>1, <1>2

(* What the master puts into a buffer is the record that belongs there.       *)
LEMMA FillKept ==
  ASSUME Reached, NEW f, NEW e, Data(f, e), pc = "dump", next <= Ends
  PROVE  LET b == Append(block[slp], Record(next))
         IN \A i \in 1..(Len(block[slp]) + 1) :
              Right(Start(f), Prev(f), volume, b[i], Begin + i - 1)
<1>1. /\ MasterOK /\ block[slp] \in Seq(Records) /\ Len(block[slp]) \in Nat
      /\ volume \in Nat \ {0} /\ next \in Nat
  BY Basics
<1>2. Record(next) \in Records  BY <1>1, RecordOK
<1>3. Filling  BY DEF Filling, Rolling
<1>4. Partial = Len(block[slp]) /\ At = next - 1 + volume /\ At = Begin + Len(block[slp]) /\ Begin \in Int
  <2>1. Partial = Len(block[slp])  BY <1>3 DEF Partial
  <2> QED BY <1>1, <2>1 DEF At, Begin
<1>5. Start(f) \in Nat /\ Prev(f) \in Nat /\ At > Start(f)
  BY Positive DEF Data, Positions, FrontOK
<1> SUFFICES ASSUME NEW i \in 1..(Len(block[slp]) + 1)
             PROVE  Right(Start(f), Prev(f), volume, Append(block[slp], Record(next))[i], Begin + i - 1)
  OBVIOUS
<1>6. CASE i = Len(block[slp]) + 1
  <2>1. Append(block[slp], Record(next))[i] = Record(next)
    BY <1>1, <1>2, <1>6, AppendProperties
  <2>2. Begin + i - 1 = At /\ At + 1 - volume = next
    BY <1>1, <1>4, <1>6
  <2> QED BY <1>5, <2>1, <2>2 DEF Right
<1>7. CASE i # Len(block[slp]) + 1
  <2>1. i \in 1..Len(block[slp])
    BY <1>1, <1>7
  <2>2. Append(block[slp], Record(next))[i] = block[slp][i]
    BY <1>1, <1>2, <2>1, AppendProperties
  <2> QED BY <1>3, <2>1, <2>2 DEF Data, Positions, FillOK
<1> QED BY <1>6, <1>7

(* A record that does not fill the block.                                     *)
LEMMA DumpPartData ==
  ASSUME Reached, Dump, Len(block[slp]) + 1 < ntrec, NEW f, NEW e, Data(f, e)
  PROVE  Data(f, e)'
<1> DEFINE b == Append(block[slp], Record(next))
<1>1. /\ MasterOK /\ Requests /\ slp \in Slaves /\ pc = "dump" /\ next <= Ends
      /\ block[slp] \in Seq(Records) /\ Len(block[slp]) \in Nat
      /\ volume \in Nat /\ next \in Nat /\ Begin \in Int
  BY Basics DEF Dump
<1>2. b \in Seq(Records) /\ Len(b) = Len(block[slp]) + 1
  BY <1>1, RecordOK, AppendProperties
<1>3. \A i \in 1..(Len(block[slp]) + 1) : Right(Start(f), Prev(f), volume, b[i], Begin + i - 1)
  BY <1>1, FillKept
<1>4. /\ block' = [block EXCEPT ![slp] = b]
      /\ next' = next + 1
      /\ UNCHANGED <<room, pc, goal, slp, firstrec, sent, rolled, volumes>>
      /\ UNCHANGED <<state, pipe, buf, size, result, caught, signalled>>
  BY <1>2 DEF Dump, Put, given, history
<1> HIDE DEF b
<1>5. Filling /\ Filling' /\ ~Rolling /\ ~Rolling'
  BY <1>1, <1>4 DEF Filling, Rolling
<1>6. block'[slp'] = b  BY <1>1, <1>4 DEF MasterOK
<1>7. At' = At + 1 /\ Begin' = Begin /\ At \in Int /\ volume' = volume
  <2>1. volume' = volume  BY <1>4 DEF volume
  <2>2. Partial = Len(block[slp]) /\ Partial' = Len(block[slp]) + 1
    BY <1>2, <1>5, <1>6 DEF Partial
  <2> QED BY <1>1, <1>4, <2>1, <2>2 DEF At, Begin
<1>8. \A s \in Slaves : Failed(s)' <=> Failed(s)  BY <1>4 DEF Failed
<1>9. /\ Tapes(f)' /\ FrontOK(f)' /\ QueueOK(f, e)' /\ TurnOK(f, e)' /\ LostOK(f)'
      /\ Start(f)' = Start(f) /\ Prev(f)' = Prev(f) /\ Written(f)' = Written(f)
      /\ \A s \in Slaves : NextOK(e, s) => NextOK(e, s)'
  BY <1>1, <1>4, <1>5, <1>7, <1>8, MasterKeeps
<1>10. FillOK(f)'
  BY <1>2, <1>3, <1>6, <1>7, <1>9 DEF FillOK
<1>11. ASSUME rolled = 0 PROVE Unrolled(f, e)'
  <2>1. HeldOK(f, e) /\ FirstOK /\ FailedOK(f)
    BY <1>1, <1>11 DEF Data, Unrolled
  <2>2. \A s \in Slaves : Held(s)' => Held(s) /\ block'[s] = block[s]
    BY <1>1, <1>4, <1>5 DEF Held, Requests, MasterOK
  <2>3. HeldOK(f, e)'
    BY <1>4, <1>7, <1>9, <2>1, <2>2 DEF HeldOK
  <2>4. FirstOK'  BY <1>4, <1>5, <1>7, <2>1 DEF FirstOK
  <2>5. FailedOK(f)'
    <3> SUFFICES ASSUME NEW s \in Slaves, Failed(s)'
                 PROVE  /\ volumes'[volume'] # <<>> /\ firstrec'[s] > 0
                        /\ firstrec'[s] <= Written(f)' \/ (s # slp' /\ Failed(Before(s))')
      BY DEF FailedOK
    <3>1. PICK x \in Slaves : x = Before(s)  BY RingFacts
    <3>2. Failed(Before(s))' <=> Failed(x)'  BY <3>1 DEF Failed
    <3> QED BY <1>1, <1>4, <1>7, <1>8, <1>9, <2>1, <3>1, <3>2 DEF FailedOK
  <2> QED BY <1>1, <1>4, <1>5, <2>3, <2>4, <2>5 DEF Unrolled, RollOK, NewOK
<1> QED BY <1>1, <1>4, <1>9, <1>10, <1>11 DEF Data, Positions

(* A record that fills it: the block is sent, and its end is where the next   *)
(* one begins.                                                                *)
LEMMA DumpFullData ==
  ASSUME Reached, Dump, ~(Len(block[slp]) + 1 < ntrec), NEW f, NEW e, Data(f, e)
  PROVE  \E g : Data(f, g)'
<1> DEFINE b == Append(block[slp], Record(next))
<1>1. /\ MasterOK /\ SlavesOK /\ Requests /\ Sizes /\ Turns /\ slp \in Slaves
      /\ pc = "dump" /\ next <= Ends
      /\ block[slp] \in Seq(Records) /\ Len(block[slp]) \in Nat
      /\ volume \in Nat /\ next \in Nat /\ Begin \in Int /\ ntrec \in Nat /\ ntrec >= 2
  BY Basics DEF Dump
<1>2. Len(block[slp]) + 1 = ntrec
  <2>1. Len(block[slp]) < ntrec  BY <1>1 DEF Sizes, Filling, Rolling
  <2> QED BY <1>1, <2>1
<1>3. b \in Seq(Records) /\ Len(b) = ntrec /\ b # <<>>
  <2>1. b \in Seq(Records) /\ Len(b) = Len(block[slp]) + 1 /\ b # <<>>
    BY <1>1, RecordOK, AppendProperties
  <2> QED BY <1>2, <2>1
<1>4. \A i \in 1..ntrec : Right(Start(f), Prev(f), volume, b[i], Begin + i - 1)
  BY <1>1, <1>2, FillKept
<1>5. /\ block' = [block EXCEPT ![slp] = b]
      /\ next' = next + 1
      /\ pipe' = [pipe EXCEPT ![slp] = b]
      /\ sent' = [sent EXCEPT ![slp] = TRUE]
      /\ slp' = After(slp) /\ pc' = "result"
      /\ UNCHANGED <<room, goal, firstrec, rolled, volumes>>
      /\ UNCHANGED <<state, buf, size, result, caught, signalled>>
  <2>1. ~(Len(b) < ntrec)
    BY <1>1, <1>3
  <2> QED BY <2>1 DEF Dump, Put, given, history
<1> HIDE DEF b
<1>6. PICK o \in Slaves : o = slp  BY <1>1
<1>7. PICK p \in Slaves : p = slp' /\ p = After(o) /\ Before(p) = o
  BY <1>5, <1>6, RingFacts
<1>8. /\ Filling /\ ~Filling' /\ ~Rolling /\ ~Rolling'
  BY <1>1, <1>5 DEF Filling, Rolling
<1>9. Tapes(f) /\ e \in [Slaves -> Nat] /\ Positions(f, e) /\ (rolled = 0 => Unrolled(f, e))
  BY <1>1 DEF Data
<1>10. /\ Tapes(f)' /\ volume' = volume
       /\ Start(f)' = Start(f) /\ Prev(f)' = Prev(f) /\ Written(f)' = Written(f)
       /\ Start(f) \in Nat
  BY <1>5, <1>9, SamePlaces, Positive
<1>11. At' = At + 1 /\ Begin' = Begin + ntrec /\ At' = Begin' /\ Begin >= Start(f) /\ At > Start(f) /\ At \in Int
  <2>1. Partial = ntrec - 1 /\ Partial' = 0  BY <1>1, <1>2, <1>8 DEF Partial
  <2>2. At = next - 1 + volume /\ At' = next + volume  BY <1>1, <1>5, <1>10 DEF At
  <2>3. Begin >= Start(f) /\ At > Start(f)  BY <1>9 DEF Positions, FrontOK
  <2> QED BY <1>1, <2>1, <2>2, <2>3 DEF Begin
<1>12. PICK g : /\ g \in [Slaves -> Nat] /\ g[o] = Begin' /\ \A x \in Slaves : x # o => g[x] = e[x]
  <2>1. [e EXCEPT ![o] = Begin'] \in [Slaves -> Nat]  BY <1>1, <1>9, <1>10, <1>11
  <2> QED BY <1>9, <2>1
<1>13. \A x \in Slaves : Pending(x)' <=> Pending(x) \/ x = o
  BY <1>1, <1>3, <1>5, <1>6 DEF Pending, SlavesOK
<1>14. ~sent[o] /\ ~Pending(o) /\ result[o] = NoResult /\ state[o] \in {"read", "pass"}
  BY <1>1, <1>6 DEF Requests, Pending, SlavesOK, States
<1>15. /\ \A x \in Slaves : Failed(x)' <=> Failed(x)
       /\ ~Failed(o)
  BY <1>1, <1>5, <1>6, <1>14 DEF Failed, MasterOK, NoResult
<1>16. \A x \in Slaves : x # o /\ NextOK(e, x) => NextOK(g, x)'
  <2> SUFFICES ASSUME NEW x \in Slaves, x # o, NextOK(e, x)
               PROVE  g[After(x)] = g[x] + ntrec
    BY <1>7 DEF NextOK
  <2>1. CASE x = Before(o)
    BY <1>6, <1>11, <1>12, <2>1, RingFacts DEF NextOK
  <2>2. CASE x # Before(o)
    BY <1>6, <1>12, <2>2, RingFacts DEF NextOK
  <2> QED BY <2>1, <2>2
<1>17. NextOK(g, o)'  BY <1>7, <1>12 DEF NextOK
<1>18. RightBlock(Start(f), Prev(f), volume, b, g[o])
  <2>1. g[o] = Begin + ntrec  BY <1>11, <1>12
  <2>2. \A i \in 1..ntrec : g[o] - ntrec + i - 1 = Begin + i - 1
    BY <1>1, <2>1
  <2> QED BY <1>1, <1>4, <1>10, <1>11, <2>1, <2>2 DEF RightBlock
<1>19. Positions(f, g)'
  <2>1. QueueOK(f, e) /\ TurnOK(f, e)
    BY <1>9 DEF Positions
  <2>2. FrontOK(f)'  BY <1>1, <1>10, <1>11 DEF FrontOK
  <2>3. FillOK(f)'  BY <1>8 DEF FillOK
  <2>4. QueueOK(f, g)'
    <3> SUFFICES ASSUME NEW x \in Slaves, Pending(x)'
                 PROVE  RightBlock(Start(f)', Prev(f)', volume', Content(x)', g[x]) /\ NextOK(g, x)'
      BY DEF QueueOK
    <3>1. CASE x = o
      <4>1. Content(x)' = b  BY <1>1, <1>3, <1>5, <1>6, <3>1 DEF Content, SlavesOK
      <4> QED BY <1>10, <1>17, <1>18, <3>1, <4>1
    <3>2. CASE x # o
      <4>1. Content(x)' = Content(x)  BY <1>1, <1>5, <1>6, <3>2 DEF Content, SlavesOK
      <4> QED BY <1>10, <1>12, <1>13, <1>16, <2>1, <3>2, <4>1 DEF QueueOK
    <3> QED BY <3>1, <3>2
  <2>5. TurnOK(f, g)'
    <3> SUFFICES ASSUME NEW t \in Slaves, Writer(t)'
                 PROVE  (IF Pending(t)' THEN g[t] = Written(f)' + ntrec ELSE Begin' = Written(f)')
                        \/ Lagging(t)'
      BY DEF TurnOK
    <3>1. Writer(t)  BY <1>5 DEF Writer, HasTurn
    <3>2. ~Pending(t) => t = o  BY <1>1, <1>6, <3>1 DEF Turns, Stretch
    <3>3. Pending(t)'  BY <1>13, <3>2
    <3>4. (IF Pending(t) THEN e[t] = Written(f) + ntrec ELSE Begin = Written(f)) \/ Lagging(t)
      BY <2>1, <3>1 DEF TurnOK
    <3>5. CASE Lagging(t)
      <4>1. PICK r \in Slaves : r = Before(t)  BY RingFacts
      <4>2. Shortage /\ Failed(r)  BY <1>8, <3>5, <4>1 DEF Lagging
      <4>3. Shortage'  BY <1>5, <1>10, <4>2 DEF Shortage
      <4>4. t # p  BY <1>7, <1>15, <4>1, <4>2
      <4>5. Lagging(t)' <=> Shortage' /\ (Rolling' \/ (Failed(r)' /\ (Pending(t)' => t # p)))
        BY <1>7, <4>1 DEF Lagging, Failed
      <4> QED BY <1>15, <4>2, <4>3, <4>4, <4>5
    <3>6. CASE ~Lagging(t)
      <4>1. t = o => g[t] = Written(f) + ntrec
        BY <1>11, <1>12, <1>14, <3>4, <3>6
      <4>2. t # o => g[t] = Written(f) + ntrec
        BY <1>12, <3>2, <3>4, <3>6
      <4> QED BY <1>10, <3>3, <4>1, <4>2
    <3> QED BY <3>5, <3>6
  <2>6. LostOK(f)'
    <3>1. \A s \in Slaves : state[s] # "exit"  BY <1>1 DEF Requests
    <3>2. \E s \in Slaves : HasTurn(s)  BY <3>1 DEF Reached, Inv, Kept
    <3> QED BY <1>5, <3>2 DEF LostOK, HasTurn
  <2> QED BY <2>2, <2>3, <2>4, <2>5, <2>6 DEF Positions
<1>20. ASSUME rolled = 0 PROVE Unrolled(f, g)'
  <2>1. HeldOK(f, e) /\ FirstOK /\ FailedOK(f)
    BY <1>9, <1>20 DEF Unrolled
  <2>2. HeldOK(f, g)'
    <3> SUFFICES ASSUME NEW x \in Slaves, Held(x)'
                 PROVE  /\ RightBlock(Start(f)', Prev(f)', volume', block'[x], g[x])
                        /\ firstrec'[x] + ntrec = g[x] /\ NextOK(g, x)'
      BY DEF HeldOK
    <3>1. CASE x = o
      <4>1. block'[x] = b  BY <1>1, <1>5, <1>6, <3>1 DEF MasterOK
      <4>2. firstrec[o] = Begin  BY <1>6, <1>8, <2>1 DEF FirstOK
      <4> QED BY <1>5, <1>10, <1>11, <1>12, <1>17, <1>18, <3>1, <4>1, <4>2
    <3>2. CASE x # o
      <4>1. block'[x] = block[x]  BY <1>1, <1>5, <1>6, <3>2 DEF MasterOK
      <4>2. Held(x)  BY <1>1, <1>5, <1>6, <1>8, <3>2 DEF Held, MasterOK
      <4> QED BY <1>5, <1>10, <1>12, <1>16, <2>1, <3>2, <4>1, <4>2 DEF HeldOK
    <3> QED BY <3>1, <3>2
  <2>3. FailedOK(f)'
    <3> SUFFICES ASSUME NEW s \in Slaves, Failed(s)'
                 PROVE  /\ volumes'[volume'] # <<>> /\ firstrec'[s] > 0
                        /\ firstrec'[s] <= Written(f)' \/ (s # slp' /\ Failed(Before(s))')
      BY DEF FailedOK
    <3>1. PICK x \in Slaves : x = Before(s)  BY RingFacts
    <3>2. Failed(Before(s))' <=> Failed(x)'  BY <3>1 DEF Failed
    <3>3. Failed(s)  BY <1>15
    <3>4. /\ volumes[volume] # <<>> /\ firstrec[s] > 0
          /\ firstrec[s] <= Written(f) \/ Failed(x)
      BY <1>1, <2>1, <3>1, <3>3 DEF FailedOK
    <3>5. Failed(x) => s # p  BY <1>7, <1>15, <3>1
    <3> QED BY <1>5, <1>7, <1>10, <1>15, <3>2, <3>4, <3>5
  <2> QED BY <1>5, <1>8, <2>2, <2>3 DEF Unrolled, FirstOK, RollOK, NewOK
<1> QED BY <1>5, <1>10, <1>12, <1>19, <1>20 DEF Data

(* When all slaves have written what they had to, the tape ends where the     *)
(* buffer that is being filled begins.                                        *)
LEMMA Settled ==
  ASSUME Reached, NEW f, NEW e, Data(f, e), pc # "quit", ~Rolling,
         \A s \in Slaves : state[s] = "exit" /\ ~sent[s]
  PROVE  Begin = Written(f)
<1>1. Requests /\ TurnOK(f, e) /\ LostOK(f)  BY Basics DEF Data, Positions
<1>2. \A s \in Slaves : ~Pending(s) /\ ~Failed(s)
  BY <1>1 DEF Requests, Failed
<1>3. \A s \in Slaves : ~Lagging(s)  BY <1>2, RingFacts DEF Lagging
<1>4. CASE \E s \in Slaves : HasTurn(s)
  <2>1. PICK s \in Slaves : HasTurn(s)  BY <1>4
  <2>2. Writer(s)  BY <2>1 DEF Writer
  <2> QED BY <1>1, <1>2, <1>3, <2>2 DEF TurnOK
<1>5. CASE \A s \in Slaves : ~HasTurn(s)
  BY <1>1, <1>2, <1>5 DEF LostOK
<1> QED BY <1>4, <1>5

(* A new volume is mounted that begins at position b.                         *)
LEMMA NewTape ==
  ASSUME Reached, NEW f, Tapes(f), volumes' = Append(volumes, <<>>), volumes[volume] # <<>>,
         NEW b \in Nat, rolled = 0,
         \/ rolled' = 0 /\ b = Written(f)
         \/ rolled' = volume + 1 /\ 0 < b /\ b <= Written(f)
  PROVE  \E h : Tapes(h)' /\ Start(h)' = b /\ Prev(h)' = Written(f) /\ Written(h)' = b
<1>1. /\ VolumesOK /\ volume \in Nat \ {0} /\ volume \in 1..volume
  BY Basics
<1>2. PICK n \in Nat : n = volume + 1
  BY <1>1
<1>3. /\ volume' = n /\ volumes'[n] = <<>> /\ n - 1 = volume /\ n # 1
      /\ \A v \in 1..(n - 1) : volumes'[v] = volumes[v]
  <2>1. /\ volume' = volume + 1 /\ volumes'[volume'] = <<>>
        /\ \A v \in 1..volume : volumes'[v] = volumes[v]
    BY <1>1, NewVolume
  <2>2. volume' = n /\ n - 1 = volume /\ n # 1  BY <1>1, <1>2, <2>1
  <2> QED BY <2>1, <2>2
<1>4. f \in [1..(n - 1) -> Nat] /\ f[1] = 0  BY <1>3 DEF Tapes
<1>5. PICK h : h = [v \in 1..n |-> IF v < n THEN f[v] ELSE b]
  OBVIOUS
<1>6. /\ h \in [1..n -> Nat] /\ h[1] = 0 /\ h[n] = b
      /\ \A v \in 1..(n - 1) : h[v] = f[v]
  BY <1>1, <1>2, <1>4, <1>5
<1>7. ASSUME NEW v \in 1..(n - 1) PROVE Came(h, v)' = Came(f, v)
  <2>1. v # 1 => v - 1 \in 1..(n - 1)  OBVIOUS
  <2> QED BY <1>3, <1>6, <2>1 DEF Came
<1>8. Came(h, n)' = Written(f)
  <2>1. volume \in 1..(n - 1)  BY <1>1, <1>3
  <2>2. Came(h, n)' = h[volume] + Len(volumes'[volume])  BY <1>3 DEF Came
  <2> QED BY <1>3, <1>6, <2>1, <2>2 DEF Written
<1>9. Start(h)' = b /\ Prev(h)' = Written(f) /\ Written(h)' = b
  <2>1. Start(h)' = b  BY <1>3, <1>6 DEF Start
  <2>2. Prev(h)' = Written(f)  BY <1>3, <1>8 DEF Prev, Came
  <2>3. volumes'[n] = <<>> /\ Len(<<>>) = 0  BY <1>3
  <2>4. Written(h)' = h[n] + Len(volumes'[n])  BY <1>3 DEF Written
  <2>5. Written(h)' = b  BY <1>6, <2>3, <2>4
  <2> QED BY <2>1, <2>2, <2>5
<1>10. \A v \in 2..n : Follows(h, v)'
  <2> SUFFICES ASSUME NEW v \in 2..n PROVE Follows(h, v)'
    OBVIOUS
  <2>1. CASE v = n
    <3>1. volumes'[v - 1] # <<>>  BY <1>1, <1>3, <2>1
    <3>2. Came(h, v)' = Written(f) /\ h[v] = b  BY <1>6, <1>8, <2>1 DEF Came
    <3>3. n # 0  BY <1>1, <1>2
    <3> QED BY <1>2, <2>1, <3>1, <3>2, <3>3 DEF Follows
  <2>2. CASE v # n
    <3>1. v \in 1..(n - 1) /\ v - 1 \in 1..(n - 1) /\ v \in 2..volume /\ v # 0  BY <1>3, <2>2
    <3>2. Follows(f, v)  BY <3>1 DEF Tapes
    <3>3. v # rolled /\ v # rolled'  BY <1>2, <2>2, <3>1
    <3> QED BY <1>3, <1>6, <1>7, <3>1, <3>2, <3>3 DEF Follows
  <2> QED BY <2>1, <2>2
<1>11. ASSUME NEW v \in 1..n, NEW j \in 1..Len(volumes'[v])
       PROVE  /\ j = 1 => volumes'[v][j] = Header(h[v])
              /\ h[v] + j - 1 > Came(h, v)' => volumes'[v][j] = Record(h[v] + j - v)
  <2>1. v # n
    <3> SUFFICES ASSUME v = n PROVE FALSE
      OBVIOUS
    <3>1. volumes'[v] = <<>>  BY <1>3
    <3>2. Len(volumes'[v]) = 0  BY <3>1
    <3>3. j \in 1..0  BY <3>2
    <3> QED BY <3>3
  <2>2. v \in 1..(n - 1) /\ v \in 1..volume  BY <1>3, <2>1
  <2>3. j \in 1..Len(volumes[v])  BY <1>3, <2>2
  <2>4. /\ j = 1 => volumes[v][j] = Header(f[v])
        /\ f[v] + j - 1 > Came(f, v) => volumes[v][j] = Record(f[v] + j - v)
    BY <2>2, <2>3 DEF Tapes
  <2>5. volumes'[v] = volumes[v] /\ h[v] = f[v] /\ Came(h, v)' = Came(f, v)
    BY <1>3, <1>6, <1>7, <2>2
  <2> QED BY <2>4, <2>5
<1>12. Tapes(h)'
  BY <1>3, <1>6, <1>10, <1>11 DEF Tapes
<1> QED BY <1>9, <1>12

(* A new volume begins where the last one ends.                               *)
LEMMA StartnewtapeData ==
  ASSUME Reached, startnewtape, Lucky', NEW f, NEW e, Data(f, e)
  PROVE  \E h, g : Data(h, g)'
<1>1. /\ pc = "rewind" /\ goal = "new" /\ \A s \in Slaves : closed[s] /\ state[s] = "exit"
      /\ volumes' = Append(volumes, <<>>) /\ enslave(Idle)
      /\ block' = [block EXCEPT ![slp] = <<VolumeHeader>>]
      /\ sent' = [s \in Slaves |-> FALSE] /\ pc' = "dump"
      /\ UNCHANGED <<room, goal, next, slp, firstrec, rolled>>
  BY DEF startnewtape, Rewound, given, history
<1>2. /\ MasterOK /\ VolumesOK /\ Ending /\ Requests /\ slp \in Slaves
      /\ volume \in Nat \ {0} /\ next \in Nat /\ volumes[volume] \in Seq(Records)
  BY <1>1, Basics
<1>3. /\ SlavesOK'
      /\ \A s \in Slaves : ~Pending(s)' /\ (HasTurn(s)' <=> s = slp) /\ (Writer(s)' <=> s = slp)
  <2>1. \A s \in Slaves : Idle[s] = <<>>  BY DEF Idle
  <2> QED BY <1>1, <1>2, <2>1, NoBlock, NewSlaves
<1>4. volume' = volume + 1 /\ volumes'[volume'] = <<>>
  BY <1>1, <1>2, NewVolume
<1>5. rolled = 0 /\ rolled' = 0
  BY <1>1, <1>2, <1>4 DEF Lucky, Ending, MasterOK
<1>6. Filling /\ ~Rolling /\ Filling' /\ ~Rolling'
  BY <1>1 DEF Filling, Rolling
<1>7. /\ Tapes(f) /\ e \in [Slaves -> Nat] /\ firstrec[slp] = Begin
      /\ Begin > Start(f) /\ block[slp] = <<>>
  BY <1>1, <1>5, <1>6 DEF Data, Unrolled, FirstOK, NewOK
<1>8. Begin = Written(f)
  <2>1. \A s \in Slaves : ~sent[s]  BY <1>1, <1>2 DEF Requests
  <2> QED BY <1>1, <1>6, <2>1, Settled
<1>9. Start(f) \in Nat /\ Begin \in Nat /\ volumes[volume] # <<>>
  <2>1. Start(f) \in Nat /\ Written(f) \in Nat  BY <1>7, Positive
  <2>2. Len(volumes[volume]) # 0  BY <1>7, <1>8, <2>1 DEF Start, Written
  <2> QED BY <1>2, <1>8, <2>1, <2>2
<1>10. PICK b : b = Begin  OBVIOUS
<1>11. PICK h : Tapes(h)' /\ Start(h)' = b /\ Prev(h)' = b /\ Written(h)' = b
  BY <1>1, <1>5, <1>7, <1>8, <1>9, <1>10, NewTape
<1>12. At' = b + 1 /\ Begin' = b
  <2>1. At = b  BY <1>2, <1>6, <1>7, <1>10 DEF Begin, Partial, At
  <2>2. At' = At + 1  BY <1>1, <1>2, <1>4 DEF At
  <2>3. block'[slp'] = <<VolumeHeader>>  BY <1>1, <1>2 DEF MasterOK
  <2>4. Partial' = 1  BY <1>6, <2>3 DEF Partial
  <2> QED BY <1>9, <1>10, <2>1, <2>2, <2>4 DEF Begin
<1>13. Positions(h, e)'
  <2>1. FrontOK(h)'  BY <1>9, <1>10, <1>11, <1>12 DEF FrontOK
  <2>2. FillOK(h)'
    <3>1. block'[slp'] = <<Header(b)>>
      BY <1>1, <1>2, <1>7, <1>10 DEF MasterOK, VolumeHeader
    <3>2. Right(b, b, volume', Header(b), b + 1 - 1)
      BY <1>9, <1>10 DEF Right
    <3> QED BY <1>11, <1>12, <3>1, <3>2 DEF FillOK
  <2>3. QueueOK(h, e)'  BY <1>3 DEF QueueOK
  <2>4. TurnOK(h, e)'  BY <1>3, <1>11, <1>12 DEF TurnOK
  <2>5. LostOK(h)'  BY <1>2, <1>3 DEF LostOK
  <2> QED BY <2>1, <2>2, <2>3, <2>4, <2>5 DEF Positions
<1>14. Unrolled(h, e)'
  <2>1. firstrec'[slp'] = Begin'  BY <1>1, <1>7, <1>10, <1>12
  <2> QED BY <1>1, <1>6, <2>1 DEF Unrolled, HeldOK, Held, FirstOK, FailedOK, Failed, RollOK, NewOK
<1> QED BY <1>7, <1>11, <1>13, <1>14 DEF Data

(* The blocks of the roll forward: every record moves on by one.              *)
LEMMA ShiftedIs ==
  ASSUME Reached, Rolling, NEW s \in Slaves
  PROVE  /\ block[s] \in Seq(Records) /\ Len(block[s]) = ntrec
         /\ Shifted(s) \in Seq(Records) /\ Len(Shifted(s)) = ntrec /\ Shifted(s) # <<>>
         /\ Shifted(s)[1] = IF s = slp THEN VolumeHeader ELSE block[Before(s)][ntrec]
         /\ \A i \in 2..ntrec : Shifted(s)[i] = block[s][i - 1]
<1>1. MasterOK /\ Sizes /\ slp \in Slaves /\ ntrec \in Nat /\ ntrec >= 2
  BY Basics DEF Rolling
<1>2. \A x \in Slaves : block[x] \in Seq(Records) /\ Len(block[x]) = ntrec
  BY <1>1 DEF Sizes, MasterOK
<1>3. \A x \in Slaves : block[x][ntrec] \in Records
  BY <1>1, <1>2
<1>4. VolumeHeader \in Records
  BY <1>1, RecordsOK DEF VolumeHeader, MasterOK
<1> DEFINE x == IF s = slp THEN VolumeHeader ELSE block[Before(s)][ntrec]
           rest == SubSeq(block[s], 1, ntrec - 1)
<1>5. x \in Records  BY <1>3, <1>4, RingFacts
<1>6. /\ rest \in Seq(Records) /\ Len(rest) = ntrec - 1
      /\ \A i \in 1..(ntrec - 1) : rest[i] = block[s][i]
  BY <1>1, <1>2
<1>7. Shifted(s) = <<x>> \o rest  BY DEF Shifted
<1> HIDE DEF rest
<1>8. <<x>> \in Seq(Records) /\ Len(<<x>>) = 1 /\ <<x>>[1] = x  BY <1>5
<1> HIDE DEF x
<1>9. /\ <<x>> \o rest \in Seq(Records) /\ Len(<<x>> \o rest) = 1 + (ntrec - 1)
      /\ \A i \in 1..(1 + (ntrec - 1)) : (<<x>> \o rest)[i] = IF i <= 1 THEN <<x>>[i] ELSE rest[i - 1]
  BY <1>6, <1>8, ConcatProperties
<1>10. \A i \in 1..ntrec : Shifted(s)[i] = IF i = 1 THEN x ELSE rest[i - 1]
  BY <1>1, <1>7, <1>8, <1>9
<1>11. Len(Shifted(s)) = ntrec /\ Shifted(s) \in Seq(Records)
  BY <1>1, <1>7, <1>9
<1>12. Shifted(s)[1] = x  BY <1>1, <1>10
<1>13. \A i \in 2..ntrec : Shifted(s)[i] = block[s][i - 1]
  <2> SUFFICES ASSUME NEW i \in 2..ntrec PROVE Shifted(s)[i] = block[s][i - 1]
    OBVIOUS
  <2>1. i - 1 \in 1..(ntrec - 1) /\ i \in 1..ntrec /\ i # 1  BY <1>1
  <2> QED BY <1>6, <1>10, <2>1
<1> QED BY <1>1, <1>2, <1>11, <1>12, <1>13 DEF x

(* A record that is right one place before, on a volume less, is right.       *)
LEMMA Moved ==
  ASSUME NEW h \in Nat, NEW c \in Nat, NEW v \in Nat, NEW x, NEW q \in Int,
         Right(h, c, v, x, q - 1), NEW b \in Nat, NEW d \in Nat, q > b, d > c
  PROVE  Right(b, d, v + 1, x, q)
<1>1. q # b /\ (q > d => q - 1 > c)  OBVIOUS
<1>2. q - 1 + 1 - v = q + 1 - (v + 1)  OBVIOUS
<1> QED BY <1>1, <1>2 DEF Right

(* The volume of the roll forward begins with the block whose result was      *)
(* short: at c_firstrec, not after the end of the last volume, so that        *)
(* restore skips what both have.                                              *)
LEMMA RollforwardData ==
  ASSUME Reached, rollforward, Lucky', NEW f, NEW e, Data(f, e)
  PROVE  \E h, g : Data(h, g)'
<1> DEFINE p == [s \in Slaves |-> Shifted(s)]
<1>1. /\ pc = "rewind" /\ goal = "roll"
      /\ volumes' = Append(volumes, <<>>) /\ enslave(p)
      /\ block' = [block EXCEPT ![slp] = <<LeftOver>>]
      /\ rolled' = IF rolled = 0 THEN volume + 1 ELSE rolled
      /\ stale' = (stale \/ LeftOver # Last) /\ pc' = "first"
      /\ UNCHANGED <<room, goal, next, slp, firstrec>>
  BY DEF rollforward, Rewound, given, volume
<1>2. /\ MasterOK /\ VolumesOK /\ Ending /\ slp \in Slaves
      /\ volume \in Nat \ {0} /\ next \in Nat /\ volumes[volume] \in Seq(Records)
      /\ Len(volumes[volume]) \in Nat /\ Begin \in Int /\ ntrec \in Nat /\ ntrec >= 2
  BY <1>1, Basics
<1>3. Rolling /\ ~Filling /\ Filling' /\ ~Rolling'
  BY <1>1 DEF Filling, Rolling
<1>4. \A s \in Slaves : /\ Shifted(s) \in Seq(Records) /\ Shifted(s) # <<>>
  BY <1>3, ShiftedIs
<1>5. p \in [Slaves -> Seq(Records)] /\ \A s \in Slaves : p[s] = Shifted(s) /\ p[s] # <<>>
  BY <1>4
<1> HIDE DEF p
<1>6. \A s \in Slaves : /\ pipe'[s] = Shifted(s) /\ Pending(s)' /\ Content(s)' = Shifted(s)
                        /\ (HasTurn(s)' <=> s = slp) /\ (Writer(s)' <=> s = slp)
  <2>1. \A s \in Slaves : /\ pipe'[s] = p[s] /\ (Pending(s)' <=> p[s] # <<>>)
                          /\ (HasTurn(s)' <=> s = slp) /\ (Writer(s)' <=> s = slp)
    BY <1>1, <1>2, <1>5, NewSlaves
  <2> QED BY <1>5, <2>1 DEF Content
<1>7. volume' = volume + 1 /\ volumes'[volume'] = <<>>
  BY <1>1, <1>2, NewVolume
<1>8. rolled = 0 /\ rolled' = volume + 1 /\ LeftOver = Last
  <2>1. ~stale' /\ (rolled' # 0 => volume' = rolled')  BY DEF Lucky
  <2>2. stale' = (stale \/ LeftOver # Last)  BY <1>1
  <2>3. LeftOver = Last  BY Zenon, <2>1, <2>2
  <2>4. rolled \in Nat /\ rolled <= volume  BY <1>2 DEF Ending, MasterOK
  <2>5. rolled' = IF rolled = 0 THEN volume + 1 ELSE rolled  BY <1>1
  <2>6. rolled' # 0 => volume + 1 = rolled'  BY <1>7, <2>1
  <2> QED BY <1>2, <2>3, <2>4, <2>5, <2>6
<1>9. /\ Tapes(f) /\ e \in [Slaves -> Nat] /\ HeldOK(f, e) /\ RollOK(f)
  BY <1>1, <1>8 DEF Data, Unrolled
<1>10. /\ volumes[volume] # <<>> /\ 0 < firstrec[slp] /\ firstrec[slp] <= Written(f)
       /\ \A s \in Slaves : /\ RightBlock(Start(f), Prev(f), volume, block[s], e[s])
                            /\ firstrec[s] + ntrec = e[s]
                            /\ NextOK(e, s)
  BY <1>3, <1>9 DEF HeldOK, RollOK, Held
<1>11. PICK o \in Slaves : o = slp  BY <1>2
<1>12. PICK b \in Nat : b = firstrec[o] /\ b + ntrec = e[o] /\ 0 < b /\ b <= Written(f)
  BY <1>2, <1>10, <1>11 DEF MasterOK
<1>13. PICK h : Tapes(h)' /\ Start(h)' = b /\ Prev(h)' = Written(f) /\ Written(h)' = b
  BY <1>1, <1>8, <1>9, <1>10, <1>12, NewTape
<1>14. /\ Start(f) \in Nat /\ Prev(f) \in Nat /\ Written(f) \in Nat /\ Written(f) > Prev(f)
  <2>1. Start(f) \in Nat /\ Prev(f) \in Nat /\ Written(f) \in Nat  BY <1>9, Positive
  <2>2. Prev(f) = Start(f)
    <3>1. CASE volume = 1  BY <1>9, <3>1 DEF Prev, Came, Start, Tapes
    <3>2. CASE volume # 1
      <4>1. volume \in 2..volume  BY <1>2, <3>2
      <4> QED BY <1>2, <1>8, <1>9, <4>1 DEF Tapes, Follows, Prev, Start
    <3> QED BY <3>1, <3>2
  <2>3. Len(volumes[volume]) # 0  BY <1>2, <1>10
  <2>4. Written(f) = Start(f) + Len(volumes[volume])  BY DEF Written, Start
  <2> QED BY <1>2, <2>1, <2>2, <2>3, <2>4
<1>15. \A s \in Slaves : e[s] \in Nat /\ e[s] >= e[o]
  <2> DEFINE S == {s \in Slaves : e[s] >= e[o]}
  <2>1. \A s \in Slaves : e[s] \in Nat  BY <1>9
  <2>2. o \in S  BY <2>1
  <2>3. \A s \in Slaves : s \in S /\ s # Before(o) => After(s) \in S
    <3> SUFFICES ASSUME NEW s \in S, s # Before(o) PROVE After(s) \in S
      OBVIOUS
    <3>1. e[After(s)] = e[s] + ntrec /\ After(s) \in Slaves
      BY <1>10, <1>11, RingFacts DEF NextOK
    <3> QED BY <1>2, <2>1, <3>1
  <2> HIDE DEF S
  <2>4. \A s \in Slaves : s \in S  BY <2>2, <2>3, RingInduction
  <2> QED BY <2>1, <2>4 DEF S
<1>16. PICK l \in Slaves : l = Before(o)  BY RingFacts
<1>17. e[l] = Begin  BY <1>10, <1>11, <1>16 DEF NextOK
<1>18. At' = e[l] + 1 /\ Begin' = e[l]
  <2>1. At = e[l]  BY <1>2, <1>3, <1>17 DEF Begin, Partial, At
  <2>2. At' = At + 1  BY <1>1, <1>2, <1>7 DEF At
  <2>3. block'[slp'] = <<LeftOver>>  BY <1>1, <1>2 DEF MasterOK
  <2>4. Partial' = 1  BY <1>3, <2>3 DEF Partial
  <2> QED BY <1>15, <2>1, <2>2, <2>4 DEF Begin
<1>19. \A s \in Slaves : NextOK(e, s)'
  <2> SUFFICES ASSUME NEW s \in Slaves PROVE NextOK(e, s)'
    OBVIOUS
  <2>1. NextOK(e, s)  BY <1>10
  <2> QED BY <1>1, <1>11, <1>16, <1>18, <2>1 DEF NextOK
<1>20. ASSUME NEW s \in Slaves
       PROVE  Right(Start(f), Prev(f), volume, block[s][ntrec], e[s] - 1)
  <2>1. ntrec \in 1..ntrec /\ e[s] - ntrec + ntrec - 1 = e[s] - 1  BY <1>2, <1>15
  <2> QED BY <1>10, <2>1 DEF RightBlock
<1>21. ASSUME NEW s \in Slaves
       PROVE  RightBlock(b, Written(f), volume + 1, Shifted(s), e[s])
  <2>1. e[s] >= b + ntrec  BY <1>2, <1>12, <1>15
  <2>2. ASSUME NEW i \in 2..ntrec
        PROVE  Right(b, Written(f), volume + 1, Shifted(s)[i], e[s] - ntrec + i - 1)
    <3>1. Shifted(s)[i] = block[s][i - 1] /\ i - 1 \in 1..ntrec  BY <1>2, <1>3, ShiftedIs
    <3>2. Right(Start(f), Prev(f), volume, block[s][i - 1], e[s] - ntrec + (i - 1) - 1)
      BY <1>10, <3>1 DEF RightBlock
    <3>3. PICK q \in Int : q = e[s] - ntrec + i - 1  BY <1>2, <1>15
    <3>4. e[s] - ntrec + (i - 1) - 1 = q - 1 /\ q > b  BY <1>2, <1>15, <2>1, <3>3
    <3>5. Right(Start(f), Prev(f), volume, block[s][i - 1], q - 1)  BY <3>2, <3>4
    <3>6. Right(b, Written(f), volume + 1, block[s][i - 1], q)
      BY <1>2, <1>14, <3>4, <3>5, Moved
    <3> QED BY <3>1, <3>3, <3>6
  <2>3. Right(b, Written(f), volume + 1, Shifted(s)[1], e[s] - ntrec)
    <3>1. CASE s = o
      <4>1. Shifted(s)[1] = Header(b)
        BY <1>3, <1>11, <1>12, <3>1, ShiftedIs DEF VolumeHeader
      <4>2. e[s] - ntrec = b  BY <1>2, <1>12, <1>15, <3>1
      <4> QED BY <1>12, <1>14, <4>1, <4>2 DEF Right
    <3>2. CASE s # o
      <4>1. PICK r \in Slaves : r = Before(s)  BY RingFacts
      <4>2. Shifted(s)[1] = block[r][ntrec]  BY <1>3, <1>11, <3>2, <4>1, ShiftedIs
      <4>3. r # l /\ After(r) = s  BY <1>16, <3>2, <4>1, RingFacts
      <4>4. e[s] = e[r] + ntrec
        BY <1>10, <1>11, <1>16, <4>3 DEF NextOK
      <4>5. Right(Start(f), Prev(f), volume, block[r][ntrec], e[r] - 1)  BY <1>20
      <4>6. e[r] \in Int /\ e[r] > b /\ e[s] - ntrec = e[r]  BY <1>2, <1>12, <1>15, <4>4
      <4>7. Right(b, Written(f), volume + 1, block[r][ntrec], e[r])
        BY <1>2, <1>14, <4>5, <4>6, Moved
      <4> QED BY <4>2, <4>6, <4>7
    <3> QED BY <3>1, <3>2
  <2>4. \A i \in 1..ntrec : i = 1 \/ i \in 2..ntrec  OBVIOUS
  <2>5. e[s] - ntrec + 1 - 1 = e[s] - ntrec  BY <1>2, <1>15
  <2> QED BY <2>1, <2>2, <2>3, <2>4, <2>5 DEF RightBlock
<1>22. Positions(h, e)'
  <2>1. FrontOK(h)'
    BY <1>2, <1>12, <1>13, <1>15, <1>18 DEF FrontOK
  <2>2. FillOK(h)'
    <3>1. block'[slp'] = <<block[l][ntrec]>>
      BY <1>1, <1>2, <1>8, <1>11, <1>16 DEF MasterOK, Last
    <3>2. e[l] \in Int /\ e[l] > b /\ e[l] + 1 - 1 = e[l]  BY <1>2, <1>12, <1>15
    <3>3. Right(Start(f), Prev(f), volume, block[l][ntrec], e[l] - 1)  BY <1>20
    <3>4. Right(b, Written(f), volume + 1, block[l][ntrec], e[l])
      BY <1>2, <1>14, <3>2, <3>3, Moved
    <3>5. Len(block'[slp']) = 1 /\ block'[slp'][1] = block[l][ntrec]  BY <3>1
    <3> QED BY <1>7, <1>13, <1>18, <3>2, <3>4, <3>5 DEF FillOK
  <2>3. QueueOK(h, e)'
    BY <1>6, <1>7, <1>13, <1>19, <1>21 DEF QueueOK
  <2>4. TurnOK(h, e)'
    BY <1>6, <1>11, <1>12, <1>13 DEF TurnOK
  <2>5. LostOK(h)'  BY <1>2, <1>6 DEF LostOK
  <2> QED BY <2>1, <2>2, <2>3, <2>4, <2>5 DEF Positions
<1>23. rolled' # 0  BY <1>2, <1>8
<1> QED BY <1>9, <1>13, <1>22, <1>23 DEF Data

(* While the header is right and no volume follows the roll forward, there    *)
(* are positions.                                                             *)
Known == Lucky => \E f, e : Data(f, e)

(* What rolled, stale and the volumes say is never undone.                    *)
LEMMA LuckySame == ASSUME UNCHANGED <<rolled, stale>>, volume' = volume
                   PROVE  Lucky' => Lucky
BY DEF Lucky

(* What was unlucky stays so.                                                 *)
LEMMA LuckyBefore == ASSUME Reached, Reached', [Next]_vars PROVE Lucky' => Lucky
<1>1. /\ MasterOK /\ VolumesOK /\ SlavesOK /\ Ending /\ volume \in Nat
      /\ (pc # "quit" => Sizes) /\ volume \in 1..Len(volumes)
  BY Basics DEF volume
<1>2. CASE Master
  <2>1. CASE startnewtape
    <3>1. volumes' = Append(volumes, <<>>) /\ UNCHANGED <<rolled, stale>>
      BY <2>1 DEF startnewtape, history
    <3>2. volume' = volume + 1  BY <1>1, <3>1, NewVolume
    <3> QED BY <1>1, <3>1, <3>2 DEF Lucky, Ending, MasterOK
  <2>2. CASE rollforward
    <3>1. /\ volumes' = Append(volumes, <<>>)
          /\ rolled' = (IF rolled = 0 THEN volume + 1 ELSE rolled)
          /\ stale' = (stale \/ LeftOver # Last)
      BY <2>2 DEF rollforward, volume
    <3>2. volume' = volume + 1  BY <1>1, <3>1, NewVolume
    <3>3. ASSUME Lucky' PROVE ~stale
      <4>1. ~stale'  BY <3>3 DEF Lucky
      <4> QED BY Zenon, <3>1, <4>1
    <3>4. ASSUME Lucky' PROVE rolled = 0
      <4>1. rolled' # 0 => volume' = rolled'  BY <3>4 DEF Lucky
      <4>2. rolled \in Nat /\ rolled <= volume  BY <1>1 DEF Ending, MasterOK
      <4>3. rolled' = IF rolled = 0 THEN volume + 1 ELSE rolled  BY <3>1
      <4> QED BY <1>1, <3>2, <4>1, <4>2, <4>3
    <3> QED BY <3>3, <3>4 DEF Lucky
  <2>3. CASE ~startnewtape /\ ~rollforward
    <3>1. UNCHANGED <<volumes, rolled, stale>>
      BY <1>2, <2>3 DEF Master, Dump, Finish, NextBlock, EndOfTape, Drained, Drain, trewind, Done,
         Refuse, quit, First, history
    <3> QED BY <3>1, LuckySame DEF volume
  <2> QED BY <2>1, <2>2, <2>3
<1>3. ASSUME NEW s \in Slaves, Slave(s) \/ proceed(s) PROVE Lucky' => Lucky
  <2>1. UNCHANGED <<rolled, stale>>
    BY <1>3 DEF Slave, Read, Lock, Pause, Write, Tell, Pass, Exit, proceed, masters, history
  <2>2. CASE Write(s)
    <3>1. volumes' = [volumes EXCEPT ![volume] = volumes[volume] \o SubSeq(buf[s], 1, Fits)]
      BY <2>2 DEF Write
    <3>2. DOMAIN volumes' = DOMAIN volumes  BY <3>1
    <3>3. Len(volumes') = Len(volumes)
      <4>1. VolumesOK' /\ volumes \in Seq(Seq(Records)) /\ volumes' \in Seq(Seq(Records))
        BY <1>1, Basics DEF VolumesOK, Reached, TypeOK
      <4>2. DOMAIN volumes = 1..Len(volumes) /\ DOMAIN volumes' = 1..Len(volumes')  BY <4>1
      <4>3. Len(volumes) \in Nat /\ Len(volumes') \in Nat  BY <4>1
      <4> QED BY <3>2, <4>2, <4>3
    <3> QED BY <2>1, <3>3, LuckySame DEF volume
  <2>3. CASE ~Write(s)
    <3>1. UNCHANGED volumes
      BY <1>3, <2>3 DEF Slave, Read, Lock, Pause, Tell, Pass, Exit, proceed
    <3> QED BY <2>1, <3>1, LuckySame DEF volume
  <2> QED BY <2>2, <2>3
<1>4. CASE UNCHANGED vars
  BY <1>4, LuckySame DEF vars, history, volume
<1> QED BY <1>2, <1>3, <1>4 DEF Next

(* Every step of the ring keeps the positions.                                *)
LEMMA NextKnown == Reached /\ Reached' /\ Known /\ [Next]_vars => Known'
<1> SUFFICES ASSUME Reached, Reached', Known, [Next]_vars, Lucky'
             PROVE  \E f, e : Data(f, e)'
  BY DEF Known
<1>1. PICK f, e : Data(f, e)  BY LuckyBefore DEF Known
<1>2. CASE Master
  <2>1. CASE Dump  BY <1>1, <2>1, DumpPartData, DumpFullData
  <2>2. CASE Refuse  BY <1>1, <2>2, QuitData DEF Refuse
  <2> QED BY <1>1, <1>2, <2>1, <2>2, FinishData, NextBlockData, EndOfTapeData, DrainData, DrainedData,
             TrewindData, DoneData, FirstData, StartnewtapeData, RollforwardData DEF Master
<1>3. ASSUME NEW s \in Slaves, Slave(s) PROVE Data(f, e)'
  BY <1>1, <1>3, ReadData, LockData, PauseData, WriteData, TellData, PassData, ExitData DEF Slave
<1>4. ASSUME NEW s \in Slaves, proceed(s) PROVE Data(f, e)'
  BY <1>1, <1>4, ProceedData
<1>5. CASE UNCHANGED vars
  <2>1. /\ UNCHANGED <<masters, volumes, rolled, pc>>
        /\ UNCHANGED <<state, pipe, buf, size, result, sent, caught, signalled>>
    BY <1>5 DEF vars, masters, buffers, history, slaves
  <2>2. CASE pc = "quit"
    BY <1>1, <2>1, <2>2, SamePlaces DEF Data
  <2>3. CASE pc # "quit"
    <3>1. /\ \A s \in Slaves : Pending(s)' <=> Pending(s)
          /\ \A s \in Slaves : Content(s)' = Content(s)
          /\ \A s \in Slaves : Failed(s)' <=> Failed(s)
          /\ \A s \in Slaves : HasTurn(s)' <=> HasTurn(s)
          /\ \A s \in Slaves : Writer(s)' => Writer(s)
      BY <2>1 DEF Pending, Content, Failed, HasTurn, Writer
    <3> QED BY <1>1, <2>1, <2>3, <3>1, SlaveData
  <2> QED BY <2>2, <2>3
<1> QED BY <1>2, <1>3, <1>4, <1>5 DEF Next

(* They give the property; at the end every block has been written.           *)
LEMMA KnownRestores == Reached /\ Known => RestoresInOrder
<1> SUFFICES ASSUME Reached, Known, Lucky
             PROVE  Ordered /\ (pc = "done" => Len(ReadBack) > Total)
  BY DEF RestoresInOrder
<1>1. PICK f, e : Data(f, e)  BY DEF Known
<1>2. Tapes(f) /\ VolumesOK /\ volume \in Nat \ {0}  BY <1>1, Basics DEF Data
<1>3. Ordered /\ Len(ReadBack) \in Nat /\ Len(ReadBack) >= Written(f) - volume
  BY <1>2, Restored
<1>4. ASSUME pc = "done" PROVE Len(ReadBack) > Total
  <2>1. /\ goal = "done" /\ next = Ends + 1 /\ \A s \in Slaves : state[s] = "exit" /\ ~sent[s]
    BY <1>4, Basics DEF Ending
  <2>2. Filling /\ ~Rolling  BY <1>4 DEF Filling, Rolling
  <2>3. Begin = Written(f)  BY <1>1, <1>4, <2>1, <2>2, Settled
  <2>4. Partial = Len(block[slp]) /\ Len(block[slp]) < ntrec /\ Len(block[slp]) \in Nat
    BY <1>4, <2>2, Basics DEF Partial, Sizes
  <2>5. Begin = Ends + volume - Len(block[slp])
    BY <1>2, <2>1, <2>4, TapeAssumption DEF Begin, At, Ends
  <2>6. Total \in Nat /\ ntrec \in Nat  BY TapeAssumption
  <2>7. Written(f) - volume = Total + ntrec - Len(block[slp])
    BY <1>2, <2>3, <2>4, <2>5, <2>6 DEF Ends
  <2>8. Written(f) \in Nat  BY <1>2, Positive
  <2>9. PICK n \in Nat : n = Len(ReadBack)  BY <1>3
  <2>10. PICK k \in Nat : k = Len(block[slp]) /\ k < ntrec  BY <2>4
  <2>11. n >= Total + ntrec - k  BY <1>3, <2>7, <2>9, <2>10
  <2>12. n > Total  BY <2>6, <2>10, <2>11
  <2> QED BY <2>9, <2>12
<1> QED BY <1>3, <1>4

(* For every number of slaves, blocking factor, dump and tapes that           *)
(* TapeAssumption admits, and as long as the run is Lucky: what restore reads *)
(* from the volumes is the dump from its beginning, with no record missing,   *)
(* doubled or out of place, also when several slaves have lost their blocks   *)
(* at the end of a tape.  Not Lucky, and not covered, is a dump once a roll   *)
(* forward has left a stale header, or has been followed by another volume;   *)
(* not admitted are blocks of one record, a volume without room for a header  *)
(* and a first volume shorter than a block.                                   *)
THEOREM RestoredInOrder == Spec => []RestoresInOrder
<1>1. Init => Reached  BY InitControl, InitInv DEF Reached
<1>2. Init => Known  BY InitData DEF Known
<1>3. Reached /\ Known /\ [Next]_vars => Reached' /\ Known'  BY NextControl, NextKnown
<1> QED BY <1>1, <1>2, <1>3, KnownRestores, PTL DEF Spec
==============================================================================
