------------------------------ MODULE TapeRing -------------------------------
(* dump writes its tapes with a ring of slave processes (tape.c).  The master *)
(* collects ntrec records into a block and hands it to the next slave of the  *)
(* ring; while one slave writes, the others read the disk, and whoever has    *)
(* written lets the next one write with a signal.  At the end of a tape the   *)
(* blocks that may not have reached it are written again on the next volume.  *)
(* ReadBack is how restore reads the volumes (restore.tproj/tape.c).          *)
EXTENDS Integers, Sequences, FiniteSets

CONSTANTS SLAVES,  \* slave processes
          ntrec,   \* records of a block
          Total,   \* records of the dump, without volume headers and TS_END
          Kinds,   \* the kinds of records to try: functions 1..Total -> Kind
          Rooms,   \* what the volumes hold: sequences; later ones hold it all
          Limits   \* blocksperfile in blocks; 0 if only the tape limits it

Kind == {"mem", "disk"}

(* The first volume takes a whole block, a later one at least its header:     *)
(* restore does not read a volume that lacks it ("tape is not dump tape").    *)
ASSUME TapeAssumption ==
  /\ SLAVES \in Nat \ {0} /\ ntrec \in Nat \ {0, 1} /\ Total \in Nat
  /\ Kinds \subseteq [1..Total -> Kind]
  /\ Limits \subseteq Nat
  /\ \A r \in Rooms : r \in Seq(Nat \ {0}) /\ (r # <<>> => r[1] >= ntrec)

Slaves == 0..(SLAVES - 1)
Onward(s) == s + 1    \* a bug: the ring is not closed
After(s) == (s + 1) % SLAVES
Before(s) == (s + SLAVES - 1) % SLAVES

(* Records.  A header of a volume carries c_firstrec; ntrec TS_END headers    *)
(* end the dump.  Junk is what a buffer holds before anything is put there.   *)
Header(first) == <<"tape", first>>
Record(i) == <<"rec", i>>
Junk == <<"junk", 0>>
Ends == Total + ntrec
Records == ({"tape"} \X Nat) \cup ({"rec"} \X (1..Ends)) \cup {Junk}

NoResult == -1

VARIABLES
  kind, room, limit,  \* the dump, the tapes and blocksperfile
  pc,        \* where the master is
  goal,      \* why it rewinds: a new volume, to roll forward, or at the end
  next,      \* spcl.c_tapea less the headers: the record to be written next
  slp,       \* the slave whose buffer is being filled
  block,     \* slaves[s].req with what it stands for: the records of a block
  head,      \* slaves[s].tblock[0]
  firstrec,  \* slaves[s].firstrec
  sent,      \* slaves[s].sent
  blocks,    \* blocksthisvol, in blocks
  dated,     \* putdumptime has entered the dump into /etc/dumpdates
  volumes,   \* the tapes: sequences of records
  rolled,    \* history: the volume the first roll forward began, or 0
  stale,     \* history: a roll forward has left a wrong header in the buffer
  state,     \* where each slave is
  pipe,      \* requests on their way to it
  buf,       \* the block it has read
  size,      \* how much of it it has written
  result,    \* its answer on its way to the master
  closed,    \* the master has closed its pipe
  caught,    \* its variable caught
  signalled  \* a SIGUSR2 is on its way to it

given == <<kind, room, limit>>
buffers == <<next, slp, block, head, firstrec, blocks>>
history == <<dated, rolled, stale>>
slaves == <<state, pipe, buf, size, result, closed, caught, signalled>>
vars == <<given, pc, goal, buffers, sent, history, volumes, slaves>>

Places == {"dump", "result", "drain", "rewind", "first", "done", "quit"}
States == {"read", "lock", "ready", "pause", "write", "tell", "pass", "exit"}

(* Records that the master has in memory; the others the slave reads from     *)
(* disk.                                                                      *)
IsMem(r) == r[1] # "rec" \/ r[2] > Total \/ kind[r[2]] = "mem"

(* enslave: new slaves, of which the master's next may write first.           *)
enslave(pipes) ==
  /\ state' = [s \in Slaves |-> "read"]
  /\ pipe' = pipes
  /\ buf' = [s \in Slaves |-> <<>>]
  /\ size' = [s \in Slaves |-> 0]
  /\ result' = [s \in Slaves |-> NoResult]
  /\ closed' = [s \in Slaves |-> FALSE]
  /\ caught' = [s \in Slaves |-> s = slp]
  /\ signalled' = [s \in Slaves |-> FALSE]

Idle == [s \in Slaves |-> <<>>]

Init ==
  /\ kind \in Kinds /\ room \in Rooms /\ limit \in Limits
  /\ pc = "dump" /\ goal = "new" /\ next = 1
  /\ slp = 0 /\ blocks = 0
  /\ block = [s \in Slaves |-> IF s = 0 THEN <<Header(0)>> ELSE <<>>]
  /\ head = [s \in Slaves |-> IF s = 0 THEN Header(0) ELSE Junk]
  /\ firstrec = [s \in Slaves |-> 0]
  /\ sent = [s \in Slaves |-> FALSE]
  /\ dated = FALSE /\ rolled = 0 /\ stale = FALSE
  /\ volumes = <<<<>>>>
  /\ state = [s \in Slaves |-> "read"] /\ pipe = Idle /\ buf = Idle
  /\ size = [s \in Slaves |-> 0] /\ result = [s \in Slaves |-> NoResult]
  /\ closed = [s \in Slaves |-> FALSE]
  /\ caught = [s \in Slaves |-> s = 0]
  /\ signalled = [s \in Slaves |-> FALSE]

------------------------------------------------------------------------------
(* The master *)

(* writerec and dumpblock: a record goes into the buffer, a header into       *)
(* tblock too; flushtape sends a full buffer to its slave.                    *)
Put(r) ==
  LET b == Append(block[slp], r)
  IN /\ block' = [block EXCEPT ![slp] = b]
     /\ head' = IF IsMem(r) /\ ~\E i \in DOMAIN block[slp] : IsMem(block[slp][i])
                  THEN [head EXCEPT ![slp] = r] ELSE head
     /\ IF Len(b) < ntrec
          THEN UNCHANGED <<pc, slp, sent, pipe>>
          ELSE /\ pipe' = [pipe EXCEPT ![slp] = b]
               /\ sent' = [sent EXCEPT ![slp] = TRUE]
               /\ slp' = After(slp)
               /\ pc' = "result"

Dump ==
  /\ pc = "dump" /\ next <= Ends
  /\ Put(Record(next))
  /\ next' = next + 1
  /\ UNCHANGED <<given, goal, firstrec, blocks, history, volumes>>
  /\ UNCHANGED <<state, buf, size, result, closed, caught, signalled>>

(* After the TS_END headers putdumptime and trewind end the dump.             *)
Finish ==
  /\ pc = "dump" /\ next > Ends
  /\ dated' = TRUE
  /\ pc' = "rewind" /\ goal' = "done"
  /\ UNCHANGED <<given, buffers, sent, rolled, stale, volumes, slaves>>

(* The master reads the result of slave s.                                    *)
Take(s) ==
  /\ sent[s] /\ result[s] # NoResult
  /\ sent' = [sent EXCEPT ![s] = FALSE]
  /\ result' = [result EXCEPT ![s] = NoResult]

Full(s) == result[s] = ntrec

(* The rest of flushtape: the next slave must have written what it has before *)
(* its buffer is filled again.                                                *)
FirstRecord == firstrec[Before(slp)] + ntrec
NextBlock ==
  /\ pc = "result"
  /\ \/ Take(slp) /\ Full(slp)
     \/ ~sent[slp] /\ UNCHANGED <<sent, result>>
  /\ block' = [block EXCEPT ![slp] = <<>>]
  /\ firstrec' = [firstrec EXCEPT ![slp] = FirstRecord]
  /\ blocks' = blocks + 1
  /\ IF limit # 0 /\ blocks + 1 >= limit
       THEN pc' = "rewind" /\ goal' = "new"
       ELSE pc' = "dump" /\ goal' = goal
  /\ UNCHANGED <<given, next, slp, head, history, volumes>>
  /\ UNCHANGED <<state, pipe, buf, size, closed, caught, signalled>>

EndOfTape ==
  /\ pc = "result" /\ Take(slp) /\ ~Full(slp)
  /\ pc' = "drain"
  /\ UNCHANGED <<given, goal, buffers, history, volumes>>
  /\ UNCHANGED <<state, pipe, buf, size, closed, caught, signalled>>

(* The other results are read, whatever they are.                             *)
Drain(s) ==
  /\ pc = "drain" /\ \A i \in Slaves : i < s => ~sent[i]
  /\ Take(s)
  /\ UNCHANGED <<given, pc, goal, buffers, history, volumes>>
  /\ UNCHANGED <<state, pipe, buf, size, closed, caught, signalled>>

Drained ==
  /\ pc = "drain" /\ \A s \in Slaves : ~sent[s]
  /\ pc' = "rewind" /\ goal' = "roll"
  /\ UNCHANGED <<given, buffers, sent, history, volumes, slaves>>

(* quit and dumpabort: the slaves are killed.                                 *)
quit ==
  /\ pc' = "quit"
  /\ state' = [s \in Slaves |-> "exit"]
  /\ UNCHANGED <<given, goal, buffers, history, volumes>>
  /\ UNCHANGED <<pipe, buf, size, closed, caught, signalled>>

(* trewind closes the pipes one after the other.  It is not prepared for a    *)
(* tape that ends within the blocks still on their way.                       *)
trewind(s) ==
  /\ pc = "rewind" /\ ~closed[s] /\ \A i \in Slaves : i < s => closed[i]
  /\ \/ /\ \/ Take(s) /\ Full(s)
           \/ ~sent[s] /\ UNCHANGED <<sent, result>>
        /\ closed' = [closed EXCEPT ![s] = TRUE]
        /\ UNCHANGED <<given, pc, goal, buffers, history, volumes>>
        /\ UNCHANGED <<state, pipe, buf, size, caught, signalled>>
     \/ Take(s) /\ ~Full(s) /\ quit

(* Its wait: the slaves have exited.                                          *)
Rewound == pc = "rewind" /\ \A s \in Slaves : closed[s] /\ state[s] = "exit"

Done ==
  /\ Rewound /\ goal = "done"
  /\ pc' = "done"
  /\ UNCHANGED <<given, goal, buffers, sent, history, volumes, slaves>>

(* close_rewind: the operator does not mount another volume.                  *)
Refuse ==
  /\ Rewound /\ goal # "done"
  /\ quit
  /\ UNCHANGED <<sent, result>>

(* startnewtape: a volume begins with a header.                               *)
VolumeHeader == Header(firstrec[slp])
startnewtape ==
  /\ Rewound /\ goal = "new"
  /\ volumes' = Append(volumes, <<>>)
  /\ blocks' = 0
  /\ enslave(Idle)
  /\ block' = [block EXCEPT ![slp] = <<VolumeHeader>>]
  /\ head' = [head EXCEPT ![slp] = VolumeHeader]
  /\ sent' = [s \in Slaves |-> FALSE]
  /\ pc' = "dump"
  /\ UNCHANGED <<given, goal, next, slp, firstrec, history>>

(* rollforward: the header comes first, so every record moves on by one, from *)
(* a block to the next.                                                       *)
Last == block[Before(slp)][ntrec]
NotShifted(s) == IF s = slp THEN <<VolumeHeader>> \o SubSeq(block[s], 1, ntrec - 1)
                            ELSE block[s]
Shifted(s) == <<IF s = slp THEN VolumeHeader ELSE block[Before(s)][ntrec]>>
                \o SubSeq(block[s], 1, ntrec - 1)

(* What is left over becomes the beginning of the next block.  A header has   *)
(* been copied to the spare buffer, tslp->tblock[0], but it is sent from      *)
(* slp->tblock[0].                                                            *)
LeftOver == IF IsMem(Last) THEN head[slp] ELSE Last
rollforward ==
  /\ Rewound /\ goal = "roll"
  /\ volumes' = Append(volumes, <<>>)
  /\ blocks' = 0
  /\ enslave([s \in Slaves |-> Shifted(s)])
  /\ sent' = [s \in Slaves |-> TRUE]
  /\ block' = [block EXCEPT ![slp] = <<LeftOver>>]
  /\ rolled' = IF rolled = 0 THEN Len(volumes) + 1 ELSE rolled
  /\ stale' = (stale \/ LeftOver # Last)
  /\ pc' = "first"
  /\ UNCHANGED <<given, goal, next, slp, head, firstrec, dated>>

(* The end of rollforward: the first block must have reached the new tape.    *)
First ==
  /\ pc = "first" /\ Take(slp)
  /\ \/ /\ Full(slp) /\ pc' = "dump"
        /\ UNCHANGED <<given, goal, buffers, history, volumes>>
        /\ UNCHANGED <<state, pipe, buf, size, closed, caught, signalled>>
     \/ ~Full(slp) /\ quit

Master == \/ Dump \/ Finish \/ NextBlock \/ EndOfTape \/ Drained
          \/ \E s \in Slaves : Drain(s) \/ trewind(s)
          \/ Done \/ Refuse \/ startnewtape \/ rollforward \/ First

------------------------------------------------------------------------------
(* A slave: doslave *)

masters == <<given, pc, goal, buffers, sent, history>>

Read(s) ==
  /\ state[s] = "read" /\ pipe[s] # <<>>
  /\ buf' = [buf EXCEPT ![s] = pipe[s]]
  /\ pipe' = [pipe EXCEPT ![s] = <<>>]
  /\ state' = [state EXCEPT ![s] = "lock"]
  /\ UNCHANGED <<masters, volumes, size, result, closed, caught, signalled>>

(* The turn that caught stands for is used up.                                *)
NotCleared(s) == caught
Cleared(s) == [caught EXCEPT ![s] = FALSE]

(* ready is set, then caught is tested, and a slave whose turn has not come   *)
(* pauses.  A signal between the test and the pause finds ready and leaves    *)
(* through longjmp.                                                           *)
Lock(s) ==
  /\ state[s] = "lock"
  /\ IF caught[s]
       THEN state' = [state EXCEPT ![s] = "write"] /\ caught' = Cleared(s)
       ELSE state' = [state EXCEPT ![s] = "ready"] /\ caught' = caught
  /\ UNCHANGED <<masters, volumes, pipe, buf, size, result, closed, signalled>>

Pause(s) ==
  /\ state[s] = "ready"
  /\ state' = [state EXCEPT ![s] = "pause"]
  /\ UNCHANGED <<masters, volumes, pipe, buf, size, result, closed, caught, signalled>>

(* The handler of SIGUSR2.                                                    *)
AwaitsInPause(s) == state[s] = "pause"
Awaits(s) == state[s] \in {"ready", "pause"}
proceed(s) ==
  /\ signalled[s] /\ state[s] # "exit"
  /\ signalled' = [signalled EXCEPT ![s] = FALSE]
  /\ IF Awaits(s)
       THEN state' = [state EXCEPT ![s] = "write"] /\ caught' = Cleared(s)
       ELSE state' = state /\ caught' = [caught EXCEPT ![s] = TRUE]
  /\ UNCHANGED <<masters, volumes, pipe, buf, size, result, closed>>

(* What the mounted volume still takes.                                       *)
volume == Len(volumes)
Fits == IF volume > Len(room) \/ room[volume] - Len(volumes[volume]) >= ntrec
          THEN ntrec ELSE room[volume] - Len(volumes[volume])
Write(s) ==
  /\ state[s] = "write"
  /\ volumes' = [volumes EXCEPT ![volume] = @ \o SubSeq(buf[s], 1, Fits)]
  /\ size' = [size EXCEPT ![s] = Fits]
  /\ state' = [state EXCEPT ![s] = "tell"]
  /\ UNCHANGED <<masters, pipe, buf, result, closed, caught, signalled>>

(* At the end of the tape a write takes nothing, and the result is 0 also     *)
(* when a part was written before, or it fails, and the result is that part.  *)
Answers(n) == IF n = ntrec THEN {ntrec} ELSE {0, n}
Tell(s) ==
  /\ state[s] = "tell"
  /\ \E n \in Answers(size[s]) : result' = [result EXCEPT ![s] = n]
  /\ state' = [state EXCEPT ![s] = "pass"]
  /\ UNCHANGED <<masters, volumes, pipe, buf, size, closed, caught, signalled>>

(* The next slave is signalled, whatever the result was.                      *)
Pass(s) ==
  /\ state[s] = "pass"
  /\ signalled' = [signalled EXCEPT ![After(s)] = state[After(s)] # "exit"]
  /\ state' = [state EXCEPT ![s] = "read"]
  /\ UNCHANGED <<masters, volumes, pipe, buf, size, result, closed, caught>>

Exit(s) ==
  /\ state[s] = "read" /\ pipe[s] = <<>> /\ closed[s]
  /\ state' = [state EXCEPT ![s] = "exit"]
  /\ UNCHANGED <<masters, volumes, pipe, buf, size, result, closed, caught, signalled>>

Slave(s) == Read(s) \/ Lock(s) \/ Pause(s) \/ Write(s) \/ Tell(s) \/ Pass(s) \/ Exit(s)

Next == Master \/ \E s \in Slaves : Slave(s) \/ proceed(s)

Spec == Init /\ [][Next]_vars

(* Processes run, signals are delivered, and the operator answers.            *)
FairSpec == /\ Spec /\ WF_vars(Master)
            /\ \A s \in Slaves : WF_vars(Slave(s)) /\ WF_vars(proceed(s))

------------------------------------------------------------------------------
(* What restore makes of the volumes, read in order while every record is     *)
(* used.  tpblksread (read) counts all the records that have been read; if a  *)
(* volume begins with records that were read before, it skips them (getvol).  *)
Skips(first, read) == IF 0 < first /\ first < read THEN read - first ELSE 0

ReadBack ==
  LET Upto[v \in 0..volume] ==
        IF v = 0 THEN [read |-> 0, out |-> <<>>]
        ELSE LET prev == Upto[v - 1]
                 tape == volumes[v]
             IN IF tape = <<>> THEN prev
                ELSE [read |-> prev.read + Len(tape),
                      out  |-> prev.out \o SubSeq(tape, 2 + Skips(tape[1][2], prev.read),
                                                  Len(tape))]
  IN Upto[volume].out

------------------------------------------------------------------------------
(* Properties *)

TypeOK ==
  /\ kind \in Kinds /\ room \in Rooms /\ limit \in Limits
  /\ pc \in Places /\ goal \in {"new", "roll", "done"} /\ next \in 1..(Ends + 1)
  /\ slp \in Slaves /\ block \in [Slaves -> Seq(Records)] /\ head \in [Slaves -> Records]
  /\ firstrec \in [Slaves -> Nat] /\ sent \in [Slaves -> BOOLEAN] /\ blocks \in Nat
  /\ dated \in BOOLEAN /\ rolled \in Nat /\ stale \in BOOLEAN
  /\ volumes \in Seq(Seq(Records))
  /\ state \in [Slaves -> States]
  /\ pipe \in [Slaves -> Seq(Records)] /\ buf \in [Slaves -> Seq(Records)]
  /\ size \in [Slaves -> 0..ntrec] /\ result \in [Slaves -> {NoResult} \cup 0..ntrec]
  /\ closed \in [Slaves -> BOOLEAN] /\ caught \in [Slaves -> BOOLEAN]
  /\ signalled \in [Slaves -> BOOLEAN]

(* The turn to write: it is with a slave that has been let go and has not yet *)
(* passed it on.                                                              *)
HasTurn(s) == caught[s] \/ signalled[s] \/ state[s] \in {"write", "tell", "pass"}

(* Two slaves never write at once, and while all slaves run the turn is       *)
(* neither doubled nor lost, wherever the signal meets the slave.             *)
OneTurn ==
  /\ \A s, t \in Slaves : HasTurn(s) /\ HasTurn(t) => s = t
  /\ (\A s \in Slaves : state[s] # "exit") => \E s \in Slaves : HasTurn(s)

(* What restore reads from the volumes, at any time, is the dump from its     *)
(* beginning: no record is missing, doubled or out of place, over volumes     *)
(* that were full, that ended within a block, or with blocks lost by several  *)
(* slaves.  Not so after rollforward has left a stale header, or when a       *)
(* volume follows the one rollforward began (see DocTape and the README).  A  *)
(* dump that ends well can be read to its first TS_END header.                *)
Ordered == LET out == ReadBack IN \A i \in DOMAIN out : out[i] = Record(i)
Lucky == ~stale /\ (rolled # 0 => volume = rolled)
RestoresInOrder ==
  Lucky => Ordered /\ (pc = "done" => Len(ReadBack) > Total)

(* rollforward, tape.c:477: a record that was left over is copied to its new  *)
(* location: with one change of volume, restore reads the dump in order.      *)
LeftOverIsCopied == volume <= 2 => Ordered

(* The dump ends: no slave waits for a signal that has been missed, and the   *)
(* master for no result (fairness).                                           *)
Finishes == <>(pc \in {"done", "quit"})
==============================================================================
