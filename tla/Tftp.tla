-------------------------------- MODULE Tftp ---------------------------------
(* tftp (tftp.c, main.c) copies files to and from a host where tftpd          *)
(* (tftpd.c) runs, block by block: each DATA packet is acknowledged before    *)
(* the next is sent, and whoever hears nothing for a while sends its last     *)
(* packet again.  tftpd forks a server for each request that reaches it, with *)
(* a port of its own; the client keeps one socket for all its commands.       *)
EXTENDS Integers, FiniteSets

CONSTANTS Files,         \* files of the server
          MaxBlocks,     \* length of the longest file
          Modulus,       \* th_block has 16 bits; here it counts up to Modulus
          MaxTries,      \* maxtimeout / rexmtval
          MaxServers,    \* bound: requests that tftpd reads
          MaxTransfers,  \* bound: commands the user gives
          Losable,       \* bound: kinds of packet that are lost outright
          NoFile, Hole, Old

ASSUME TftpAssumption ==
  /\ NoFile \notin Files
  /\ MaxBlocks \in Nat \ {0} /\ Modulus \in Nat \ {0, 1}
  /\ MaxTries \in Nat \ {0} /\ MaxServers \in Nat /\ MaxTransfers \in Nat
  /\ Hole \notin Files \X Nat /\ Old \notin Files \X Nat

Index == 1..MaxBlocks

(* Ports: the client's socket, the well-known port, one for each server.      *)
Client == 0
WellKnown == MaxServers + 1
Servers == 1..MaxServers
Procs == {Client} \cup Servers

(* Block b of file f.  Only the last block of a file is shorter than SEGSIZE. *)
Data(f, b) == <<f, b>>
NoData == <<NoFile, 0>>

VARIABLES
  length,     \* blocks of each file at its source
  gets,       \* the files the client may get; it may put the others
  public,     \* the files validate_access lets pass
  net,        \* packets that have been sent and not been lost
  role,       \* what each process does: see Roles
  file,       \* the file it does it with
  block,      \* its variable block
  tries,      \* its variable timeout, in units of rexmtval
  peer,       \* the client's peeraddr.sin_port
  local,      \* the file the client has created for a get
  remote,     \* the files the servers write for a put
  forked,     \* servers so far
  transfers,  \* commands so far
  result      \* how the last command ended

files == <<length, gets, public, local, remote>>
vars == <<length, gets, public, net, role, file, block, tries, peer, local, remote,
          forked, transfers, result>>

(* sendfile and recvfile; a client at its prompt and a server not yet forked; *)
(* a server behind its final acknowledgement, one that has returned from      *)
(* tftp(), and one that its signal handler has ended.                         *)
Roles == {"idle", "send", "recv", "final", "exited", "quit"}
Busy(p) == role[p] \in {"send", "recv"}

Packets == [to : Procs \cup {WellKnown}, from : Procs, n : Nat,
            op : {"RRQ", "WRQ", "DATA", "ACK", "ERROR"},
            data : (Files \cup {NoFile}) \X Nat]

SignedBlock(b) == IF b < Modulus THEN b ELSE b - 2 * Modulus
ThBlock(b) == b % Modulus

Request(o, q, f) ==
  [to |-> q, from |-> Client, n |-> 0, op |-> o, data |-> Data(f, 0)]
DATA(p, q, f, b) ==
  [to |-> q, from |-> p, n |-> ThBlock(b), op |-> "DATA", data |-> Data(f, b)]
ACK(p, q, b) ==
  [to |-> q, from |-> p, n |-> ThBlock(b), op |-> "ACK", data |-> NoData]
Nak(p, q) == [to |-> q, from |-> p, n |-> 0, op |-> "ERROR", data |-> NoData]

(* What process p, at block b, sends to port q, and sends again after a       *)
(* timeout: the request when the client has heard nothing, the block, or the  *)
(* acknowledgement of the block before.                                       *)
Packet(p, r, f, b, q) ==
  CASE r = "send" /\ p = Client /\ b = 0 -> Request("WRQ", q, f)
    [] r = "recv" /\ p = Client /\ b = 1 -> Request("RRQ", q, f)
    [] r = "send" /\ ~(p = Client /\ b = 0) -> DATA(p, q, f, b)
    [] OTHER -> ACK(p, q, b - 1)

PeerOf(p) == IF p = Client THEN peer ELSE Client
SendsAgain(p, q) == Packet(p, role[p], file[p], block[p], q)

(* A packet to a socket that is closed goes nowhere.                          *)
Closed(q) == q \in Procs /\ role[q] \in {"exited", "quit"}
Open(ms) == {m \in ms : ~Closed(m.to)}
Without(p, ms) == {m \in ms : m.to # p}

(* The network after p has sent ms and has gone on to r.                      *)
After(p, r, ms) ==
  IF r \in {"exited", "quit"} THEN Without(p, Open(net \cup ms)) ELSE Open(net \cup ms)

(* Back at the prompt: the next command, or the end of the user's input.      *)
Prompt == IF transfers < MaxTransfers THEN "idle" ELSE "exited"

(* synchnet reads and drops what has arrived: any of the packets under way.   *)
synchnet(p) == {net, Without(p, net)}

(* size < SEGSIZE *)
IsLastButOne(d) == d[2] + 1 >= length[d[1]]
IsLast(d) == d[2] = length[d[1]]

------------------------------------------------------------------------------
Init ==
  /\ length \in [Files -> Index]
  /\ gets \in SUBSET Files /\ public \in SUBSET Files
  /\ remote = [f \in Files |-> [i \in Index |->
                 IF f \in gets /\ i <= length[f] THEN Data(f, i) ELSE Old]]
  /\ local = [i \in Index |-> Hole]
  /\ net = {}
  /\ role = [p \in Procs |-> "idle"]
  /\ file = [p \in Procs |-> NoFile]
  /\ block = [p \in Procs |-> 0]
  /\ tries = [p \in Procs |-> 0]
  /\ peer = WellKnown
  /\ forked = 0 /\ transfers = 0 /\ result = "none"

(* put and get: the user gives a command, and sendfile or recvfile sends the  *)
(* request to the well-known port.  creat() empties the file of a get.        *)
Command(f) ==
  LET r == IF f \in gets THEN "recv" ELSE "send"
      b == IF f \in gets THEN 1 ELSE 0
  IN /\ role[Client] = "idle" /\ transfers < MaxTransfers
     /\ transfers' = transfers + 1
     /\ role' = [role EXCEPT ![Client] = r]
     /\ file' = [file EXCEPT ![Client] = f]
     /\ block' = [block EXCEPT ![Client] = b]
     /\ tries' = [tries EXCEPT ![Client] = 0]
     /\ peer' = WellKnown
     /\ local' = IF f \in gets THEN [i \in Index |-> Hole] ELSE local
     /\ net' = net \cup {Packet(Client, r, f, b, WellKnown)}
     /\ result' = "busy"
     /\ UNCHANGED <<length, gets, public, remote, forked>>

(* tftpd reads a request, forks, and answers it from a new port: with the     *)
(* first block, with acknowledgement 0, or with an error.                     *)
tftp(m) ==
  LET s == forked + 1
      f == m.data[1]
      r == IF f \notin public THEN "exited"
           ELSE IF m.op = "WRQ" THEN "recv" ELSE "send"
  IN /\ m \in net /\ m.to = WellKnown /\ m.op \in {"RRQ", "WRQ"}
     /\ forked < MaxServers
     /\ forked' = s
     /\ role' = [role EXCEPT ![s] = r]
     /\ file' = [file EXCEPT ![s] = f]
     /\ block' = [block EXCEPT ![s] = 1]
     /\ net' = Open(net \cup {IF f \in public THEN Packet(s, r, f, 1, Client)
                                              ELSE Nak(s, Client)})
     /\ UNCHANGED <<length, gets, public, local, remote, tries, peer, transfers, result>>

------------------------------------------------------------------------------
(* The loops of sendfile and recvfile, the same on both sides but for the     *)
(* client's peer, which is wherever the last packet came from.                *)

(* What process p expects: an acknowledgement of its block, or its block.     *)
Awaits(p) == IF role[p] = "send" THEN "ACK" ELSE "DATA"

Receives(p, m) ==
  /\ m \in net /\ m.to = p /\ Busy(p)
  /\ peer' = IF p = Client THEN m.from ELSE peer

(* th_block is the block p is at: the int block, not its lower 16 bits.       *)
NotAhead(p, m) == m.n <= block[p]
IsNext(p, m) == m.n = block[p]

(* The next block, or the acknowledgement of this one, is sent.               *)
Goes(p, m) ==
  /\ block' = [block EXCEPT ![p] = @ + 1]
  /\ tries' = [tries EXCEPT ![p] = 0]
  /\ net' = Open(net \cup {Packet(p, role[p], file[p], block[p] + 1,
                                  IF p = Client THEN m.from ELSE Client)})
  /\ UNCHANGED <<role, result>>

(* The acknowledgement of the block that is being sent.                       *)
Acknowledged(p, m) ==
  /\ Receives(p, m) /\ role[p] = "send" /\ m.op = "ACK" /\ IsNext(p, m)
  /\ \/ block[p] # length[file[p]] /\ Goes(p, m)
     \/ /\ block[p] = length[file[p]]
        /\ block' = [block EXCEPT ![p] = @ + 1]
        /\ role' = [role EXCEPT ![p] = IF p = Client THEN Prompt ELSE "exited"]
        /\ result' = IF p = Client THEN "ok" ELSE result
        /\ net' = After(p, role'[p], {})
        /\ UNCHANGED tries
  /\ UNCHANGED <<file, forked, transfers>> /\ UNCHANGED files

(* writeit and write_behind: the block goes to the file behind what has been  *)
(* written before.                                                            *)
Written(p, m) ==
  IF p = Client
    THEN local' = [local EXCEPT ![block[p]] = m.data] /\ UNCHANGED remote
    ELSE remote' = [remote EXCEPT ![file[p]][block[p]] = m.data] /\ UNCHANGED local

(* The block that is being waited for.                                        *)
Received(p, m) ==
  /\ Receives(p, m) /\ role[p] = "recv" /\ m.op = "DATA" /\ IsNext(p, m)
  /\ Written(p, m)
  /\ \/ ~IsLast(m.data) /\ Goes(p, m)
     \/ /\ IsLast(m.data)
        /\ role' = [role EXCEPT ![p] = IF p = Client THEN Prompt ELSE "final"]
        /\ result' = IF p = Client THEN "ok" ELSE result
        /\ net' = After(p, role'[p], {ACK(p, m.from, block[p])})
        /\ UNCHANGED <<block, tries>>
  /\ UNCHANGED <<length, gets, public, file, forked, transfers>>

(* Another block, or its acknowledgement: the input is thrown away, and if    *)
(* the other side is one behind it has missed the last packet.                *)
OutOfStep(p, m) ==
  /\ Receives(p, m) /\ m.op = Awaits(p) /\ ~IsNext(p, m)
  /\ \E rest \in synchnet(p) :
       net' = IF m.n = block[p] - 1
                THEN Open(rest \cup {SendsAgain(p, IF p = Client THEN m.from ELSE Client)})
                ELSE rest
  /\ UNCHANGED <<role, file, block, tries, forked, transfers, result>>
  /\ UNCHANGED files

(* A packet of another kind is skipped; only the client's peer changes.       *)
Skipped(p, m) ==
  /\ Receives(p, m) /\ m.op \notin {Awaits(p), "ERROR"}
  /\ UNCHANGED <<net, role, file, block, tries, forked, transfers, result>>
  /\ UNCHANGED files

(* The client gives up; recvfile acknowledges the block it waits for.         *)
Refused(m) ==
  /\ Receives(Client, m) /\ m.op = "ERROR"
  /\ role' = [role EXCEPT ![Client] = Prompt]
  /\ result' = "error"
  /\ net' = After(Client, Prompt, IF role[Client] = "recv"
                                    THEN {ACK(Client, m.from, block[Client])} ELSE {})
  /\ UNCHANGED <<file, block, tries, forked, transfers>> /\ UNCHANGED files

(* The time that has passed since p sent a packet for the first time.         *)
StartedAgain(p) == tries
Elapsed(p) == [tries EXCEPT ![p] = @ + 1]

(* timer: the last packet is sent again, or it is time to give up.            *)
timer(p) ==
  /\ Busy(p)
  /\ tries' = Elapsed(p)
  /\ \/ /\ tries[p] + 1 < MaxTries
        /\ net' = Open(net \cup {SendsAgain(p, PeerOf(p))})
        /\ UNCHANGED <<role, result>>
     \/ /\ tries[p] + 1 >= MaxTries
        /\ role' = [role EXCEPT ![p] = IF p = Client THEN Prompt ELSE "quit"]
        /\ result' = IF p = Client THEN "timeout" ELSE result
        /\ net' = After(p, role'[p], {})
  /\ UNCHANGED <<file, block, peer, forked, transfers>> /\ UNCHANGED files

(* intr: the user interrupts the command.                                     *)
intr ==
  /\ Busy(Client)
  /\ role' = [role EXCEPT ![Client] = Prompt]
  /\ result' = "interrupt"
  /\ net' = After(Client, Prompt, {})
  /\ UNCHANGED <<file, block, tries, peer, forked, transfers>>
  /\ UNCHANGED files

(* After its final acknowledgement a server waits for one more packet.  It    *)
(* reads that into buf but looks for its block number in dp, the buffer for   *)
(* the block after the last, where the last but one was.                      *)
BlockInDp(s) == block[s] - 1
Lingered(s, m) ==
  /\ role[s] = "final" /\ m \in net /\ m.to = s
  /\ role' = [role EXCEPT ![s] = "exited"]
  /\ net' = After(s, "exited", IF BlockInDp(s) = block[s]
                                 THEN {ACK(s, Client, block[s])} ELSE {})
  /\ UNCHANGED <<file, block, tries, peer, forked, transfers, result>>
  /\ UNCHANGED files

justquit(s) ==
  /\ role[s] = "final"
  /\ role' = [role EXCEPT ![s] = "quit"]
  /\ net' = After(s, "quit", {})
  /\ UNCHANGED <<file, block, tries, peer, forked, transfers, result>>
  /\ UNCHANGED files

(* The client's socket is gone, and the server's recv or send says so.        *)
Unreachable(s) ==
  /\ Closed(Client) /\ role[s] \in {"send", "recv", "final"}
  /\ role' = [role EXCEPT ![s] = "quit"]
  /\ net' = After(s, "quit", {})
  /\ UNCHANGED <<file, block, tries, peer, forked, transfers, result>>
  /\ UNCHANGED files

(* The network loses a packet.  A packet that is received stays in net and    *)
(* may be received again, until it is lost.                                   *)
Lose(m) ==
  /\ m.op \in Losable
  /\ net' = net \ {m}
  /\ UNCHANGED <<role, file, block, tries, peer, forked, transfers, result>>
  /\ UNCHANGED files

Next ==
  \/ \E f \in Files : Command(f)
  \/ \E p \in Procs : timer(p)
  \/ intr
  \/ \E s \in Servers : justquit(s) \/ Unreachable(s)
  \/ \E m \in net :
       \/ tftp(m) \/ Refused(m) \/ Lose(m)
       \/ \E p \in Procs : \/ Acknowledged(p, m) \/ Received(p, m)
                           \/ OutOfStep(p, m) \/ Skipped(p, m)
       \/ \E s \in Servers : Lingered(s, m)

Spec == Init /\ [][Next]_vars

(* An alarm that has been set goes off.                                       *)
FairSpec == /\ Spec
            /\ \A p \in Procs : WF_vars(timer(p))
            /\ \A s \in Servers : WF_vars(justquit(s))

------------------------------------------------------------------------------
(* Properties *)

TypeOK ==
  /\ length \in [Files -> Index] /\ gets \in SUBSET Files /\ public \in SUBSET Files
  /\ local \in [Index -> (Files \X Nat) \cup {Hole}]
  /\ remote \in [Files -> [Index -> (Files \X Nat) \cup {Hole, Old}]]
  /\ net \in SUBSET Packets
  /\ role \in [Procs -> Roles]
  /\ file \in [Procs -> Files \cup {NoFile}] /\ block \in [Procs -> Nat]
  /\ tries \in [Procs -> Nat]
  /\ peer \in Servers \cup {WellKnown}
  /\ forked \in 0..MaxServers /\ transfers \in 0..MaxTransfers
  /\ result \in {"none", "busy", "ok", "error", "timeout", "interrupt"}

Wanted == file[Client]
Target == IF Wanted \in gets THEN local ELSE remote[Wanted]
Whole(content, f) == \A i \in 1..length[f] : content[i] = Data(f, i)

(* A command that ends well has copied the whole file, the right file, and    *)
(* nothing else, whatever was lost, delayed or answered twice; for a put it   *)
(* is on the server's disk, though the answer may come from another server    *)
(* than the blocks before (one command; the README tells of two).             *)
SuccessIsWhole == result = "ok" => Whole(Target, Wanted)

(* Whoever receives has written exactly the blocks before the one it waits    *)
(* for, each in its place: no duplicate, late packet or wrapped block number  *)
(* makes it skip or repeat one (one command).                                 *)
InOrder ==
  \A p \in Procs : role[p] = "recv" =>
    LET content == IF p = Client THEN local ELSE remote[file[p]]
    IN \A i \in Index : i < block[p] => content[i] = Data(file[p], i)

(* No sender is ahead of the acknowledgements: the block it sends has been    *)
(* reached by a receiver of its file (one command).                           *)
Lockstep ==
  \A p \in Procs : role[p] = "send" /\ block[p] > 1 =>
    \E q \in Procs : q # p /\ file[q] = file[p] /\ block[q] >= block[p]

(* tftpd.c:592: a server that gets its last block once more repeats its final *)
(* acknowledgement.                                                           *)
FinalAckIsRepeated ==
  [][\A s \in Servers : \A m \in net :
       Lingered(s, m) /\ m.op = "DATA" /\ m.n = block[s] /\ ~Closed(Client)
         => ACK(s, Client, block[s]) \in net']_vars

(* The retransmissions of both sides do not keep each other going: every      *)
(* server ends, also one that has more blocks than th_block can count; that   *)
(* the commands end is part of CopiesFile (fairness).                         *)
Ends == \A s \in Servers : role[s] # "idle" ~> Closed(s)

(* For its user a command is a FileCopy: what has been copied grows by a      *)
(* block at a time, success means all of it, and it ends (one command).       *)
Copied == {i \in Index : Target[i] = Data(Wanted, i)}
Outcome == IF result \in {"none", "busy", "ok"} THEN result ELSE "failed"
Size == IF Wanted = NoFile THEN 0 ELSE length[Wanted]
Done == IF Wanted = NoFile THEN 0 ELSE Cardinality(Copied)
User == INSTANCE FileCopy WITH size <- Size, copied <- Done, outcome <- Outcome
CopiesFile == User!Spec
==============================================================================
