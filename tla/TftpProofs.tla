----------------------------- MODULE TftpProofs ------------------------------
(***************************************************************************)
(* A command of tftp that ends well has copied the whole file, in order,   *)
(* for any number of blocks, of servers answering, of packets lost, late   *)
(* or duplicated.  This needs that the client's socket is used for one     *)
(* command only: SingleCommand.                                            *)
(***************************************************************************)
EXTENDS Tftp, FiniteSetTheorems, TLAPS

SingleCommand == MaxTransfers = 1

(* Nothing has been sent before the command; then there is a file it wants.  *)
Started ==
  /\ transfers \in {0, 1}
  /\ transfers = 0 => /\ role[Client] = "idle" /\ net = {} /\ result = "none"
                      /\ forked = 0
  /\ transfers = 1 => role[Client] # "idle" /\ Wanted \in Files

Fresh == \A s \in Servers : s > forked => role[s] = "idle"

(* What any process knows of file f, of len blocks: a packet carries what its *)
(* number says, and a server acknowledges what content has.                   *)
Honest(m, f, len, get, content) ==
  /\ m.n < Modulus
  /\ m.to = Client <=> m.from # Client
  /\ m.op \in {"RRQ", "WRQ"} =>
       m.data[1] = f /\ f \in Files /\ (m.op = "RRQ" <=> get)
  /\ m.op = "DATA" /\ m.n >= 1 => m.data = Data(f, m.n) /\ m.n <= len
  /\ m.op = "ACK" /\ m.to = Client =>
       m.n <= len /\ \A i \in 1..m.n : content[i] = Data(f, i)

NetIsHonest ==
  \A m \in net :
    Honest(m, Wanted, length[Wanted], Wanted \in gets, remote[Wanted])

(* A receiver has all blocks before its own, and who sends and who receives   *)
(* is settled by the command.                                                 *)
Sound(p) ==
  /\ Busy(p) => /\ file[p] = Wanted
                /\ block[p] <= length[Wanted] /\ block[p] <= Modulus
                /\ (role[p] = "recv") <=> ((p = Client) <=> (Wanted \in gets))
                /\ block[p] = 0 => p = Client /\ role[p] = "send"
  /\ role[p] = "recv" =>
       LET content == IF p = Client THEN local ELSE remote[Wanted]
       IN \A i \in Index : i < block[p] => content[i] = Data(Wanted, i)

AllSound == \A p \in Procs : Sound(p)

Successful == /\ SuccessIsWhole
              /\ result = "ok" => role[Client] = "exited"

Inv == /\ TypeOK /\ Started /\ Fresh
       /\ NetIsHonest /\ AllSound /\ Successful

------------------------------------------------------------------------------
(* Ports, block numbers and packets. *)

LEMMA PortFacts == /\ Client \in Procs /\ Client \notin Servers
                   /\ WellKnown \notin Procs /\ Servers \subseteq Procs
                   /\ Procs \subseteq Nat
BY TftpAssumption DEF Client, Servers, Procs, WellKnown

\* As long as a block is no further than Modulus, its number on the wire is the
\* block itself or no block that anyone waits for.
LEMMA WireNumber ==
  ASSUME NEW b \in Nat, b <= Modulus
  PROVE  /\ ThBlock(b) \in Nat /\ ThBlock(b) < Modulus /\ ThBlock(b) <= b
         /\ ThBlock(b) >= 1 => ThBlock(b) = b
<1>1. CASE b < Modulus
  BY <1>1, TftpAssumption DEF ThBlock
<1>2. CASE b = Modulus
  BY <1>2, TftpAssumption DEF ThBlock
<1> QED
  BY <1>1, <1>2, TftpAssumption

\* What a process sends or repeats, from where it is in the file, is honest.
LEMMA HonestPacket ==
  ASSUME NEW p \in Procs, NEW r \in {"send", "recv"}, NEW f \in Files,
         NEW b \in Nat, NEW q \in Procs \cup {WellKnown}, NEW get \in BOOLEAN,
         NEW len \in Nat, NEW content,
         b <= len, b <= Modulus, b = 0 => p = Client /\ r = "send",
         r = "recv" <=> (p = Client <=> get),
         q = Client <=> p # Client,
         p # Client /\ r = "recv" =>
           \A i \in 1..(b - 1) : content[i] = Data(f, i)
  PROVE  /\ Packet(p, r, f, b, q) \in Packets
         /\ Honest(Packet(p, r, f, b, q), f, len, get, content)
<1>1. CASE r = "send" /\ p = Client /\ b = 0
  <2>1. Packet(p, r, f, b, q) =
          [to |-> q, from |-> Client, n |-> 0, op |-> "WRQ", data |-> <<f, 0>>]
    BY <1>1 DEF Packet, Request, Data
  <2> QED
    BY <1>1, <2>1, PortFacts, TftpAssumption DEF Packets, Honest
<1>2. CASE r = "recv" /\ p = Client /\ b = 1
  <2>1. Packet(p, r, f, b, q) =
          [to |-> q, from |-> Client, n |-> 0, op |-> "RRQ", data |-> <<f, 0>>]
    BY <1>2 DEF Packet, Request, Data
  <2> QED
    BY <1>2, <2>1, PortFacts, TftpAssumption DEF Packets, Honest
<1>3. CASE r = "send" /\ ~(p = Client /\ b = 0)
  <2>1. Packet(p, r, f, b, q) =
          [to |-> q, from |-> p, n |-> ThBlock(b), op |-> "DATA", data |-> <<f, b>>]
    BY <1>3 DEF Packet, DATA, Data
  <2>2. /\ ThBlock(b) \in Nat /\ ThBlock(b) < Modulus
        /\ ThBlock(b) >= 1 => ThBlock(b) = b
    BY WireNumber
  <2> QED
    BY <2>1, <2>2, PortFacts, TftpAssumption DEF Packets, Honest, Data
<1>4. CASE r = "recv" /\ ~(p = Client /\ b = 1)
  <2>0. b >= 1 /\ b - 1 \in Nat /\ b - 1 <= Modulus
    BY <1>4, TftpAssumption
  <2>1. Packet(p, r, f, b, q) =
          [to |-> q, from |-> p, n |-> ThBlock(b - 1), op |-> "ACK", data |-> NoData]
    BY <1>4 DEF Packet, ACK
  <2>2. /\ ThBlock(b - 1) \in Nat /\ ThBlock(b - 1) < Modulus
        /\ ThBlock(b - 1) <= b - 1
    BY <2>0, WireNumber
  <2>3. NoData \in (Files \cup {NoFile}) \X Nat
    BY DEF NoData
  <2>4. Packet(p, r, f, b, q) \in Packets
    BY <2>1, <2>2, <2>3, PortFacts DEF Packets
  <2>5. ASSUME q = Client
        PROVE  /\ ThBlock(b - 1) <= len
               /\ \A i \in 1..ThBlock(b - 1) : content[i] = Data(f, i)
    BY <2>0, <2>2, <2>5, <1>4, TftpAssumption
  <2> QED
    BY <2>1, <2>2, <2>4, <2>5 DEF Honest
<1> QED
  BY <1>1, <1>2, <1>3, <1>4

\* The final acknowledgement.
LEMMA HonestAck ==
  ASSUME NEW p \in Procs, NEW q \in Procs, NEW f, NEW b \in Nat,
         NEW get \in BOOLEAN, NEW len \in Nat, NEW content,
         b <= len, b <= Modulus, q = Client <=> p # Client,
         q = Client => \A i \in 1..b : content[i] = Data(f, i)
  PROVE  ACK(p, q, b) \in Packets /\ Honest(ACK(p, q, b), f, len, get, content)
<1>1. /\ ThBlock(b) \in Nat /\ ThBlock(b) < Modulus /\ ThBlock(b) <= b
  BY WireNumber
<1>2. NoData \in (Files \cup {NoFile}) \X Nat
  BY DEF NoData
<1>3. ACK(p, q, b) =
        [to |-> q, from |-> p, n |-> ThBlock(b), op |-> "ACK", data |-> NoData]
  BY DEF ACK
<1>4. q = Client => /\ ThBlock(b) <= len
                    /\ \A i \in 1..ThBlock(b) : content[i] = Data(f, i)
  BY <1>1, TftpAssumption
<1> QED
  BY <1>1, <1>2, <1>3, <1>4 DEF Packets, Honest

------------------------------------------------------------------------------
(* Steps. *)

\* Once somebody does something there is a command, and it is the last one.
LEMMA Working ==
  ASSUME SingleCommand, Inv, NEW p \in Procs, role[p] # "idle"
  PROVE  /\ transfers = 1 /\ Wanted \in Files /\ role[Client] # "idle"
         /\ length[Wanted] \in Index /\ Index \subseteq Nat
         /\ Prompt = "exited"
<1>1. transfers = 1
  <2>1. SUFFICES ASSUME transfers = 0 PROVE FALSE
    BY DEF Inv, Started
  <2>2. forked = 0 /\ role[Client] = "idle"
    BY <2>1 DEF Inv, Started
  <2>3. p \in Servers /\ p > forked
    BY <2>2 DEF Procs, Servers
  <2> QED
    BY <2>3 DEF Inv, Fresh
<1> QED
  BY <1>1 DEF Inv, Started, TypeOK, Prompt, SingleCommand, Index

\* A packet that is under way stays honest while files only gain blocks.
LEMMA StaysHonest ==
  ASSUME NEW m \in Packets, NEW f, NEW len \in Index, NEW get,
         NEW old, NEW new, Honest(m, f, len, get, old),
         \A i \in Index : old[i] = Data(f, i) => new[i] = Data(f, i)
  PROVE  Honest(m, f, len, get, new)
<1>1. ASSUME m.op = "ACK", m.to = Client, NEW i \in 1..m.n
      PROVE  new[i] = Data(f, i)
  BY <1>1, TftpAssumption DEF Honest, Packets, Index
<1> QED
  BY <1>1 DEF Honest

\* A process other than one of those below does not see what p does, as long
\* as p writes right blocks only and sends honest packets.
LEMMA Step ==
  ASSUME SingleCommand, Inv, NEW p \in Procs, role[p] # "idle",
         UNCHANGED <<length, gets, public, forked, transfers, file>>,
         NEW x \in Roles \ {"idle"}, role' = [role EXCEPT ![p] = x],
         block' \in [Procs -> Nat], \A q \in Procs \ {p} : block'[q] = block[q],
         tries' \in [Procs -> Nat], peer' \in Servers \cup {WellKnown},
         net' \in SUBSET Packets,
         \A m \in net' \ net :
           Honest(m, Wanted, length[Wanted], Wanted \in gets, remote'[Wanted]),
         local' \in [Index -> (Files \X Nat) \cup {Hole}],
         remote' \in [Files -> [Index -> (Files \X Nat) \cup {Hole, Old}]],
         p = Client \/ local' = local,
         \A i \in Index : remote[Wanted][i] = Data(Wanted, i)
                          => remote'[Wanted][i] = Data(Wanted, i),
         Sound(p)',
         result' \in {"none", "busy", "ok", "error", "timeout", "interrupt"},
         result' = "ok" => /\ role'[Client] = "exited"
                           /\ \/ result = "ok" /\ local' = local
                              \/ Whole(Target, Wanted)'
  PROVE  Inv'
<1>1. /\ transfers = 1 /\ Wanted \in Files /\ length[Wanted] \in Index
      /\ Index \subseteq Nat /\ role[Client] # "idle"
  BY Working
<1>2. Wanted' = Wanted /\ length' = length /\ gets' = gets
  BY DEF Wanted
<1>3. TypeOK'
  BY DEF Inv, TypeOK
<1>4. role'[Client] # "idle" /\ \A q \in Procs : role'[q] = IF q = p THEN x ELSE role[q]
  BY <1>1, PortFacts DEF Inv, TypeOK
<1>5. Started'
  BY <1>1, <1>2, <1>4 DEF Inv, Started
<1>6. Fresh'
  BY <1>4, PortFacts DEF Inv, Fresh
<1>7. NetIsHonest'
  <2>1. SUFFICES ASSUME NEW m \in net'
                 PROVE  Honest(m, Wanted, length[Wanted], Wanted \in gets, remote'[Wanted])
    BY <1>2 DEF NetIsHonest
  <2>2. CASE m \in net
    <3>1. Honest(m, Wanted, length[Wanted], Wanted \in gets, remote[Wanted])
      BY <2>2 DEF Inv, NetIsHonest
    <3> QED
      BY <1>1, <3>1, StaysHonest
  <2> QED
    BY <2>1, <2>2
<1>8. AllSound'
  <2>1. SUFFICES ASSUME NEW q \in Procs, q # p PROVE Sound(q)'
    BY DEF AllSound
  <2>2. Sound(q) /\ role'[q] = role[q] /\ block'[q] = block[q] /\ file'[q] = file[q]
    BY <1>4, <2>1 DEF Inv, AllSound
  <2>3. q = Client => local' = local
    BY <2>1
  <2> QED
    BY <1>1, <1>2, <2>2, <2>3 DEF Sound, Busy
<1>9. Successful'
  <2>1. SUFFICES ASSUME result' = "ok" PROVE Whole(Target, Wanted)'
    BY DEF Successful, SuccessIsWhole
  <2>2. CASE result = "ok" /\ local' = local
    <3>1. Whole(Target, Wanted)
      BY <2>2 DEF Inv, Successful, SuccessIsWhole
    <3>2. \A i \in 1..length[Wanted] : i \in Index
      BY <1>1, TftpAssumption DEF Index
    <3> QED
      BY <1>2, <2>2, <3>1, <3>2 DEF Whole, Target
  <2> QED
    BY <2>1, <2>2
<1> QED
  BY <1>3, <1>5, <1>6, <1>7, <1>8, <1>9 DEF Inv

------------------------------------------------------------------------------
(* One lemma for each action. *)

\* The network after p has gone on: nothing but the given packets is new.
LEMMA AfterIsNew ==
  ASSUME NEW p, NEW r, NEW ms PROVE After(p, r, ms) \subseteq net \cup ms
BY DEF After, Without, Open

LEMMA InitInv == ASSUME Init PROVE Inv
<1>1. TypeOK
  <2>1. remote \in [Files -> [Index -> (Files \X Nat) \cup {Hole, Old}]]
    BY DEF Init, Index, Data
  <2>2. forked \in 0..MaxServers /\ transfers \in 0..MaxTransfers
    BY TftpAssumption DEF Init
  <2>3. "idle" \in Roles
    BY DEF Roles
  <2> QED
    BY <2>1, <2>2, <2>3 DEF Init, TypeOK
<1>2. \A p \in Procs : ~Busy(p) /\ role[p] # "recv"
  BY DEF Init, Busy
<1>3. AllSound
  BY <1>2 DEF AllSound, Sound
<1> QED
  BY <1>1, <1>3, PortFacts
  DEF Init, Inv, Started, Fresh, NetIsHonest, Successful, SuccessIsWhole

\* Busy processes are where Sound says, and what they repeat is honest.
LEMMA Repeats ==
  ASSUME SingleCommand, Inv, NEW p \in Procs, Busy(p),
         NEW q \in Procs \cup {WellKnown}, q = Client <=> p # Client
  PROVE  /\ SendsAgain(p, q) \in Packets
         /\ Honest(SendsAgain(p, q), Wanted, length[Wanted], Wanted \in gets,
                   remote[Wanted])
<1>1. /\ Wanted \in Files /\ length[Wanted] \in Nat /\ Index \subseteq Nat
      /\ length[Wanted] \in Index
  BY Working DEF Busy
<1>2. Sound(p) /\ role[p] \in {"send", "recv"} /\ block[p] \in Nat
  BY DEF Inv, AllSound, TypeOK, Busy
<1>3. p # Client /\ role[p] = "recv" =>
        \A i \in 1..(block[p] - 1) : remote[Wanted][i] = Data(Wanted, i)
  BY <1>1, <1>2, TftpAssumption DEF Sound, Index, Busy
<1>4. (Wanted \in gets) \in BOOLEAN
  OBVIOUS
<1>5. /\ file[p] = Wanted /\ block[p] <= length[Wanted] /\ block[p] <= Modulus
      /\ block[p] = 0 => p = Client /\ role[p] = "send"
      /\ role[p] = "recv" <=> (p = Client <=> Wanted \in gets)
  BY <1>2 DEF Sound
<1> DEFINE get == Wanted \in gets
           f == Wanted
           len == length[Wanted]
           content == remote[Wanted]
<1>6. Packet(p, role[p], f, block[p], q) = SendsAgain(p, q)
  BY <1>2, <1>5 DEF SendsAgain, Busy
<1>7. /\ f \in Files /\ get \in BOOLEAN /\ len \in Nat
      /\ block[p] <= len /\ block[p] <= Modulus
      /\ block[p] = 0 => p = Client /\ role[p] = "send"
      /\ role[p] = "recv" <=> (p = Client <=> get)
      /\ p # Client /\ role[p] = "recv" =>
           \A i \in 1..(block[p] - 1) : content[i] = Data(f, i)
  BY <1>1, <1>3, <1>5
<1> HIDE DEF get, f, len, content
<1>8. /\ Packet(p, role[p], f, block[p], q) \in Packets
      /\ Honest(Packet(p, role[p], f, block[p], q), f, len, get, content)
  BY <1>2, <1>7, HonestPacket
<1> USE DEF get, f, len, content
<1> QED
  BY <1>6, <1>8

LEMMA CommandInv == ASSUME SingleCommand, Inv, NEW f \in Files, Command(f) PROVE Inv'
<1> DEFINE r == IF f \in gets THEN "recv" ELSE "send"
           b == IF f \in gets THEN 1 ELSE 0
           pk == Packet(Client, r, f, b, WellKnown)
<1>1. /\ transfers = 0 /\ net = {} /\ forked = 0 /\ result = "none"
      /\ transfers' = 1 /\ forked' = 0 /\ result' = "busy"
  BY DEF Command, Inv, Started, SingleCommand
<1>2. /\ role' = [role EXCEPT ![Client] = r] /\ file' = [file EXCEPT ![Client] = f]
      /\ block' = [block EXCEPT ![Client] = b] /\ tries' = [tries EXCEPT ![Client] = 0]
      /\ net' = {pk} /\ peer' = WellKnown
      /\ UNCHANGED <<length, gets, public, remote>>
  BY <1>1 DEF Command
<1>3. \A s \in Servers : role[s] = "idle"
  BY <1>1 DEF Inv, Fresh, Servers
<1>4. Wanted' = f /\ f \in Files /\ length[f] \in Index /\ length[f] \in Nat
      /\ length[f] >= 1
  BY <1>2, PortFacts DEF Wanted, Inv, TypeOK, Index
<1>5. pk \in Packets /\ Honest(pk, f, length[f], f \in gets, remote[f])
  <2>1. b \in Nat /\ b <= length[f] /\ b <= Modulus /\ (b = 0 => r = "send")
        /\ (r = "recv" <=> f \in gets) /\ r \in {"send", "recv"}
    BY <1>4, TftpAssumption
  <2>2. (f \in gets) \in BOOLEAN /\ WellKnown # Client /\ Client \in Procs
    BY PortFacts
  <2> HIDE DEF r, b
  <2> QED
    BY <1>4, <2>1, <2>2, HonestPacket
<1>6. TypeOK'
  <2>1. local' \in [Index -> (Files \X Nat) \cup {Hole}]
    BY DEF Command, Inv, TypeOK
  <2>2. transfers' \in 0..MaxTransfers /\ forked' \in 0..MaxServers
    BY <1>1, TftpAssumption DEF SingleCommand
  <2>3. r \in Roles /\ b \in Nat
    BY DEF Roles
  <2> HIDE DEF pk, r, b
  <2> QED
    BY <1>1, <1>2, <1>5, <2>1, <2>2, <2>3, PortFacts DEF Inv, TypeOK
<1>7. role'[Client] = r /\ block'[Client] = b /\ file'[Client] = f
      /\ \A s \in Servers : role'[s] = "idle"
  BY <1>2, <1>3, PortFacts DEF Inv, TypeOK
<1>8. Started' /\ Fresh' /\ Successful'
  BY <1>1, <1>2, <1>4, <1>7 DEF Started, Fresh, Successful, SuccessIsWhole
<1>9. NetIsHonest'
  BY <1>2, <1>4, <1>5 DEF NetIsHonest
<1>10. AllSound'
  <2>1. \A s \in Servers : Sound(s)'
    BY <1>7 DEF Sound, Busy
  <2>2. Sound(Client)'
    BY <1>2, <1>4, <1>7, TftpAssumption DEF Sound, Busy, Index
  <2> QED
    BY <2>1, <2>2 DEF AllSound, Procs
<1> QED
  BY <1>6, <1>8, <1>9, <1>10 DEF Inv

LEMMA tftpInv == ASSUME SingleCommand, Inv, NEW m \in net, tftp(m) PROVE Inv'
<1>0. PICK s : s = forked + 1
  OBVIOUS
<1> DEFINE f == m.data[1]
           r == IF f \notin public THEN "exited"
                ELSE IF m.op = "WRQ" THEN "recv" ELSE "send"
           pk == IF f \in public THEN Packet(s, r, f, 1, Client) ELSE Nak(s, Client)
<1>1. /\ forked' = s /\ role' = [role EXCEPT ![s] = r]
      /\ file' = [file EXCEPT ![s] = f] /\ block' = [block EXCEPT ![s] = 1]
      /\ net' = Open(net \cup {pk}) /\ forked < MaxServers
      /\ UNCHANGED <<length, gets, public, local, remote, tries, peer, transfers, result>>
      /\ m.op \in {"RRQ", "WRQ"}
  BY <1>0 DEF tftp
<1>2. s \in Servers /\ s \in Procs /\ s # Client /\ forked \in Nat
  BY <1>0, <1>1, PortFacts, TftpAssumption DEF Inv, TypeOK, Servers
<1>3. transfers = 1 /\ Wanted \in Files /\ role[Client] # "idle"
  BY DEF Inv, Started
<1>4. length[Wanted] \in Nat /\ length[Wanted] >= 1
  BY <1>3 DEF Inv, TypeOK, Index
<1>5. f = Wanted /\ (m.op = "RRQ" <=> Wanted \in gets)
  BY <1>1 DEF Inv, NetIsHonest, Honest
<1>6. pk \in Packets /\ Honest(pk, Wanted, length[Wanted], Wanted \in gets, remote[Wanted])
  <2>1. CASE f \in public
    <3>1. r \in {"send", "recv"} /\ (r = "recv" <=> ~(Wanted \in gets))
      BY <1>1, <1>5, <2>1
    <3>2. (Wanted \in gets) \in BOOLEAN /\ 1 \in Nat /\ 1 <= Modulus /\ 1 # 0
      BY TftpAssumption
    <3>3. \A i \in 1..(1 - 1) : remote[Wanted][i] = Data(Wanted, i)
      OBVIOUS
    <3> HIDE DEF r
    <3>4. /\ Packet(s, r, Wanted, 1, Client) \in Packets
          /\ Honest(Packet(s, r, Wanted, 1, Client), Wanted, length[Wanted],
                    Wanted \in gets, remote[Wanted])
      BY <1>2, <1>3, <1>4, <3>1, <3>2, <3>3, HonestPacket, PortFacts
    <3> QED
      BY <1>5, <2>1, <3>4
  <2>2. CASE f \notin public
    <3>1. pk = [to |-> Client, from |-> s, n |-> 0, op |-> "ERROR", data |-> <<NoFile, 0>>]
      BY <2>2 DEF Nak, NoData
    <3> HIDE DEF pk
    <3> QED
      BY <1>2, <3>1, PortFacts, TftpAssumption DEF Packets, Honest
  <2> QED
    BY <2>1, <2>2
<1>7. net' \subseteq net \cup {pk}
  BY <1>1 DEF Open
<1>8. /\ role'[s] = r /\ file'[s] = f /\ block'[s] = 1
      /\ \A q \in Procs \ {s} : /\ role'[q] = role[q] /\ file'[q] = file[q]
                               /\ block'[q] = block[q]
  BY <1>1, <1>2 DEF Inv, TypeOK
<1>9. Wanted' = Wanted /\ role'[Client] = role[Client]
  BY <1>2, <1>8, PortFacts DEF Wanted
<1>10. TypeOK'
  <2>1. r \in Roles /\ f \in Files /\ s \in 0..MaxServers
    BY <1>2, <1>3, <1>5 DEF Roles, Servers
  <2>2. net' \subseteq Packets
    BY <1>6, <1>7 DEF Inv, TypeOK
  <2> HIDE DEF r, f, pk
  <2> QED
    BY <1>1, <2>1, <2>2 DEF Inv, TypeOK
<1>11. Started' /\ Successful'
  BY <1>1, <1>3, <1>9
  DEF Inv, Started, Successful, SuccessIsWhole, Whole, Target
<1>12. Fresh'
  <2>1. SUFFICES ASSUME NEW t \in Servers, t > forked + 1 PROVE role'[t] = "idle"
    BY <1>0, <1>1 DEF Fresh
  <2>2. t \in Procs /\ t # s /\ t > forked
    BY <1>0, <1>2, <2>1, PortFacts DEF Servers
  <2> QED
    BY <1>8, <2>2 DEF Inv, Fresh
<1>13. NetIsHonest'
  BY <1>1, <1>6, <1>7, <1>9 DEF Inv, NetIsHonest
<1>14. AllSound'
  <2>1. \A q \in Procs \ {s} : Sound(q)'
    BY <1>1, <1>8, <1>9 DEF Inv, AllSound, Sound, Busy
  <2>2. Sound(s)'
    <3>1. r # "exited" => (r = "recv" <=> ~(Wanted \in gets))
      BY <1>1, <1>5
    <3>2. \A i \in Index : ~(i < 1)
      BY DEF Index
    <3> HIDE DEF r
    <3> QED
      BY <1>1, <1>2, <1>4, <1>5, <1>8, <1>9, <3>1, <3>2, TftpAssumption DEF Sound, Busy
  <2> QED
    BY <2>1, <2>2 DEF AllSound
<1> QED
  BY <1>10, <1>11, <1>12, <1>13, <1>14 DEF Inv

\* A process that leaves its loop, or the network that loses packets: no block
\* is written, and what is sent is honest.
LEMMA Leaves ==
  ASSUME SingleCommand, Inv, NEW p \in Procs, role[p] # "idle",
         NEW x \in {"final", "exited", "quit"}, role' = [role EXCEPT ![p] = x],
         UNCHANGED <<files, file, block, forked, transfers>>,
         tries' \in [Procs -> Nat], peer' \in Servers \cup {WellKnown},
         net' \in SUBSET Packets,
         \A m \in net' \ net :
           Honest(m, Wanted, length[Wanted], Wanted \in gets, remote[Wanted]),
         result' \in {"none", "busy", "ok", "error", "timeout", "interrupt"},
         result' = "ok" => /\ role'[Client] = "exited"
                           /\ result = "ok" \/ Whole(Target, Wanted)
  PROVE  Inv'
<1>1. x \in Roles \ {"idle"}
  BY DEF Roles
<1>2. role'[p] = x
  BY DEF Inv, TypeOK
<1>3. Sound(p)'
  BY <1>2 DEF Sound, Busy
<1>4. UNCHANGED <<length, gets, public, local, remote>> /\ UNCHANGED <<Target, Wanted>>
  BY DEF files, Target, Wanted
<1>5. Whole(Target, Wanted) => Whole(Target, Wanted)'
  BY <1>4 DEF Whole
<1>6. /\ block' \in [Procs -> Nat] /\ local' \in [Index -> (Files \X Nat) \cup {Hole}]
      /\ remote' \in [Files -> [Index -> (Files \X Nat) \cup {Hole, Old}]]
  BY <1>4 DEF Inv, TypeOK
<1> QED
  BY <1>1, <1>3, <1>4, <1>5, <1>6, Step

\* A process that only moves on in time, or sends its last packet again.
LEMMA Waits ==
  ASSUME SingleCommand, Inv, NEW p \in Procs, role[p] # "idle",
         UNCHANGED <<files, role, file, block, forked, transfers, result>>,
         tries' \in [Procs -> Nat], peer' \in Servers \cup {WellKnown},
         net' \in SUBSET Packets,
         \A m \in net' \ net :
           Honest(m, Wanted, length[Wanted], Wanted \in gets, remote[Wanted])
  PROVE  Inv'
<1>1. UNCHANGED <<length, gets, public, local, remote>> /\ UNCHANGED <<Target, Wanted>>
  BY DEF files, Target, Wanted
<1>2. role[p] \in Roles \ {"idle"} /\ role' = [role EXCEPT ![p] = role[p]]
  BY DEF Inv, TypeOK
<1>3. Sound(p)'
  BY <1>1 DEF Inv, AllSound, Sound, Busy
<1>4. result' = "ok" => role'[Client] = "exited" /\ result = "ok" /\ local' = local
  BY <1>1 DEF Inv, Successful
<1>5. /\ block' \in [Procs -> Nat] /\ local' \in [Index -> (Files \X Nat) \cup {Hole}]
      /\ remote' \in [Files -> [Index -> (Files \X Nat) \cup {Hole, Old}]]
      /\ result' \in {"none", "busy", "ok", "error", "timeout", "interrupt"}
  BY <1>1 DEF Inv, TypeOK
<1> QED
  BY <1>1, <1>2, <1>3, <1>4, <1>5, Step

\* Where the client's packets go after it has received one, and a server's.
LEMMA PeerFacts ==
  ASSUME Inv, NEW p \in Procs, NEW m \in net, m.to = p
  PROVE  /\ m \in Packets /\ m.from \in Procs
         /\ m.from # Client <=> p = Client
         /\ p = Client => m.from \in Servers
         /\ (IF p = Client THEN m.from ELSE peer) \in Servers \cup {WellKnown}
BY PortFacts DEF Inv, NetIsHonest, Honest, TypeOK, Packets, Procs

LEMMA timerInv ==
  ASSUME SingleCommand, Inv, NEW p \in Procs, timer(p) PROVE Inv'
<1>1. /\ Busy(p) /\ role[p] # "idle" /\ tries' = [tries EXCEPT ![p] = @ + 1]
      /\ UNCHANGED <<file, block, peer, forked, transfers>> /\ UNCHANGED files
  BY DEF timer, Busy, Elapsed
<1>2. tries' \in [Procs -> Nat] /\ peer' \in Servers \cup {WellKnown}
      /\ net \subseteq Packets
  BY <1>1 DEF Inv, TypeOK
<1>3. CASE /\ net' = Open(net \cup {SendsAgain(p, PeerOf(p))})
           /\ UNCHANGED <<role, result>>
  <2>1. PeerOf(p) \in Procs \cup {WellKnown} /\ (PeerOf(p) = Client <=> p # Client)
    BY PortFacts DEF PeerOf, Inv, TypeOK
  <2>2. /\ SendsAgain(p, PeerOf(p)) \in Packets
        /\ Honest(SendsAgain(p, PeerOf(p)), Wanted, length[Wanted],
                  Wanted \in gets, remote[Wanted])
    BY <1>1, <2>1, Repeats
  <2>3. net' \subseteq net \cup {SendsAgain(p, PeerOf(p))}
    BY <1>3 DEF Open
  <2> QED
    BY <1>1, <1>2, <1>3, <2>2, <2>3, Waits
<1>4. CASE /\ role' = [role EXCEPT ![p] = IF p = Client THEN Prompt ELSE "quit"]
           /\ result' = IF p = Client THEN "timeout" ELSE result
           /\ net' = After(p, role'[p], {})
  <2>1. PICK x \in {"final", "exited", "quit"} : role' = [role EXCEPT ![p] = x]
    BY <1>1, <1>4, Working
  <2>2. net' \subseteq net
    BY <1>4, AfterIsNew
  <2>3. result' = "ok" => role'[Client] = "exited" /\ result = "ok"
    BY <1>4, PortFacts DEF Inv, Successful, TypeOK
  <2>4. result' \in {"none", "busy", "ok", "error", "timeout", "interrupt"}
    BY <1>4 DEF Inv, TypeOK
  <2> QED
    BY <1>1, <1>2, <2>1, <2>2, <2>3, <2>4, Leaves
<1> QED
  BY <1>3, <1>4 DEF timer

LEMMA intrInv == ASSUME SingleCommand, Inv, intr PROVE Inv'
<1>1. role[Client] # "idle" /\ Client \in Procs
  BY PortFacts DEF intr, Busy
<1>0. Prompt = "exited"
  BY <1>1, Working
<1>2. /\ role' = [role EXCEPT ![Client] = "exited"] /\ result' = "interrupt"
      /\ UNCHANGED <<file, block, tries, peer, forked, transfers>> /\ UNCHANGED files
      /\ net' \subseteq net
  <2>1. net' = After(Client, Prompt, {})
    BY DEF intr
  <2>2. net' \subseteq net
    BY <2>1, AfterIsNew
  <2> QED
    BY <1>0, <2>2 DEF intr
<1>3. tries' \in [Procs -> Nat] /\ peer' \in Servers \cup {WellKnown}
      /\ net \subseteq Packets
  BY <1>2 DEF Inv, TypeOK
<1>4. /\ net' \in SUBSET Packets /\ net' \ net = {}
      /\ result' \in {"none", "busy", "ok", "error", "timeout", "interrupt"}
      /\ result' # "ok"
  BY <1>2, <1>3
<1> HIDE DEF Client
<1> QED
  BY <1>1, <1>2, <1>3, <1>4, Leaves

\* The ends of a server.
LEMMA ServerLeaves ==
  ASSUME SingleCommand, Inv, NEW s \in Servers, role[s] # "idle",
         NEW x \in {"exited", "quit"}, role' = [role EXCEPT ![s] = x],
         net' \subseteq net,
         UNCHANGED <<file, block, tries, peer, forked, transfers, result>>,
         UNCHANGED files
  PROVE  Inv'
<1>1. s \in Procs /\ s # Client
  BY PortFacts
<1>2. /\ tries' \in [Procs -> Nat] /\ peer' \in Servers \cup {WellKnown}
      /\ net' \in SUBSET Packets
      /\ result' \in {"none", "busy", "ok", "error", "timeout", "interrupt"}
  BY DEF Inv, TypeOK
<1>3. result' = "ok" => role'[Client] = "exited" /\ result = "ok"
  BY <1>1, PortFacts DEF Inv, Successful, TypeOK
<1> QED
  BY <1>1, <1>2, <1>3, Leaves

LEMMA justquitInv ==
  ASSUME SingleCommand, Inv, NEW s \in Servers, justquit(s) PROVE Inv'
<1>1. net' \subseteq net
  BY AfterIsNew DEF justquit
<1> QED
  BY <1>1, ServerLeaves DEF justquit

LEMMA UnreachableInv ==
  ASSUME SingleCommand, Inv, NEW s \in Servers, Unreachable(s) PROVE Inv'
<1>1. net' \subseteq net
  BY AfterIsNew DEF Unreachable
<1> QED
  BY <1>1, ServerLeaves DEF Unreachable

LEMMA LingeredInv ==
  ASSUME SingleCommand, Inv, NEW s \in Servers, NEW m \in net, Lingered(s, m)
  PROVE  Inv'
<1>1. BlockInDp(s) # block[s]
  BY PortFacts DEF BlockInDp, Inv, TypeOK
<1>2. net' = After(s, "exited", {})
  BY <1>1 DEF Lingered
<1>3. net' \subseteq net
  BY <1>2, AfterIsNew
<1> QED
  BY <1>3, ServerLeaves DEF Lingered

LEMMA LoseInv == ASSUME SingleCommand, Inv, NEW m \in net, Lose(m) PROVE Inv'
<1>1. Client \in Procs /\ role[Client] # "idle"
  BY PortFacts DEF Inv, Started
<1>2. /\ net' \in SUBSET Packets /\ net' \subseteq net
      /\ tries' \in [Procs -> Nat] /\ peer' \in Servers \cup {WellKnown}
      /\ UNCHANGED <<files, role, file, block, forked, transfers, result>>
  BY DEF Lose, Inv, TypeOK
<1> QED
  BY <1>1, <1>2, Waits

\* The client stops on an error; recvfile acknowledges a block that it has not
\* got, but to a server, and what servers are sent is no evidence of anything.
LEMMA RefusedInv == ASSUME SingleCommand, Inv, NEW m \in net, Refused(m) PROVE Inv'
<1>1. /\ role[Client] # "idle" /\ Client \in Procs /\ Busy(Client)
      /\ m.to = Client /\ peer' = m.from
  BY PortFacts DEF Refused, Receives, Busy
<1>2. Prompt = "exited"
  BY <1>1, Working
<1>3. /\ role' = [role EXCEPT ![Client] = "exited"] /\ result' = "error"
      /\ UNCHANGED <<file, block, tries, forked, transfers>> /\ UNCHANGED files
  BY <1>2 DEF Refused
<1>4. /\ m.from \in Servers /\ m.from \in Procs /\ m.from # Client
      /\ peer' \in Servers \cup {WellKnown}
  BY <1>1, PeerFacts, PortFacts
<1>5. PICK ms : /\ net' = After(Client, Prompt, ms)
                /\ ms = IF role[Client] = "recv"
                          THEN {ACK(Client, m.from, block[Client])} ELSE {}
  BY DEF Refused
<1>6. /\ ACK(Client, m.from, block[Client]) \in Packets
      /\ Honest(ACK(Client, m.from, block[Client]), Wanted, length[Wanted],
                Wanted \in gets, remote[Wanted])
  <2>1. /\ block[Client] \in Nat /\ block[Client] <= length[Wanted]
        /\ block[Client] <= Modulus
    BY <1>1 DEF Inv, TypeOK, AllSound, Sound
  <2>2. length[Wanted] \in Nat /\ (Wanted \in gets) \in BOOLEAN
    BY <1>1, Working
  <2> DEFINE get == Wanted \in gets
             f == Wanted
             len == length[Wanted]
             content == remote[Wanted]
             b == block[Client]
             q == m.from
  <2>3. /\ q \in Procs /\ get \in BOOLEAN /\ len \in Nat /\ b \in Nat
        /\ b <= len /\ b <= Modulus /\ q # Client
    BY <1>4, <2>1, <2>2
  <2> HIDE DEF get, f, len, content, b, q
  <2>4. ACK(Client, q, b) \in Packets /\ Honest(ACK(Client, q, b), f, len, get, content)
    BY <1>1, <2>3, HonestAck
  <2> USE DEF get, f, len, content, b, q
  <2> QED
    BY <2>4
<1>7. net' \subseteq net \cup {ACK(Client, m.from, block[Client])}
  BY <1>5, AfterIsNew
<1>8. /\ net' \in SUBSET Packets /\ tries' \in [Procs -> Nat]
      /\ result' \in {"none", "busy", "ok", "error", "timeout", "interrupt"}
      /\ result' # "ok"
  BY <1>3, <1>6, <1>7 DEF Inv, TypeOK
<1> HIDE DEF Client
<1> QED
  BY <1>1, <1>3, <1>4, <1>6, <1>7, <1>8, Leaves

LEMMA SkippedInv ==
  ASSUME SingleCommand, Inv, NEW p \in Procs, NEW m \in net, Skipped(p, m)
  PROVE  Inv'
<1>1. m.to = p /\ Busy(p) /\ role[p] # "idle"
  BY DEF Skipped, Receives, Busy
<1>2. peer' \in Servers \cup {WellKnown}
  BY <1>1, PeerFacts DEF Skipped, Receives
<1>3. /\ net' \in SUBSET Packets /\ net' \ net = {} /\ tries' \in [Procs -> Nat]
      /\ UNCHANGED <<files, role, file, block, forked, transfers, result>>
  BY DEF Skipped, Inv, TypeOK
<1> QED
  BY <1>1, <1>2, <1>3, Waits

LEMMA OutOfStepInv ==
  ASSUME SingleCommand, Inv, NEW p \in Procs, NEW m \in net, OutOfStep(p, m)
  PROVE  Inv'
<1>1. m.to = p /\ Busy(p) /\ role[p] # "idle"
  BY DEF OutOfStep, Receives, Busy
<1>2. PICK q : q = IF p = Client THEN m.from ELSE Client
  OBVIOUS
<1>3. /\ peer' \in Servers \cup {WellKnown}
      /\ q \in Procs \cup {WellKnown} /\ (q = Client <=> p # Client)
  BY <1>1, <1>2, PeerFacts, PortFacts DEF OutOfStep, Receives
<1>4. /\ SendsAgain(p, q) \in Packets
      /\ Honest(SendsAgain(p, q), Wanted, length[Wanted], Wanted \in gets,
                remote[Wanted])
  BY <1>1, <1>3, Repeats
<1>5. net' \subseteq net \cup {SendsAgain(p, q)}
  BY <1>2 DEF OutOfStep, synchnet, Without, Open
<1>6. /\ net' \in SUBSET Packets /\ tries' \in [Procs -> Nat]
      /\ UNCHANGED <<files, role, file, block, forked, transfers, result>>
  BY <1>4, <1>5 DEF OutOfStep, Inv, TypeOK
<1> QED
  BY <1>1, <1>3, <1>4, <1>5, <1>6, Waits

\* Where p is when the packet it waits for has come.
LEMMA Arrives ==
  ASSUME SingleCommand, Inv, NEW p \in Procs, NEW m \in net, Receives(p, m),
         IsNext(p, m)
  PROVE  /\ role[p] # "idle" /\ Wanted \in Files /\ length[Wanted] \in Nat
         /\ length[Wanted] \in Index /\ Index \subseteq Nat
         /\ file[p] = Wanted /\ block[p] \in Nat /\ block[p] <= length[Wanted]
         /\ block[p] + 1 <= Modulus
         /\ (role[p] = "recv" <=> (p = Client <=> Wanted \in gets))
         /\ block[p] = 0 => role[p] = "send"
         /\ peer' \in Servers \cup {WellKnown}
<1>1. m.to = p /\ Busy(p) /\ role[p] # "idle" /\ m.n = block[p]
  BY DEF Receives, Busy, IsNext
<1>2. /\ Wanted \in Files /\ length[Wanted] \in Nat
      /\ length[Wanted] \in Index /\ Index \subseteq Nat
  BY <1>1, Working
<1>3. peer' \in Servers \cup {WellKnown}
  BY <1>1, PeerFacts DEF Receives
<1>4. block[p] \in Nat /\ Sound(p)
  BY DEF Inv, TypeOK, AllSound
<1>5. block[p] < Modulus
  BY <1>1 DEF Inv, NetIsHonest, Honest
<1>6. block[p] + 1 <= Modulus
  BY <1>4, <1>5, TftpAssumption
<1> QED
  BY <1>1, <1>2, <1>3, <1>4, <1>6 DEF Sound

\* The next packet of p, when its block and what has been written allow it.
LEMMA NextPacket ==
  ASSUME SingleCommand, Inv, NEW p \in Procs, NEW m \in net, Receives(p, m),
         IsNext(p, m), Goes(p, m), block[p] + 1 <= length[Wanted], NEW content,
         p # Client /\ role[p] = "recv" =>
           \A i \in 1..block[p] : content[i] = Data(Wanted, i)
  PROVE  /\ net' \in SUBSET Packets
         /\ \A k \in net' \ net :
              Honest(k, Wanted, length[Wanted], Wanted \in gets, content)
<1>1. PICK q : q = IF p = Client THEN m.from ELSE Client
  OBVIOUS
<1>2. m.to = p /\ role[p] \in {"send", "recv"}
  BY DEF Receives, Busy
<1>3. q \in Procs \cup {WellKnown} /\ (q = Client <=> p # Client)
  BY <1>1, <1>2, PeerFacts, PortFacts
<1> DEFINE get == Wanted \in gets
           len == length[Wanted]
           f == Wanted
           r == role[p]
           b == block[p] + 1
<1>4. /\ f \in Files /\ b \in Nat /\ len \in Nat /\ get \in BOOLEAN
      /\ r \in {"send", "recv"}
      /\ b <= len /\ b <= Modulus /\ b # 0 /\ (r = "recv" <=> (p = Client <=> get))
      /\ p # Client /\ r = "recv" => \A i \in 1..(b - 1) : content[i] = Data(f, i)
  BY <1>2, Arrives
<1>5. net' \subseteq net \cup {Packet(p, r, f, b, q)}
  BY <1>1, Arrives DEF Goes, Open
<1> HIDE DEF get, len, f, r, b
<1>6. /\ Packet(p, r, f, b, q) \in Packets
      /\ Honest(Packet(p, r, f, b, q), f, len, get, content)
  BY <1>3, <1>4, HonestPacket
<1> USE DEF get, len, f
<1>7. net \subseteq Packets
  BY DEF Inv, TypeOK
<1> QED
  BY <1>5, <1>6, <1>7

LEMMA AcknowledgedInv ==
  ASSUME SingleCommand, Inv, NEW p \in Procs, NEW m \in net, Acknowledged(p, m)
  PROVE  Inv'
<1>1. /\ Receives(p, m) /\ role[p] = "send" /\ m.op = "ACK" /\ IsNext(p, m)
      /\ m.to = p /\ m.n = block[p]
      /\ UNCHANGED <<length, gets, public, local, remote, file, forked, transfers>>
  BY DEF Acknowledged, Receives, IsNext, files
<1>2. /\ role[p] # "idle" /\ Wanted \in Files /\ length[Wanted] \in Nat
      /\ file[p] = Wanted /\ block[p] \in Nat /\ block[p] <= length[Wanted]
      /\ block[p] + 1 <= Modulus
      /\ p = Client <=> ~(Wanted \in gets)
      /\ peer' \in Servers \cup {WellKnown}
  BY <1>1, Arrives
<1>3. /\ local' \in [Index -> (Files \X Nat) \cup {Hole}]
      /\ remote' \in [Files -> [Index -> (Files \X Nat) \cup {Hole, Old}]]
      /\ net \subseteq Packets
  BY <1>1 DEF Inv, TypeOK
<1>4. CASE block[p] # length[file[p]] /\ Goes(p, m)
  <2>1. /\ block' = [block EXCEPT ![p] = @ + 1]
        /\ tries' = [tries EXCEPT ![p] = 0] /\ UNCHANGED <<role, result>>
    BY <1>4 DEF Goes
  <2>2. block[p] + 1 <= length[Wanted]
    BY <1>2, <1>4
  <2>3. /\ net' \in SUBSET Packets
        /\ \A k \in net' \ net :
             Honest(k, Wanted, length[Wanted], Wanted \in gets, remote'[Wanted])
    <3>1. role[p] # "recv"
      BY <1>1
    <3>2. /\ net' \in SUBSET Packets
          /\ \A k \in net' \ net :
               Honest(k, Wanted, length[Wanted], Wanted \in gets, remote[Wanted])
      BY <1>1, <1>4, <2>2, <3>1, NextPacket
    <3> QED
      BY <1>1, <3>2
  <2>4. /\ block' \in [Procs -> Nat] /\ \A q \in Procs \ {p} : block'[q] = block[q]
        /\ block'[p] = block[p] + 1 /\ tries' \in [Procs -> Nat]
        /\ result' \in {"none", "busy", "ok", "error", "timeout", "interrupt"}
        /\ role' = [role EXCEPT ![p] = "send"] /\ role'[p] = "send"
    BY <1>1, <2>1 DEF Inv, TypeOK
  <2>5. Sound(p)'
    BY <1>1, <1>2, <2>2, <2>4 DEF Sound, Busy, Wanted
  <2>6. result' = "ok" => role'[Client] = "exited" /\ result = "ok" /\ local' = local
    BY <1>1, <2>1 DEF Inv, Successful
  <2>7. "send" \in Roles \ {"idle"}
    BY DEF Roles
  <2> QED
    BY <1>1, <1>2, <1>3, <2>3, <2>4, <2>5, <2>6, <2>7, Step
<1>5. CASE /\ block[p] = length[file[p]]
           /\ block' = [block EXCEPT ![p] = @ + 1]
           /\ role' = [role EXCEPT ![p] = IF p = Client THEN Prompt ELSE "exited"]
           /\ result' = IF p = Client THEN "ok" ELSE result
           /\ net' = After(p, role'[p], {})
           /\ UNCHANGED tries
  <2>1. role' = [role EXCEPT ![p] = "exited"]
    BY <1>1, <1>2, <1>5, Working
  <2>2. net' \subseteq net
    BY <1>5, AfterIsNew
  <2>3. /\ block' \in [Procs -> Nat] /\ \A q \in Procs \ {p} : block'[q] = block[q]
        /\ tries' \in [Procs -> Nat] /\ role'[p] = "exited"
        /\ result' \in {"none", "busy", "ok", "error", "timeout", "interrupt"}
    BY <1>2, <1>5, <2>1 DEF Inv, TypeOK
  <2>4. Sound(p)'
    BY <2>3 DEF Sound, Busy
  <2>5. result' = "ok" => /\ role'[Client] = "exited"
                          /\ \/ result = "ok" /\ local' = local
                             \/ Whole(Target, Wanted)'
    <3>1. CASE p = Client
      <4>1. \A i \in 1..length[Wanted] : remote[Wanted][i] = Data(Wanted, i)
        BY <1>1, <1>2, <1>5, <3>1 DEF Inv, NetIsHonest, Honest
      <4>2. /\ Wanted' = Wanted /\ length' = length /\ remote' = remote
            /\ Target' = remote[Wanted]
        BY <1>1, <1>2, <3>1 DEF Target, Wanted
      <4> QED
        BY <2>3, <3>1, <4>1, <4>2 DEF Whole
    <3>2. CASE p # Client
      BY <1>1, <1>5, <2>1, <3>2, PortFacts DEF Inv, Successful, TypeOK
    <3> QED
      BY <3>1, <3>2
  <2>6. "exited" \in Roles \ {"idle"} /\ net' \ net = {} /\ net' \in SUBSET Packets
    BY <1>3, <2>2 DEF Roles
  <2> QED
    BY <1>1, <1>2, <1>3, <2>1, <2>3, <2>4, <2>5, <2>6, Step
<1> QED
  BY <1>4, <1>5 DEF Acknowledged

\* A block that is written leaves all that was right as it was.
LEMMA WrittenFacts ==
  ASSUME SingleCommand, Inv, NEW p \in Procs, NEW m \in net, role[p] = "recv",
         Written(p, m), m.data = Data(Wanted, block[p]), file[p] = Wanted,
         block[p] \in Index, Wanted \in Files
  PROVE  /\ local' \in [Index -> (Files \X Nat) \cup {Hole}]
         /\ remote' \in [Files -> [Index -> (Files \X Nat) \cup {Hole, Old}]]
         /\ p = Client \/ local' = local
         /\ \A i \in Index : remote[Wanted][i] = Data(Wanted, i)
                             => remote'[Wanted][i] = Data(Wanted, i)
         /\ LET content == IF p = Client THEN local' ELSE remote'[Wanted]
            IN \A i \in Index : i <= block[p] => content[i] = Data(Wanted, i)
<1>1. Sound(p) /\ block[p] \in Nat /\ Index \subseteq Nat
  BY DEF Inv, AllSound, TypeOK, Index
<1>2. m.data \in Files \X Nat
  BY <1>1 DEF Data
<1>3. \A i \in Index : i <= block[p] => i < block[p] \/ i = block[p]
  BY <1>1
<1>4. CASE p = Client
  <2>1. local' = [local EXCEPT ![block[p]] = Data(Wanted, block[p])] /\ remote' = remote
    BY <1>4 DEF Written
  <2>2. \A i \in Index : i < block[p] => local[i] = Data(Wanted, i)
    BY <1>1, <1>4 DEF Sound
  <2>3. /\ local \in [Index -> (Files \X Nat) \cup {Hole}]
        /\ remote \in [Files -> [Index -> (Files \X Nat) \cup {Hole, Old}]]
    BY DEF Inv, TypeOK
  <2> QED
    BY <1>2, <1>3, <1>4, <2>1, <2>2, <2>3
<1>5. CASE p # Client
  <2>1. /\ remote' = [remote EXCEPT ![Wanted][block[p]] = Data(Wanted, block[p])]
        /\ local' = local
    BY <1>5 DEF Written
  <2>2. \A i \in Index : i < block[p] => remote[Wanted][i] = Data(Wanted, i)
    BY <1>1, <1>5 DEF Sound
  <2>3. /\ local \in [Index -> (Files \X Nat) \cup {Hole}]
        /\ remote \in [Files -> [Index -> (Files \X Nat) \cup {Hole, Old}]]
    BY DEF Inv, TypeOK
  <2> QED
    BY <1>2, <1>3, <1>5, <2>1, <2>2, <2>3
<1> QED
  BY <1>4, <1>5

LEMMA ReceivedInv ==
  ASSUME SingleCommand, Inv, NEW p \in Procs, NEW m \in net, Received(p, m)
  PROVE  Inv'
<1>1. /\ Receives(p, m) /\ role[p] = "recv" /\ m.op = "DATA" /\ IsNext(p, m)
      /\ m.to = p /\ m.n = block[p] /\ Written(p, m)
      /\ UNCHANGED <<length, gets, public, file, forked, transfers>>
  BY DEF Received, Receives, IsNext
<1>2. /\ role[p] # "idle" /\ Wanted \in Files /\ length[Wanted] \in Nat
      /\ length[Wanted] \in Index /\ Index \subseteq Nat
      /\ file[p] = Wanted /\ block[p] \in Nat /\ block[p] <= length[Wanted]
      /\ block[p] + 1 <= Modulus /\ block[p] # 0
      /\ p = Client <=> Wanted \in gets
      /\ peer' \in Servers \cup {WellKnown}
  BY <1>1, Arrives
<1>3. m.data = Data(Wanted, block[p]) /\ block[p] \in Index
  BY <1>1, <1>2, TftpAssumption DEF Inv, NetIsHonest, Honest, Index
<1>4. PICK content : content = IF p = Client THEN local' ELSE remote'[Wanted]
  OBVIOUS
<1>5. /\ local' \in [Index -> (Files \X Nat) \cup {Hole}]
      /\ remote' \in [Files -> [Index -> (Files \X Nat) \cup {Hole, Old}]]
      /\ p = Client \/ local' = local
      /\ \A i \in Index : remote[Wanted][i] = Data(Wanted, i)
                          => remote'[Wanted][i] = Data(Wanted, i)
      /\ \A i \in Index : i <= block[p] => content[i] = Data(Wanted, i)
  BY <1>1, <1>2, <1>3, <1>4, WrittenFacts
<1>6. \A i \in 1..block[p] : content[i] = Data(Wanted, i)
  BY <1>2, <1>5, TftpAssumption DEF Index
<1>7. Wanted' = Wanted /\ length' = length /\ gets' = gets
  BY <1>1 DEF Wanted
<1>8. CASE ~IsLast(m.data) /\ Goes(p, m)
  <2>1. /\ block' = [block EXCEPT ![p] = @ + 1]
        /\ tries' = [tries EXCEPT ![p] = 0] /\ UNCHANGED <<role, result>>
    BY <1>8 DEF Goes
  <2>2. block[p] + 1 <= length[Wanted]
    BY <1>2, <1>3, <1>8 DEF IsLast, Data
  <2>3. /\ net' \in SUBSET Packets
        /\ \A k \in net' \ net :
             Honest(k, Wanted, length[Wanted], Wanted \in gets, remote'[Wanted])
    <3>1. p # Client => \A i \in 1..block[p] : remote'[Wanted][i] = Data(Wanted, i)
      BY <1>4, <1>6
    <3>2. PICK there : there = remote'[Wanted]
      OBVIOUS
    <3>3. /\ net' \in SUBSET Packets
          /\ \A k \in net' \ net :
               Honest(k, Wanted, length[Wanted], Wanted \in gets, there)
      BY <1>1, <1>8, <2>2, <3>1, <3>2, NextPacket
    <3> QED
      BY <3>2, <3>3
  <2>4. /\ block' \in [Procs -> Nat] /\ \A q \in Procs \ {p} : block'[q] = block[q]
        /\ block'[p] = block[p] + 1 /\ tries' \in [Procs -> Nat]
        /\ result' \in {"none", "busy", "ok", "error", "timeout", "interrupt"}
        /\ role' = [role EXCEPT ![p] = "recv"] /\ role'[p] = "recv"
    BY <1>1, <2>1 DEF Inv, TypeOK
  <2>5. Sound(p)'
    <3>1. ASSUME NEW i \in Index, i < block'[p] PROVE content[i] = Data(Wanted, i)
      <4>1. i <= block[p]
        BY <1>2, <2>4, <3>1
      <4> QED
        BY <1>5, <4>1
    <3>2. /\ file'[p] = Wanted /\ block'[p] <= length[Wanted] /\ block'[p] <= Modulus
          /\ block'[p] # 0 /\ role'[p] = "recv"
      BY <1>1, <1>2, <2>2, <2>4
    <3>3. role'[p] = "recv" <=> (p = Client <=> Wanted' \in gets')
      BY <1>2, <1>7, <3>2
    <3> QED
      BY <1>4, <1>7, <3>1, <3>2, <3>3 DEF Sound, Busy
  <2>6. result' = "ok" => role'[Client] = "exited" /\ result = "ok" /\ local' = local
    BY <1>1, <1>5, <2>1 DEF Inv, Successful
  <2>7. "recv" \in Roles \ {"idle"}
    BY DEF Roles
  <2> QED
    BY <1>1, <1>2, <1>5, <2>3, <2>4, <2>5, <2>6, <2>7, Step
<1>9. CASE /\ IsLast(m.data)
           /\ role' = [role EXCEPT ![p] = IF p = Client THEN Prompt ELSE "final"]
           /\ result' = IF p = Client THEN "ok" ELSE result
           /\ net' = After(p, role'[p], {ACK(p, m.from, block[p])})
           /\ UNCHANGED <<block, tries>>
  <2>1. PICK x \in {"final", "exited"} :
          role' = [role EXCEPT ![p] = x] /\ (p = Client => x = "exited")
    BY <1>1, <1>2, <1>9, Working
  <2>2. block[p] = length[Wanted]
    BY <1>3, <1>9 DEF IsLast, Data
  <2>3. net' \subseteq net \cup {ACK(p, m.from, block[p])}
    BY <1>9, AfterIsNew
  <2>4. /\ block' \in [Procs -> Nat] /\ \A q \in Procs \ {p} : block'[q] = block[q]
        /\ tries' \in [Procs -> Nat] /\ role'[p] = x
        /\ result' \in {"none", "busy", "ok", "error", "timeout", "interrupt"}
    BY <1>9, <2>1 DEF Inv, TypeOK
  <2>5. Sound(p)'
    BY <2>1, <2>4 DEF Sound, Busy
  <2>6. /\ net' \in SUBSET Packets
        /\ \A k \in net' \ net :
             Honest(k, Wanted, length[Wanted], Wanted \in gets, remote'[Wanted])
    <3>1. PICK q : q = m.from
      OBVIOUS
    <3>2. q \in Procs /\ (q = Client <=> p # Client)
      BY <1>1, <3>1, PeerFacts, PortFacts
    <3>3. PICK there : there = remote'[Wanted]
      OBVIOUS
    <3>4. q = Client => \A i \in 1..block[p] : there[i] = Data(Wanted, i)
      BY <1>4, <1>6, <3>2, <3>3
    <3>5. block[p] <= Modulus
      BY <1>2, TftpAssumption
    <3> DEFINE get == Wanted \in gets
               len == length[Wanted]
               f == Wanted
               b == block[p]
    <3>6. /\ b \in Nat /\ len \in Nat /\ get \in BOOLEAN /\ b <= len /\ b <= Modulus
          /\ q = Client => \A i \in 1..b : there[i] = Data(f, i)
      BY <1>2, <3>4, <3>5
    <3> HIDE DEF get, len, f, b
    <3>7. ACK(p, q, b) \in Packets /\ Honest(ACK(p, q, b), f, len, get, there)
      BY <3>2, <3>6, HonestAck
    <3> USE DEF get, len, f, b
    <3>8. net \subseteq Packets
      BY DEF Inv, TypeOK
    <3> QED
      BY <2>3, <3>1, <3>3, <3>7, <3>8
  <2>7. result' = "ok" => /\ role'[Client] = "exited"
                          /\ \/ result = "ok" /\ local' = local
                             \/ Whole(Target, Wanted)'
    <3>1. CASE p = Client
      <4>1. Target' = content
        BY <1>2, <1>4, <1>7, <3>1 DEF Target
      <4> QED
        BY <1>6, <1>7, <2>1, <2>2, <2>4, <3>1, <4>1 DEF Whole
    <3>2. CASE p # Client
      BY <1>5, <1>9, <2>1, <3>2, PortFacts DEF Inv, Successful, TypeOK
    <3> QED
      BY <3>1, <3>2
  <2>8. x \in Roles \ {"idle"}
    BY DEF Roles
  <2> QED
    BY <1>1, <1>2, <1>5, <2>1, <2>4, <2>5, <2>6, <2>7, <2>8, Step
<1> QED
  BY <1>8, <1>9 DEF Received

LEMMA NextInv == ASSUME SingleCommand, Inv, [Next]_vars PROVE Inv'
<1>1. CASE UNCHANGED vars
  <2>1. /\ UNCHANGED <<length, gets, public, net, role, file, block, tries, peer>>
        /\ UNCHANGED <<local, remote, forked, transfers, result>>
    BY <1>1 DEF vars
  <2>2. TypeOK' /\ Started' /\ Fresh'
    BY <2>1 DEF Inv, TypeOK, Started, Fresh, Wanted
  <2>3. NetIsHonest'
    BY <2>1 DEF Inv, NetIsHonest, Wanted
  <2>4. AllSound'
    BY <2>1 DEF Inv, AllSound, Sound, Busy, Wanted
  <2>5. Successful'
    BY <2>1 DEF Inv, Successful, SuccessIsWhole, Whole, Target, Wanted
  <2> QED
    BY <2>2, <2>3, <2>4, <2>5 DEF Inv
<1>2. CASE \E f \in Files : Command(f)
  BY <1>2, CommandInv
<1>3. CASE \E p \in Procs : timer(p)
  BY <1>3, timerInv
<1>4. CASE intr
  BY <1>4, intrInv
<1>5. CASE \E s \in Servers : justquit(s) \/ Unreachable(s)
  BY <1>5, justquitInv, UnreachableInv
<1>6. CASE \E m \in net : tftp(m) \/ Refused(m) \/ Lose(m)
  BY <1>6, tftpInv, RefusedInv, LoseInv
<1>7. CASE \E m \in net : \E p \in Procs : \/ Acknowledged(p, m) \/ Received(p, m)
                                           \/ OutOfStep(p, m) \/ Skipped(p, m)
  BY <1>7, AcknowledgedInv, ReceivedInv, OutOfStepInv, SkippedInv
<1>8. CASE \E m \in net : \E s \in Servers : Lingered(s, m)
  BY <1>8, LingeredInv
<1> QED
  BY <1>1, <1>2, <1>3, <1>4, <1>5, <1>6, <1>7, <1>8 DEF Next

------------------------------------------------------------------------------
(* The results. *)

\* The invariant holds whatever is lost, late or answered twice.
THEOREM Correctness == ASSUME SingleCommand PROVE Spec => []Inv
<1>1. Init => Inv
  BY InitInv
<1>2. Inv /\ [Next]_vars => Inv'
  BY NextInv
<1> QED
  BY <1>1, <1>2, PTL DEF Spec

\* The state of a command, its processes and the packets between them keeps to
\* its types, whatever the network does.
THEOREM TypeCorrect == ASSUME SingleCommand PROVE Spec => []TypeOK
<1>1. Inv => TypeOK
  BY DEF Inv
<1> QED
  BY <1>1, Correctness, PTL

\* A get or put that ends well has copied the whole file and nothing else, from
\* however many servers its answers came (tftp.c: sendfile and recvfile take a
\* packet from any port).
THEOREM SuccessfulCopies == ASSUME SingleCommand PROVE Spec => []SuccessIsWhole
<1>1. Inv => SuccessIsWhole
  BY DEF Inv, Successful
<1> QED
  BY <1>1, Correctness, PTL

\* Whoever receives has written exactly the blocks before the one it waits for,
\* also when th_block has wrapped (tftpsubs.c: writeit only appends).
THEOREM WritesInOrder == ASSUME SingleCommand PROVE Spec => []InOrder
<1>1. ASSUME Inv PROVE InOrder
  <2>1. SUFFICES ASSUME NEW p \in Procs, role[p] = "recv"
                 PROVE  LET content == IF p = Client THEN local ELSE remote[file[p]]
                        IN \A i \in Index : i < block[p] => content[i] = Data(file[p], i)
    BY DEF InOrder
  <2>2. Sound(p) /\ file[p] = Wanted
    BY <1>1, <2>1 DEF Inv, AllSound, Sound, Busy
  <2> QED
    BY <2>1, <2>2 DEF Sound
<1> QED
  BY <1>1, Correctness, PTL

------------------------------------------------------------------------------
(* Lockstep. *)

(* Who acknowledges a block has it and waits for the next, or it is the last. *)
Reached(q, n) ==
  /\ file[q] = Wanted
  /\ block[q] > n \/ (block[q] = n /\ n = length[Wanted])

(* What Lockstep needs beyond Inv.  Servers not yet forked are at no block,   *)
(* and who sends an error is gone: so the acknowledgement with which a client *)
(* answers an error, of a block it has not got, reaches nobody.               *)
LockInv ==
  /\ Lockstep
  /\ \A m \in net : m.op = "ACK" /\ m.n >= 1 => Reached(m.from, m.n)
  /\ \A m \in net : m.op = "ERROR" => m.from \in Servers /\ Closed(m.from)
  /\ \A s \in Servers : s > forked => block[s] = 0

\* Steps in which no process goes back, and none sends a further block without
\* the acknowledgement of its own.
LEMMA LockStep ==
  ASSUME SingleCommand, Inv, Inv', LockInv,
         Wanted' = Wanted, length' = length, forked' >= forked,
         \A p \in Procs : /\ block[p] > 0 => file'[p] = file[p]
                          /\ block'[p] >= block[p]
                          /\ Closed(p) => Closed(p)',
         \A s \in Servers : s > forked' => block'[s] = 0,
         \A p \in Procs : role'[p] = "send" /\ block'[p] > 1 =>
           /\ role[p] = "send"
           /\ \/ block'[p] = block[p]
              \/ /\ block'[p] = block[p] + 1 /\ block[p] # length[Wanted]
                 /\ \E m \in net : m.op = "ACK" /\ m.to = p /\ m.n = block[p],
         \A m \in net' \ net :
           /\ m.op = "ACK" /\ m.n >= 1 => Reached(m.from, m.n)'
           /\ m.op = "ERROR" => m.from \in Servers /\ Closed(m.from)'
  PROVE  LockInv'
<1>1. /\ block \in [Procs -> Nat] /\ block' \in [Procs -> Nat] /\ net \subseteq Packets
      /\ forked \in Nat /\ length' = length /\ Servers \subseteq Procs
  BY PortFacts, TftpAssumption DEF Inv, TypeOK
<1>2. ASSUME NEW q \in Procs, NEW n \in Nat, n >= 1, Reached(q, n)
      PROVE  Reached(q, n)'
  <2>1. block[q] >= n /\ block[q] \in Nat /\ block'[q] \in Nat
    BY <1>1, <1>2 DEF Reached
  <2>2. file'[q] = file[q] /\ block'[q] >= block[q]
    BY <1>2, <2>1
  <2>3. block'[q] > n \/ (block'[q] = n /\ n = length[Wanted])
    BY <1>2, <2>1, <2>2 DEF Reached
  <2> QED
    BY <1>2, <2>2, <2>3 DEF Reached
<1>3. \A m \in net : m.from \in Procs /\ m.n \in Nat
  BY <1>1 DEF Packets
<1>4. (\A m \in net : m.op = "ACK" /\ m.n >= 1 => Reached(m.from, m.n))'
  <2> SUFFICES ASSUME NEW m \in net', m.op = "ACK", m.n >= 1
               PROVE  Reached(m.from, m.n)'
    OBVIOUS
  <2>1. CASE m \in net
    BY <1>2, <1>3, <2>1 DEF LockInv
  <2> QED
    BY <2>1
<1>5. (\A m \in net : m.op = "ERROR" => m.from \in Servers /\ Closed(m.from))'
  BY <1>1 DEF LockInv
<1>6. Lockstep'
  <2> SUFFICES ASSUME NEW p \in Procs, role'[p] = "send", block'[p] > 1
               PROVE  \E q \in Procs : q # p /\ file'[q] = file'[p] /\ block'[q] >= block'[p]
    BY DEF Lockstep
  <2>1. file'[p] = Wanted /\ role[p] = "send" /\ file[p] = Wanted
    BY DEF Inv, AllSound, Sound, Busy
  <2>2. CASE block'[p] = block[p]
    <3>1. PICK q \in Procs : q # p /\ file[q] = file[p] /\ block[q] >= block[p]
      BY <2>1, <2>2 DEF LockInv, Lockstep
    <3>2. block[q] > 0 /\ block'[q] >= block[q]
      BY <1>1, <2>2, <3>1
    <3> QED
      BY <1>1, <2>1, <2>2, <3>1, <3>2
  <2>3. CASE block'[p] = block[p] + 1 /\ block[p] # length[Wanted]
    <3>1. PICK m \in net : m.op = "ACK" /\ m.to = p /\ m.n = block[p]
      BY <2>3, <1>1
    <3>2. m.from \in Procs /\ m.from # p
      BY <1>3, <3>1 DEF Inv, NetIsHonest, Honest
    <3>3. Reached(m.from, m.n) /\ block[p] >= 1
      BY <1>1, <2>3, <3>1 DEF LockInv
    <3>4. file[m.from] = Wanted /\ block[m.from] > block[p]
      BY <2>3, <3>1, <3>3 DEF Reached
    <3>5. file'[m.from] = file[m.from] /\ block'[m.from] >= block[m.from]
      BY <1>1, <3>2, <3>4
    <3> QED
      BY <1>1, <2>1, <2>3, <3>2, <3>4, <3>5
  <2> QED
    BY <2>2, <2>3
<1> QED
  BY <1>4, <1>5, <1>6 DEF LockInv

\* The acknowledgements a process that is still at work sends or repeats.
LEMMA AckReached ==
  ASSUME SingleCommand, Inv', NEW p \in Procs, (Busy(p))', NEW q,
         NEW m, m = Packet(p, role'[p], file'[p], block'[p], q)
  PROVE  m.op # "ERROR" /\ (m.op = "ACK" /\ m.n >= 1 => Reached(m.from, m.n)')
<1>1. /\ file'[p] = Wanted' /\ block'[p] \in Nat /\ block'[p] <= Modulus
      /\ role'[p] \in {"send", "recv"}
  BY DEF Inv, AllSound, Sound, TypeOK, Busy
<1> DEFINE r == role'[p]
           b == block'[p]
           f == file'[p]
<1>2. CASE r = "recv" /\ ~(p = Client /\ b = 1)
  <2>1. m = [to |-> q, from |-> p, n |-> ThBlock(b - 1), op |-> "ACK", data |-> NoData]
    BY <1>2 DEF Packet, ACK
  <2>2. b >= 1
    BY <1>1, <1>2 DEF Inv, AllSound, Sound, Busy
  <2>3. b - 1 \in Nat /\ b - 1 <= Modulus
    BY <1>1, <2>2, TftpAssumption
  <2>4. ThBlock(b - 1) >= 1 => ThBlock(b - 1) = b - 1
    BY <2>3, WireNumber
  <2>5. m.n >= 1 => block'[p] > m.n
    BY <1>1, <2>1, <2>4
  <2> QED
    BY <1>1, <2>1, <2>5 DEF Reached
<1>3. CASE ~(r = "recv" /\ ~(p = Client /\ b = 1))
  BY <1>1, <1>3 DEF Packet, Request, DATA
<1> QED
  BY <1>2, <1>3

\* Steps in which processes only leave, wait, or repeat a packet.
LEMMA LockQuiet ==
  ASSUME SingleCommand, Inv, Inv', LockInv,
         UNCHANGED <<length, forked, file, block>>,
         \A p \in Procs : /\ role'[p] = "send" => role[p] = "send"
                          /\ Closed(p) => Closed(p)',
         \A m \in net' \ net :
           \E p \in Procs : \E q : (Busy(p))' /\ m = Packet(p, role'[p], file[p], block[p], q)
  PROVE  LockInv'
<1>1. /\ block \in [Procs -> Nat] /\ forked \in Nat /\ Wanted' = Wanted
  BY TftpAssumption DEF Inv, TypeOK, Wanted
<1>2. \A m \in net' \ net : m.op # "ERROR" /\ (m.op = "ACK" /\ m.n >= 1 => Reached(m.from, m.n)')
  BY AckReached
<1>3. \A p \in Procs : block'[p] >= block[p]
  BY <1>1
<1>4. \A s \in Servers : s > forked' => block'[s] = 0
  BY DEF LockInv
<1> QED
  BY <1>1, <1>2, <1>3, <1>4, LockStep

\* What is new after such a step is what a process that goes on repeats.
LEMMA LockRepeats ==
  ASSUME SingleCommand, Inv, Inv', LockInv, NEW p \in Procs, Busy(p), NEW q,
         UNCHANGED <<files, role, file, block, forked, transfers, result>>,
         net' \subseteq net \cup {SendsAgain(p, q)}
  PROVE  LockInv'
<1>1. UNCHANGED <<length, forked, file, block>>
  BY DEF files
<1>2. \A x \in Procs : Closed(x) => Closed(x)'
  BY DEF Closed
<1>3. \A m \in net' \ net : (Busy(p))' /\ m = Packet(p, role'[p], file[p], block[p], q)
  BY DEF Busy, SendsAgain
<1> QED
  BY <1>1, <1>2, <1>3, LockQuiet

\* A process leaves its loop, and sends nothing more.
LEMMA LockLeaves ==
  ASSUME SingleCommand, Inv, Inv', LockInv, NEW p \in Procs, ~Closed(p),
         NEW x \in {"final", "exited", "quit"}, role' = [role EXCEPT ![p] = x],
         UNCHANGED <<files, file, block, forked>>, net' \subseteq net
  PROVE  LockInv'
<1>1. UNCHANGED <<length, forked, file, block>>
  BY DEF files
<1>2. \A y \in Procs : role'[y] = IF y = p THEN x ELSE role[y]
  BY DEF Inv, TypeOK
<1>3. \A y \in Procs : /\ role'[y] = "send" => role[y] = "send"
                       /\ Closed(y) => Closed(y)'
  BY <1>2 DEF Closed
<1> QED
  BY <1>1, <1>3, LockQuiet

LEMMA LockCommand ==
  ASSUME SingleCommand, Inv, Inv', LockInv, NEW f \in Files, Command(f) PROVE LockInv'
<1>1. /\ transfers = 0 /\ net = {} /\ forked = 0
      /\ \A s \in Servers : role[s] = "idle"
  BY DEF Command, Inv, Started, SingleCommand, Fresh, Servers
<1>2. PICK r \in {"recv", "send"}, b \in {0, 1} :
        /\ role' = [role EXCEPT ![Client] = r] /\ block' = [block EXCEPT ![Client] = b]
        /\ net' = {Packet(Client, r, f, b, WellKnown)}
        /\ r = "send" <=> b = 0
        /\ forked' = forked
  <2>1. CASE f \in gets
    BY <1>1, <2>1 DEF Command
  <2>2. CASE f \notin gets
    BY <1>1, <2>2 DEF Command
  <2> QED
    BY <2>1, <2>2
<1>3. /\ \A s \in Servers : role'[s] = "idle" /\ block'[s] = block[s]
      /\ role'[Client] = r /\ block'[Client] = b
  BY <1>1, <1>2, PortFacts DEF Inv, TypeOK
<1>4. Lockstep'
  BY <1>2, <1>3 DEF Lockstep, Procs
<1>5. \A m \in net' : m.op \in {"RRQ", "WRQ"}
  BY <1>2 DEF Packet, Request
<1> QED
  BY <1>2, <1>3, <1>4, <1>5 DEF LockInv

LEMMA LockTftp ==
  ASSUME SingleCommand, Inv, Inv', LockInv, NEW m \in net, tftp(m) PROVE LockInv'
<1>0. PICK s : s = forked + 1
  OBVIOUS
<1> DEFINE f == m.data[1]
           r == IF f \notin public THEN "exited"
                ELSE IF m.op = "WRQ" THEN "recv" ELSE "send"
           pk == IF f \in public THEN Packet(s, r, f, 1, Client) ELSE Nak(s, Client)
<1>1. /\ forked' = s /\ role' = [role EXCEPT ![s] = r]
      /\ file' = [file EXCEPT ![s] = f] /\ block' = [block EXCEPT ![s] = 1]
      /\ net' = Open(net \cup {pk}) /\ length' = length
      /\ forked \in Nat /\ s \in Servers /\ s \in Procs /\ s # Client
  BY <1>0, PortFacts, TftpAssumption DEF tftp, Inv, TypeOK, Servers
<1>2. block[s] = 0 /\ role[s] = "idle"
  BY <1>0, <1>1, TftpAssumption DEF LockInv, Inv, Fresh
<1>3. /\ \A p \in Procs : /\ role'[p] = IF p = s THEN r ELSE role[p]
                          /\ file'[p] = IF p = s THEN f ELSE file[p]
                          /\ block'[p] = IF p = s THEN 1 ELSE block[p]
                          /\ block[p] \in Nat
      /\ Wanted' = Wanted
  BY <1>1, PortFacts DEF Inv, TypeOK, Wanted
<1>4. /\ pk.op # "ACK" \/ pk.n = 0
      /\ pk.op = "ERROR" => pk.from = s /\ r = "exited"
  <2>1. ThBlock(1 - 1) = 0
    BY TftpAssumption DEF ThBlock
  <2> QED
    BY <1>1, <2>1 DEF Packet, Request, DATA, ACK, Nak
<1> HIDE DEF pk, f
<1>5. \A p \in Procs : /\ block[p] > 0 => file'[p] = file[p]
                       /\ block'[p] >= block[p]
                       /\ Closed(p) => Closed(p)'
  BY <1>2, <1>3 DEF Closed
<1>6. \A x \in Servers : x > forked' => block'[x] = 0
  BY <1>0, <1>1, <1>3, PortFacts DEF LockInv
<1>7. \A p \in Procs : role'[p] = "send" /\ block'[p] > 1 =>
        role[p] = "send" /\ block'[p] = block[p]
  BY <1>3
<1>8. \A k \in net' \ net :
        /\ k.op = "ACK" /\ k.n >= 1 => Reached(k.from, k.n)'
        /\ k.op = "ERROR" => k.from \in Servers /\ Closed(k.from)'
  <2>1. net' \subseteq net \cup {pk}
    BY <1>1 DEF Open
  <2>2. r = "exited" => Closed(s)'
    BY <1>1, <1>3 DEF Closed
  <2> QED
    BY <1>1, <1>4, <2>1, <2>2
<1>9. forked' >= forked
  BY <1>0, <1>1
<1> QED
  BY <1>1, <1>3, <1>5, <1>6, <1>7, <1>8, <1>9, LockStep

\* The client stops on an error, and its acknowledgement goes nowhere.
LEMMA LockRefused ==
  ASSUME SingleCommand, Inv, Inv', LockInv, NEW m \in net, Refused(m) PROVE LockInv'
<1>1. /\ Busy(Client) /\ Client \in Procs /\ role[Client] # "idle"
      /\ m.to = Client /\ m.op = "ERROR"
      /\ UNCHANGED <<file, block, forked>> /\ UNCHANGED files
  BY PortFacts DEF Refused, Receives, Busy
<1>2. Prompt = "exited"
  BY <1>1, Working
<1>3. role' = [role EXCEPT ![Client] = "exited"]
  BY <1>2 DEF Refused
<1>4. m.from \in Servers /\ Closed(m.from)
  BY <1>1 DEF LockInv
<1>5. Closed(m.from)'
  BY <1>3, <1>4, PortFacts DEF Closed, Inv, TypeOK
<1>6. PICK ms : /\ net' = After(Client, "exited", ms)
                /\ \A k \in ms : k = ACK(Client, m.from, block[Client])
  BY <1>2 DEF Refused
<1>7. net' \subseteq net
  BY <1>4, <1>5, <1>6 DEF After, Without, Open, ACK
<1>8. ~Closed(Client)
  BY <1>1 DEF Closed, Busy
<1> HIDE DEF Client
<1> QED
  BY <1>1, <1>3, <1>7, <1>8, LockLeaves

\* A process that goes on to its next block: a sender that has been
\* acknowledged, a receiver that has got its own.
LEMMA LockGoes ==
  ASSUME SingleCommand, Inv, Inv', LockInv, NEW p \in Procs, NEW m \in net,
         Receives(p, m), IsNext(p, m), Goes(p, m),
         UNCHANGED <<length, file, forked>>,
         role[p] = "send" => m.op = "ACK" /\ block[p] # length[Wanted]
  PROVE  LockInv'
<1>1. /\ block' = [block EXCEPT ![p] = @ + 1] /\ role' = role
      /\ m.to = p /\ m.n = block[p] /\ Busy(p) /\ (Busy(p))'
      /\ block \in [Procs -> Nat] /\ Wanted' = Wanted /\ forked' = forked
      /\ length' = length /\ file' = file
  BY DEF Goes, Receives, IsNext, Busy, Inv, TypeOK, Wanted
<1>2. \A x \in Procs : block'[x] = IF x = p THEN block[p] + 1 ELSE block[x]
  BY <1>1
<1>3. PICK q : net' = Open(net \cup {Packet(p, role'[p], file'[p], block'[p], q)})
  BY <1>1, <1>2 DEF Goes
<1>4. \A k \in net' \ net : k.op # "ERROR" /\ (k.op = "ACK" /\ k.n >= 1 => Reached(k.from, k.n)')
  BY <1>1, <1>3, AckReached DEF Open
<1>5. \A x \in Procs : /\ block'[x] >= block[x] /\ (Closed(x) => Closed(x)')
  BY <1>1, <1>2 DEF Closed
<1>6. \A s \in Servers : s > forked' => block'[s] = 0
  BY <1>1, <1>2, PortFacts DEF LockInv, Inv, Fresh, Busy
<1>7. \A x \in Procs : role'[x] = "send" /\ block'[x] > 1 =>
        /\ role[x] = "send"
        /\ \/ block'[x] = block[x]
           \/ /\ block'[x] = block[x] + 1 /\ block[x] # length[Wanted]
              /\ \E k \in net : k.op = "ACK" /\ k.to = x /\ k.n = block[x]
  BY <1>1, <1>2
<1>8. forked' >= forked
  BY <1>1, TftpAssumption DEF Inv, TypeOK
<1> QED
  BY <1>1, <1>4, <1>5, <1>6, <1>7, <1>8, LockStep

LEMMA LockAcknowledged ==
  ASSUME SingleCommand, Inv, Inv', LockInv, NEW p \in Procs, NEW m \in net,
         Acknowledged(p, m)
  PROVE  LockInv'
<1>1. /\ Receives(p, m) /\ role[p] = "send" /\ m.op = "ACK" /\ IsNext(p, m)
      /\ UNCHANGED <<length, file, forked>> /\ file[p] = Wanted
      /\ role[p] # "idle" /\ length' = length /\ file' = file /\ forked' = forked
  BY Arrives DEF Acknowledged, files
<1>2. CASE block[p] # length[file[p]] /\ Goes(p, m)
  BY <1>1, <1>2, LockGoes
<1>3. CASE /\ block[p] = length[file[p]]
           /\ block' = [block EXCEPT ![p] = @ + 1]
           /\ role' = [role EXCEPT ![p] = IF p = Client THEN Prompt ELSE "exited"]
           /\ net' = After(p, role'[p], {})
  <2>1. role' = [role EXCEPT ![p] = "exited"]
    BY <1>1, <1>3, Working
  <2>2. net' \ net = {}
    BY <1>3, AfterIsNew
  <2>3. \A x \in Procs : /\ role'[x] = IF x = p THEN "exited" ELSE role[x]
                         /\ block'[x] = IF x = p THEN block[p] + 1 ELSE block[x]
                         /\ block[x] \in Nat
    BY <1>3, <2>1 DEF Inv, TypeOK
  <2>4. \A s \in Servers : s > forked' => block'[s] = 0
    BY <1>1, <2>3, PortFacts DEF LockInv, Inv, Fresh
  <2>5. Wanted' = Wanted /\ forked' >= forked
    BY <1>1, TftpAssumption DEF Wanted, Inv, TypeOK
  <2>6. \A x \in Procs : /\ block[x] > 0 => file'[x] = file[x]
                         /\ block'[x] >= block[x]
                         /\ Closed(x) => Closed(x)'
    BY <1>1, <2>3 DEF Closed
  <2>7. \A x \in Procs : role'[x] = "send" => role[x] = "send" /\ block'[x] = block[x]
    BY <2>3
  <2> QED
    BY <1>1, <2>2, <2>4, <2>5, <2>6, <2>7, LockStep
<1> QED
  BY <1>2, <1>3 DEF Acknowledged

LEMMA LockReceived ==
  ASSUME SingleCommand, Inv, Inv', LockInv, NEW p \in Procs, NEW m \in net,
         Received(p, m)
  PROVE  LockInv'
<1>1. /\ Receives(p, m) /\ role[p] = "recv" /\ m.op = "DATA" /\ IsNext(p, m)
      /\ UNCHANGED <<length, file, forked>> /\ file[p] = Wanted
      /\ role[p] # "idle" /\ length' = length /\ file' = file /\ forked' = forked
      /\ block[p] \in Nat /\ block[p] + 1 <= Modulus /\ block[p] # 0 /\ m.n = block[p]
  BY Arrives DEF Received, IsNext
<1>2. CASE ~IsLast(m.data) /\ Goes(p, m)
  BY <1>1, <1>2, LockGoes
<1>3. CASE /\ IsLast(m.data)
           /\ role' = [role EXCEPT ![p] = IF p = Client THEN Prompt ELSE "final"]
           /\ net' = After(p, role'[p], {ACK(p, m.from, block[p])})
           /\ block' = block
  <2>1. PICK x \in {"final", "exited"} : role' = [role EXCEPT ![p] = x]
    BY <1>1, <1>3, Working
  <2>2. net' \subseteq net \cup {ACK(p, m.from, block[p])}
    BY <1>3, AfterIsNew
  <2>3. \A y \in Procs : role'[y] = IF y = p THEN x ELSE role[y]
    BY <2>1 DEF Inv, TypeOK
  <2>4. Wanted' = Wanted /\ forked' >= forked /\ block \in [Procs -> Nat]
    BY <1>1, TftpAssumption DEF Wanted, Inv, TypeOK
  <2>5. m.data = Data(Wanted, block[p])
    BY <1>1, TftpAssumption DEF Inv, NetIsHonest, Honest
  <2>6. block[p] = length[Wanted]
    BY <1>3, <2>5 DEF IsLast, Data
  <2>7. ThBlock(block[p]) >= 1 => ThBlock(block[p]) = block[p]
    BY <1>1, WireNumber, TftpAssumption
  <2>8. \A k \in net' \ net : k.op = "ACK" /\ (k.n >= 1 => Reached(k.from, k.n)')
    BY <1>1, <1>3, <2>2, <2>4, <2>6, <2>7 DEF ACK, Reached
  <2>9. \A y \in Procs : /\ block[y] > 0 => file'[y] = file[y]
                         /\ block'[y] >= block[y]
                         /\ Closed(y) => Closed(y)'
    BY <1>1, <1>3, <2>3, <2>4 DEF Closed
  <2>10. \A y \in Procs : role'[y] = "send" => role[y] = "send" /\ block'[y] = block[y]
    BY <1>3, <2>3
  <2>11. \A s \in Servers : s > forked' => block'[s] = 0
    BY <1>1, <1>3 DEF LockInv
  <2> QED
    BY <1>1, <2>4, <2>8, <2>9, <2>10, <2>11, LockStep
<1> QED
  BY <1>2, <1>3 DEF Received

LEMMA LockTimer ==
  ASSUME SingleCommand, Inv, Inv', LockInv, NEW p \in Procs, timer(p) PROVE LockInv'
<1>1. /\ Busy(p) /\ role[p] # "idle" /\ ~Closed(p)
      /\ UNCHANGED <<file, block, forked, transfers>> /\ UNCHANGED files
  BY DEF timer, Busy, Closed
<1>2. CASE /\ net' = Open(net \cup {SendsAgain(p, PeerOf(p))})
           /\ UNCHANGED <<role, result>>
  BY <1>1, <1>2, LockRepeats DEF Open
<1>3. CASE /\ role' = [role EXCEPT ![p] = IF p = Client THEN Prompt ELSE "quit"]
           /\ net' = After(p, role'[p], {})
  <2>1. PICK x \in {"final", "exited", "quit"} : role' = [role EXCEPT ![p] = x]
    BY <1>1, <1>3, Working
  <2>2. net' \subseteq net
    BY <1>3, AfterIsNew
  <2> QED
    BY <1>1, <2>1, <2>2, LockLeaves
<1> QED
  BY <1>2, <1>3 DEF timer

LEMMA LockIntr == ASSUME SingleCommand, Inv, Inv', LockInv, intr PROVE LockInv'
<1>1. role[Client] # "idle" /\ Client \in Procs /\ ~Closed(Client)
  BY PortFacts DEF intr, Busy, Closed
<1>2. Prompt = "exited"
  BY <1>1, Working
<1>3. net' \subseteq net
  BY AfterIsNew DEF intr
<1>4. role' = [role EXCEPT ![Client] = "exited"] /\ UNCHANGED <<file, block, forked>>
      /\ UNCHANGED files
  BY <1>2 DEF intr
<1> HIDE DEF Client
<1> QED
  BY <1>1, <1>3, <1>4, LockLeaves

LEMMA LockServers ==
  ASSUME SingleCommand, Inv, Inv', LockInv, NEW s \in Servers,
         justquit(s) \/ Unreachable(s) \/ \E m \in net : Lingered(s, m)
  PROVE  LockInv'
<1>1. s \in Procs /\ ~Closed(s) /\ UNCHANGED <<file, block, forked>> /\ UNCHANGED files
  BY PortFacts DEF justquit, Unreachable, Lingered, Closed
<1>2. BlockInDp(s) # block[s]
  BY <1>1 DEF BlockInDp, Inv, TypeOK
<1>3. PICK x \in {"exited", "quit"} : role' = [role EXCEPT ![s] = x]
                                     /\ net' = After(s, x, {})
  BY <1>2 DEF justquit, Unreachable, Lingered
<1>4. net' \subseteq net
  BY <1>3, AfterIsNew
<1> QED
  BY <1>1, <1>3, <1>4, LockLeaves

LEMMA LockOutOfStep ==
  ASSUME SingleCommand, Inv, Inv', LockInv, NEW p \in Procs, NEW m \in net,
         OutOfStep(p, m) \/ Skipped(p, m)
  PROVE  LockInv'
<1>1. /\ Busy(p) /\ UNCHANGED <<files, role, file, block, forked, transfers, result>>
  BY DEF OutOfStep, Skipped, Receives
<1>2. PICK q : q = IF p = Client THEN m.from ELSE Client
  OBVIOUS
<1>3. net' \subseteq net \cup {SendsAgain(p, q)}
  BY <1>2 DEF OutOfStep, Skipped, synchnet, Without, Open
<1> QED
  BY <1>1, <1>3, LockRepeats

LEMMA LockLose ==
  ASSUME SingleCommand, Inv, Inv', LockInv, NEW m \in net, Lose(m) PROVE LockInv'
<1>1. UNCHANGED <<length, forked, file, block, role>> /\ net' \subseteq net
  BY DEF Lose, files
<1>2. \A x \in Procs : Closed(x) => Closed(x)'
  BY <1>1 DEF Closed
<1> QED
  BY <1>1, <1>2, LockQuiet

LEMMA LockNext ==
  ASSUME SingleCommand, Inv, Inv', LockInv, [Next]_vars PROVE LockInv'
<1>1. CASE UNCHANGED vars
  BY <1>1 DEF vars, LockInv, Lockstep, Reached, Closed, Wanted
<1>2. CASE \E f \in Files : Command(f)
  BY <1>2, LockCommand
<1>3. CASE \E p \in Procs : timer(p)
  BY <1>3, LockTimer
<1>4. CASE intr
  BY <1>4, LockIntr
<1>5. CASE \E s \in Servers : justquit(s) \/ Unreachable(s) \/ \E m \in net : Lingered(s, m)
  BY <1>5, LockServers
<1>6. CASE \E m \in net : tftp(m) \/ Refused(m) \/ Lose(m)
  BY <1>6, LockTftp, LockRefused, LockLose
<1>7. CASE \E m \in net : \E p \in Procs : \/ Acknowledged(p, m) \/ Received(p, m)
                                           \/ OutOfStep(p, m) \/ Skipped(p, m)
  BY <1>7, LockAcknowledged, LockReceived, LockOutOfStep
<1> QED
  BY <1>1, <1>2, <1>3, <1>4, <1>5, <1>6, <1>7 DEF Next

LEMMA LockInit == ASSUME Init PROVE LockInv
BY PortFacts DEF Init, LockInv, Lockstep

\* No sender is ahead of the acknowledgements, also when numbers wrap and when
\* servers answer that nobody asked for (tftp.c: sendfile waits for the
\* acknowledgement of its block; recvfile acknowledges an error).
THEOREM SendersWait == ASSUME SingleCommand PROVE Spec => []Lockstep
<1>1. Init => LockInv
  BY LockInit
<1>2. Inv /\ Inv' /\ LockInv /\ [Next]_vars => LockInv'
  BY LockNext
<1>3. LockInv => Lockstep
  BY DEF LockInv
<1> QED
  BY <1>1, <1>2, <1>3, Correctness, PTL DEF Spec

------------------------------------------------------------------------------
(* Every step of tftp, of its servers and of the network between them is, for *)
(* the user of the command, a step of FileCopy or none at all.  That the      *)
(* command ends is left to the model checker.                                 *)

(* What the mapping needs beyond Inv: nothing has been copied before the      *)
(* command, nothing is copied from behind the end of the file, and a client   *)
(* in one of its loops has not yet said how the command ended.                *)
Untouched ==
  transfers = 0 => /\ Wanted = NoFile
                   /\ \A f \in Files \ gets : \A i \in Index : remote[f][i] = Old
Undecided == Busy(Client) => result = "busy"
Bounded == transfers = 1 => Copied \subseteq 1..length[Wanted]

MapInv == Inv /\ Untouched /\ Undecided /\ Bounded

------------------------------------------------------------------------------
(* Counting the blocks that have been copied. *)

LEMMA Counting ==
  ASSUME NEW n \in Nat, NEW S \in SUBSET (1..n)
  PROVE  /\ Cardinality(S) \in Nat /\ Cardinality(S) <= n
         /\ Cardinality(1..n) = n
<1>1. IsFiniteSet(1..n) /\ Cardinality(1..n) = n
  BY FS_Interval
<1>2. IsFiniteSet(S) /\ Cardinality(S) <= Cardinality(1..n)
  BY <1>1, FS_Subset
<1>3. Cardinality(S) \in Nat
  BY <1>2, FS_CardinalityType
<1> QED
  BY <1>1, <1>2, <1>3

LEMMA OneMore ==
  ASSUME NEW n \in Nat, NEW S \in SUBSET (1..n), NEW b \in 1..n
  PROVE  Cardinality(S \cup {b}) - Cardinality(S) \in {0, 1}
<1>1. IsFiniteSet(S)
  <2>1. IsFiniteSet(1..n)
    BY FS_Interval
  <2> QED
    BY <2>1, FS_Subset
<1>2. Cardinality(S \cup {b}) = IF b \in S THEN Cardinality(S) ELSE Cardinality(S) + 1
  BY <1>1, FS_AddElement
<1>3. Cardinality(S) \in Nat
  BY Counting
<1> QED
  BY <1>2, <1>3

\* The command, once it has been given.
OneFile == /\ Wanted \in Files /\ Wanted # NoFile
           /\ length[Wanted] \in Nat /\ length[Wanted] \in Index
           /\ Copied \in SUBSET (1..length[Wanted])
           /\ Size = length[Wanted] /\ Done = Cardinality(Copied)
           /\ Done \in Nat /\ Done <= Size

LEMMA Given == MapInv /\ transfers = 1 => OneFile
<1> SUFFICES ASSUME MapInv, transfers = 1 PROVE OneFile
  OBVIOUS
<1>1. /\ Wanted \in Files /\ Wanted # NoFile /\ length[Wanted] \in Nat
      /\ length[Wanted] \in Index
  BY TftpAssumption DEF MapInv, Inv, Started, TypeOK, Index
<1>2. Copied \in SUBSET (1..length[Wanted])
  BY DEF MapInv, Bounded
<1>3. Size = length[Wanted] /\ Done = Cardinality(Copied)
  BY <1>1 DEF Size, Done
<1>4. Cardinality(Copied) \in Nat /\ Cardinality(Copied) <= length[Wanted]
  BY <1>1, <1>2, Counting
<1> QED
  BY <1>1, <1>2, <1>3, <1>4 DEF OneFile

LEMMA GivenNext == MapInv' /\ (transfers = 1)' => OneFile'
BY Given, PTL

\* All blocks have been copied when the whole file is there.
LEMMA AllCopied ==
  MapInv /\ transfers = 1 /\ Whole(Target, Wanted) => Done = Size
<1> SUFFICES ASSUME MapInv, transfers = 1, Whole(Target, Wanted)
             PROVE  Done = Size
  OBVIOUS
<1>1. 1..length[Wanted] \subseteq Index
  BY Given, TftpAssumption DEF Index, OneFile
<1>2. Copied = 1..length[Wanted]
  BY <1>1, Given DEF Copied, Whole, OneFile
<1>3. Cardinality(1..length[Wanted]) = length[Wanted]
  BY Given, Counting DEF OneFile
<1> QED
  BY <1>2, <1>3, Given DEF OneFile

LEMMA AllCopiedNext ==
  MapInv' /\ (transfers = 1)' /\ Whole(Target, Wanted)' => (Done = Size)'
BY AllCopied, PTL

------------------------------------------------------------------------------
(* What a step looks like to the user. *)

\* A step after the command has been given adds at most one block, and only a
\* client in its loop says how the command ended.
LEMMA Seen ==
  ASSUME MapInv, Inv', transfers = 1,
         UNCHANGED <<length, gets, transfers, Wanted>>,
         NEW b \in 1..length[Wanted], Copied' \in {Copied, Copied \cup {b}},
         Busy(Client)' => Busy(Client) /\ result' = result,
         \/ result' = result
         \/ Busy(Client) /\ result' = "ok"
         \/ /\ Busy(Client) /\ result' \in {"error", "timeout", "interrupt"}
            /\ Copied' = Copied
  PROVE  MapInv' /\ [User!Next]_User!vars
<1>1. MapInv'
  BY Given DEF MapInv, Untouched, Undecided, Bounded, OneFile
<1>2. /\ Size = length[Wanted] /\ Size' = Size /\ Size \in Nat
      /\ Done \in Nat /\ Done' \in Nat /\ Done' <= Size
      /\ Done = Cardinality(Copied) /\ Done' = Cardinality(Copied')
  <2>1. OneFile /\ OneFile'
    BY <1>1, Given, GivenNext
  <2> QED
    BY <2>1 DEF OneFile
<1>3. Done' - Done \in {0, 1}
  <2>1. CASE Copied' = Copied
    BY <1>2, <2>1
  <2>2. CASE Copied' = Copied \cup {b}
    BY <1>2, <2>2, Given, OneMore DEF OneFile
  <2> QED
    BY <2>1, <2>2
<1>4. CASE result' = result
  <2>1. Outcome' = Outcome
    BY <1>4 DEF Outcome
  <2>2. CASE Done' = Done
    BY <1>1, <1>2, <2>1, <2>2 DEF User!vars
  <2>3. CASE Done' = Done + 1
    <3>1. Done < Size
      BY <1>2, <2>3
    <3> QED
      BY <1>1, <1>2, <2>1, <2>3, <3>1 DEF User!Next, User!Copy
  <2> QED
    BY <1>2, <1>3, <2>2, <2>3
<1>5. CASE Busy(Client) /\ result' # result
  <2>1. Outcome = "busy"
    BY <1>5 DEF Outcome, MapInv, Undecided
  <2>2. CASE result' = "ok"
    <3>1. Done' = Size'
      <4>1. Whole(Target, Wanted)'
        BY <2>2 DEF Inv, Successful, SuccessIsWhole
      <4> QED
        BY <1>1, <4>1, AllCopiedNext
    <3>2. Outcome' = "ok"
      BY <2>2 DEF Outcome
    <3> QED
      BY <1>1, <1>2, <1>3, <2>1, <3>1, <3>2 DEF User!Next, User!Succeed
  <2>3. CASE /\ result' \in {"error", "timeout", "interrupt"}
             /\ Copied' = Copied
    <3>1. Outcome' = "failed"
      BY <2>3 DEF Outcome
    <3> QED
      BY <1>1, <1>2, <2>1, <2>3, <3>1 DEF User!Next, User!Fail
  <2> QED
    BY <1>5, <2>2, <2>3
<1> QED
  BY <1>1, <1>4, <1>5

\* A step that writes no block, of a client that stays where it is or leaves its
\* loop.
LEMMA SeenQuietly ==
  ASSUME MapInv, Inv', transfers = 1,
         UNCHANGED <<files, transfers, Wanted>>,
         Busy(Client)' => Busy(Client) /\ result' = result,
         \/ result' = result
         \/ Busy(Client) /\ result' \in {"ok", "error", "timeout", "interrupt"}
  PROVE  MapInv' /\ [User!Next]_User!vars
<1>1. UNCHANGED <<length, gets, local, remote, Wanted>>
  BY DEF files
<1>2. Copied' = Copied
  BY <1>1 DEF Copied, Target
<1>3. PICK b : b \in 1..length[Wanted]
  BY Given DEF OneFile, Index
<1> QED
  BY <1>1, <1>2, <1>3, Seen

\* Before the command nothing happens but the command.
LEMMA Sooner ==
  ASSUME SingleCommand, Inv, transfers # 1, [Next]_vars
  PROVE  UNCHANGED vars \/ \E f \in Files : Command(f)
<1>1. /\ transfers = 0 /\ net = {} /\ role[Client] = "idle"
      /\ \A p \in Procs : role[p] = "idle"
  BY DEF Inv, Started, Fresh, Procs, Servers
<1> QED
  BY <1>1, PortFacts
  DEF Next, timer, intr, Busy, justquit, Unreachable

------------------------------------------------------------------------------
(* One lemma for each action. *)

\* The command shows the user a file of which nothing has been copied.
LEMMA CommandMaps ==
  ASSUME SingleCommand, MapInv, Inv', NEW f \in Files, Command(f)
  PROVE  MapInv' /\ [User!Next]_User!vars
<1>1. /\ transfers = 0 /\ transfers' = 1 /\ result = "none" /\ result' = "busy"
      /\ Wanted = NoFile /\ f # NoFile
      /\ UNCHANGED <<length, gets, remote>>
  BY TftpAssumption DEF Command, MapInv, Untouched, Inv, Started, SingleCommand
<1>2. Wanted' = f /\ length[f] \in Nat /\ length[f] \in Index
  BY PortFacts DEF Command, Wanted, MapInv, Inv, TypeOK, Index
<1>3. Copied' = {}
  <2>1. CASE f \in gets
    <3>1. local' = [i \in Index |-> Hole]
      BY <2>1 DEF Command
    <3>2. Target' = local'
      BY <1>1, <1>2, <2>1 DEF Target
    <3>3. \A i \in Index : Target'[i] # Data(Wanted', i)
      BY <1>2, <3>1, <3>2, TftpAssumption DEF Data, Index
    <3> QED
      BY <3>3 DEF Copied
  <2>2. CASE f \notin gets
    <3>1. Target' = remote[f]
      BY <1>1, <1>2, <2>2 DEF Target
    <3>2. \A i \in Index : remote[f][i] = Old
      BY <1>1, <2>2 DEF MapInv, Untouched
    <3>3. \A i \in Index : Target'[i] # Data(Wanted', i)
      BY <1>2, <3>1, <3>2, TftpAssumption DEF Data, Index
    <3> QED
      BY <3>3 DEF Copied
  <2> QED
    BY <2>1, <2>2
<1>4. MapInv'
  BY <1>1, <1>3 DEF MapInv, Untouched, Undecided, Bounded
<1>5. /\ Size' \in 1..MaxBlocks /\ Done = 0 /\ Done' = 0
      /\ Outcome = "none" /\ Outcome' = "busy"
  BY <1>1, <1>2, <1>3, FS_EmptySet DEF Size, Done, Outcome, Index
<1> QED
  BY <1>4, <1>5 DEF User!Next, User!Begin

\* What a server starts with is of no concern to the user.
LEMMA tftpMaps ==
  ASSUME SingleCommand, MapInv, Inv', transfers = 1, NEW m \in net, tftp(m)
  PROVE  MapInv' /\ [User!Next]_User!vars
<1>1. forked + 1 # Client /\ forked + 1 \in Procs
  BY PortFacts, TftpAssumption DEF tftp, MapInv, Inv, TypeOK, Servers
<1>2. /\ UNCHANGED <<files, transfers, result>>
      /\ Wanted' = Wanted /\ role'[Client] = role[Client]
  BY <1>1, PortFacts DEF tftp, files, Wanted, MapInv, Inv, TypeOK
<1> QED
  BY <1>2, SeenQuietly DEF Busy

\* A block that arrives is one more of the file, or one the user has already.
LEMMA ReceivedMaps ==
  ASSUME SingleCommand, MapInv, Inv', transfers = 1, NEW p \in Procs,
         NEW m \in net, Received(p, m)
  PROVE  MapInv' /\ [User!Next]_User!vars
<1>1. /\ Receives(p, m) /\ role[p] = "recv" /\ m.op = "DATA" /\ IsNext(p, m)
      /\ m.n = block[p] /\ Written(p, m)
      /\ UNCHANGED <<length, gets, public, file, forked, transfers>>
  BY DEF Received, IsNext
<1>2. /\ file[p] = Wanted /\ block[p] \in Nat /\ block[p] # 0
      /\ block[p] <= length[Wanted] /\ length[Wanted] \in Index
      /\ Wanted \in Files /\ (p = Client <=> Wanted \in gets)
  BY <1>1, Arrives DEF MapInv
<1>3. /\ m.data = Data(Wanted, block[p]) /\ block[p] \in Index
      /\ block[p] \in 1..length[Wanted]
  BY <1>1, <1>2, TftpAssumption DEF MapInv, Inv, NetIsHonest, Honest, Index
<1>4. UNCHANGED <<length, gets, transfers, Wanted>>
  BY <1>1 DEF Wanted
<1>5. /\ Target' = [Target EXCEPT ![block[p]] = Data(Wanted, block[p])]
      /\ Target \in [Index -> (Files \X Nat) \cup {Hole, Old}]
  <2>1. /\ remote \in [Files -> [Index -> (Files \X Nat) \cup {Hole, Old}]]
        /\ local \in [Index -> (Files \X Nat) \cup {Hole}]
    BY DEF MapInv, Inv, TypeOK
  <2>2. CASE p = Client
    <3>1. Target = local /\ Target' = local'
      BY <1>2, <1>4, <2>2 DEF Target
    <3>2. local' = [local EXCEPT ![block[p]] = Data(Wanted, block[p])]
      BY <1>1, <1>3, <2>2 DEF Written
    <3> QED
      BY <2>1, <3>1, <3>2
  <2>3. CASE p # Client
    <3>1. Target = remote[Wanted] /\ Target' = remote'[Wanted]
      BY <1>2, <1>4, <2>3 DEF Target
    <3>2. remote' = [remote EXCEPT ![Wanted][block[p]] = Data(Wanted, block[p])]
      BY <1>1, <1>2, <1>3, <2>3 DEF Written
    <3>3. remote'[Wanted] = [remote[Wanted] EXCEPT ![block[p]] = Data(Wanted, block[p])]
      BY <1>2, <2>1, <3>2
    <3> QED
      BY <1>2, <2>1, <3>1, <3>3
  <2> QED
    BY <2>2, <2>3
<1>6. Copied' = Copied \cup {block[p]}
  BY <1>3, <1>4, <1>5 DEF Copied
<1>7. /\ Busy(Client)' => Busy(Client) /\ result' = result
      /\ \/ result' = result
         \/ Busy(Client) /\ result' = "ok"
  <2>1. CASE Goes(p, m)
    BY <2>1 DEF Goes, Busy
  <2>2. CASE /\ role' = [role EXCEPT ![p] = IF p = Client THEN Prompt ELSE "final"]
             /\ result' = IF p = Client THEN "ok" ELSE result
    <3>1. CASE p = Client
      <4>1. Busy(Client) /\ Prompt = "exited" /\ Client \in Procs
        BY <1>1, <3>1, Working DEF Busy, MapInv
      <4>2. role'[Client] = "exited"
        BY <2>2, <3>1, <4>1 DEF MapInv, Inv, TypeOK
      <4> QED
        BY <2>2, <3>1, <4>1, <4>2 DEF Busy
    <3>2. CASE p # Client
      <4>1. role'[Client] = role[Client] /\ result' = result
        BY <2>2, <3>2, PortFacts DEF MapInv, Inv, TypeOK
      <4> QED
        BY <4>1 DEF Busy
    <3> QED
      BY <3>1, <3>2
  <2> QED
    BY <2>1, <2>2 DEF Received
<1> QED
  BY <1>3, <1>4, <1>6, <1>7, Seen

\* The steps that write nothing.
LEMMA QuietMaps ==
  ASSUME SingleCommand, MapInv, Inv', transfers = 1,
         \/ \E p \in Procs : timer(p)
         \/ intr
         \/ \E s \in Servers : justquit(s) \/ Unreachable(s)
         \/ \E m \in net :
              \/ Refused(m) \/ Lose(m)
              \/ \E p \in Procs : Acknowledged(p, m) \/ OutOfStep(p, m) \/ Skipped(p, m)
              \/ \E s \in Servers : Lingered(s, m)
  PROVE  MapInv' /\ [User!Next]_User!vars
<1>1. UNCHANGED <<files, file, transfers>> /\ Wanted' = Wanted
  BY DEF timer, intr, justquit, Unreachable, Refused, Lose, Acknowledged,
         OutOfStep, Skipped, Lingered, Wanted
<1>2. /\ role \in [Procs -> Roles] /\ Client \in Procs /\ Client \notin Servers
      /\ Busy(Client) => Prompt = "exited"
  BY PortFacts, Working DEF Busy, MapInv, Inv, TypeOK
<1>3. /\ Busy(Client)' => Busy(Client) /\ result' = result
      /\ \/ result' = result
         \/ Busy(Client) /\ result' \in {"ok", "error", "timeout", "interrupt"}
  <2>1. ASSUME NEW p \in Procs, timer(p) PROVE <1>3!:
    BY <1>2, <2>1 DEF timer, Busy
  <2>2. CASE intr \/ \E m \in net : Refused(m)
    BY <1>2, <2>2 DEF intr, Refused, Receives, Busy
  <2>3. CASE \E s \in Servers : \/ justquit(s) \/ Unreachable(s)
                               \/ \E m \in net : Lingered(s, m)
    BY <1>2, <2>3 DEF justquit, Unreachable, Lingered, Busy
  <2>4. ASSUME NEW m \in net, NEW p \in Procs, Acknowledged(p, m) PROVE <1>3!:
    BY <1>2, <2>4 DEF Acknowledged, Goes, Busy
  <2>5. CASE \E m \in net : \/ Lose(m)
                            \/ \E p \in Procs : OutOfStep(p, m) \/ Skipped(p, m)
    BY <2>5 DEF Lose, OutOfStep, Skipped, Busy
  <2> QED
    BY <2>1, <2>2, <2>3, <2>4, <2>5
<1> QED
  BY <1>1, <1>3, SeenQuietly

LEMMA NextMaps ==
  ASSUME SingleCommand, MapInv, [Next]_vars PROVE MapInv' /\ [User!Next]_User!vars
<1>1. Inv'
  BY NextInv DEF MapInv
<1>2. CASE UNCHANGED vars
  <2>1. /\ UNCHANGED <<length, gets, local, remote, transfers, role, result, Wanted>>
    BY <1>2 DEF vars, Wanted
  <2>2. Copied' = Copied /\ Size' = Size /\ Outcome' = Outcome
    BY <2>1 DEF Copied, Target, Size, Outcome
  <2>3. Done' = Done
    BY <2>1, <2>2 DEF Done
  <2>4. MapInv'
    BY <1>1, <2>1, <2>2 DEF MapInv, Untouched, Undecided, Bounded, Busy
  <2> QED
    BY <2>2, <2>3, <2>4 DEF User!vars
<1>3. CASE \E f \in Files : Command(f)
  BY <1>1, <1>3, CommandMaps
<1>4. CASE transfers = 1 /\ ~(\E f \in Files : Command(f)) /\ Next
  BY <1>1, <1>4, tftpMaps, ReceivedMaps, QuietMaps DEF Next
<1> QED
  BY <1>2, <1>3, <1>4, Sooner DEF MapInv

------------------------------------------------------------------------------
(* The result. *)

LEMMA InitMaps == ASSUME SingleCommand, Init PROVE MapInv /\ User!Init
<1>1. Client \in Procs /\ Wanted = NoFile /\ ~Busy(Client) /\ transfers = 0
  BY PortFacts DEF Init, Wanted, Busy
<1>2. Untouched
  BY <1>1 DEF Init, Untouched
<1>3. MapInv
  BY <1>1, <1>2, InitInv DEF MapInv, Undecided, Bounded
<1>4. Size = 0 /\ Done = 0 /\ Outcome = "none"
  BY <1>1 DEF Size, Done, Outcome, Init
<1> QED
  BY <1>3, <1>4 DEF User!Init

\* For its user a command is a FileCopy: whatever is lost, late or answered
\* twice, the blocks of the file are copied one at a time, each once, and the
\* command is successful only when all are there (the safety part of CopiesFile).
THEOREM CommandIsFileCopy ==
  ASSUME SingleCommand PROVE Spec => User!Init /\ [][User!Next]_User!vars
<1>1. Init => MapInv /\ User!Init
  BY InitMaps
<1>2. MapInv /\ [Next]_vars => MapInv' /\ [User!Next]_User!vars
  BY NextMaps
<1> QED
  BY <1>1, <1>2, PTL DEF Spec
==============================================================================
