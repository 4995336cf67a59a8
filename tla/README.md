# A verification of the RhapsodiOS commands

The repository collects the commands and daemons of Rhapsody, the system
between NEXTSTEP and Mac OS X: 13,642 files, most of them filters, compilers
and imported programs. This directory holds TLA+ models of the parts whose
correctness depends on the order in which things happen, TLC configurations
that check them on small instances, and proofs checked by TLAPS. The first part
modelled is `mach_init`, the bootstrap server every other process of the system
is a client of; the others are `init`, process 1, the file transfer of `tftp`
and `tftpd`, the ring of processes with which `dump` writes its tapes, and the
lock files of `shlock`.

## Inventory

What each part keeps, what it does, and what makes it correct. The parts that
are sequential text processing, imported from elsewhere, or single system calls
are in `PROJECT.json` with the reason they are left out.

| Part | State | Operations | Hard because | Correct if |
|---|---|---|---|---|
| `mach_init`: name service (`rpc_services.c`, `lists.c`) | lists of services, servers, subset bootstraps; port rights | check_in, register, look_up(_array), status, info, subset, create_service | the kernel moves rights on its own when a task dies; notices queue behind requests | custody of receive rights and the `isActive` flags agree; names are unique; deletion of a subset is complete |
| `mach_init`: server loop (`bootstrap.c`) | task ports, `running_servers`, inherited port | start a server, deletion notice, return by backup port, request | two notice queues and the request queue interleave; fork can fail | a lost service becomes available again; restartable servers run again; counts agree |
| `mach_init`: configuration parser (`parser.c`) | one character and one token of look-ahead, lists under construction | recursive descent, re-synchronisation, fall-back to the built-in configuration | it runs before anything can be repaired: it has to end | parsing ends; the fall-back starts from empty lists |
| `init` (`init.c`) | requested transition, sessions, the ttys data base | single user, runcom, read ttys, multi user, clean ttys, catatonia, death | signals arrive between any two steps; children die while others are forked | every enabled tty has one getty; shutdown ends |
| `cron`, `at`, `atrun` | crontabs, spool directory of dated jobs | load, tick, run, reap | clock steps, two runs over one spool | each job runs once |
| `inetd` | service table, wait flags, counters | accept, fork, reap, reconfigure | SIGCHLD, SIGHUP and SIGALRM against select | one server per wait service; a looping service is stopped and comes back |
| `shlock` | lock file, temporary file | link, read pid, unlink stale | two processes break one stale lock | mutual exclusion |
| `dump` (`tape.c`), and `restore` (`tape.c`) as its reader | buffers, requests and results of a ring of slave processes, the tapes | fill a block, hand it over, take turns, change volumes, roll forward | signals meet slaves anywhere; a tape ends with blocks of other slaves under way | every record is read back once and in order; the ring never stops |
| `tftp`, `tftpd` | on both sides: the file, the block, the last packet, a time-out | get, put, DATA, ACK, repeat, give up | packets are lost, late and repeated; a request can be answered by two servers; 16-bit block numbers | a command that ends well has copied the whole file; every process ends |
| `rpc.lockd`, `portmap`, `talkd`, `timed`, `routed`, `ypbind` | tables with time-outs | RPC or datagram handlers | duplicated and lost datagrams | as their protocols say |

The parts meet through the kernel. `mach_init` launches servers and hands each
a privileged bootstrap port; servers and their clients send it requests over
ports; the kernel tells it of deaths. When it is process 1 it forks and turns
the original process into `init`, the other long-running parent of the system,
which in turn launches the daemons of the table through `/etc/rc`.

## Plan

1. **Bootstrap** (done): the name service and the server loop of `mach_init`
   together with the kernel's treatment of ports, **ServiceCustody** its
   abstract specification, **BootstrapProofs** and **BootstrapCustody** the
   proofs, **BootstrapPromise** that it implements the specification.
2. **ConfigParser** (done): the recursive descent with its error recovery. What
   it must do is end, and describe the same lists that `Bootstrap!Init` starts
   from; **ConfigProofs** the proofs.
3. **InitMachine** (done): the state machine of `init.c`, its children and
   sessions, and signals between any two of its steps. **InitDiagram**: the
   diagram of states in its design notes. **InitProofs** the proofs.
4. **Tftp** (done): both sides of a transfer and the network between them;
   **FileCopy** what the user of a command sees; **TftpProofs** the proofs, and
   that a command is a FileCopy.
5. **TapeRing** (done): the master and the slaves of `dump`, the tapes, and
   what `restore` reads from them; **TapeProofs** the proofs.
6. **Shlock** (done): scripts that lock each other out, system call by system
   call; **ShlockProofs** the proofs.
7. Next in order: **Inetd**, **Spool** (`at` and `atrun`), each with an
   abstract specification (a bounded rate of forks; a job run at most once).
8. **TwoLevels**: two instances of Bootstrap, one the parent of the other, for
   the forwarding of lookups, which blocks without a time-out.
9. Further proofs. Every safety property of the runs has its theorem; next are
   rankings like that of `ParserGetsOn` for `death` of init and for the end of a transfer,
   which leave of liveness only what fairness has to give.

## Bootstrap

`Bootstrap.tla` models one mach_init, the kernel as far as ports go, and the
tasks.

**The kernel.** A port is a number, given out in order and not used again, as
a Mach name is not while anyone holds it. `recv` says who holds its receive
right: a task, mach_init (`Broker`), nobody (`Dead`), or a message that carries
it to the backup port (`Transit`). `backed` are the ports that go to
`backup_port` instead of dying. `rights` are mach_init's send rights, and
`notices` the deletion notices queued for it. When a task dies or drops a port
(`TaskDies`, `DropPort`), `Release` decides for each port between backup and
death and queues a notice if mach_init has a right on it. A notice and a
returning right are consumed in any order, and requests in `inbox` before or
after either: that is where the hazards are. Kernel behaviour is that of Mach
2.5: giving away the receive right leaves the send right; a port that dies in a
queued message arrives as `PORT_NULL`; `port_deallocate` on a port one receives
on ends the port.

**mach_init.** `services`, `bootstraps`, and per server `port` and `task_port`,
are the fields of the three structures of `lists.h`. Lists are sets; where a
lookup takes the first of several elements the model takes any. A bootstrap is
named by its port. The search of `lookup_service_by_name` through the parents is
`Ancestry`, the least set closed under `parent`, so that it needs no recursion.
Each action is one turn of `server_loop` and does all that this turn does:

| Action | Code |
|---|---|
| `BootServer` | the loop over servers in `main`, `start_server` |
| `x_bootstrap_check_in` ... `x_bootstrap_create_service` | the handlers of `rpc_services.c`; look_up and look_up_array are one action |
| `InheritedDied`, `ServerDied`, `PortDied` | the three branches for `NOTIFY_PORT_DELETED`, in the order they are tried |
| `PortBackedUp` | a message on `backup_port` |

`PortDied` includes `delete_bootstrap` with its recursion (`Doomed`) and both
`while` loops. `msg_destroy_port` appears as `Deallocated`; that it is
always empty is proved (`NoneDeallocated`), not assumed. Forwarding to the inherited bootstrap
port changes no state of mach_init and is a refusal here.

**The tasks** send every kind of request on every port they can have.
`Env` names what they and the system may do beyond good manners:

- `alias`: a port is registered under a second name;
- `sharedreq`, `taskreq`: a port in use, or a server's task port, is the
  requestor of a subset;
- `deadreply`: a server dies between its check-in and the reply;
- `forkfail`, `earlyexit`: fork fails; the child is gone at once;
- `debuginit`: option -d, so that the init server can die without a panic;
- `uaf`: mach_init does not survive reading a freed list element.

With `Env = {}` (`WellBehaved`) the tasks are well-behaved; the properties that
need this say so in their comment.

**ServiceCustody** is what a client relies on: each configured service is
offered, served, lost, withdrawn or forgotten, moves between these as the
diagram of its actions allows, and does not stay lost. `Promise` instantiates
it with the state of each service read off `services` and `recv`.

## Runs

| Run | Bounds | Shows |
|---|---|---|
| BootServing | 2 servers, 2 names, 10 ports | custody, bindings, counts through crash and restart |
| BootSubsets | 1 client, 7 ports, fairness | nested subsets, shadowed names, cascaded deletion, and that a subset without requestor goes in the end |
| BootAnyClient | 1 server, 1 client, 9 ports, every request, all of `Env` | the invariant that is proved |
| BootPromise | fairness | the refinement of ServiceCustody, and that restartable servers come back |
| ParseFiles | every file of at most 2 tokens, every combination of 3 of 18 statements | a file is read as it stands or given up whole |
| InitLines | 2 lines, 4 process numbers, 2 signals | sessions, data base, children and commands agree; a shutdown is thorough |
| InitEnds | 1 line, 2 process numbers, 1 signal, 1 failing fork, 1 orphan, all of `Env`, fairness | the diagram, that lines are served and that shutdowns end |
| TftpCopy | 1 file to get or put, 1 to 3 blocks, numbers below 3, 2 servers, 2 tries, fairness | every packet late, repeated, or answered twice: the copy is whole, both sides keep step, all processes end |
| DocFinalAck | 1 block, 1 server | a final acknowledgement is not repeated |
| TapeVolumes | 3 slaves, blocks of 2, 8 records with headers in 4 arrangements, 10 arrangements of tapes, writes that take nothing or fail at their ends, fairness | one slave writes at a time, restore reads the records in order, dump ends |
| DocTape | as TapeVolumes | rollforward puts an old header into the stream |
| ShlockRace | 2 scripts with 2 pids, stale and unreadable locks, every overlap and failure, fairness | the lock is exclusive until a file that was not tested is removed; locks are valid; stale ones go; shlocks return |

`MaxPorts` bounds a behaviour: no port is used twice, so when they are used up
the environment stops acting. It must leave mach_init the ports it still needs
to handle what has happened (`Owed`, `Solvent`); the bound therefore never
keeps mach_init from acting, and liveness does not come from running out of
ports. A crash and restart of a server costs two ports and the renewal of a
service one; ten ports give two servers their start, one crash with a restart, and one port
to register or to renew a service with. `MaxRequests = 1` is enough: requests are
independent messages, and every interleaving of a request with notices and with
the kernel is there with one in the queue. One more level of nesting than two
adds no case to `Ancestry` or `Doomed`; seven ports allow subsets beside and below
each other, each with a requestor of its own, as `Env = {}` requires. Shared
requestors, aliases and the rest of `Env` are in BootAnyClient.
Deadlock is not checked because a behaviour ends when its ports are used up.

**Fairness.** `FairSpec` assumes weak fairness of booting, of request handling
and of the handling of each notice: `server_loop` never stops receiving on the
port set, and messages are received in order, so that none waits for ever
behind others. Nothing is assumed of tasks: they may never
send, check in or die. The parser's `Spec` assumes that a program runs on.
`InitMachine!FairSpec` assumes the same of init, and that an alarm goes off;
children may live for ever, and signals may never come. `Tftp!FairSpec` assumes
that an alarm that was set goes off, and nothing of the network.
`TapeRing!FairSpec` assumes that processes run, that signals are delivered, and
that the operator answers, with yes or no, when a volume is full.
`Shlock!FairSpec` assumes that a shlock runs on; scripts may live for ever.

**Violated statements.** Each `Doc` run gives TLC one sentence of a comment and
a small environment that contradicts it. Both deserve a fix: tftpd looks for
the number of a repeated last block in the wrong buffer and never repeats its
final acknowledgement, so that a put that has arrived is reported as timed out
(DocFinalAck); `rollforward` puts a left-over header into one buffer and sends
another (DocTape).

The same models show, without a run of their own:

- a lookup that overtakes a deletion notice finds no send rights and deletes the
  service, also a configured one; when the notice comes there is nothing left to
  make anew (`Notes:29` says that a port is; `Forget` in ServiceCustody allows
  it);
- a service that is registered again keeps its first port
  (`bootstrap.defs:77-78` says it is destroyed): `msg_destroy_port` compares the
  result of `lookup_bootstrap_req_by_port` with the list head it cannot return,
  and never deallocates anything (from which the theorem `OnlySubsetsGiveUp`);
- `bootstrap_info` in a subset can make mach_init loop for ever: the second loop
  of the handler ends when it has seen as many visible services as there are
  services in all (`status = "hung"` in `x_bootstrap_info`;
  `rpc_services.c:358` promises the status of all services);
- with `sharedreq`, the requestor port of a deleted subset is deallocated
  although another subset names it, which then stays for ever (`SubsetReaped`
  fails; `rpc_services.c:475-476` says it is destroyed);
- with `alias` in `Env`, a port bound to two names that comes back makes only
  one of the services inactive (`ActiveIffServed` fails);
- a service created at a subset cannot be checked in by anyone, since check-in
  is accepted on a server's privileged port and that port resolves names from
  the root (`rpc_services.c:515-516` says it can);
- with `taskreq` in `Env`, a subset whose requestor is a server's task port is
  not reaped: the branch for dead servers uses the notice up;
- with `forkfail`, a restartable server whose fork fails once is never started
  again, as no task of it is left to die;
- with `debuginit`, the init server's death meets a count it was never part of
  (`bootstrap.c:688`: "This can't happen");
- a restartable server that lives on without any of its ports is not restarted
  (`Notes:29` says it is).

## ConfigParser

`ConfigParser.tla` models `parser.c` over tokens. `pos` stands for the input and
the token of look-ahead; a turn of a loop is an action, so that a loop that does
not end is a behaviour that does not end.

| Action | Code |
|---|---|
| `Begin`, `Statement`, `EndOfStatement`, `Resync` | `parse_conf_file`: its beginning, the two switches and the inner loop |
| `parse_server`, `Name` | `parse_server`; the loop of `parse_service` and of `parse_self` |
| `Conclude` | the end of `init_config`, with the fall-back to `default_conf` |

Characters are abstracted to what `advance_token` makes of them: a token, a
`bad` one (too long, or a quote that is not closed), which is consumed, or a
`stray` character, which is not. A quoted string is a name or a command
whatever it spells. `DeclaresTheFile` compares the lists with a reading of the
file that does not parse: split at semicolons, strings behind `services` or
`self` are names, others are commands. It shows that a file with an error
leaves nothing behind in the lists, and that the servers' numbers and the
services' owners agree. `Bootable` is what `Bootstrap!Init` assumes.
Three facts a reader of `bootstrap.conf` may trip over follow from the model: an
empty statement (`;;`) makes the next one an error; `services NAME = NUM`, which
the comment on the syntax allows, is refused; and `forward` or `self priority`
of a rejected file stay in force with the built-in configuration. The test for
names that are too long cannot succeed, as a token is never that long.

A stray character keeps mach_init in its parser for ever, so that
`<>(pc = "done")` does not hold, although `parser.c:104-105` means the built-in
configuration to get the system booted whatever the file says
(`BootsIfNoStray` is about the other files and shows nothing of this).

## InitMachine

`InitMachine.tla` models `init.c`. `pc` is a state function or a place in one,
and a handler may run between any two steps: before a test, between a test and
its `waitpid`, or in the middle of a `waitpid`, which it makes fail with EINTR.

| Action | Code |
|---|---|
| `runcom`, `WaitForScript`, `ScriptEnded` | `runcom`, called by `main` for the boot script (`Booting`) and as a state |
| `single_user`, `WaitForShell`, `ShellTest` | `single_user` |
| `read_ttys`, `clean_ttys`, `catatonia` | the functions of those names |
| `multi_user`, `StartLogins`, `MultiUserTest`, `WaitForLogin` | `multi_user`: its beginning, its two loops |
| `death`, `Kill`, `WaitForDeath`, `DeathTest` | `death`: marking, a round's signal and alarm, the inner loop, its condition |
| `transition_handler`, `alrm_handler` | the signal handlers |
| `Processes` | children that end, are stopped, or are inherited |

`sessions` and `session_db` are the list and the data base of `init.c`; `proc`
is the kernel's table of init's children, in which a number is free again once
waited for. Its field `outlived` is a note for the properties: the process lived
when `death` returned. `collect_child` and `start_getty` are operators, since several
actions call them. The ttys file is read in whole and may be different each
time. A process may end at any moment, so that SIGHUP and SIGTERM to a child
need no effect of their own; SIGKILL has one, unless the process is `stuck`.
`errno` is as much of the variable as `death` looks at: "ECHILD", from a
`waitpid` of this shutdown; "old", an ECHILD from before it began; or "other".
`death` begins with a call of `logwtmp`, which leaves `errno` alone or not, so an
ECHILD becomes "old" or "other" there, and stays until a call fails with another
error. An alarm that is left from before may go off between `clang = 0` and the
call of `alarm` (`Kill`). `Env` names what else may happen:

- `stuck`: SIGKILL does not end a process (init.8: deadlocked processes);
- `stop`: children are stopped. `single_user` and `runcom` wait with WUNTRACED
  and pass every stopped child to `collect_child`, which takes it for dead: a
  stopped login gets a second one beside it (NOTES:92 says "don't wait for
  stopped children");
- `full`: fork fails when all process numbers are in use.

The comments of the properties say which of these, and of failing forks, each
needs to be absent; `stuck` is none of them, but InitLines takes too long with
it, and the theorems have it. Two signals let one shutdown meet another, or a
hangup; two lines let one login end while another lives; four numbers let a line
get another's old number. `OneLoginPerLine` does not count logins that have
outlived a shutdown: `read_ttys` forgets them and their lines get others beside
them, which is what init.8 accepts when processes will not die. Every other way
to two logins it excludes. One signal is enough for the liveness properties, as a
second begins what the first has begun.
Deadlock is not checked: init ends when the single-user shell has been killed,
and waits for ever when `rc` has called reboot.

`KeepsDiagram` is the refinement of `InitDiagram`. The diagram has two kinds of
transition that the design notes do not: signals in single-user mode and during
the boot script, which lead to multi-user operation without `/etc/rc`, and the
data base that cannot be opened.

The model shows besides:

- a shutdown may be cut short: the loop in `death` tests `errno` after a `waitpid`
  that has succeeded (`init.c:1524`), and the ECHILD of an earlier shutdown may
  still be there. The system is taken down, comes up, and is sent SIGTERM again
  before a call has failed with another error; the first child that ends, in the
  first round, then ends the shutdown; other logins stay alive that were sent
  SIGHUP only, no time out has passed and no warning is printed, although
  `init.8:216-220` and `NOTES:110-111` have the 30 seconds. `TimesOut` states what
  they say; TLC finds it violated with two lines, two process numbers and two
  SIGTERM. `DeathIsThorough` names this as the third way for a shutdown to end, and
  says that there is no fourth; it deserves a fix;
- a hangup after SIGTSTP resumes nothing if the last login has ended in between
  (`init.8:229-230` says it does): `clean_ttys` returns when there is no
  session;
- `multi_user` begins by clearing `requested_transition`, so that a SIGTERM that
  arrives in `clean_ttys` or `catatonia` is lost;
- a signal between a test and its `waitpid` is noticed when the next child ends;
  if it is the alarm of a round, and what is left does not die, `death` does not
  return: `DeathEnds` has exactly this as its exception, and does not cover it;
- a failed fork leaves the flags of the last exit set, and with both set the
  plain getty runs instead of `onerror` or `onoption` (`FitsExit` needs forks
  that succeed);
- a shell or script that cannot be forked makes init reap children without
  looking for their sessions.

## Tftp

`Tftp.tla` models the client (`tftp.c`, and `main.c` as far as it gives
commands), the server (`tftpd.c`) and the buffers both use (`tftpsubs.c`).
`role` says which of its loops a process is in; the client keeps one socket for
all its commands, and each server has a port of its own.

| Action | Code |
|---|---|
| `Command` | `put` and `get` up to the first packet: `synchnet`, `makerequest` |
| `tftp` | `main` of tftpd, its fork, `validate_access`, the first packet or the `nak` |
| `Acknowledged` | the sender's loop when the right acknowledgement arrives |
| `Received` | the receiver's loop when the right block arrives, with `writeit`, and the end of it |
| `OutOfStep`, `Skipped` | any other packet: `synchnet` and the repetition, or nothing |
| `Refused` | an ERROR packet |
| `timer` | both handlers of SIGALRM: repeat, or give up after `maxtimeout` |
| `intr` | the user's interrupt, which jumps to the prompt |
| `Lingered`, `justquit` | the server behind its final acknowledgement |
| `Unreachable` | ECONNREFUSED from the client's closed port |
| `Lose` | the network |

The network is a set. A packet in it may be received any number of times, in
any order, at once or never; so reordering, delay and duplication need no
action, and a packet that is never received is as good as lost. Lost outright
are the kinds in `Losable`: this matters where a packet that may still come
keeps a state apart from one where it cannot. Packets to a port that is closed
are dropped. After `MaxTransfers` commands the client ends, as `quit` does.

`Modulus` stands for 65536: `th_block` has 16 bits, `block` is an int, so that
beyond `Modulus` no packet matches. With `Modulus = 3` and files of three blocks
TLC sees that such a transfer repeats until it times out, on both sides, rather
than take a wrapped number for a new block. `MaxTries` is `maxtimeout/rexmtval`.
Two servers are as many as two sent requests give.

The two buffers of `tftpsubs.c`, of which one is filled or flushed while the
other travels, are folded into `Written`: a block is on the disk when the next
is waited for. Where the order of buffers can be seen, it is modelled
(`BlockInDp`). Files to get and files to put are distinct, and a put finds the
old file in place (`Old`): it overwrites but does not truncate it, as
`validate_access` opens it for writing only (`tftpd.c:428`).

`FileCopy` is what the user sees of a command: the copied part grows block by
block, success means all of it, and the command ends. `User` instantiates it
with what is on the receiving disk and how the command ended; that the client
may time out although the file has arrived is in it (`Fail`).

The model shows besides, or its sources do:

- with two commands `SuccessIsWhole` fails: a get that is interrupted leaves a
  server that will answer, the socket is the same, and `recvfile` takes a block
  from any port (`tftp.c:272-275`: "should verify client address"). The second
  get ends well with the first file's contents under the second name;
- write errors are lost: `writeit` returns before the block is written and the
  result of `write_behind` is dropped (`tftpsubs.c:205` calls it a lie), so that
  the `nak` for a full disk is never sent;
- after an ERROR packet a client that receives acknowledges the block it waits
  for, which it does not have (`Refused`);
- in tftpd's `main` the counter of the loop that tries fork again is overwritten
  with the result of `recvfrom` (`tftpd.c:197-221`).

## TapeRing

`TapeRing.tla` models the master of `dump` (`flushtape`, `trewind`,
`startnewtape`, `rollforward` and their caller in `main`), its slaves
(`doslave`) and the tapes. A record is a header of a volume, a numbered record
of the dump, or one of the TS_END headers; a block is a sequence of `ntrec`
records. What the master has in memory (headers and maps, "mem") travels with
the request; of the rest ("disk") only the address does, and the slave reads it.
This difference matters in one place, the record left over by `rollforward`.

| Action | Code |
|---|---|
| `Dump` | `writerec`, one record of `dumpblock`, and the sending in `flushtape` |
| `NextBlock`, `EndOfTape`, `Drain`, `Drained` | `flushtape` with the result of the next slave |
| `Finish`, `Done` | the end of `main` |
| `trewind`, `Refuse` | `trewind`; the operator's no in `close_rewind` |
| `startnewtape`, `rollforward`, `First` | those functions, with `enslave`; the end of `rollforward` |
| `Read`, `Lock`, `Pause`, `Write`, `Tell`, `Pass`, `Exit` | the loop of `doslave` |
| `proceed` | the handler of SIGUSR2 |

A volume takes `room` records; after that every write returns 0 or fails, and the
result is 0 or the part of the block that was written (`Answers`). A tape on
which a write fails and a later one succeeds is not modelled. `Limits` gives
`blocksperfile`, which also stands for the length of tape (`tsize`) it replaces.
`TapeAssumption` leaves out volumes on which not even a header fits, and a
first volume that takes less than a block. A volume without its header restore
does not read ("tape is not dump tape", `restore.tproj/tape.c:398`), and with
such volumes `RestoresInOrder` is false: `dump` takes a tape that is full at
once for one that was begun. `ReadBack` is what `restore` makes of the volumes
when it uses every record:
`readtape` with its counter `tpblksread`, and `getvol` with the skipping of
records read before. It is defined from restore's code, and so the invariant
`RestoresInOrder` relates two programs. It covers volumes that end by count, at
any place of any block with two more blocks under way, and both in one dump.
`ntrec = 2` is the smallest factor the assumption admits and lets a tape end at
and inside a block; eight records and two TS_END headers make six blocks, twice
round the ring, so that a tape can end in the first round, in the second, in a
replayed block, and in the last blocks. Three slaves is what the code has.

What the models show of `dump` besides DocTape:

- `rollforward` does not advance `firstrec`. The header of the volume after the
  next names a record three blocks too early, and restore skips that many
  records it has not read: `~stale => Ordered` fails with two ends of tape.
  When the second tape ends within the blocks that are being replayed, they are
  replayed once more as they were before the header moved them on. `Lucky`
  excludes both;
- `putdumptime` comes before `trewind` (`main.c:486-487`): a dump that ends with
  "EOT detected in last 2 tape records" is in `/etc/dumpdates`
  (`dump.8:177-180` says after a successful dump; `dated` and `pc = "quit"` are
  reachable together);
- `size` in `doslave` is never negative, so SIGUSR1 is never sent, `tperror` and
  the return of `X_REWRITE` are unreachable, and a write error is taken for an
  end of tape; `dump.8:246-256` describes the restart from a checkpoint;
- a write error within a block has its part told to the master, one at its
  beginning, or a write of zero bytes, has 0; the master takes both for the end of
  the tape;
- after a partial write the next slave is signalled all the same, although the
  comment (`tape.c:853-856`) does not want it to go. This does no harm on a tape
  that stays at its end.

## Shlock

`Shlock.tla` models `shlock.c` by its system calls, between any two of which
other processes run, and around it scripts that use it as the examples of
`shlock.1` do. A script is known by its pid, which is what it has written into
the lock (`-p $$`); a pid is given out again when its process has ended. Files
are told apart by the pid they hold, or are `Blank`: empty, or without a pid.
`same` says whether the file a shlock has open is still the one at the lock's
name; no other process can see this.

| Action | Code |
|---|---|
| `Call` | `main`, with and without a pid; a left-over temporary file is met or not |
| `Create`, `Write` | `xtmpfile` |
| `Link`, `Break`, `Unlink` | `mklock`: the loop, the unlink of a stale lock, the end |
| `Open`, `Test` | `cklock` and `p_exists`, for `mklock` and for `main` |
| `Kill` | a signal, anywhere |
| `Begin`, `End`, `Remove` | the script: it starts, ends or crashes, and calls `rm` |

`shlock.c` begins "reliable locks". What a link puts at the lock's name is
complete (`ValidTheInstant`), and a lock that was found stale *and is still
there* is nobody's (`TestIsSound`), even if its pid has been given out again in
the meantime: a new script with that pid has to link a lock first, and the name
is taken. But `unlink` takes a name, not a file. A shlock opens the lock of a
script, which removes it and ends; another makes its own; the first finds the pid
it has read dead, removes the new lock, links its own, and two scripts have the
lock. This needs no crash and no stale lock; TLC finds it at once if `AtMostOne`
is made an invariant. The history variable `stolen` records that a shlock has
removed another file than the one it tested, and `Exclusive` says that this is
the *only* way to lose the lock. It cannot happen when shlocks do not overlap,
nor when no lock is stale and no script ends (`SerialExclusion`,
`LastingExclusion`).

Two scripts are enough for TLC: each can end and come back with the same pid
while the shlock of the other is anywhere. Its own shlock runs on when it ends,
and its pid is given out again only when that has returned (`Begin`): a script
and the shlock of its predecessor would be one place in the model. The theorems
are for any number of scripts. `StaleGoes` is for locks that somebody tries for. `Returns`
has its exception because a shlock that removes a stale lock can find another at
its next link; that takes a script that ended in between, each time.

A lock that cannot be opened counts as valid, also when it is not there: an
attempt gives up although nobody has the lock, and a check (`-f` alone) exits
with zero (`shlock.1:75` says that zero indicates a valid lock file). The manual
also says that rename is used; with it the lock would not be exclusive at all
(`Renames`).

## Proofs

`BootstrapProofs.tla` proves, for every set of servers, clients and names, every
configuration, every bound and every `Env`:

- `Invariance`: `Spec => []Inv`;
- `NamesAreUnique`, `NothingIsOrphaned`: its two parts a client notices;
- `BindingsAreStable`: `Spec => StableBinding`, the promise that a client's
  port for an active name stays valid while it lives;
- `OnlySubsetsGiveUp`: `Spec => [][RightsKept]_vars`. A step gives up a send
  right, or kills a port that mach_init receives on or is to receive, only when it
  deletes a subset, whose port or requestor it is. So the old port of a service
  that is registered again is never destroyed, in any configuration.

The only assumption is `ConfigAssumption`: the constants have their types, and
the markers are not tasks. `Inv` is inductive as it stands, and needs all its
parts: that an action keeps a name unique uses that the bootstrap a request
denotes exists (`NoOrphans`, `LookupIsBootstrap`), so that the search begins
with the bootstrap's own services (`OwnNameIsFound`); that the deletion cascade
leaves no orphan uses that the ancestors of a parent are ancestors of the child
(`AncestryOfParent`, `SurvivorsKeepParent`); that a request is well-typed uses
that a live server has its ports; and `BindingsAreStable` uses, for the one
action that renews a port, that a notice is never premature. `AllImportant` is
what lets the handlers' calls of `msg_destroy_port` drop out of every other
proof. There is one lemma per action, and `NextInv` collects them.

`BootstrapCustody.tla` proves what needs well-behaved tasks, for every
configuration and every bound and under the hypothesis `WellBehaved`
(`Env = {}`; they are not claimed of other tasks, see "Violated statements"):

- `Served`, `OfferedComesBack`, `PrivilegeKept`, `NoSilentDeath`,
  `ServersAreCounted`: `ActiveIffServed`, `InactiveIsBacked`,
  `PrivilegedCustody`, `DeathIsNoticed` and `RunningCount`;
- `NothingIsForgotten`: `Spec => DeletedOnlyIfGone`.

None of the five is inductive, nor are they together. `Good` adds what ties
ports to their uses. A port is the port of one service, or the requestor of one
subset, or on its way in one request (`Distinct`), never the port of a subset or
a task (`Apart`), and allocated (`Allocated`), so that a fresh port disturbs
nothing (`FreshPort`). `Addresses` keeps the ports of servers and subsets apart,
so that a request on a privileged port is that server's (`Requests`,
`ServerAsks`): `PrivilegedCustody` rests on that. `Backup` says that a task
receives backed-up rights only with a service; without it a port could return
that mach_init does not expect. `Rights` says that mach_init has a send right on
all it uses, which is why every death of one queues a notice. `Launched` relates
a server to its task port. `Tally` carries, with the count, that finitely many
servers run, so that no assumption on the number of configured ones is needed.
`ReleaseGood` covers drops and deaths, `BindGood` both forms of registration,
`StartGood` boot and restart, and `PortDiedFacts` what the deletion of subsets
leaves alone.

`BootstrapPromise.tla` proves the safety part of `KeepsPromise` from the same
invariant: `PromiseIsKept`, that the initial states and every step map to those
of `ServiceCustody` or to a stutter. `PhaseNow` and `PhaseNext` read the state
of a configured service off its only entry; `SomeLost`, `SomeForgotten` and
`OneMoves` are the forms a step of the promise can take, and there is one lemma
per kind of step.

`ConfigProofs.tla` proves, for any set of files over any strings:

- `FileDeclared`: `Spec => []DeclaresTheFile`;
- `AlwaysBootable`: `Spec => []Bootable`, under the hypothesis `DefaultConf`
  that the built-in configuration is the one of `bootstrap.c:87-89`: an init
  server and one service, whatever they are called;
- `ParserGetsOn`: every step of the parser reads on, or comes nearer to the end
  of what it does at one token (`Rank`), or turns to the built-in configuration.
  No loop of it can run for ever on a file without stray characters.

`StatementSteps`, `ServerSteps` and `NameSteps` say what the branches of the
parser do to the position and the lists, and all three theorems use them.
`Parsing` has the types, that names are unique and that one server is init.
`Declaring` ties the lists to the file as far as it has been read without a
complaint: they are what is declared before `pos` (`Declares`), a statement
begins where the parser expects one (`StartsAt`), and within a list every string
up to the next semicolon is a name, of the server whose number is `owner`
(`NamesOf`). This joins the parser's notion of a statement, which it gets from
its state, with that of `DeclaresTheFile`, which looks at the whole file:
`NotListed` and `ListedAfter` are facts about files alone, `NextCommand` and
`NextName` count, and `AfterList` and `AfterCommand` are what the parser knows
when it comes to a list. `Defaulting` follows the parser through `default_conf`.

`InitProofs.tla` proves, for any number of lines, process numbers, orphans and
signals, when fork works, no child is stopped, and SIGKILL ends processes or not
(`WellBehaved`, the hypothesis of these theorems):

- `TypeCorrect`, `DataBaseCorrect`, `OneLogin`: `TypeOK`, `DataBaseAgrees` and
  `OneLoginPerLine`;
- `NextFitsExit`, `ShutdownIsFinal`, `Thorough`: `FitsExit`,
  `NoLoginAfterShutdown` and `DeathIsThorough`;

and without any hypothesis `DiagramKept`: every step stays in its mode or takes
a way of `InitDiagram`, whatever fails, is stopped or will not die (the safety
part of `KeepsDiagram`).

`OneLoginPerLine` follows from `Core`: a login that lives, and has not outlived a shutdown, is in the data base. `read_ttys` throws the data base away, so `Inv` must know that no such login lives
then (`Quiet`); that is so because init comes there from single-user mode or a
script, where every session that is left is marked, and there only from `death`,
from which every login that lives has `outlived`. That an ECHILD of this
shutdown is true, and an old one told apart from it, is a part of the invariant,
and what `Thorough` needs. A marked session that gets no new login
needs that it still has a process (`Served`), and `TypeOK` that init waits for
a child of its own (`Awaited`), and that main knows where to begin (`Requests`).
`CoreStart`, `CoreReap`, `CoreForget`, `CoreFork` and `CoreEnd` are what can
happen to the sessions; `Collected` puts them together for `collect_child`, and
there is one lemma per action.

`TftpProofs.tla` proves, for any files, lengths, `Modulus`, tries, servers and
losses, and one command (`SingleCommand`, the hypothesis of each theorem; for
two the properties are false):

- `Correctness`: `Spec => []Inv`;
- `TypeCorrect`, `SuccessfulCopies`, `WritesInOrder`: `TypeOK`, `SuccessIsWhole`
  and `InOrder` follow.

`SuccessIsWhole` is far from inductive. `Inv` says what is true of every packet
that may still arrive, however old and from whichever of several servers: a
DATA packet holds the block of its number, and an acknowledgement of `n` to the
client means that the first `n` blocks are on the server's disk
(`NetIsHonest`); and of every process: a receiver has the blocks before its own
(`Sound`). One lemma says that steps which send only such packets and change no
content keep this (`Step`), one that arrivals do (`Arrives`), and there is one
lemma per action. That numbers wrap is dealt with by `WireNumber`: a packet
that matches has its block below `Modulus`.

`SendersWait` proves `Lockstep`. It needs, for every acknowledgement under way,
that its sender has the block (`Reached`); the one exception is the client that
acknowledges, with an error, a block it has not got. `LockInv` says why this does
no harm: who sends an error is gone, so that nobody is there to believe it.

`CommandIsFileCopy` is the safety part of `CopiesFile`, with the same
hypothesis: the initial states and every step map to those of `FileCopy` or to a
stutter. `MapInv` adds to `Inv` that the file of a put has no block at the server
before the command (`Untouched`), that a client in its loop has not said how the
command ended (`Undecided`), and that nothing is copied from behind the end of
the file (`Bounded`). `Seen` is the mapping of a step that adds one block or
none; the lemmas for the actions say which it is.

`TapeProofs.tla` proves, for any number of slaves, any blocking factor, any dump
and any tapes that `TapeAssumption` admits:

- `SingleTurn`: `Spec => []OneTurn`. The invariant adds that a slave has the
  turn in one form only, a signal under way, `caught`, or being used (`Once`);
  with a signal and `caught` at once it would pass two turns on. `Moves`,
  `Begins`, `Enslaved` and `Killed` are the four ways a step can treat the turn;
- `TypeCorrect`: `Spec => []TypeOK`. That the master finds an answer of the
  right size rests on who can be asked what (`Requests`, `Sizes`) and on `Turns`:
  the slaves that wait to write are one stretch of the ring, from the slave with
  the turn to the buffer being filled. `Ending` keeps apart what a run can still
  reach when it stops, changes the tape or ends;
- `RestoredInOrder`: `Spec => []RestoresInOrder`, which is conditional: it says
  nothing of a run that is not `Lucky`, that is once a roll forward has left a
  stale header in a buffer (DocTape) or another volume has followed it; and
  `TapeAssumption` leaves out `ntrec = 1`, volumes without room for a header and
  first volumes shorter than a block. Its invariant gives each record
  and header a position, in the order in which they were first meant to be
  written. `f[v]` is the position of the header of volume `v` and `e[s]` the end
  of the block slave `s` has been sent. `Data(f, e)` says that every buffer and
  every block on its way has what belongs at its place, that the blocks follow
  one another up to the buffer being filled, and that the slave whose turn it is
  has the block that begins where the tape ends, unless the tape is full. At the
  end of a tape nothing moves any more (`Settled`); `rollforward` then moves the
  records that are to be written again on by one position, that of the new
  header (`Moved`). `Known` is the invariant: while the run is `Lucky` there are
  such positions. What `restore` reads is a recursion over the volumes, and
  `ReadBefore` finds its value for each of them: `Induction` is proved, for sets
  of numbers, from the pigeonhole principle, `UptoIs` unfolds the recursion, and
  `ReadVolume` is one volume with its header and its repeated records.

`ShlockProofs.tla` proves, for any number of scripts, which may end or not, any
lock to begin with, any overlap and all failures: `TypeCorrect`, with `Knows`,
which says at which calls a shlock has opened a file, has written its own, and
may have succeeded; `ValidAtOnce` (`ValidTheInstant`) from it; `TestSound`
(`TestIsSound`), for which `SoundInv` covers also a script that will have the
lock when its shlock returns from a link that succeeded: a lock that is made
while another is tested is not the file under test; and `Exclusion`
(`Exclusive`), since until a lock is stolen whoever has it finds its own file at
the name (`OwnInPlace`). `SerialExclusion` and `LastingExclusion` prove
`AtMostOne` outright, for `Overlap = 1`, where nothing comes between a test and
its unlink, and for `Mortal = {}` and `Extant = {NoFile}`, where no test finds a
stale lock.

Checked by TLC only: the liveness properties (`RestartableComesBack`,
`SubsetReaped`, `BootsIfNoStray`, `LinesServed`, `DeathEnds`, `Ends`, `Finishes`,
`StaleGoes`, `Returns`, and the fairness in the refinements `KeepsPromise`,
`KeepsDiagram` and `CopiesFile`). Liveness under fairness is outside what the
provers do; of `BootsIfNoStray`, `ParserGetsOn` is the part that needs none.

## Not modelled

Command line and environment of mach_init, the priorities and `execvp` of its
servers, messages that fail to be sent for lack of resources, `kern_fatal` on a
kernel error that no hazard names, and the text of log messages. Service names
longer than the field that holds them are not distinguished from their prefix
by the code either; names here are distinct. The list of services is not
ordered, so which of two aliases is found first is left open.

Of init: the security level, the password for the single-user shell, the window
system beside a getty, utmp and wtmp, the pause of gettys that repeat too
quickly, which the child sleeps, and the handlers of fatal signals.

Of tftp and tftpd: the parsing of commands, requests and host names, the
conversion of netascii, the list of directories, errors of read, write, send
and fork, and the trace and verbose output. Of dump: the traversal of the file
system and the estimates, `c_count` and `c_tapea` of the headers, the remote
tape and the pipe, failures of fork, open and the command pipes, blocks of one
record (`-b 1`), and interrupts by the operator. Of restore: everything above
`readtape`.

Of shlock: the binary form of the pid (`-u`), which has to be the same for all
who use a lock; the byte after the string that `buf[len + 1]` leaves
uninitialised, which `atoi` does not reach after a newline; a write that is cut
short, which is treated as one that fails; and the files of other programs at
the temporary name.
