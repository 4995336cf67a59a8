----------------------------- MODULE InitMachine ----------------------------
(***************************************************************************)
(* init (init.c), process 1: the state machine that brings the system up,  *)
(* keeps a login on every terminal line and takes the system down again,   *)
(* among children that end when they like and signals that arrive between  *)
(* any two of its steps.                                                   *)
(***************************************************************************)
EXTENDS Naturals, FiniteSets

CONSTANTS
  Line,          \* the terminal lines
  OnError, OnOption,   \* the lines whose entry has such a command
  Pid, NoPid,    \* process numbers, used again once waited for; their number
                 \* bounds the children at a time; 0
  NoLine, NoSession,
  MaxSignals,    \* signals sent to init in a behaviour
  MaxFailures,   \* failures of fork
  MaxOrphans,    \* processes init inherits, at a time
  Signals,       \* those sent: "HUP", "TERM", "TSTP"
  Entries,       \* what becomes of a line's entry: "on", "off", "none"
  Env

(* What may happen besides.  stuck: processes that SIGKILL does not end.    *)
(* stop: children are stopped.  full: fork fails when all of Pid is in use; *)
(* without it, behaviours end there.                                        *)
Freedom == {"stuck", "stop", "full"}

Session == [process : Pid \cup {NoPid}, shutdown : BOOLEAN,
            launch : SUBSET {"ONERROR", "ONOPTION"}]

ASSUME ConfigAssumption ==
  /\ OnError \subseteq Line /\ OnOption \subseteq Line
  /\ NoPid \notin Pid /\ NoLine \notin Line /\ NoSession \notin Session
  /\ MaxSignals \in Nat /\ MaxFailures \in Nat /\ MaxOrphans \in Nat
  /\ Signals \subseteq {"HUP", "TERM", "TSTP"}
  /\ Entries \subseteq {"on", "off", "none"} /\ Env \subseteq Freedom

VARIABLES
  pc,            \* a state function, or a place in one
  requested_transition,
  runcom_mode,
  child,         \* the shell or script waited for
  got,           \* how it ended, when it has
  sessions,      \* for each line its session or NoSession
  session_db,    \* for each process number a line or NoLine
  proc,          \* the children of init
  clang, alarm, round,
  errno,         \* "ECHILD", "old" for an ECHILD from before the shutdown that
                 \* goes on or was the last, or "other"
  signals, failures

vars == <<pc, requested_transition, runcom_mode, child, got, sessions,
          session_db, proc, clang, alarm, round, errno, signals, failures>>

waited  == <<child, got>>
dying   == <<clang, alarm, round>>

Waiting == {"boot_wait", "rc_wait", "su_wait", "mu_wait", "death_wait"}
MultiUser == {"multi_user", "mu_start", "mu_test", "mu_wait", "catatonia"}

(* Processes.  That one has outlived a shutdown is only a note for the       *)
(* properties: no action looks at it.                                        *)

Free    == [state |-> "free", role |-> "none", line |-> NoLine, command |-> "none",
            status |-> "none", outlived |-> FALSE]
Child(role)      == [Free EXCEPT !.state = "live", !.role = role]
Login(l, which)  == [Child("login") EXCEPT !.line = l, !.command = which]
StatusOf(role)   == CASE role = "login" -> {"zero", "console", "signal"}
                      [] role = "shell" -> {"zero", "signal", "kill"}
                      [] role = "rc"    -> {"zero", "nonzero", "term"}
                      [] OTHER          -> {"zero"}

Living  == {p \in Pid : proc[p].state \in {"live", "stopped"}}
Zombies == {p \in Pid : proc[p].state = "zombie"}
Unused(table) == {p \in Pid : table[p].state = "free"}
Present == {l \in Line : sessions[l] # NoSession}

\* fork fails for want of memory, or of a place in the table.
ForkFails(table) ==
  IF Unused(table) = {} THEN "full" \in Env /\ UNCHANGED failures
  ELSE failures < MaxFailures /\ failures' = failures + 1
\* fork in table: the new process and the table with it.
Forked(table, what) == {[pid |-> p, table |-> [table EXCEPT ![p] = what]] :
                          p \in Unused(table)}
\* waitpid(-1, ..., WNOHANG) repeated: all that have ended go unnoticed.
ReapAll ==
  /\ proc' = [p \in Pid |-> IF p \in Zombies THEN Free ELSE proc[p]]
  /\ errno' = IF Living = {} THEN "ECHILD" ELSE "other"

Init ==
  /\ pc = "boot" /\ requested_transition \in {"runcom", "single_user"}
  /\ runcom_mode \in {"AUTOBOOT", "FASTBOOT"}
  /\ child = NoPid /\ got = "nothing"
  /\ sessions = [l \in Line |-> NoSession] /\ session_db = [p \in Pid |-> NoLine]
  /\ proc = [p \in Pid |-> Free]
  /\ clang = FALSE /\ alarm = FALSE /\ round = 1 /\ errno = "other"
  /\ signals = 0 /\ failures = 0

(* Logins. *)

\* The command start_getty runs: both flags at once mean the usual one.
CommandFor(flags, l) ==
  CASE flags = {"ONOPTION"} /\ l \in OnOption -> "onoption"
    [] flags \in {{"ONOPTION"}, {"ONERROR"}} /\ l \in OnError
       /\ ~(flags = {"ONOPTION"} /\ l \in OnOption) -> "onerror"
    [] OTHER -> "getty"

\* The flags once the command has been started, and a bug.
KeptFlags(flags)    == flags
ClearedFlags(flags) == {}

\* What is wanted when fork fails, and a bug.
GiveUp == requested_transition
Retry  == "clean_ttys"

\* start_getty for line l and what its callers do then; table, db and known
\* are what the caller has made of proc, session_db and sessions, and flags
\* what it leaves of the session's.
start_getty(l, flags, table, db, known) ==
  \/ \E f \in Forked(table, Login(l, CommandFor(known[l].launch, l))) :
       /\ proc' = f.table
       /\ sessions' = [known EXCEPT ![l].process = f.pid, ![l].launch = flags]
       /\ session_db' = [db EXCEPT ![f.pid] = l]
       /\ UNCHANGED <<requested_transition, failures, errno>>
  \/ /\ ForkFails(table)
     /\ proc' = table /\ sessions' = known /\ session_db' = db
     /\ requested_transition' = Retry /\ errno' = "other"

\* A session that ends and one that goes on, and bugs.
NeverEnds(session)  == FALSE
Ends(session)       == session.shutdown
Remembered(db, p)   == db
Forgotten(db, p)    == [db EXCEPT ![p] = NoLine]

\* collect_child(p), when waitpid has left table and the caller has noted in
\* known how the session ended.
collect_child(p, table, known) ==
  LET l  == session_db[p]
      db == Forgotten(session_db, p)
      on == [known EXCEPT ![l].process = NoPid]
  IN  \/ /\ Present = {} \/ l = NoLine
         /\ proc' = table /\ sessions' = known
         /\ UNCHANGED <<session_db, requested_transition, failures, errno>>
      \/ /\ Present # {} /\ l # NoLine /\ Ends(known[l])
         /\ proc' = table /\ session_db' = db
         /\ sessions' = [known EXCEPT ![l] = NoSession]
         /\ UNCHANGED <<requested_transition, failures, errno>>
      \/ /\ Present # {} /\ l # NoLine /\ ~Ends(known[l])
         /\ start_getty(l, ClearedFlags(known[l].launch), table, db, on)

\* waitpid(-1, &status, WUNTRACED) returns p: an ended child is gone, a stopped
\* one is reported once; the one waited for is made to go on.
Stopped == {p \in Pid : proc[p].state = "stopped"}
After(p) == [proc EXCEPT ![p] = IF p \in Zombies THEN Free
                                ELSE [proc[p] EXCEPT !.state = "live"]]
Outcome(p) == IF p = child /\ p \in Zombies THEN proc[p].status ELSE "nothing"

(* runcom, called by main for the boot script and as a state function. *)

Booting == pc \in {"boot", "boot_wait", "boot_test"}

\* runcom returns s; main looks at an error only.
RuncomReturns(s) ==
  IF ~Booting THEN pc' = s /\ UNCHANGED requested_transition
  ELSE IF s = "single_user" THEN pc' = s /\ requested_transition' = s
  ELSE pc' = requested_transition /\ UNCHANGED requested_transition

runcom ==
  /\ pc \in {"boot", "runcom"}
  /\ \/ /\ \E f \in Forked(proc, Child("rc")) : child' = f.pid /\ proc' = f.table
        /\ pc' = IF Booting THEN "boot_wait" ELSE "rc_wait"
        /\ got' = "nothing" /\ UNCHANGED <<requested_transition, failures, errno>>
     \/ /\ ForkFails(proc) /\ ReapAll
        /\ RuncomReturns("single_user") /\ UNCHANGED waited
  /\ UNCHANGED <<runcom_mode, sessions, session_db, dying, signals>>

WaitForScript ==
  /\ pc \in {"boot_wait", "rc_wait"}
  /\ \E p \in Zombies \cup Stopped :
       /\ collect_child(p, After(p), sessions)
       /\ got' = Outcome(p)
       /\ pc' = IF got' = "nothing" THEN pc
                ELSE IF Booting THEN "boot_test" ELSE "rc_test"
  /\ UNCHANGED <<runcom_mode, child, dying, signals>>

\* A script ended by SIGTERM after SIGTSTP has called reboot: init waits for
\* the end with all signals blocked.
ScriptEnded ==
  /\ pc \in {"boot_test", "rc_test"}
  /\ \/ /\ got = "term" /\ requested_transition = "catatonia"
        /\ pc' = "halted" /\ UNCHANGED <<requested_transition, runcom_mode>>
     \/ /\ got # "zero" /\ ~(got = "term" /\ requested_transition = "catatonia")
        /\ RuncomReturns("single_user") /\ UNCHANGED runcom_mode
     \/ /\ got = "zero" /\ RuncomReturns("read_ttys")
        /\ runcom_mode' = IF Booting THEN runcom_mode ELSE "AUTOBOOT"
  /\ child' = NoPid /\ got' = "nothing"
  /\ UNCHANGED <<sessions, session_db, proc, dying, errno, signals, failures>>

(* single_user. *)

single_user ==
  /\ pc = "single_user"
  /\ \/ /\ \E f \in Forked(proc, Child("shell")) : child' = f.pid /\ proc' = f.table
        /\ got' = "nothing" /\ requested_transition' = "none"
        /\ pc' = "su_wait" /\ UNCHANGED <<failures, errno>>
     \/ /\ ForkFails(proc) /\ ReapAll
        /\ UNCHANGED <<pc, requested_transition, waited>>
  /\ UNCHANGED <<runcom_mode, sessions, session_db, dying, signals>>

WaitForShell ==
  /\ pc = "su_wait"
  /\ \E p \in Zombies \cup Stopped :
       collect_child(p, After(p), sessions) /\ got' = Outcome(p)
  /\ pc' = "su_test"
  /\ UNCHANGED <<runcom_mode, child, dying, signals>>

ShellTest ==
  /\ pc = "su_test"
  /\ \/ /\ requested_transition # "none" /\ pc' = requested_transition
        /\ UNCHANGED runcom_mode
     \/ /\ requested_transition = "none" /\ got = "nothing"
        /\ pc' = "su_wait" /\ UNCHANGED runcom_mode
     \/ /\ requested_transition = "none" /\ got = "kill"   \* by reboot
        /\ pc' = "exited" /\ UNCHANGED runcom_mode
     \/ /\ requested_transition = "none" /\ got = "signal"
        /\ pc' = "single_user" /\ UNCHANGED runcom_mode
     \/ /\ requested_transition = "none" /\ got = "zero"
        /\ pc' = "runcom" /\ runcom_mode' = "FASTBOOT"
  /\ got' = "nothing"
  /\ child' = IF pc' = "su_wait" THEN child ELSE NoPid
  /\ UNCHANGED <<requested_transition, sessions, session_db, proc, dying, errno,
                 signals, failures>>

(* Multi-user operation. *)

NewSession == [process |-> NoPid, shutdown |-> FALSE, launch |-> {}]

\* Sessions that are left are thrown away, whatever has become of their
\* processes; the new data base may not be opened.
read_ttys ==
  /\ pc = "read_ttys"
  /\ session_db' = [p \in Pid |-> NoLine]
  /\ \/ /\ \E ttys \in [Line -> Entries] :
             sessions' = [l \in Line |-> IF ttys[l] = "on" THEN NewSession ELSE NoSession]
        /\ pc' = "multi_user"
     \/ /\ sessions' = [l \in Line |-> NoSession]
        /\ pc' = "single_user"
  /\ UNCHANGED <<requested_transition, runcom_mode, waited, proc, dying, errno,
                 signals, failures>>

multi_user ==
  /\ pc = "multi_user" /\ pc' = "mu_start" /\ requested_transition' = "none"
  /\ UNCHANGED <<runcom_mode, waited, sessions, session_db, proc, dying, errno,
                 signals, failures>>

\* The sessions the starting loop deals with; a bug would take all.
Busy(l)    == TRUE
Idle(l)    == sessions[l].process = NoPid
ToStart    == {l \in Present : Idle(l)}

\* One turn of the loop that starts logins.
StartLogins ==
  /\ pc = "mu_start"
  /\ \/ \E l \in ToStart :
          /\ start_getty(l, KeptFlags(sessions[l].launch), proc, session_db, sessions)
          /\ pc' = IF proc' # proc THEN pc ELSE "mu_test"
     \/ /\ ToStart = {} /\ pc' = "mu_test"
        /\ UNCHANGED <<requested_transition, sessions, session_db, proc, errno, failures>>
  /\ UNCHANGED <<runcom_mode, waited, dying, signals>>

MultiUserTest ==
  /\ pc = "mu_test"
  /\ pc' = IF requested_transition = "none" THEN "mu_wait" ELSE requested_transition
  /\ UNCHANGED <<requested_transition, runcom_mode, waited, sessions, session_db,
                 proc, dying, errno, signals, failures>>

\* How a login ended decides what is run next; stopped children do not count.
Flag(status) == IF status = "console" THEN "ONOPTION" ELSE "ONERROR"

WaitForLogin ==
  /\ pc = "mu_wait"
  /\ \/ \E p \in Zombies :
          LET l == session_db[p]
          IN  collect_child(p, After(p),
                IF Present # {} /\ l # NoLine
                THEN [sessions EXCEPT ![l].launch = @ \cup {Flag(proc[p].status)}]
                ELSE sessions)
     \/ /\ Living \cup Zombies = {} /\ errno' = "ECHILD"
        /\ UNCHANGED <<requested_transition, sessions, session_db, proc, failures>>
  /\ pc' = "mu_test"
  /\ UNCHANGED <<runcom_mode, waited, dying, signals>>

\* With no session left init does not look at the file.  The SIGHUP for a line
\* that is off changes nothing: its login may end at any time, and init, if it
\* sends it to process 0, forgets it in multi_user.
clean_ttys ==
  /\ pc = "clean_ttys" /\ pc' = "multi_user"
  /\ \/ Present = {} /\ UNCHANGED sessions
     \/ /\ Present # {}
        /\ \E ttys \in [Line -> Entries] :
             sessions' = [l \in Line |->
               CASE ttys[l] = "none" -> sessions[l]
                 [] l \in Present /\ ttys[l] # "none" ->
                      [sessions[l] EXCEPT !.shutdown = (ttys[l] = "off")]
                 [] l \notin Present /\ ttys[l] = "on" -> NewSession
                 [] OTHER -> NoSession]
  /\ UNCHANGED <<requested_transition, runcom_mode, waited, session_db, proc, dying,
                 errno, signals, failures>>

AllShutdown == [l \in Line |-> IF l \in Present
                               THEN [sessions[l] EXCEPT !.shutdown = TRUE]
                               ELSE NoSession]

catatonia ==
  /\ pc = "catatonia" /\ pc' = "multi_user"
  /\ sessions' = AllShutdown
  /\ UNCHANGED <<requested_transition, runcom_mode, waited, session_db, proc, dying,
                 errno, signals, failures>>

(* death. *)

\* logwtmp leaves errno alone when nothing fails in it.
death ==
  /\ pc = "death" /\ pc' = "kill" /\ round' = 1
  /\ sessions' = AllShutdown
  /\ errno' \in {"other", IF errno = "other" THEN "other" ELSE "old"}
  /\ UNCHANGED <<requested_transition, runcom_mode, waited, session_db, proc, clang,
                 alarm, signals, failures>>

Killed(p) == [proc[p] EXCEPT !.state = "zombie", !.status =
                CASE proc[p].role = "shell" -> "kill" [] proc[p].role = "login" -> "signal"
                  [] proc[p].role = "rc" -> "nonzero" [] OTHER -> "zero"]

\* alarm(DEATH_WATCH) in each round; a bug would be to set it before the loop.
SetOnce    == alarm \/ round = 1
SetAgain   == TRUE
\* The number of death_sigs, and a bug.
OneMore    == 4
LastRound  == 3

\* SIGHUP, then SIGTERM, which a process may survive, then SIGKILL.  An alarm
\* left from before may go off between clang = 0 and the call of alarm.
Kill ==
  /\ pc = "kill"
  /\ \/ /\ Living = {} /\ pc' = "single_user" /\ errno' = "other"
        /\ UNCHANGED <<proc, clang, alarm>>
     \/ /\ Living # {} /\ pc' = "death_wait" /\ alarm' = SetAgain
        /\ clang' \in {FALSE, alarm}
        /\ IF round < LastRound THEN UNCHANGED proc
           ELSE \E hung \in SUBSET Living :
                  /\ hung = {} \/ "stuck" \in Env
                  /\ proc' = [p \in Pid |-> IF p \in Living \ hung THEN Killed(p)
                                           ELSE proc[p]]
        /\ UNCHANGED errno
  /\ UNCHANGED <<requested_transition, runcom_mode, waited, sessions, session_db,
                 round, signals, failures>>

WaitForDeath ==
  /\ pc = "death_wait" /\ pc' = "death_test"
  /\ \/ \E p \in Zombies : collect_child(p, After(p), sessions)
     \/ /\ Living \cup Zombies = {} /\ errno' = "ECHILD"
        /\ UNCHANGED <<requested_transition, sessions, session_db, proc, failures>>
  /\ UNCHANGED <<runcom_mode, waited, dying, signals>>

\* How init can tell that all have died, and a bug.
NoLogins == Present = {}
NoneLeft == errno # "other"

\* Those that live when death returns.
Outlive == [p \in Pid |-> IF p \in Living THEN [proc[p] EXCEPT !.outlived = TRUE]
                          ELSE proc[p]]

DeathTest ==
  /\ pc = "death_test"
  /\ \/ ~clang /\ ~NoneLeft /\ pc' = "death_wait" /\ UNCHANGED round
     \/ NoneLeft /\ pc' = "single_user" /\ UNCHANGED round
     \/ /\ clang /\ ~NoneLeft
        /\ IF round < LastRound THEN pc' = "kill" /\ round' = round + 1
           ELSE pc' = "single_user" /\ UNCHANGED round
  /\ proc' = IF pc' = "single_user" THEN Outlive ELSE proc
  /\ UNCHANGED <<requested_transition, runcom_mode, waited, sessions, session_db,
                 clang, alarm, errno, signals, failures>>

(* What init does not control. *)

\* A child ends, is stopped, or is inherited from one that has ended.
Exit(p) ==
  /\ proc[p].state = "live"
  /\ \E status \in StatusOf(proc[p].role) :
       proc' = [proc EXCEPT ![p].state = "zombie", ![p].status = status]

Stop(p) ==
  /\ "stop" \in Env /\ proc[p].state = "live"
  /\ proc' = [proc EXCEPT ![p].state = "stopped"]

Inherit ==
  /\ Living # {}
  /\ Cardinality({p \in Pid : proc[p].role = "orphan"}) < MaxOrphans
  /\ \E f \in Forked(proc, Child("orphan")) : proc' = f.table

Processes ==
  /\ Inherit \/ \E p \in Pid : Exit(p) \/ Stop(p)
  /\ UNCHANGED <<pc, requested_transition, runcom_mode, waited, sessions, session_db,
                 dying, errno, signals, failures>>

\* A handler runs: a waitpid in progress fails with EINTR, one about to begin
\* does not.
Interrupt ==
  IF pc \notin Waiting THEN UNCHANGED <<pc, errno>>
  ELSE \/ /\ errno' = "other"
          /\ pc' = CASE pc = "su_wait"    -> "su_test"
                     [] pc = "mu_wait"    -> "mu_test"
                     [] pc = "death_wait" -> "death_test"
                     [] OTHER             -> pc
       \/ UNCHANGED <<pc, errno>>

\* A bug: SIGTERM takes init straight to single user.
Shortcut(sig)      == CASE sig = "HUP"  -> "clean_ttys"
                        [] sig = "TERM" -> "single_user"
                        [] sig = "TSTP" -> "catatonia"
TransitionFor(sig) == CASE sig = "HUP"  -> "clean_ttys"
                        [] sig = "TERM" -> "death"
                        [] sig = "TSTP" -> "catatonia"

transition_handler(sig) ==
  /\ signals < MaxSignals /\ signals' = signals + 1
  /\ pc \notin {"halted", "exited"}
  /\ requested_transition' = TransitionFor(sig)
  /\ Interrupt
  /\ UNCHANGED <<runcom_mode, waited, sessions, session_db, proc, dying, failures>>

alrm_handler ==
  /\ alarm /\ alarm' = FALSE /\ clang' = TRUE
  /\ Interrupt
  /\ UNCHANGED <<requested_transition, runcom_mode, waited, sessions, session_db, proc,
                 round, signals, failures>>

Steps == \/ runcom \/ WaitForScript \/ ScriptEnded
         \/ single_user \/ WaitForShell \/ ShellTest
         \/ read_ttys \/ multi_user \/ StartLogins \/ MultiUserTest \/ WaitForLogin
         \/ clean_ttys \/ catatonia
         \/ death \/ Kill \/ WaitForDeath \/ DeathTest

Next == Steps \/ Processes \/ alrm_handler
        \/ \E sig \in Signals : transition_handler(sig)

Spec == Init /\ [][Next]_vars

\* init is runnable and alarms go off.  Nothing is assumed of its children.
FairSpec == Spec /\ WF_vars(Steps) /\ WF_vars(alrm_handler)

------------------------------------------------------------------------------
(* Properties. *)

Place == Waiting \cup MultiUser \cup
         {"boot", "boot_test", "runcom", "rc_test", "single_user", "su_test", "read_ttys",
          "clean_ttys", "death", "kill", "death_test", "halted", "exited"}
Process == [state : {"free", "live", "stopped", "zombie"},
            role : {"none", "rc", "shell", "login", "orphan"},
            line : Line \cup {NoLine}, command : {"none", "getty", "onerror", "onoption"},
            status : {"none", "zero", "nonzero", "console", "signal", "kill", "term"},
            outlived : BOOLEAN]

\* The variables have their types.
TypeOK ==
  /\ pc \in Place
  /\ requested_transition \in {"none", "runcom", "single_user", "clean_ttys", "death",
                              "catatonia"}
  /\ runcom_mode \in {"AUTOBOOT", "FASTBOOT"}
  /\ child \in Pid \cup {NoPid}
  /\ got \in {"nothing"} \cup UNION {StatusOf(r) : r \in {"rc", "shell", "orphan"}}
  /\ sessions \in [Line -> Session \cup {NoSession}]
  /\ session_db \in [Pid -> Line \cup {NoLine}]
  /\ proc \in [Pid -> Process]
  /\ clang \in BOOLEAN /\ alarm \in BOOLEAN /\ round \in 1 .. 3
  /\ errno \in {"other", "ECHILD", "old"}
  /\ signals \in 0 .. MaxSignals /\ failures \in 0 .. MaxFailures

LoginsOn(l) ==
  {p \in Living : proc[p].role = "login" /\ proc[p].line = l /\ ~proc[p].outlived}

\* No line has two logins, and a session knows its own: through logins that
\* end, hangups, deaths of the system and process numbers used again.  A login
\* that lived when death returned is not counted: read_ttys forgets it, and
\* its line gets another beside it.  Holds if fork works and no child is stopped.
OneLoginPerLine ==
  \A l \in Line : /\ Cardinality(LoginsOn(l)) <= 1
                  /\ \A p \in LoginsOn(l) : l \in Present /\ sessions[l].process = p

\* The data base finds exactly the process of each session, which has not been
\* waited for yet: a number can be used again only when its entry is gone.
\* Holds if no child is stopped and no shell or script fails to be forked.
DataBaseAgrees ==
  \A l \in Line, p \in Pid :
    /\ session_db[p] = l <=> l \in Present /\ sessions[l].process = p
    /\ session_db[p] = l => proc[p].role = "login" /\ proc[p].line = l

\* se_onerror and se_onoption of init.c: what runs next on a line fits the way
\* the last login ended, and the plain getty shows only where no other command
\* is given.  Holds if fork does not fail.
FitsExit ==
  [][\A l \in Line, p \in Zombies :
       /\ pc = "mu_wait" /\ session_db[p] = l /\ proc'[p] # proc[p]
       /\ l \in Present' /\ sessions'[l].process # NoPid
       => \A q \in LoginsOn(l)' :
            /\ proc[p].status = "console" /\ l \in OnOption => proc'[q].command = "onoption"
            /\ proc[p].status # "console" /\ l \in OnError => proc'[q].command = "onerror"]_vars

\* init.8 on SIGTSTP and on lines turned off: a session that is to be shut down
\* gets no new login.  Holds if fork does not fail.
NoLoginAfterShutdown ==
  [][\A l \in Present : sessions[l].shutdown => LoginsOn(l)' \subseteq LoginsOn(l)]_vars

\* death returns when nothing is left, or after the third round's time is up,
\* or, which death does not intend, because errno held the ECHILD of a waitpid
\* from before the shutdown and was taken for the answer of its own.
DeathReturns == pc \in {"kill", "death_test"} /\ pc' = "single_user"
DeathIsThorough ==
  [][DeathReturns => \/ Living = {}
                     \/ round = 3 /\ clang
                     \/ errno = "old"]_vars

\* init.8:216 on SIGTERM: processes that do not die keep init until it times out
\* after 30 seconds; NOTES:110 on death: reap for 30 seconds, then go to 1.  It
\* does not hold: an old ECHILD is the exception, as DeathIsThorough says.
TimesOut == [][DeathReturns => Living = {} \/ clang]_vars

\* NOTES: init follows the diagram of its states, and what it reads or cleans
\* it comes to the end of.
ModeOf(place) ==
  CASE place \in {"single_user", "su_wait", "su_test", "exited"} -> "single user"
    [] place \in {"boot", "boot_wait", "boot_test", "runcom", "rc_wait", "rc_test",
                  "halted"} -> "rc"
    [] place = "read_ttys" -> "read ttys"
    [] place \in MultiUser -> "multi-user"
    [] place = "clean_ttys" -> "clean up"
    [] OTHER -> "death"
Diagram == INSTANCE InitDiagram WITH mode <- ModeOf(pc)
KeepsDiagram == Diagram!Spec

\* init.8: in multi-user operation init maintains a process for each line: after
\* any failure of fork every session has one, unless the system goes down or has
\* no place for another process.
LinesServed ==
  pc = "multi_user" ~> \/ pc = "mu_wait" /\ \A l \in Present : sessions[l].process # NoPid
                       \/ pc = "death" \/ Unused(proc) = {}

\* init.8 on SIGTERM: init will not wait for processes that do not die but time
\* out; NOTES: then go to single user.  Unless the alarm goes off just before
\* waitpid and all the children that are left will not die.
DeathEnds == pc = "death" ~> \/ pc = "single_user"
                             \/ pc = "death_wait" /\ clang /\ ~alarm
==============================================================================
