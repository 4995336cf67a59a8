----------------------------- MODULE InitProofs ------------------------------
(* What init keeps when fork works and its children are not stopped: for any  *)
(* number of lines, of process numbers and of signals, whatever errno holds   *)
(* when a shutdown begins and whether SIGKILL ends all or not.                *)
EXTENDS InitMachine, FiniteSetTheorems, TLAPS

WellBehaved == MaxFailures = 0 /\ Env \subseteq {"stuck"}

------------------------------------------------------------------------------
(* Sessions, data base and processes *)

Ended == {"zero", "nonzero", "term", "signal", "kill"}

(* Each session has its process in the data base, the processes found there   *)
(* are its logins, no other login lives that has not outlived a shutdown, and *)
(* none is stopped.                                                           *)
Core(ss, db, pr) ==
  /\ ss \in [Line -> Session \cup {NoSession}]
  /\ db \in [Pid -> Line \cup {NoLine}]
  /\ pr \in [Pid -> Process]
  /\ \A l \in Line, p \in Pid :
       /\ db[p] = l <=> ss[l] # NoSession /\ ss[l].process = p
       /\ db[p] = l => pr[p].role = "login" /\ pr[p].line = l
  /\ \A p \in Pid :
       /\ pr[p].state # "stopped"
       /\ pr[p].state = "free" => pr[p].role = "none"
       /\ pr[p].state = "live" /\ pr[p].role = "login" /\ ~pr[p].outlived =>
            pr[p].line \in Line /\ db[p] = pr[p].line
       /\ pr[p].state = "zombie" /\ pr[p].role \in {"rc", "shell"} => pr[p].status \in Ended

(* No login lives that has not outlived a shutdown.                           *)
NoLiveLogin(pr) ==
  \A p \in Pid : pr[p].state = "live" /\ pr[p].role = "login" => pr[p].outlived

(* The records of processes that are created.                                 *)
LEMMA NewProcess ==
  /\ Free \in Process /\ Free.state = "free" /\ Free.role = "none"
  /\ \A r \in {"rc", "shell", "orphan"} :
       Child(r) \in Process /\ Child(r).state = "live" /\ Child(r).role = r
  /\ \A l \in Line, c \in {"getty", "onerror", "onoption"} :
       /\ Login(l, c) \in Process /\ Login(l, c).state = "live"
       /\ Login(l, c).role = "login" /\ Login(l, c).line = l /\ Login(l, c).command = c
  BY DEF Free, Child, Login, Process

(* A session without a process gets one.                                      *)
LEMMA CoreStart ==
  ASSUME NEW ss, NEW db, NEW pr, Core(ss, db, pr),
         NEW l \in Line, NEW q \in Pid, NEW c \in {"getty", "onerror", "onoption"},
         NEW flags \in SUBSET {"ONERROR", "ONOPTION"},
         ss[l] # NoSession, ss[l].process = NoPid, pr[q].state = "free"
  PROVE  Core([ss EXCEPT ![l].process = q, ![l].launch = flags],
              [db EXCEPT ![q] = l], [pr EXCEPT ![q] = Login(l, c)])
<1> DEFINE s2 == [ss EXCEPT ![l].process = q, ![l].launch = flags]
           d2 == [db EXCEPT ![q] = l]
           p2 == [pr EXCEPT ![q] = Login(l, c)]
<1>0. /\ ss \in [Line -> Session \cup {NoSession}]
      /\ db \in [Pid -> Line \cup {NoLine}] /\ pr \in [Pid -> Process]
      /\ NoPid \notin Pid /\ NoLine \notin Line /\ NoSession \notin Session
  BY ConfigAssumption DEF Core
<1>1. ss[l] \in Session  BY <1>0
<1>2. s2 = [ss EXCEPT ![l] = [ss[l] EXCEPT !.process = q, !.launch = flags]]
  BY <1>0
<1>3. /\ [ss[l] EXCEPT !.process = q, !.launch = flags] \in Session
      /\ [ss[l] EXCEPT !.process = q, !.launch = flags].process = q
  BY <1>1 DEF Session
<1>4. s2 \in [Line -> Session \cup {NoSession}]  BY <1>0, <1>2, <1>3
<1>5. /\ s2[l] # NoSession /\ s2[l].process = q
      /\ \A k \in Line \ {l} : s2[k] = ss[k]
  BY <1>0, <1>2, <1>3
<1>6. /\ d2 \in [Pid -> Line \cup {NoLine}] /\ d2[q] = l
      /\ \A p \in Pid \ {q} : d2[p] = db[p]
  BY <1>0
<1>7. /\ Login(l, c) \in Process /\ Login(l, c).state = "live"
      /\ Login(l, c).role = "login" /\ Login(l, c).line = l
  BY NewProcess
<1>8. /\ p2 \in [Pid -> Process] /\ p2[q] = Login(l, c)
      /\ \A p \in Pid \ {q} : p2[p] = pr[p]
  BY <1>0, <1>7
<1>9. db[q] \notin Line  BY DEF Core
<1>10. \A p \in Pid : db[p] # l  BY <1>0 DEF Core
<1>11. \A k \in Line \ {l} : ss[k] # NoSession => ss[k].process # q
  BY <1>9 DEF Core
<1> HIDE DEF s2, d2, p2
<1>12. \A k \in Line, p \in Pid :
         /\ d2[p] = k <=> s2[k] # NoSession /\ s2[k].process = p
         /\ d2[p] = k => p2[p].role = "login" /\ p2[p].line = k
  <2> TAKE k \in Line, p \in Pid
  <2>1. CASE p = q  BY <2>1, <1>5, <1>6, <1>7, <1>8, <1>11
  <2>2. CASE p # q /\ k = l  BY <2>2, <1>5, <1>6, <1>10
  <2>3. CASE p # q /\ k # l  BY <2>3, <1>5, <1>6, <1>8 DEF Core
  <2> QED  BY <2>1, <2>2, <2>3
<1>13. \A p \in Pid :
         /\ p2[p].state # "stopped"
         /\ p2[p].state = "free" => p2[p].role = "none"
         /\ p2[p].state = "live" /\ p2[p].role = "login" /\ ~p2[p].outlived =>
              p2[p].line \in Line /\ d2[p] = p2[p].line
         /\ p2[p].state = "zombie" /\ p2[p].role \in {"rc", "shell"} => p2[p].status \in Ended
  <2> TAKE p \in Pid
  <2>1. CASE p = q  BY <2>1, <1>6, <1>7, <1>8
  <2>2. CASE p # q  BY <2>2, <1>6, <1>8 DEF Core
  <2> QED  BY <2>1, <2>2
<1>14. Core(s2, d2, p2)  BY <1>4, <1>6, <1>8, <1>12, <1>13 DEF Core
<1> QED  BY <1>14 DEF s2, d2, p2

(* A child that is waited for and has no session.                             *)
LEMMA CoreForget ==
  ASSUME NEW ss, NEW db, NEW pr, Core(ss, db, pr), NEW p \in Pid, db[p] \notin Line
  PROVE  Core(ss, db, [pr EXCEPT ![p] = Free])
  BY NewProcess DEF Core

(* A login that is waited for: its session ends or has no process for now.    *)
LEMMA CoreReap ==
  ASSUME NEW ss, NEW db, NEW pr, Core(ss, db, pr), NEW p \in Pid, db[p] \in Line,
         NEW s2 \in [Line -> Session \cup {NoSession}],
         \A k \in Line \ {db[p]} : s2[k] = ss[k],
         s2[db[p]] # NoSession => s2[db[p]].process = NoPid
  PROVE  Core(s2, [db EXCEPT ![p] = NoLine], [pr EXCEPT ![p] = Free])
<1> DEFINE d2 == [db EXCEPT ![p] = NoLine]
           p2 == [pr EXCEPT ![p] = Free]
<1>0. /\ db \in [Pid -> Line \cup {NoLine}] /\ pr \in [Pid -> Process]
      /\ NoPid \notin Pid /\ NoLine \notin Line
  BY ConfigAssumption DEF Core
<1>1. /\ d2 \in [Pid -> Line \cup {NoLine}] /\ d2[p] = NoLine
      /\ \A r \in Pid \ {p} : d2[r] = db[r]
  BY <1>0
<1>2. /\ p2 \in [Pid -> Process] /\ p2[p] = Free
      /\ \A r \in Pid \ {p} : p2[r] = pr[r]
  BY <1>0, NewProcess
<1>3. ss[db[p]].process = p  BY DEF Core
<1> HIDE DEF d2, p2
<1>4. \A k \in Line, r \in Pid :
        /\ d2[r] = k <=> s2[k] # NoSession /\ s2[k].process = r
        /\ d2[r] = k => p2[r].role = "login" /\ p2[r].line = k
  <2> TAKE k \in Line, r \in Pid
  <2>1. CASE r = p
    BY <2>1, <1>0, <1>1, <1>3 DEF Core
  <2>2. CASE r # p /\ k = db[p]
    BY <2>2, <1>0, <1>1, <1>3 DEF Core
  <2>3. CASE r # p /\ k # db[p]
    BY <2>3, <1>1, <1>2 DEF Core
  <2> QED  BY <2>1, <2>2, <2>3
<1>5. \A r \in Pid :
        /\ p2[r].state # "stopped"
        /\ p2[r].state = "free" => p2[r].role = "none"
        /\ p2[r].state = "live" /\ p2[r].role = "login" /\ ~p2[r].outlived =>
             p2[r].line \in Line /\ d2[r] = p2[r].line
        /\ p2[r].state = "zombie" /\ p2[r].role \in {"rc", "shell"} => p2[r].status \in Ended
  BY <1>1, <1>2, NewProcess DEF Core
<1> QED  BY <1>1, <1>2, <1>4, <1>5 DEF Core, d2, p2

(* Sessions whose processes stay as they are.                                 *)
LEMMA CoreSessions ==
  ASSUME NEW ss, NEW db, NEW pr, Core(ss, db, pr),
         NEW s2 \in [Line -> Session \cup {NoSession}],
         \A l \in Line : ss[l] # NoSession =>
           s2[l] # NoSession /\ s2[l].process = ss[l].process,
         \A l \in Line : ss[l] = NoSession /\ s2[l] # NoSession => s2[l].process = NoPid
  PROVE  Core(s2, db, pr)
<1>1. NoPid \notin Pid  BY ConfigAssumption
<1> QED  BY <1>1 DEF Core

(* A process that is not a login takes a free number.                         *)
LEMMA CoreFork ==
  ASSUME NEW ss, NEW db, NEW pr, Core(ss, db, pr), NEW q \in Pid,
         NEW r \in {"rc", "shell", "orphan"}, pr[q].state = "free"
  PROVE  Core(ss, db, [pr EXCEPT ![q] = Child(r)])
<1>1. /\ Child(r) \in Process /\ Child(r).state = "live" /\ Child(r).role = r
  BY NewProcess
<1>2. db[q] \notin Line  BY DEF Core
<1> QED  BY <1>1, <1>2 DEF Core

(* Those that live when death returns have outlived a shutdown.               *)
LEMMA CoreOutlive ==
  Core(sessions, session_db, proc) =>
    /\ Core(sessions, session_db, Outlive) /\ NoLiveLogin(Outlive)
    /\ \A p \in Pid : /\ Outlive[p].role = proc[p].role
                      /\ Outlive[p].state = "live" => Outlive[p].outlived
<1> SUFFICES ASSUME Core(sessions, session_db, proc)
             PROVE  /\ Core(sessions, session_db, Outlive) /\ NoLiveLogin(Outlive)
                    /\ \A p \in Pid : /\ Outlive[p].role = proc[p].role
                                      /\ Outlive[p].state = "live" => Outlive[p].outlived
  OBVIOUS
<1>1. proc \in [Pid -> Process]  BY DEF Core
<1>2. \A p \in Pid :
        /\ Outlive[p] \in Process /\ Outlive[p].state = proc[p].state
        /\ Outlive[p].role = proc[p].role /\ Outlive[p].line = proc[p].line
        /\ Outlive[p].status = proc[p].status
        /\ Outlive[p].state = "live" => Outlive[p].outlived
  <2> TAKE p \in Pid
  <2>1. proc[p] \in Process  BY <1>1
  <2>2. CASE p \in Living
    <3>1. Outlive[p] = [proc[p] EXCEPT !.outlived = TRUE]  BY <2>2 DEF Outlive
    <3>2. proc[p].state \in {"live", "stopped"}  BY <2>2 DEF Living
    <3> QED  BY <2>1, <3>1, <3>2 DEF Process
  <2>3. CASE p \notin Living
    BY <2>1, <2>3 DEF Outlive, Living
  <2> QED  BY <2>2, <2>3
<1>3. Outlive \in [Pid -> Process]
  <2>1. Outlive = [p \in Pid |-> Outlive[p]]  BY DEF Outlive
  <2> QED  BY <1>2, <2>1
<1>4. NoLiveLogin(Outlive)  BY <1>2 DEF NoLiveLogin
<1>5. Core(sessions, session_db, Outlive)  BY <1>2, <1>3 DEF Core
<1> QED  BY <1>2, <1>4, <1>5

(* Processes that end keep what they were.                                    *)
LEMMA CoreEnd ==
  ASSUME NEW ss, NEW db, NEW pr, Core(ss, db, pr),
         NEW p2 \in [Pid -> Process],
         \A p \in Pid : \/ p2[p] = pr[p]
                        \/ /\ p2[p].state = "zombie" /\ pr[p].state = "live"
                           /\ p2[p].role = pr[p].role /\ p2[p].line = pr[p].line
                           /\ pr[p].role \in {"rc", "shell"} => p2[p].status \in Ended
  PROVE  Core(ss, db, p2)
  BY DEF Core

------------------------------------------------------------------------------
(* The invariant *)

Down    == {"boot", "boot_wait", "boot_test", "runcom", "rc_wait", "rc_test", "single_user",
            "su_wait", "su_test", "read_ttys", "halted", "exited"}
Dying   == {"kill", "death_wait", "death_test"}
Starting == {"multi_user", "mu_start"}

AllDown(ss)     == \A l \in Line : ss[l] # NoSession => ss[l].shutdown
AllServed(ss)   == \A l \in Line : ss[l] # NoSession => ss[l].process # NoPid
LeavingServed(ss) == \A l \in Line : ss[l] # NoSession /\ ss[l].shutdown => ss[l].process # NoPid
NoneLives(pr)   == \A p \in Pid : pr[p].state # "live"

(* Before the system is up and while it is taken down every session is to end; *)
(* before it is up no login lives but those that have outlived a shutdown; and  *)
(* an ECHILD of this shutdown is true.                                          *)
Quiet ==
  /\ pc \in Down \cup Dying => AllDown(sessions)
  /\ pc \in Down => NoLiveLogin(proc)
  /\ pc \in Dying /\ errno = "ECHILD" => NoneLives(proc)

(* Sessions without a process are only where they are about to get one, and    *)
(* none of them is to end.                                                      *)
Served ==
  /\ pc \notin Starting => AllServed(sessions)
  /\ LeavingServed(sessions)

(* Where multi-user operation may go, and that main knows where to begin.      *)
Requests ==
  /\ requested_transition \in {"none", "runcom", "single_user", "clean_ttys", "death",
                              "catatonia"}
  /\ pc \in {"mu_start", "mu_test", "mu_wait"} =>
       requested_transition \notin {"runcom", "single_user"}
  /\ Booting => requested_transition # "none"

Awaiting == pc \in {"boot_wait", "rc_wait", "su_wait"} \/ (pc = "su_test" /\ got = "nothing")

(* The child that is waited for is one of init's own.                          *)
Awaited ==
  /\ child \in Pid \cup {NoPid}
  /\ got \in {"nothing"} \cup Ended
  /\ Awaiting => child \in Pid /\ proc[child].role \in {"rc", "shell"}

Scalars ==
  /\ pc \in Place
  /\ runcom_mode \in {"AUTOBOOT", "FASTBOOT"}
  /\ clang \in BOOLEAN /\ alarm \in BOOLEAN /\ round \in 1 .. 3
  /\ errno \in {"other", "ECHILD", "old"}
  /\ signals \in 0 .. MaxSignals /\ failures \in 0 .. MaxFailures

Inv == Core(sessions, session_db, proc) /\ Quiet /\ Served /\ Requests /\ Awaited /\ Scalars

------------------------------------------------------------------------------
(* Children that are started and collected *)

(* No process fails to be forked.                                             *)
LEMMA ForkWorks == ASSUME WellBehaved, Scalars, NEW table PROVE ~ForkFails(table)
<1>1. "full" \notin Env /\ MaxFailures = 0 /\ failures = 0
  BY DEF WellBehaved, Scalars
<1> QED  BY <1>1 DEF ForkFails

(* What start_getty does for a session without a process.                     *)
LEMMA Started ==
  ASSUME WellBehaved, Scalars, NEW STATE ss, NEW STATE db, NEW STATE pr,
         Core(ss, db, pr), NEW l \in Line, NEW flags \in SUBSET {"ONERROR", "ONOPTION"},
         ss[l] # NoSession, ss[l].process = NoPid,
         start_getty(l, flags, pr, db, ss)
  PROVE  /\ Core(sessions', session_db', proc')
         /\ UNCHANGED <<requested_transition, failures, errno>>
         /\ sessions'[l] # NoSession /\ sessions'[l].process \in Pid
         /\ sessions'[l].shutdown = ss[l].shutdown /\ sessions'[l].launch = flags
         /\ \A k \in Line \ {l} : sessions'[k] = ss[k]
         /\ \E q \in Pid : /\ pr[q].state = "free" /\ proc'[q].state = "live"
                           /\ proc'[q].role = "login" /\ proc'[q].line = l
                           /\ proc'[q].command = CommandFor(ss[l].launch, l)
                           /\ \A p \in Pid \ {q} : proc'[p] = pr[p]
<1>1. ~ForkFails(pr)  BY ForkWorks
<1>2. PICK f \in Forked(pr, Login(l, CommandFor(ss[l].launch, l))) :
        /\ proc' = f.table
        /\ sessions' = [ss EXCEPT ![l].process = f.pid, ![l].launch = flags]
        /\ session_db' = [db EXCEPT ![f.pid] = l]
        /\ UNCHANGED <<requested_transition, failures, errno>>
  BY <1>1 DEF start_getty
<1>3. PICK q \in Pid : /\ pr[q].state = "free"
                       /\ f = [pid |-> q, table |->
                                [pr EXCEPT ![q] = Login(l, CommandFor(ss[l].launch, l))]]
  BY DEF Forked, Unused
<1> DEFINE c == CommandFor(ss[l].launch, l)
<1>4. c \in {"getty", "onerror", "onoption"}  BY DEF CommandFor
<1> HIDE DEF c
<1>5. /\ proc' = [pr EXCEPT ![q] = Login(l, c)]
      /\ sessions' = [ss EXCEPT ![l].process = q, ![l].launch = flags]
      /\ session_db' = [db EXCEPT ![q] = l]
  BY <1>2, <1>3 DEF c
<1>a. Core([ss EXCEPT ![l].process = q, ![l].launch = flags],
           [db EXCEPT ![q] = l], [pr EXCEPT ![q] = Login(l, c)])
  BY <1>3, <1>4, CoreStart
<1>6. Core(sessions', session_db', proc')
  BY <1>5, <1>a
<1>7. /\ ss \in [Line -> Session \cup {NoSession}] /\ pr \in [Pid -> Process]
      /\ NoSession \notin Session
  BY ConfigAssumption DEF Core
<1>8. ss[l] \in Session  BY <1>7
<1>9. /\ sessions'[l].process = q /\ sessions'[l].shutdown = ss[l].shutdown
      /\ sessions'[l] \in Session /\ sessions'[l].launch = flags
      /\ \A k \in Line \ {l} : sessions'[k] = ss[k]
  BY <1>5, <1>7, <1>8 DEF Session
<1>10. /\ proc'[q] = Login(l, c) /\ \A p \in Pid \ {q} : proc'[p] = pr[p]
  BY <1>5, <1>7
<1>11. /\ proc'[q].state = "live" /\ proc'[q].role = "login" /\ proc'[q].line = l
       /\ proc'[q].command = c
  BY <1>4, <1>10, NewProcess
<1> QED  BY <1>2, <1>3, <1>6, <1>7, <1>9, <1>10, <1>11 DEF c

(* A child that init waits for has ended.                                     *)
LEMMA OnlyZombies ==
  ASSUME Core(sessions, session_db, proc)
  PROVE  /\ Stopped = {}
         /\ Living = {p \in Pid : proc[p].state = "live"}
         /\ \A p \in Zombies : p \in Pid /\ After(p) = [proc EXCEPT ![p] = Free]
  BY DEF Core, Stopped, Living, Zombies, After

(* What collect_child does; known is what its caller has made of the session. *)
LEMMA Collected ==
  ASSUME WellBehaved, Scalars, Core(sessions, session_db, proc),
         NEW p \in Zombies, NEW known \in [Line -> Session \cup {NoSession}],
         \A k \in Line \ {session_db[p]} : known[k] = sessions[k],
         session_db[p] \in Line =>
           /\ known[session_db[p]] # NoSession
           /\ known[session_db[p]].shutdown = sessions[session_db[p]].shutdown
           /\ known[session_db[p]].process = sessions[session_db[p]].process,
         collect_child(p, After(p), known)
  PROVE  /\ Core(sessions', session_db', proc')
         /\ UNCHANGED <<requested_transition, failures, errno>>
         /\ \A k \in Line : sessions'[k] # NoSession =>
              /\ sessions[k] # NoSession
              /\ sessions'[k].shutdown = sessions[k].shutdown
              /\ sessions'[k].process # sessions[k].process => sessions'[k].process \in Pid
              /\ sessions'[k].launch = IF k = session_db[p] THEN {} ELSE sessions[k].launch
         /\ \A r \in Pid :
              \/ proc'[r] = proc[r]
              \/ r = p /\ proc'[r] = Free
              \/ /\ proc'[r].state = "live" /\ proc'[r].role = "login"
                 /\ proc'[r].line = session_db[p] /\ session_db[p] \in Line
                 /\ sessions[session_db[p]] # NoSession
                 /\ ~sessions[session_db[p]].shutdown
                 /\ r = p \/ proc[r].state = "free"
                 /\ proc'[r].command =
                      CommandFor(known[session_db[p]].launch, session_db[p])
<1> DEFINE l == session_db[p]
<1>1. /\ p \in Pid /\ After(p) = [proc EXCEPT ![p] = Free]
      /\ proc \in [Pid -> Process]
      /\ NoPid \notin Pid /\ NoLine \notin Line /\ NoSession \notin Session
      /\ session_db \in [Pid -> Line \cup {NoLine}]
      /\ sessions \in [Line -> Session \cup {NoSession}]
  BY OnlyZombies, ConfigAssumption DEF Core
<1>2. l \in Line \cup {NoLine}  BY <1>1
<1>3. l \in Line => sessions[l] # NoSession /\ sessions[l].process = p /\ l \in Present
  BY <1>1 DEF Core, Present
<1>4. \A r \in Pid : After(p)[r] = IF r = p THEN Free ELSE proc[r]
  BY <1>1
<1>a. CASE Present = {} \/ l = NoLine
  <2>1. l \notin Line  BY <1>a, <1>1, <1>3
  <2>2. known = sessions  BY <2>1, <1>1
  <2>3. /\ proc' = After(p) /\ sessions' = sessions
        /\ UNCHANGED <<session_db, requested_transition, failures, errno>>
    BY <1>a, <2>2 DEF collect_child
  <2>4. Core(sessions, session_db, [proc EXCEPT ![p] = Free])
    BY <1>1, <2>1, CoreForget
  <2>5. Core(sessions', session_db', proc')  BY <2>3, <2>4, <1>1
  <2> QED  BY <2>1, <2>2, <2>3, <2>5, <1>4
<1>b. CASE Present # {} /\ l # NoLine /\ Ends(known[l])
  <2>1. l \in Line  BY <1>b, <1>2
  <2>2. /\ proc' = After(p) /\ session_db' = [session_db EXCEPT ![p] = NoLine]
        /\ sessions' = [known EXCEPT ![l] = NoSession]
        /\ UNCHANGED <<requested_transition, failures, errno>>
    BY <1>b DEF collect_child, Forgotten
  <2>3. /\ sessions' \in [Line -> Session \cup {NoSession}]
        /\ sessions'[l] = NoSession
        /\ \A k \in Line \ {l} : sessions'[k] = sessions[k]
    BY <2>1, <2>2
  <2>4. Core(sessions', [session_db EXCEPT ![p] = NoLine], [proc EXCEPT ![p] = Free])
    BY <1>1, <2>1, <2>3, CoreReap
  <2>5. Core(sessions', session_db', proc')  BY <2>2, <2>4, <1>1
  <2> QED  BY <2>1, <2>2, <2>3, <2>5, <1>4
<1>c. CASE Present # {} /\ l # NoLine /\ ~Ends(known[l])
  <2> DEFINE on == [known EXCEPT ![l].process = NoPid]
             db == [session_db EXCEPT ![p] = NoLine]
             flags == ClearedFlags(known[l].launch)
  <2>1. l \in Line  BY <1>c, <1>2
  <2>2. start_getty(l, flags, After(p), db, on)
    BY <1>c DEF collect_child, Forgotten
  <2>3. known[l] \in Session /\ ~sessions[l].shutdown
    BY <2>1, <1>c DEF Ends
  <2>4. /\ on \in [Line -> Session \cup {NoSession}]
        /\ on[l] # NoSession /\ on[l].process = NoPid
        /\ on[l].shutdown = known[l].shutdown
        /\ \A k \in Line \ {l} : on[k] = sessions[k]
    BY <2>1, <2>3, <1>1 DEF Session
  <2>13. on[l].launch = known[l].launch  BY <2>1, <2>3, <1>1 DEF Session
  <2>5. flags \in SUBSET {"ONERROR", "ONOPTION"}  BY DEF ClearedFlags
  <2>12. flags = {}  BY DEF ClearedFlags
  <2> HIDE DEF on, db, flags
  <2>6. Core(on, [session_db EXCEPT ![p] = NoLine], [proc EXCEPT ![p] = Free])
    BY <1>1, <2>1, <2>4, CoreReap
  <2>7. Core(on, db, After(p))  BY <2>6, <1>1 DEF db
  <2>8. /\ Core(sessions', session_db', proc')
        /\ UNCHANGED <<requested_transition, failures, errno>>
        /\ sessions'[l] # NoSession /\ sessions'[l].process \in Pid
        /\ sessions'[l].shutdown = on[l].shutdown /\ sessions'[l].launch = flags
        /\ \A k \in Line \ {l} : sessions'[k] = on[k]
        /\ \E q \in Pid : /\ After(p)[q].state = "free" /\ proc'[q].state = "live"
                          /\ proc'[q].role = "login" /\ proc'[q].line = l
                          /\ proc'[q].command = CommandFor(on[l].launch, l)
                          /\ \A r \in Pid \ {q} : proc'[r] = After(p)[r]
    BY <2>1, <2>2, <2>4, <2>5, <2>7, Started
  <2>9. PICK q \in Pid : /\ After(p)[q].state = "free" /\ proc'[q].state = "live"
                         /\ proc'[q].role = "login" /\ proc'[q].line = l
                         /\ proc'[q].command = CommandFor(known[l].launch, l)
                         /\ \A r \in Pid \ {q} : proc'[r] = After(p)[r]
    BY <2>8, <2>13
  <2>10. q = p \/ proc[q].state = "free"  BY <2>9, <1>4
  <2>11. \A r \in Pid :
           \/ proc'[r] = proc[r]
           \/ r = p /\ proc'[r] = Free
           \/ r = q
    BY <2>9, <1>4
  <2>14. \A k \in Line : sessions'[k] # NoSession =>
           /\ sessions[k] # NoSession
           /\ sessions'[k].shutdown = sessions[k].shutdown
           /\ sessions'[k].process # sessions[k].process => sessions'[k].process \in Pid
           /\ sessions'[k].launch = IF k = session_db[p] THEN {} ELSE sessions[k].launch
    BY <2>1, <2>4, <2>8, <2>12, <1>3
  <2>15. \A r \in Pid :
           \/ proc'[r] = proc[r]
           \/ r = p /\ proc'[r] = Free
           \/ /\ proc'[r].state = "live" /\ proc'[r].role = "login"
              /\ proc'[r].line = l /\ l \in Line
              /\ sessions[l] # NoSession /\ ~sessions[l].shutdown
              /\ r = p \/ proc[r].state = "free"
              /\ proc'[r].command = CommandFor(known[l].launch, l)
    BY <2>1, <2>3, <2>9, <2>10, <2>11, <1>3
  <2> QED  BY <2>8, <2>14, <2>15
<1> QED  BY <1>a, <1>b, <1>c

------------------------------------------------------------------------------
(* The invariant holds at first *)

LEMMA InitInv == Init => Inv
<1> SUFFICES ASSUME Init PROVE Inv
  OBVIOUS
<1>1. /\ pc = "boot" /\ requested_transition \in {"runcom", "single_user"}
      /\ runcom_mode \in {"AUTOBOOT", "FASTBOOT"}
      /\ child = NoPid /\ got = "nothing"
      /\ sessions = [l \in Line |-> NoSession] /\ session_db = [p \in Pid |-> NoLine]
      /\ proc = [p \in Pid |-> Free]
      /\ clang = FALSE /\ alarm = FALSE /\ round = 1 /\ errno = "other"
      /\ signals = 0 /\ failures = 0
  BY DEF Init
<1>2. Core(sessions, session_db, proc)
  BY <1>1, NewProcess, ConfigAssumption DEF Core
<1>3. Quiet  BY <1>1, NewProcess DEF Quiet, Dying, AllDown, NoLiveLogin
<1>4. Served  BY <1>1 DEF Served, AllServed, LeavingServed
<1>5. Requests  BY <1>1 DEF Requests
<1>6. Awaited  BY <1>1 DEF Awaited, Awaiting
<1>7. MaxSignals \in Nat /\ MaxFailures \in Nat  BY ConfigAssumption
<1>8. Scalars
  <2>1. pc \in Place  BY <1>1 DEF Place
  <2>2. clang \in BOOLEAN /\ alarm \in BOOLEAN  BY <1>1, Zenon
  <2>3. round \in 1 .. 3 /\ signals \in 0 .. MaxSignals /\ failures \in 0 .. MaxFailures
    BY <1>1, <1>7
  <2> QED  BY <1>1, <2>1, <2>2, <2>3 DEF Scalars
<1> QED  BY <1>2, <1>3, <1>4, <1>5, <1>6, <1>8 DEF Inv

------------------------------------------------------------------------------
(* The boot script and the shell *)

(* The fork of a script or a shell: a free number gets a process that is not   *)
(* a login.                                                                    *)
LEMMA ForkedChild ==
  ASSUME Core(sessions, session_db, proc), NEW r \in {"rc", "shell", "orphan"},
         NEW f \in Forked(proc, Child(r)), proc' = f.table
  PROVE  /\ Core(sessions, session_db, proc')
         /\ NoLiveLogin(proc) => NoLiveLogin(proc')
         /\ f.pid \in Pid /\ proc[f.pid].state = "free"
         /\ proc'[f.pid].state = "live" /\ proc'[f.pid].role = r
         /\ \A p \in Pid \ {f.pid} : proc'[p] = proc[p]
<1>1. PICK q \in Pid : /\ proc[q].state = "free"
                       /\ f = [pid |-> q, table |-> [proc EXCEPT ![q] = Child(r)]]
  BY DEF Forked, Unused
<1>2. f.pid = q /\ proc' = [proc EXCEPT ![q] = Child(r)]  BY <1>1
<1>3. Core(sessions, session_db, [proc EXCEPT ![q] = Child(r)])  BY <1>1, CoreFork
<1>4. proc \in [Pid -> Process]  BY DEF Core
<1>5. Child(r).state = "live" /\ Child(r).role = r  BY NewProcess
<1>6. /\ proc'[q].state = "live" /\ proc'[q].role = r
      /\ \A p \in Pid \ {q} : proc'[p] = proc[p]
  BY <1>2, <1>4, <1>5
<1>7. NoLiveLogin(proc) => NoLiveLogin(proc')  BY <1>6 DEF NoLiveLogin
<1> QED  BY <1>1, <1>2, <1>3, <1>6, <1>7

(* While no session goes on, a child that is collected is only that: no login  *)
(* is started in its place.                                                    *)
LEMMA CollectedDown ==
  ASSUME WellBehaved, Inv, AllDown(sessions), NEW p \in Zombies,
         collect_child(p, After(p), sessions)
  PROVE  /\ Core(sessions', session_db', proc')
         /\ UNCHANGED <<requested_transition, failures, errno>>
         /\ AllDown(sessions')
         /\ Served /\ AllServed(sessions) => AllServed(sessions') /\ LeavingServed(sessions')
         /\ \A r \in Pid : proc'[r] = proc[r] \/ (r = p /\ proc'[r] = Free)
         /\ NoLiveLogin(proc) => NoLiveLogin(proc')
         /\ NoneLives(proc) => NoneLives(proc')
<1>1. /\ Core(sessions, session_db, proc) /\ Scalars
      /\ sessions \in [Line -> Session \cup {NoSession}]
      /\ p \in Pid /\ NoPid \notin Pid
  BY ConfigAssumption DEF Inv, Core, Zombies
<1>2. session_db[p] \in Line => sessions[session_db[p]] # NoSession
  BY <1>1 DEF Core
<1>3. /\ Core(sessions', session_db', proc')
      /\ UNCHANGED <<requested_transition, failures, errno>>
      /\ \A k \in Line : sessions'[k] # NoSession =>
           /\ sessions[k] # NoSession
           /\ sessions'[k].shutdown = sessions[k].shutdown
           /\ sessions'[k].process # sessions[k].process => sessions'[k].process \in Pid
      /\ \A r \in Pid :
           \/ proc'[r] = proc[r]
           \/ r = p /\ proc'[r] = Free
           \/ /\ session_db[p] \in Line
              /\ sessions[session_db[p]] # NoSession
              /\ ~sessions[session_db[p]].shutdown
  BY <1>1, <1>2, Collected
<1>4. \A r \in Pid : proc'[r] = proc[r] \/ (r = p /\ proc'[r] = Free)
  BY <1>3 DEF AllDown
<1>5. AllDown(sessions')  BY <1>3 DEF AllDown
<1>6. AllServed(sessions) => AllServed(sessions') /\ LeavingServed(sessions')
  BY <1>1, <1>3 DEF AllServed, LeavingServed
<1>7. NoLiveLogin(proc) => NoLiveLogin(proc')  BY <1>4, NewProcess DEF NoLiveLogin
<1>8. NoneLives(proc) => NoneLives(proc')  BY <1>4, NewProcess DEF NoneLives
<1> QED  BY <1>3, <1>4, <1>5, <1>6, <1>7, <1>8

LEMMA runcomInv == ASSUME WellBehaved, Inv, runcom PROVE Inv'
<1>1. ~ForkFails(proc)  BY ForkWorks DEF Inv
<1>2. PICK f \in Forked(proc, Child("rc")) : child' = f.pid /\ proc' = f.table
  BY <1>1 DEF runcom
<1>3. /\ pc \in {"boot", "runcom"} /\ pc' = IF Booting THEN "boot_wait" ELSE "rc_wait"
      /\ got' = "nothing" /\ UNCHANGED <<requested_transition, failures, errno>>
      /\ UNCHANGED <<runcom_mode, sessions, session_db, clang, alarm, round, signals>>
  BY <1>1 DEF runcom, dying
<1>4. /\ Core(sessions, session_db, proc')
      /\ NoLiveLogin(proc) => NoLiveLogin(proc')
      /\ f.pid \in Pid /\ proc'[f.pid].role = "rc"
  BY <1>2, ForkedChild DEF Inv
<1>5. Core(sessions, session_db, proc)'  BY <1>3, <1>4
<1>6. Quiet'  BY <1>3, <1>4 DEF Inv, Quiet, Down, Dying
<1>7. Served'  BY <1>3 DEF Inv, Served, Starting
<1>8. Requests'  BY <1>3 DEF Inv, Requests, Booting
<1>9. Awaited'  BY <1>2, <1>3, <1>4 DEF Inv, Awaited, Awaiting
<1>10. Scalars'  BY <1>3 DEF Inv, Scalars, Place, Waiting
<1> QED  BY <1>5, <1>6, <1>7, <1>8, <1>9, <1>10 DEF Inv

LEMMA WaitForScriptInv == ASSUME WellBehaved, Inv, WaitForScript PROVE Inv'
<1>1. PICK p \in Zombies : /\ collect_child(p, After(p), sessions)
                           /\ got' = Outcome(p)
                           /\ pc' = IF got' = "nothing" THEN pc
                                    ELSE IF Booting THEN "boot_test" ELSE "rc_test"
  BY OnlyZombies DEF Inv, WaitForScript
<1>2. /\ pc \in {"boot_wait", "rc_wait"}
      /\ UNCHANGED <<runcom_mode, child, clang, alarm, round, signals>>
  BY DEF WaitForScript, dying
<1>3. AllDown(sessions)  BY <1>2 DEF Inv, Quiet, Down
<1>4. /\ Core(sessions', session_db', proc')
      /\ UNCHANGED <<requested_transition, failures, errno>>
      /\ AllDown(sessions')
      /\ Served /\ AllServed(sessions) => AllServed(sessions') /\ LeavingServed(sessions')
      /\ \A r \in Pid : proc'[r] = proc[r] \/ (r = p /\ proc'[r] = Free)
      /\ NoLiveLogin(proc) => NoLiveLogin(proc')
  BY <1>1, <1>3, CollectedDown
<1>5. /\ child \in Pid /\ proc[child].role \in {"rc", "shell"}
      /\ p = child => got' \in Ended
      /\ p # child => got' = "nothing"
  BY <1>1, <1>2 DEF Inv, Awaited, Awaiting, Core, Zombies, Outcome
<1>6. Core(sessions, session_db, proc)'  BY <1>4
<1>7. Quiet'  BY <1>1, <1>2, <1>4 DEF Inv, Quiet, Down, Dying, Booting
<1>8. Served'  BY <1>1, <1>2, <1>4 DEF Inv, Served, Starting, Booting
<1>9. Requests'  BY <1>1, <1>2, <1>4 DEF Inv, Requests, Booting
<1>10. Awaited'
  BY <1>1, <1>2, <1>4, <1>5 DEF Inv, Awaited, Awaiting, Booting, Ended
<1>11. Scalars'  BY <1>1, <1>2, <1>4 DEF Inv, Scalars, Place, Waiting, Booting
<1> QED  BY <1>6, <1>7, <1>8, <1>9, <1>10, <1>11 DEF Inv

LEMMA ScriptEndedInv == ASSUME WellBehaved, Inv, ScriptEnded PROVE Inv'
<1>1. /\ pc \in {"boot_test", "rc_test"} /\ child' = NoPid /\ got' = "nothing"
      /\ UNCHANGED <<sessions, session_db, proc, clang, alarm, round, errno, signals, failures>>
      /\ runcom_mode' \in {"AUTOBOOT", runcom_mode}
  BY DEF ScriptEnded, dying
<1>2. \/ pc' \in {"halted", "read_ttys"} /\ requested_transition' = requested_transition
      \/ pc' = "single_user" /\ requested_transition' \in {requested_transition, "single_user"}
      \/ Booting /\ pc' = requested_transition /\ requested_transition' = requested_transition
  BY DEF ScriptEnded, RuncomReturns
<1>3. pc' \in {"halted", "read_ttys", "single_user", "runcom", "clean_ttys", "death", "catatonia"}
  BY <1>2 DEF Inv, Requests
<1>4. Core(sessions, session_db, proc)'  BY <1>1 DEF Inv
<1>5. Quiet'  BY <1>1, <1>3 DEF Inv, Quiet, Down, Dying
<1>6. Served'  BY <1>1 DEF Inv, Served, Starting
<1>7. Requests'  BY <1>2, <1>3 DEF Inv, Requests, Booting
<1>8. Awaited'  BY <1>1, <1>3 DEF Inv, Awaited, Awaiting
<1>9. Scalars'  BY <1>1, <1>3 DEF Inv, Scalars, Place, MultiUser
<1> QED  BY <1>4, <1>5, <1>6, <1>7, <1>8, <1>9 DEF Inv

LEMMA single_userInv == ASSUME WellBehaved, Inv, single_user PROVE Inv'
<1>1. ~ForkFails(proc)  BY ForkWorks DEF Inv
<1>2. PICK f \in Forked(proc, Child("shell")) : child' = f.pid /\ proc' = f.table
  BY <1>1 DEF single_user
<1>3. /\ pc = "single_user" /\ pc' = "su_wait"
      /\ got' = "nothing" /\ requested_transition' = "none" /\ UNCHANGED <<failures, errno>>
      /\ UNCHANGED <<runcom_mode, sessions, session_db, clang, alarm, round, signals>>
  BY <1>1 DEF single_user, dying
<1>4. /\ Core(sessions, session_db, proc')
      /\ NoLiveLogin(proc) => NoLiveLogin(proc')
      /\ f.pid \in Pid /\ proc'[f.pid].role = "shell"
  BY <1>2, ForkedChild DEF Inv
<1>5. Core(sessions, session_db, proc)'  BY <1>3, <1>4
<1>6. Quiet'  BY <1>3, <1>4 DEF Inv, Quiet, Down, Dying
<1>7. Served'  BY <1>3 DEF Inv, Served, Starting
<1>8. Requests'  BY <1>3 DEF Inv, Requests, Booting
<1>9. Awaited'  BY <1>2, <1>3, <1>4 DEF Inv, Awaited, Awaiting
<1>10. Scalars'  BY <1>3 DEF Inv, Scalars, Place, Waiting
<1> QED  BY <1>5, <1>6, <1>7, <1>8, <1>9, <1>10 DEF Inv

LEMMA WaitForShellInv == ASSUME WellBehaved, Inv, WaitForShell PROVE Inv'
<1>1. PICK p \in Zombies : collect_child(p, After(p), sessions) /\ got' = Outcome(p)
  BY OnlyZombies DEF Inv, WaitForShell
<1>2. /\ pc = "su_wait" /\ pc' = "su_test"
      /\ UNCHANGED <<runcom_mode, child, clang, alarm, round, signals>>
  BY DEF WaitForShell, dying
<1>3. AllDown(sessions)  BY <1>2 DEF Inv, Quiet, Down
<1>4. /\ Core(sessions', session_db', proc')
      /\ UNCHANGED <<requested_transition, failures, errno>>
      /\ AllDown(sessions')
      /\ Served /\ AllServed(sessions) => AllServed(sessions') /\ LeavingServed(sessions')
      /\ \A r \in Pid : proc'[r] = proc[r] \/ (r = p /\ proc'[r] = Free)
      /\ NoLiveLogin(proc) => NoLiveLogin(proc')
  BY <1>1, <1>3, CollectedDown
<1>5. /\ child \in Pid /\ proc[child].role \in {"rc", "shell"}
      /\ p = child => got' \in Ended
      /\ p # child => got' = "nothing"
  BY <1>1, <1>2 DEF Inv, Awaited, Awaiting, Core, Zombies, Outcome
<1>6. Core(sessions, session_db, proc)'  BY <1>4
<1>7. Quiet'  BY <1>2, <1>4 DEF Inv, Quiet, Down, Dying
<1>8. Served'  BY <1>2, <1>4 DEF Inv, Served, Starting
<1>9. Requests'  BY <1>2, <1>4 DEF Inv, Requests, Booting
<1>10. Awaited'  BY <1>2, <1>4, <1>5 DEF Inv, Awaited, Awaiting, Ended
<1>11. Scalars'  BY <1>2, <1>4 DEF Inv, Scalars, Place
<1> QED  BY <1>6, <1>7, <1>8, <1>9, <1>10, <1>11 DEF Inv

LEMMA ShellTestInv == ASSUME WellBehaved, Inv, ShellTest PROVE Inv'
<1>1. /\ pc = "su_test" /\ got' = "nothing"
      /\ child' = IF pc' = "su_wait" THEN child ELSE NoPid
      /\ UNCHANGED <<requested_transition, sessions, session_db, proc, clang, alarm, round,
                     errno, signals, failures>>
      /\ runcom_mode' \in {"FASTBOOT", runcom_mode}
  BY DEF ShellTest, dying
<1>2. \/ requested_transition # "none" /\ pc' = requested_transition
      \/ pc' = "su_wait" /\ got = "nothing"
      \/ pc' \in {"exited", "single_user", "runcom"}
  BY DEF ShellTest
<1>3. /\ pc' \in {"su_wait", "exited", "runcom", "single_user", "clean_ttys", "death",
                  "catatonia"}
      /\ pc' = "su_wait" => got = "nothing"
  BY <1>2 DEF Inv, Requests
<1>4. Core(sessions, session_db, proc)'  BY <1>1 DEF Inv
<1>5. Quiet'  BY <1>1, <1>3 DEF Inv, Quiet, Down, Dying
<1>6. Served'  BY <1>1 DEF Inv, Served, Starting
<1>7. Requests'  BY <1>1, <1>3 DEF Inv, Requests, Booting
<1>8. Awaited'  BY <1>1, <1>3 DEF Inv, Awaited, Awaiting
<1>9. Scalars'  BY <1>1, <1>3 DEF Inv, Scalars, Place, MultiUser, Waiting
<1> QED  BY <1>4, <1>5, <1>6, <1>7, <1>8, <1>9 DEF Inv

------------------------------------------------------------------------------
(* Multi-user operation *)

LEMMA read_ttysInv == ASSUME WellBehaved, Inv, read_ttys PROVE Inv'
<1>1. /\ pc = "read_ttys" /\ session_db' = [p \in Pid |-> NoLine]
      /\ UNCHANGED <<requested_transition, runcom_mode, child, got, proc, clang, alarm, round,
                     errno, signals, failures>>
  BY DEF read_ttys, waited, dying
<1>2. /\ sessions' \in [Line -> {NewSession, NoSession}]
      /\ \/ pc' = "multi_user"
         \/ pc' = "single_user" /\ \A l \in Line : sessions'[l] = NoSession
  BY DEF read_ttys
<1>3. /\ NewSession \in Session /\ NewSession.process = NoPid /\ ~NewSession.shutdown
      /\ NoPid \notin Pid /\ NoLine \notin Line
  BY ConfigAssumption DEF NewSession, Session
<1>4. NoLiveLogin(proc) /\ proc' = proc  BY <1>1 DEF Inv, Quiet, Down
<1>5. Core(sessions, session_db, proc)'
  <2>1. sessions' \in [Line -> Session \cup {NoSession}]  BY <1>2, <1>3
  <2>2. session_db' \in [Pid -> Line \cup {NoLine}]  BY <1>1
  <2>3. \A l \in Line, p \in Pid : session_db'[p] # l
    BY <1>1, <1>3
  <2>4. \A l \in Line, p \in Pid : ~(sessions'[l] # NoSession /\ sessions'[l].process = p)
    BY <1>2, <1>3
  <2>5. \A p \in Pid : proc'[p].state = "live" /\ proc'[p].role = "login" => proc'[p].outlived
    BY <1>4 DEF NoLiveLogin
  <2> QED  BY <2>1, <2>2, <2>3, <2>4, <2>5, <1>4 DEF Core, Inv
<1>6. Quiet'  BY <1>1, <1>2, <1>4 DEF Inv, Quiet, Down, Dying, AllDown
<1>7. Served'  BY <1>2, <1>3 DEF Served, Starting, AllServed, LeavingServed
<1>8. Requests'  BY <1>1, <1>2 DEF Inv, Requests, Booting
<1>9. Awaited'  BY <1>1, <1>2 DEF Inv, Awaited, Awaiting
<1>10. Scalars'  BY <1>1, <1>2 DEF Inv, Scalars, Place, MultiUser
<1> QED  BY <1>5, <1>6, <1>7, <1>8, <1>9, <1>10 DEF Inv

LEMMA multi_userInv == ASSUME WellBehaved, Inv, multi_user PROVE Inv'
<1>1. /\ pc = "multi_user" /\ pc' = "mu_start" /\ requested_transition' = "none"
      /\ UNCHANGED <<runcom_mode, child, got, sessions, session_db, proc, clang, alarm, round,
                     errno, signals, failures>>
  BY DEF multi_user, waited, dying
<1>2. Core(sessions, session_db, proc)'  BY <1>1 DEF Inv
<1>3. Quiet'  BY <1>1 DEF Quiet, Down, Dying
<1>4. Served'  BY <1>1 DEF Inv, Served, Starting
<1>5. Requests'  BY <1>1 DEF Requests, Booting
<1>6. Awaited'  BY <1>1 DEF Inv, Awaited, Awaiting
<1>7. Scalars'  BY <1>1 DEF Inv, Scalars, Place, MultiUser
<1> QED  BY <1>2, <1>3, <1>4, <1>5, <1>6, <1>7 DEF Inv

LEMMA StartLoginsInv == ASSUME WellBehaved, Inv, StartLogins PROVE Inv'
<1>1. /\ pc = "mu_start"
      /\ UNCHANGED <<runcom_mode, child, got, clang, alarm, round, signals>>
      /\ Core(sessions, session_db, proc) /\ Scalars
      /\ sessions \in [Line -> Session \cup {NoSession}] /\ NoPid \notin Pid
  BY ConfigAssumption DEF StartLogins, waited, dying, Inv, Core
<1>2. CASE ToStart = {} /\ pc' = "mu_test"
             /\ UNCHANGED <<requested_transition, sessions, session_db, proc, errno, failures>>
  <2>1. AllServed(sessions)  BY <1>2 DEF ToStart, Present, Idle, AllServed
  <2>2. Core(sessions, session_db, proc)'  BY <1>1, <1>2
  <2>3. Quiet'  BY <1>2 DEF Quiet, Down, Dying
  <2>4. Served'  BY <1>2, <2>1 DEF Inv, Served
  <2>5. Requests'  BY <1>1, <1>2 DEF Inv, Requests, Booting
  <2>6. Awaited'  BY <1>1, <1>2 DEF Inv, Awaited, Awaiting
  <2>7. Scalars'  BY <1>1, <1>2 DEF Scalars, Place, MultiUser
  <2> QED  BY <2>2, <2>3, <2>4, <2>5, <2>6, <2>7 DEF Inv
<1>3. ASSUME NEW l \in ToStart,
             start_getty(l, KeptFlags(sessions[l].launch), proc, session_db, sessions),
             pc' \in {pc, "mu_test"}, proc' # proc => pc' = pc
      PROVE  Inv'
  <2>1. l \in Line /\ sessions[l] # NoSession /\ sessions[l].process = NoPid
    BY DEF ToStart, Present, Idle
  <2>2. KeptFlags(sessions[l].launch) \in SUBSET {"ONERROR", "ONOPTION"}
    <3>1. sessions[l] \in Session  BY <1>1, <2>1
    <3> QED  BY <3>1 DEF Session, KeptFlags
  <2> DEFINE flags == KeptFlags(sessions[l].launch)
  <2> HIDE DEF flags
  <2>3. start_getty(l, flags, proc, session_db, sessions) /\ flags \in SUBSET {"ONERROR", "ONOPTION"}
    BY <1>3, <2>2 DEF flags
  <2>4. /\ Core(sessions', session_db', proc')
        /\ UNCHANGED <<requested_transition, failures, errno>>
        /\ sessions'[l] # NoSession /\ sessions'[l].process \in Pid
        /\ sessions'[l].shutdown = sessions[l].shutdown
        /\ \A k \in Line \ {l} : sessions'[k] = sessions[k]
        /\ \E q \in Pid : /\ proc[q].state = "free" /\ proc'[q].state = "live"
                          /\ proc'[q].role = "login" /\ proc'[q].line = l
                          /\ \A p \in Pid \ {q} : proc'[p] = proc[p]
    BY <1>1, <2>1, <2>3, Started
  <2>5. proc' # proc /\ pc' = "mu_start"  BY <1>1, <1>3, <2>4
  <2>6. Quiet'  BY <2>5 DEF Quiet, Down, Dying
  <2>7. Served'
    BY <1>1, <2>1, <2>4, <2>5 DEF Inv, Served, Starting, LeavingServed
  <2>8. Requests'  BY <1>1, <2>4, <2>5 DEF Inv, Requests, Booting
  <2>9. Awaited'  BY <1>1, <2>5 DEF Inv, Awaited, Awaiting
  <2>10. Scalars'  BY <1>1, <2>4, <2>5 DEF Scalars
  <2> QED  BY <2>4, <2>6, <2>7, <2>8, <2>9, <2>10 DEF Inv
<1> QED  BY <1>1, <1>2, <1>3 DEF StartLogins

LEMMA MultiUserTestInv == ASSUME WellBehaved, Inv, MultiUserTest PROVE Inv'
<1>1. /\ pc = "mu_test"
      /\ pc' = IF requested_transition = "none" THEN "mu_wait" ELSE requested_transition
      /\ UNCHANGED <<requested_transition, runcom_mode, child, got, sessions, session_db, proc,
                     clang, alarm, round, errno, signals, failures>>
  BY DEF MultiUserTest, waited, dying
<1>2. \/ pc' = "mu_wait" /\ requested_transition = "none"
      \/ pc' \in {"clean_ttys", "death", "catatonia"}
  BY <1>1 DEF Inv, Requests
<1>3. Core(sessions, session_db, proc)'  BY <1>1 DEF Inv
<1>4. Quiet'  BY <1>2 DEF Quiet, Down, Dying
<1>5. Served'  BY <1>1 DEF Inv, Served, Starting
<1>6. Requests'  BY <1>1, <1>2 DEF Inv, Requests, Booting
<1>7. Awaited'  BY <1>1, <1>2 DEF Inv, Awaited, Awaiting
<1>8. Scalars'  BY <1>1, <1>2 DEF Inv, Scalars, Place, MultiUser, Waiting
<1> QED  BY <1>3, <1>4, <1>5, <1>6, <1>7, <1>8 DEF Inv

(* The sessions when multi_user has noted how the login that ended did so.     *)
Noted(p) == IF Present # {} /\ session_db[p] # NoLine
            THEN [sessions EXCEPT ![session_db[p]].launch = @ \cup {Flag(proc[p].status)}]
            ELSE sessions

LEMMA LoginCollected ==
  ASSUME WellBehaved, Scalars, Core(sessions, session_db, proc),
         NEW p \in Zombies, collect_child(p, After(p), Noted(p))
  PROVE  /\ Core(sessions', session_db', proc')
         /\ UNCHANGED <<requested_transition, failures, errno>>
         /\ \A k \in Line : sessions'[k] # NoSession =>
              /\ sessions[k] # NoSession
              /\ sessions'[k].shutdown = sessions[k].shutdown
              /\ sessions'[k].process # sessions[k].process => sessions'[k].process \in Pid
              /\ sessions'[k].launch = IF k = session_db[p] THEN {} ELSE sessions[k].launch
         /\ \A r \in Pid :
              \/ proc'[r] = proc[r]
              \/ r = p /\ proc'[r] = Free
              \/ /\ proc'[r].line = session_db[p] /\ session_db[p] \in Line
                 /\ ~sessions[session_db[p]].shutdown
                 /\ r = p \/ proc[r].state = "free"
                 /\ proc'[r].command = CommandFor(Noted(p)[session_db[p]].launch, session_db[p])
<1> DEFINE l == session_db[p]
           known == Noted(p)
<1>1. /\ sessions \in [Line -> Session \cup {NoSession}]
      /\ session_db \in [Pid -> Line \cup {NoLine}]
      /\ NoLine \notin Line /\ NoSession \notin Session
      /\ p \in Pid
  BY ConfigAssumption DEF Core, Zombies
<1>2. l \in Line \cup {NoLine}  BY <1>1
<1>3. l \in Line => sessions[l] \in Session /\ sessions[l] # NoSession
  BY <1>1 DEF Core
<1>4. /\ known \in [Line -> Session \cup {NoSession}]
      /\ \A k \in Line \ {l} : known[k] = sessions[k]
      /\ l \in Line =>
           /\ known[l] # NoSession
           /\ known[l].shutdown = sessions[l].shutdown
           /\ known[l].process = sessions[l].process
  <2>1. Flag(proc[p].status) \in {"ONERROR", "ONOPTION"}  BY DEF Flag
  <2>2. CASE l \notin Line
    BY <2>2, <1>1, <1>2 DEF Noted
  <2>3. CASE l \in Line
    <3>1. known = [sessions EXCEPT ![l].launch = @ \cup {Flag(proc[p].status)}]
      BY <2>3, <1>1, <1>3 DEF Present, Noted
    <3>2. [sessions[l] EXCEPT !.launch = @ \cup {Flag(proc[p].status)}] \in Session
      BY <2>1, <2>3, <1>3 DEF Session
    <3>3. /\ [sessions[l] EXCEPT !.launch = @ \cup {Flag(proc[p].status)}].shutdown
               = sessions[l].shutdown
          /\ [sessions[l] EXCEPT !.launch = @ \cup {Flag(proc[p].status)}].process
               = sessions[l].process
      BY <2>3, <1>3 DEF Session
    <3> QED  BY <2>3, <3>1, <3>2, <3>3, <1>1
  <2> QED  BY <2>2, <2>3
<1>5. collect_child(p, After(p), known)  OBVIOUS
<1> HIDE DEF known
<1>6. /\ Core(sessions', session_db', proc')
      /\ UNCHANGED <<requested_transition, failures, errno>>
      /\ \A k \in Line : sessions'[k] # NoSession =>
           /\ sessions[k] # NoSession
           /\ sessions'[k].shutdown = sessions[k].shutdown
           /\ sessions'[k].process # sessions[k].process => sessions'[k].process \in Pid
           /\ sessions'[k].launch = IF k = session_db[p] THEN {} ELSE sessions[k].launch
      /\ \A r \in Pid :
           \/ proc'[r] = proc[r]
           \/ r = p /\ proc'[r] = Free
           \/ /\ proc'[r].line = session_db[p] /\ session_db[p] \in Line
              /\ ~sessions[session_db[p]].shutdown
              /\ r = p \/ proc[r].state = "free"
              /\ proc'[r].command = CommandFor(known[session_db[p]].launch, session_db[p])
  BY <1>4, <1>5, Collected
<1> QED  BY <1>6 DEF known

LEMMA WaitForLoginInv == ASSUME WellBehaved, Inv, WaitForLogin PROVE Inv'
<1>1. /\ pc = "mu_wait" /\ pc' = "mu_test"
      /\ UNCHANGED <<runcom_mode, child, got, clang, alarm, round, signals>>
      /\ Core(sessions, session_db, proc) /\ Scalars
      /\ sessions \in [Line -> Session \cup {NoSession}] /\ NoPid \notin Pid
      /\ session_db \in [Pid -> Line \cup {NoLine}] /\ NoLine \notin Line
  BY ConfigAssumption DEF WaitForLogin, waited, dying, Inv, Core
<1>2. Quiet'  BY <1>1 DEF Quiet, Down, Dying
<1>3. Awaited'  BY <1>1 DEF Inv, Awaited, Awaiting
<1>4. CASE /\ errno' = "ECHILD"
           /\ UNCHANGED <<requested_transition, sessions, session_db, proc, failures>>
  <2>1. Core(sessions, session_db, proc)'  BY <1>1, <1>4
  <2>2. Served'  BY <1>1, <1>4 DEF Inv, Served, Starting
  <2>3. Requests'  BY <1>1, <1>4 DEF Inv, Requests, Booting
  <2>4. Scalars'  BY <1>1, <1>4 DEF Scalars, Place, MultiUser
  <2> QED  BY <1>2, <1>3, <2>1, <2>2, <2>3, <2>4 DEF Inv
<1>5. ASSUME NEW p \in Zombies, collect_child(p, After(p), Noted(p))
      PROVE  Inv'
  <2>5. /\ Core(sessions', session_db', proc')
        /\ UNCHANGED <<requested_transition, failures, errno>>
        /\ \A k \in Line : sessions'[k] # NoSession =>
             /\ sessions[k] # NoSession
             /\ sessions'[k].shutdown = sessions[k].shutdown
             /\ sessions'[k].process # sessions[k].process => sessions'[k].process \in Pid
    BY <1>1, <1>5, LoginCollected
  <2>6. AllServed(sessions) /\ LeavingServed(sessions)
    BY <1>1 DEF Inv, Served, Starting
  <2>7. Served'
    BY <1>1, <2>5, <2>6 DEF Served, AllServed, LeavingServed
  <2>8. Requests'  BY <1>1, <2>5 DEF Inv, Requests, Booting
  <2>9. Scalars'  BY <1>1, <2>5 DEF Scalars, Place, MultiUser
  <2> QED  BY <1>2, <1>3, <2>5, <2>7, <2>8, <2>9 DEF Inv
<1> QED  BY <1>4, <1>5 DEF WaitForLogin, Noted

(* What clean_ttys makes of a session.                                        *)
LEMMA CleanedLine ==
  ASSUME clean_ttys
  PROVE  /\ sessions' = sessions \/ sessions' = [l \in Line |-> sessions'[l]]
         /\ \A l \in Line :
              \/ sessions'[l] = sessions[l]
              \/ /\ sessions[l] # NoSession
                 /\ \E off \in BOOLEAN : sessions'[l] = [sessions[l] EXCEPT !.shutdown = off]
              \/ sessions[l] = NoSession /\ sessions'[l] \in {NewSession, NoSession}
<1>1. CASE UNCHANGED sessions  BY <1>1
<1>2. ASSUME NEW ttys \in [Line -> Entries],
             sessions' = [l \in Line |->
               CASE ttys[l] = "none" -> sessions[l]
                 [] l \in Present /\ ttys[l] # "none" ->
                      [sessions[l] EXCEPT !.shutdown = (ttys[l] = "off")]
                 [] l \notin Present /\ ttys[l] = "on" -> NewSession
                 [] OTHER -> NoSession]
      PROVE  \A l \in Line :
               \/ sessions'[l] = sessions[l]
               \/ /\ sessions[l] # NoSession
                  /\ \E off \in BOOLEAN : sessions'[l] = [sessions[l] EXCEPT !.shutdown = off]
               \/ sessions[l] = NoSession /\ sessions'[l] \in {NewSession, NoSession}
  <2> TAKE l \in Line
  <2> DEFINE off == ttys[l] = "off"
  <2>1. sessions'[l] = CASE ttys[l] = "none" -> sessions[l]
               [] l \in Present /\ ttys[l] # "none" -> [sessions[l] EXCEPT !.shutdown = off]
               [] l \notin Present /\ ttys[l] = "on" -> NewSession
               [] OTHER -> NoSession
    BY <1>2
  <2>2. off \in BOOLEAN  OBVIOUS
  <2> HIDE DEF off
  <2> QED  BY <2>1, <2>2 DEF Present
<1> QED  BY <1>1, <1>2 DEF clean_ttys

LEMMA clean_ttysInv == ASSUME WellBehaved, Inv, clean_ttys PROVE Inv'
<1>1. /\ pc = "clean_ttys" /\ pc' = "multi_user"
      /\ UNCHANGED <<requested_transition, runcom_mode, child, got, session_db, proc, clang, alarm,
                     round, errno, signals, failures>>
      /\ Core(sessions, session_db, proc)
      /\ sessions \in [Line -> Session \cup {NoSession}] /\ NoSession \notin Session
  BY ConfigAssumption DEF clean_ttys, waited, dying, Inv, Core
<1>2. AllServed(sessions)  BY <1>1 DEF Inv, Served, Starting
<1>3. /\ sessions' \in [Line -> Session \cup {NoSession}]
      /\ \A l \in Line : /\ sessions[l] # NoSession =>
                              sessions'[l] # NoSession /\ sessions'[l].process = sessions[l].process
                         /\ sessions[l] = NoSession /\ sessions'[l] # NoSession =>
                              sessions'[l].process = NoPid /\ ~sessions'[l].shutdown
  <2>1. \A l \in Line, off \in BOOLEAN : sessions[l] # NoSession =>
          /\ [sessions[l] EXCEPT !.shutdown = off] \in Session
          /\ [sessions[l] EXCEPT !.shutdown = off].process = sessions[l].process
    BY <1>1 DEF Session
  <2>2. NewSession \in Session /\ NewSession.process = NoPid /\ ~NewSession.shutdown
    BY DEF NewSession, Session
  <2>3. \A l \in Line :
          \/ sessions'[l] = sessions[l]
          \/ /\ sessions[l] # NoSession
             /\ \E off \in BOOLEAN : sessions'[l] = [sessions[l] EXCEPT !.shutdown = off]
          \/ sessions[l] = NoSession /\ sessions'[l] \in {NewSession, NoSession}
    BY CleanedLine
  <2>4. \A l \in Line : sessions'[l] \in Session \cup {NoSession}
    BY <1>1, <2>1, <2>2, <2>3
  <2>5. sessions' \in [Line -> Session \cup {NoSession}]
    BY <1>1, <2>4, CleanedLine
  <2> QED  BY <1>1, <2>1, <2>2, <2>3, <2>5
<1>4. Core(sessions', session_db, proc)  BY <1>1, <1>3, CoreSessions
<1>5. Core(sessions, session_db, proc)'  BY <1>1, <1>4
<1>6. Quiet'  BY <1>1 DEF Quiet, Down, Dying
<1>7. Served'
  BY <1>1, <1>2, <1>3 DEF Served, Starting, AllServed, LeavingServed
<1>8. Requests'  BY <1>1 DEF Inv, Requests, Booting
<1>9. Awaited'  BY <1>1 DEF Inv, Awaited, Awaiting
<1>10. Scalars'  BY <1>1 DEF Inv, Scalars, Place, MultiUser
<1> QED  BY <1>5, <1>6, <1>7, <1>8, <1>9, <1>10 DEF Inv

(* Every session is marked, and keeps its process.                            *)
LEMMA Marked ==
  ASSUME Core(sessions, session_db, proc), sessions' = AllShutdown
  PROVE  /\ Core(sessions', session_db, proc)
         /\ AllDown(sessions')
         /\ AllServed(sessions) => AllServed(sessions') /\ LeavingServed(sessions')
<1>1. /\ sessions \in [Line -> Session \cup {NoSession}] /\ NoSession \notin Session
  BY ConfigAssumption DEF Core
<1>2. \A l \in Line : sessions[l] # NoSession =>
        /\ [sessions[l] EXCEPT !.shutdown = TRUE] \in Session
        /\ [sessions[l] EXCEPT !.shutdown = TRUE].process = sessions[l].process
        /\ [sessions[l] EXCEPT !.shutdown = TRUE].shutdown
  BY <1>1 DEF Session
<1>3. \A l \in Line : sessions'[l] = IF sessions[l] # NoSession
                                     THEN [sessions[l] EXCEPT !.shutdown = TRUE]
                                     ELSE NoSession
  BY DEF AllShutdown, Present
<1>4. \A l \in Line : sessions'[l] \in Session \cup {NoSession}
  BY <1>2, <1>3
<1>5. sessions' \in [Line -> Session \cup {NoSession}]  BY <1>4 DEF AllShutdown
<1>6. \A l \in Line :
        /\ sessions[l] = NoSession <=> sessions'[l] = NoSession
        /\ sessions[l] # NoSession => /\ sessions'[l].process = sessions[l].process
                                      /\ sessions'[l].shutdown
  BY <1>1, <1>2, <1>3
<1>7. Core(sessions', session_db, proc)  BY <1>5, <1>6, CoreSessions
<1> QED  BY <1>6, <1>7 DEF AllDown, AllServed, LeavingServed

LEMMA catatoniaInv == ASSUME WellBehaved, Inv, catatonia PROVE Inv'
<1>1. /\ pc = "catatonia" /\ pc' = "multi_user" /\ sessions' = AllShutdown
      /\ UNCHANGED <<requested_transition, runcom_mode, child, got, session_db, proc, clang, alarm,
                     round, errno, signals, failures>>
  BY DEF catatonia, waited, dying
<1>2. /\ Core(sessions', session_db, proc)
      /\ AllServed(sessions) => AllServed(sessions') /\ LeavingServed(sessions')
  BY <1>1, Marked DEF Inv
<1>3. Core(sessions, session_db, proc)'  BY <1>1, <1>2
<1>4. Quiet'  BY <1>1 DEF Quiet, Down, Dying
<1>5. Served'  BY <1>1, <1>2 DEF Inv, Served, Starting
<1>6. Requests'  BY <1>1 DEF Inv, Requests, Booting
<1>7. Awaited'  BY <1>1 DEF Inv, Awaited, Awaiting
<1>8. Scalars'  BY <1>1 DEF Inv, Scalars, Place, MultiUser
<1> QED  BY <1>3, <1>4, <1>5, <1>6, <1>7, <1>8 DEF Inv

------------------------------------------------------------------------------
(* The shutdown *)

LEMMA deathInv == ASSUME WellBehaved, Inv, death PROVE Inv'
<1>1. /\ pc = "death" /\ pc' = "kill" /\ round' = 1 /\ sessions' = AllShutdown
      /\ errno' \in {"other", "old"}
      /\ UNCHANGED <<requested_transition, runcom_mode, child, got, session_db, proc, clang,
                     alarm, signals, failures>>
  BY DEF death, waited
<1>2. /\ Core(sessions', session_db, proc) /\ AllDown(sessions')
      /\ AllServed(sessions) => AllServed(sessions') /\ LeavingServed(sessions')
  BY <1>1, Marked DEF Inv
<1>3. Core(sessions, session_db, proc)'  BY <1>1, <1>2
<1>4. Quiet'  BY <1>1, <1>2 DEF Quiet, Down, Dying
<1>5. Served'  BY <1>1, <1>2 DEF Inv, Served, Starting
<1>6. Requests'  BY <1>1 DEF Inv, Requests, Booting
<1>7. Awaited'  BY <1>1 DEF Inv, Awaited, Awaiting
<1>8. Scalars'  BY <1>1 DEF Inv, Scalars, Place
<1> QED  BY <1>3, <1>4, <1>5, <1>6, <1>7, <1>8 DEF Inv

LEMMA KillInv == ASSUME WellBehaved, Inv, Kill PROVE Inv'
<1>1. /\ pc = "kill"
      /\ UNCHANGED <<requested_transition, runcom_mode, child, got, sessions, session_db, round,
                     signals, failures>>
      /\ Core(sessions, session_db, proc) /\ AllDown(sessions) /\ AllServed(sessions)
      /\ Living = {p \in Pid : proc[p].state = "live"}
  BY OnlyZombies DEF Kill, waited, Inv, Quiet, Dying, Served, Starting
<1>2. pc' \in {"single_user", "death_wait"}  BY DEF Kill
<1>3. Served'  BY <1>1 DEF Inv, Served
<1>4. Requests'  BY <1>1, <1>2 DEF Inv, Requests, Booting
<1>5. Awaited'  BY <1>1, <1>2 DEF Inv, Awaited, Awaiting
<1>6. CASE /\ Living = {} /\ pc' = "single_user" /\ errno' = "other"
           /\ UNCHANGED <<proc, clang, alarm>>
  <2>1. NoLiveLogin(proc)  BY <1>1, <1>6 DEF NoLiveLogin
  <2>2. Core(sessions, session_db, proc)'  BY <1>1, <1>6
  <2>3. Quiet'  BY <1>1, <1>6, <2>1 DEF Quiet, Down, Dying
  <2>4. Scalars'  BY <1>1, <1>6 DEF Inv, Scalars, Place
  <2> QED  BY <1>3, <1>4, <1>5, <2>2, <2>3, <2>4 DEF Inv
<1>7. CASE Living # {} /\ pc' = "death_wait"
  <2>1. /\ clang' \in {FALSE, alarm} /\ alarm' = TRUE /\ errno' = errno
        /\ round < 3 => proc' = proc
        /\ ~(round < 3) => \E hung \in SUBSET Living :
             proc' = [p \in Pid |-> IF p \in Living \ hung THEN Killed(p) ELSE proc[p]]
    BY <1>7 DEF Kill, SetAgain, LastRound
  <2>2. errno # "ECHILD"
    BY <1>1, <1>7 DEF Inv, Quiet, Dying, NoneLives
  <2>7. alarm \in BOOLEAN  BY DEF Inv, Scalars
  <2>3. clang' \in BOOLEAN /\ alarm' \in BOOLEAN  BY <2>1, <2>7, Zenon
  <2>4. Scalars'  BY <1>1, <1>7, <2>1, <2>3 DEF Inv, Scalars, Place, Waiting
  <2>8. Quiet'  BY <1>1, <1>7, <2>1, <2>2 DEF Inv, Scalars, Quiet, Down, Dying
  <2>5. CASE round < 3
    <3>1. Core(sessions, session_db, proc)'  BY <1>1, <2>1, <2>5
    <3> QED  BY <1>3, <1>4, <1>5, <2>4, <2>8, <3>1 DEF Inv
  <2>6. CASE ~(round < 3)
    <3>1. PICK hung \in SUBSET Living :
            proc' = [p \in Pid |-> IF p \in Living \ hung THEN Killed(p) ELSE proc[p]]
      BY <2>1, <2>6
    <3>2. proc \in [Pid -> Process]  BY <1>1 DEF Core
    <3>3. \A p \in Pid : /\ Killed(p) \in Process /\ Killed(p).state = "zombie"
                         /\ Killed(p).role = proc[p].role /\ Killed(p).line = proc[p].line
                         /\ proc[p].role \in {"rc", "shell"} => Killed(p).status \in Ended
      <4> TAKE p \in Pid
      <4> DEFINE status == CASE proc[p].role = "shell" -> "kill"
                             [] proc[p].role = "login" -> "signal"
                             [] proc[p].role = "rc" -> "nonzero" [] OTHER -> "zero"
      <4>1. /\ status \in {"kill", "signal", "nonzero", "zero"}
            /\ proc[p].role \in {"rc", "shell"} => status \in Ended
        BY DEF Ended
      <4>2. proc[p] \in Process  BY <3>2
      <4>3. Killed(p) = [proc[p] EXCEPT !.state = "zombie", !.status = status]
        BY DEF Killed
      <4> HIDE DEF status
      <4> QED  BY <4>1, <4>2, <4>3 DEF Process
    <3>4. /\ \A p \in Pid : \/ proc[p].state = "live" /\ proc'[p] = Killed(p)
                            \/ proc'[p] = proc[p]
      BY <3>1, <1>1
    <3>5. proc' \in [Pid -> Process]  BY <3>1, <3>2, <3>3
    <3>6. \A p \in Pid : \/ proc'[p] = proc[p]
                         \/ /\ proc'[p].state = "zombie" /\ proc[p].state = "live"
                            /\ proc'[p].role = proc[p].role /\ proc'[p].line = proc[p].line
                            /\ proc[p].role \in {"rc", "shell"} => proc'[p].status \in Ended
      BY <3>3, <3>4
    <3>7. Core(sessions, session_db, proc')  BY <1>1, <3>5, <3>6, CoreEnd
    <3>9. Core(sessions, session_db, proc)'  BY <1>1, <3>7
    <3> QED  BY <1>3, <1>4, <1>5, <2>4, <2>8, <3>9 DEF Inv
  <2> QED  BY <2>5, <2>6
<1> QED  BY <1>6, <1>7 DEF Kill

LEMMA WaitForDeathInv == ASSUME WellBehaved, Inv, WaitForDeath PROVE Inv'
<1>1. /\ pc = "death_wait" /\ pc' = "death_test"
      /\ UNCHANGED <<runcom_mode, child, got, clang, alarm, round, signals>>
      /\ Core(sessions, session_db, proc) /\ AllDown(sessions) /\ AllServed(sessions)
      /\ Living = {p \in Pid : proc[p].state = "live"}
  BY OnlyZombies DEF WaitForDeath, waited, dying, Inv, Quiet, Dying, Served, Starting
<1>2. Awaited'  BY <1>1 DEF Inv, Awaited, Awaiting
<1>3. ASSUME NEW p \in Zombies, collect_child(p, After(p), sessions)
      PROVE  Inv'
  <2>1. /\ Core(sessions', session_db', proc')
        /\ UNCHANGED <<requested_transition, failures, errno>>
        /\ AllDown(sessions')
        /\ Served /\ AllServed(sessions) => AllServed(sessions') /\ LeavingServed(sessions')
        /\ NoLiveLogin(proc) => NoLiveLogin(proc')
        /\ NoneLives(proc) => NoneLives(proc')
    BY <1>1, <1>3, CollectedDown
  <2>2. Quiet'  BY <1>1, <2>1 DEF Inv, Quiet, Down, Dying
  <2>3. Served'  BY <1>1, <2>1 DEF Inv, Served
  <2>4. Requests'  BY <1>1, <2>1 DEF Inv, Requests, Booting
  <2>5. Scalars'  BY <1>1, <2>1 DEF Inv, Scalars, Place
  <2> QED  BY <1>2, <2>1, <2>2, <2>3, <2>4, <2>5 DEF Inv
<1>4. CASE /\ Living \cup Zombies = {} /\ errno' = "ECHILD"
           /\ UNCHANGED <<requested_transition, sessions, session_db, proc, failures>>
  <2>1. NoneLives(proc) /\ NoLiveLogin(proc)
    BY <1>1, <1>4 DEF NoneLives, NoLiveLogin
  <2>2. Core(sessions, session_db, proc)'  BY <1>1, <1>4
  <2>3. Quiet'  BY <1>1, <1>4, <2>1 DEF Quiet, Down, Dying
  <2>4. Served'  BY <1>4, <1>1 DEF Inv, Served
  <2>5. Requests'  BY <1>1, <1>4 DEF Inv, Requests, Booting
  <2>6. Scalars'  BY <1>1, <1>4 DEF Inv, Scalars, Place
  <2> QED  BY <1>2, <2>2, <2>3, <2>4, <2>5, <2>6 DEF Inv
<1> QED  BY <1>3, <1>4 DEF WaitForDeath

LEMMA DeathTestInv == ASSUME WellBehaved, Inv, DeathTest PROVE Inv'
<1>1. /\ pc = "death_test"
      /\ UNCHANGED <<requested_transition, runcom_mode, child, got, sessions, session_db,
                     clang, alarm, errno, signals, failures>>
      /\ \/ pc' = "death_wait" /\ round' = round
         \/ pc' = "single_user" /\ round' = round
         \/ pc' = "kill" /\ round < 3 /\ round' = round + 1
      /\ proc' = IF pc' = "single_user" THEN Outlive ELSE proc
  BY DEF DeathTest, waited, LastRound
<1>2. round \in 1 .. 3 /\ round' \in 1 .. 3  BY <1>1 DEF Inv, Scalars
<1>3. pc' \in {"death_wait", "single_user", "kill"}  BY <1>1
<1>4. /\ pc' = "single_user" => NoLiveLogin(proc')
      /\ pc' # "single_user" => proc' = proc
      /\ Core(sessions, session_db, proc')
      /\ \A p \in Pid : proc'[p].role = proc[p].role
  <2>1. Core(sessions, session_db, proc)  BY DEF Inv
  <2>2. /\ Core(sessions, session_db, Outlive) /\ NoLiveLogin(Outlive)
        /\ \A p \in Pid : Outlive[p].role = proc[p].role
    BY <2>1, CoreOutlive
  <2>3. CASE pc' = "single_user"
    <3>1. proc' = Outlive  BY <1>1, <2>3
    <3> QED  BY <2>2, <2>3, <3>1
  <2>4. CASE pc' # "single_user"
    <3>1. proc' = proc  BY <1>1, <2>4
    <3> QED  BY <2>1, <2>4, <3>1
  <2> QED  BY <2>3, <2>4
<1>5. Core(sessions, session_db, proc)'  BY <1>1, <1>4
<1>6. Quiet'  BY <1>1, <1>3, <1>4 DEF Inv, Quiet, Down, Dying
<1>7. Served'  BY <1>1 DEF Inv, Served, Starting
<1>8. Requests'  BY <1>1, <1>3 DEF Inv, Requests, Booting
<1>9. Awaited'  BY <1>1, <1>3 DEF Inv, Awaited, Awaiting
<1>10. Scalars'  BY <1>1, <1>2, <1>3 DEF Inv, Scalars, Place, Waiting
<1> QED  BY <1>5, <1>6, <1>7, <1>8, <1>9, <1>10 DEF Inv

------------------------------------------------------------------------------
(* What init does not control *)

(* A child ends, none is stopped, one may be inherited.                       *)
LEMMA ChildrenStep ==
  ASSUME WellBehaved, Inv, Inherit \/ \E p \in Pid : Exit(p) \/ Stop(p)
  PROVE  /\ Core(sessions, session_db, proc')
         /\ NoLiveLogin(proc) => NoLiveLogin(proc')
         /\ NoneLives(proc) => NoneLives(proc')
         /\ \A p \in Pid : proc[p].role \in {"rc", "shell"} => proc'[p].role = proc[p].role
         /\ \A p \in Pid : proc'[p].state = "live" /\ proc'[p].role = "login" =>
              proc'[p] = proc[p]
<1>1. /\ Core(sessions, session_db, proc) /\ proc \in [Pid -> Process]
      /\ Living = {p \in Pid : proc[p].state = "live"}
  BY OnlyZombies DEF Inv, Core
<1>2. CASE Inherit
  <2>1. PICK f \in Forked(proc, Child("orphan")) : proc' = f.table
    BY <1>2 DEF Inherit
  <2>2. /\ Core(sessions, session_db, proc')
        /\ NoLiveLogin(proc) => NoLiveLogin(proc')
        /\ f.pid \in Pid /\ proc[f.pid].state = "free"
        /\ proc'[f.pid].state = "live" /\ proc'[f.pid].role = "orphan"
        /\ \A p \in Pid \ {f.pid} : proc'[p] = proc[p]
    BY <1>1, <2>1, ForkedChild
  <2>3. proc[f.pid].role = "none"  BY <1>1, <2>2 DEF Core
  <2>4. ~NoneLives(proc)  BY <1>1, <1>2 DEF Inherit, NoneLives
  <2> QED  BY <2>2, <2>3, <2>4
<1>3. ASSUME NEW p \in Pid, Exit(p)
      PROVE  /\ Core(sessions, session_db, proc')
             /\ NoLiveLogin(proc) => NoLiveLogin(proc')
             /\ NoneLives(proc) => NoneLives(proc')
             /\ \A q \in Pid : proc[q].role \in {"rc", "shell"} => proc'[q].role = proc[q].role
             /\ \A q \in Pid : proc'[q].state = "live" /\ proc'[q].role = "login" =>
                  proc'[q] = proc[q]
  <2>1. PICK status \in StatusOf(proc[p].role) :
          proc' = [proc EXCEPT ![p].state = "zombie", ![p].status = status]
    BY <1>3 DEF Exit
  <2>2. /\ status \in {"none", "zero", "nonzero", "console", "signal", "kill", "term"}
        /\ proc[p].role \in {"rc", "shell"} => status \in Ended
    BY <2>1 DEF StatusOf, Ended
  <2>3. proc[p] \in Process /\ proc[p].state = "live"  BY <1>1, <1>3 DEF Exit
  <2> DEFINE ended == [proc[p] EXCEPT !.state = "zombie", !.status = status]
  <2>4. /\ ended \in Process /\ ended.state = "zombie" /\ ended.status = status
        /\ ended.role = proc[p].role /\ ended.line = proc[p].line
    BY <2>2, <2>3 DEF Process
  <2>5. proc' = [proc EXCEPT ![p] = ended]  BY <1>1, <2>1
  <2> HIDE DEF ended
  <2>6. /\ proc' \in [Pid -> Process] /\ proc'[p] = ended
        /\ \A q \in Pid \ {p} : proc'[q] = proc[q]
    BY <1>1, <2>4, <2>5
  <2>7. \A q \in Pid : \/ proc'[q] = proc[q]
                       \/ /\ proc'[q].state = "zombie" /\ proc[q].state = "live"
                          /\ proc'[q].role = proc[q].role /\ proc'[q].line = proc[q].line
                          /\ proc[q].role \in {"rc", "shell"} => proc'[q].status \in Ended
    BY <2>2, <2>3, <2>4, <2>6
  <2>8. Core(sessions, session_db, proc')  BY <1>1, <2>6, <2>7, CoreEnd
  <2> QED  BY <2>7, <2>8 DEF NoLiveLogin, NoneLives
<1>4. \A p \in Pid : ~Stop(p)  BY DEF WellBehaved, Stop
<1> QED  BY <1>2, <1>3, <1>4

LEMMA ProcessesInv == ASSUME WellBehaved, Inv, Processes PROVE Inv'
<1>1. /\ UNCHANGED <<pc, requested_transition, runcom_mode, child, got, sessions, session_db,
                     clang, alarm, round, errno, signals, failures>>
      /\ Inherit \/ \E p \in Pid : Exit(p) \/ Stop(p)
  BY DEF Processes, waited, dying
<1>2. /\ Core(sessions, session_db, proc')
      /\ NoLiveLogin(proc) => NoLiveLogin(proc')
      /\ NoneLives(proc) => NoneLives(proc')
      /\ \A p \in Pid : proc[p].role \in {"rc", "shell"} => proc'[p].role = proc[p].role
  BY <1>1, ChildrenStep
<1>3. Core(sessions, session_db, proc)'  BY <1>1, <1>2
<1>4. Quiet'  BY <1>1, <1>2 DEF Inv, Quiet
<1>5. Served'  BY <1>1 DEF Inv, Served
<1>6. Requests'  BY <1>1 DEF Inv, Requests, Booting
<1>7. Awaited'  BY <1>1, <1>2 DEF Inv, Awaited, Awaiting
<1>8. Scalars'  BY <1>1 DEF Inv, Scalars
<1> QED  BY <1>3, <1>4, <1>5, <1>6, <1>7, <1>8 DEF Inv

(* Where a handler can leave init.                                            *)
LEMMA Interrupted ==
  ASSUME Interrupt, pc \in Place
  PROVE  /\ errno' \in {errno, "other"}
         /\ \/ pc' = pc
            \/ pc = "su_wait" /\ pc' = "su_test"
            \/ pc = "mu_wait" /\ pc' = "mu_test"
            \/ pc = "death_wait" /\ pc' = "death_test"
  BY DEF Interrupt

(* A handler touches neither sessions nor processes.                          *)
LEMMA HandlerInv ==
  ASSUME Inv, Interrupt,
         UNCHANGED <<runcom_mode, child, got, sessions, session_db, proc, round, failures>>,
         clang' \in BOOLEAN, alarm' \in BOOLEAN, signals' \in 0 .. MaxSignals,
         requested_transition' \in {requested_transition, "clean_ttys", "death", "catatonia"}
  PROVE  Inv'
<1>1. pc \in Place  BY DEF Inv, Scalars
<1>2. /\ errno' \in {errno, "other"}
      /\ \/ pc' = pc
         \/ pc = "su_wait" /\ pc' = "su_test"
         \/ pc = "mu_wait" /\ pc' = "mu_test"
         \/ pc = "death_wait" /\ pc' = "death_test"
  BY <1>1, Interrupted
<1>3. Core(sessions, session_db, proc)'  BY DEF Inv
<1>4. Quiet'  BY <1>2 DEF Inv, Quiet, Down, Dying
<1>5. Served'  BY <1>2 DEF Inv, Served, Starting
<1>6. Requests'  BY <1>2 DEF Inv, Requests, Booting
<1>7. Awaited'  BY <1>2 DEF Inv, Awaited, Awaiting
<1>8. pc' \in Place  BY <1>1, <1>2 DEF Place, MultiUser
<1>9. Scalars'  BY <1>2, <1>8 DEF Inv, Scalars
<1> QED  BY <1>3, <1>4, <1>5, <1>6, <1>7, <1>9 DEF Inv

LEMMA transition_handlerInv ==
  ASSUME Inv, NEW sig \in Signals, transition_handler(sig) PROVE Inv'
<1>1. /\ Interrupt /\ signals < MaxSignals /\ signals' = signals + 1
      /\ UNCHANGED <<runcom_mode, child, got, sessions, session_db, proc, clang, alarm, round,
                     failures>>
      /\ requested_transition' = TransitionFor(sig)
  BY DEF transition_handler, waited, dying
<1>2. TransitionFor(sig) \in {"clean_ttys", "death", "catatonia"}
  BY ConfigAssumption DEF TransitionFor
<1>3. clang' \in BOOLEAN /\ alarm' \in BOOLEAN  BY <1>1 DEF Inv, Scalars
<1>4. signals' \in 0 .. MaxSignals  BY <1>1, ConfigAssumption DEF Inv, Scalars
<1> QED  BY <1>1, <1>2, <1>3, <1>4, HandlerInv

LEMMA alrm_handlerInv == ASSUME Inv, alrm_handler PROVE Inv'
<1>1. /\ Interrupt /\ alarm' = FALSE /\ clang' = TRUE
      /\ UNCHANGED <<requested_transition, runcom_mode, child, got, sessions, session_db, proc,
                     round, signals, failures>>
  BY DEF alrm_handler, waited
<1>2. clang' \in BOOLEAN /\ alarm' \in BOOLEAN  BY <1>1, Zenon
<1>3. signals' \in 0 .. MaxSignals  BY <1>1 DEF Inv, Scalars
<1> QED  BY <1>1, <1>2, <1>3, HandlerInv

------------------------------------------------------------------------------
(* The theorems *)

LEMMA NextInv == ASSUME WellBehaved, Inv, [Next]_vars PROVE Inv'
<1>1. CASE runcom  BY <1>1, runcomInv
<1>2. CASE WaitForScript  BY <1>2, WaitForScriptInv
<1>3. CASE ScriptEnded  BY <1>3, ScriptEndedInv
<1>4. CASE single_user  BY <1>4, single_userInv
<1>5. CASE WaitForShell  BY <1>5, WaitForShellInv
<1>6. CASE ShellTest  BY <1>6, ShellTestInv
<1>7. CASE read_ttys  BY <1>7, read_ttysInv
<1>8. CASE multi_user  BY <1>8, multi_userInv
<1>9. CASE StartLogins  BY <1>9, StartLoginsInv
<1>10. CASE MultiUserTest  BY <1>10, MultiUserTestInv
<1>11. CASE WaitForLogin  BY <1>11, WaitForLoginInv
<1>12. CASE clean_ttys  BY <1>12, clean_ttysInv
<1>13. CASE catatonia  BY <1>13, catatoniaInv
<1>14. CASE death  BY <1>14, deathInv
<1>15. CASE Kill  BY <1>15, KillInv
<1>16. CASE WaitForDeath  BY <1>16, WaitForDeathInv
<1>17. CASE DeathTest  BY <1>17, DeathTestInv
<1>18. CASE Processes  BY <1>18, ProcessesInv
<1>19. CASE alrm_handler  BY <1>19, alrm_handlerInv
<1>20. CASE \E sig \in Signals : transition_handler(sig)  BY <1>20, transition_handlerInv
<1>21. CASE UNCHANGED vars
  <2>1. UNCHANGED <<pc, requested_transition, runcom_mode, child, got, sessions, session_db, proc,
                    clang, alarm, round, errno, signals, failures>>
    BY <1>21 DEF vars
  <2> QED  BY <2>1 DEF Inv, Quiet, Served, Requests, Booting, Awaited, Awaiting, Scalars
<1> QED
  BY <1>1, <1>2, <1>3, <1>4, <1>5, <1>6, <1>7, <1>8, <1>9, <1>10, <1>11, <1>12, <1>13,
     <1>14, <1>15, <1>16, <1>17, <1>18, <1>19, <1>20, <1>21
  DEF Next, Steps

LEMMA Invariance == ASSUME WellBehaved PROVE Spec => []Inv
<1>1. Init => Inv  BY InitInv
<1>2. Inv /\ [Next]_vars => Inv'  BY NextInv
<1> QED  BY <1>1, <1>2, PTL DEF Spec

(* The variables have their types.                                            *)
THEOREM TypeCorrect == ASSUME WellBehaved PROVE Spec => []TypeOK
<1>1. Inv => TypeOK
  <2> SUFFICES ASSUME Inv PROVE TypeOK
    OBVIOUS
  <2>1. Ended \subseteq UNION {StatusOf(r) : r \in {"rc", "shell", "orphan"}}
    BY DEF Ended, StatusOf
  <2> QED  BY <2>1 DEF Inv, Core, Requests, Awaited, Scalars, TypeOK
<1> QED  BY <1>1, Invariance, PTL

(* The data base of init.c finds the process of each session and no other.    *)
THEOREM DataBaseCorrect == ASSUME WellBehaved PROVE Spec => []DataBaseAgrees
<1>1. Inv => DataBaseAgrees  BY DEF Inv, Core, DataBaseAgrees, Present
<1> QED  BY <1>1, Invariance, PTL

(* No line has two logins, and the session of a line knows its login.         *)
THEOREM OneLogin == ASSUME WellBehaved PROVE Spec => []OneLoginPerLine
<1>1. Inv => OneLoginPerLine
  <2> SUFFICES ASSUME Inv, NEW l \in Line
               PROVE  /\ Cardinality(LoginsOn(l)) <= 1
                      /\ \A p \in LoginsOn(l) : l \in Present /\ sessions[l].process = p
    BY DEF OneLoginPerLine
  <2>1. \A p \in LoginsOn(l) : l \in Present /\ sessions[l].process = p
    BY OnlyZombies DEF Inv, Core, LoginsOn, Present
  <2>2. CASE LoginsOn(l) = {}  BY <2>1, <2>2, FS_EmptySet
  <2>3. CASE LoginsOn(l) # {}
    <3>1. PICK p : p \in LoginsOn(l)  BY <2>3
    <3>2. LoginsOn(l) = {p}  BY <2>1, <3>1
    <3>3. Cardinality({p}) = 1  BY FS_Singleton
    <3> QED  BY <2>1, <3>2, <3>3
  <2> QED  BY <2>2, <2>3
<1> QED  BY <1>1, Invariance, PTL

------------------------------------------------------------------------------
(* What no step does *)

(* A login that comes to life is on a line whose session goes on.             *)
OnlyWanted ==
  \A r \in Pid : proc'[r].state = "live" /\ proc'[r].role = "login" =>
    \/ proc'[r] = proc[r] \/ proc'[r].outlived
    \/ ~(sessions[proc'[r].line] # NoSession /\ sessions[proc'[r].line].shutdown)

(* Collecting a child brings only such a login to life.                       *)
LEMMA CollectWanted ==
  ASSUME WellBehaved, Inv, NEW p \in Zombies, collect_child(p, After(p), sessions)
  PROVE  OnlyWanted
<1>1. /\ Core(sessions, session_db, proc) /\ Scalars
      /\ sessions \in [Line -> Session \cup {NoSession}] /\ p \in Pid
  BY DEF Inv, Core, Zombies
<1>2. session_db[p] \in Line => sessions[session_db[p]] # NoSession
  BY <1>1 DEF Core
<1>3. \A r \in Pid :
        \/ proc'[r] = proc[r]
        \/ r = p /\ proc'[r] = Free
        \/ /\ proc'[r].line = session_db[p]
           /\ ~sessions[session_db[p]].shutdown
  BY <1>1, <1>2, Collected
<1> QED  BY <1>3, NewProcess DEF OnlyWanted

LEMMA LoginsWanted == ASSUME WellBehaved, Inv, [Next]_vars PROVE OnlyWanted
<1>1. CASE UNCHANGED proc  BY <1>1 DEF OnlyWanted
<1>2. /\ Core(sessions, session_db, proc) /\ ~ForkFails(proc)
      /\ \A p \in Zombies \cup Stopped : p \in Zombies
      /\ Living = {p \in Pid : proc[p].state = "live"}
      /\ proc \in [Pid -> Process]
  BY ForkWorks, OnlyZombies DEF Inv, Core
<1>3. CASE runcom \/ single_user
  <2>1. PICK r \in {"rc", "shell", "orphan"} : \E f \in Forked(proc, Child(r)) : proc' = f.table
    BY <1>2, <1>3 DEF runcom, single_user
  <2>3. PICK f \in Forked(proc, Child(r)) : proc' = f.table  BY <2>1
  <2>2. /\ proc'[f.pid].role = r
        /\ \A p \in Pid \ {f.pid} : proc'[p] = proc[p]
    BY <1>2, <2>3, ForkedChild
  <2> QED  BY <2>1, <2>2 DEF OnlyWanted
<1>4. CASE WaitForScript \/ WaitForShell
  BY <1>2, <1>4, CollectWanted DEF WaitForScript, WaitForShell
<1>5. CASE StartLogins
  <2>1. CASE UNCHANGED proc  BY <2>1, <1>1
  <2>2. ASSUME NEW l \in ToStart,
               start_getty(l, KeptFlags(sessions[l].launch), proc, session_db, sessions)
        PROVE  OnlyWanted
    <3>1. l \in Line /\ sessions[l] # NoSession /\ sessions[l].process = NoPid /\ Scalars
      BY DEF ToStart, Present, Idle, Inv
    <3> DEFINE flags == KeptFlags(sessions[l].launch)
    <3>2. flags \in SUBSET {"ONERROR", "ONOPTION"}
      BY <1>2, <3>1 DEF Core, Session, KeptFlags
    <3>3. start_getty(l, flags, proc, session_db, sessions)  BY <2>2
    <3> HIDE DEF flags
    <3>4. \E q \in Pid : /\ proc'[q].line = l
                         /\ \A p \in Pid \ {q} : proc'[p] = proc[p]
      BY <1>2, <3>1, <3>2, <3>3, Started
    <3>5. ~sessions[l].shutdown  BY <3>1 DEF Inv, Served, LeavingServed
    <3> QED  BY <3>4, <3>5 DEF OnlyWanted
  <2> QED  BY <1>5, <2>1, <2>2 DEF StartLogins
<1>6. CASE WaitForLogin
  <2>1. CASE UNCHANGED proc  BY <2>1, <1>1
  <2>2. ASSUME NEW p \in Zombies,
               collect_child(p, After(p),
                 IF Present # {} /\ session_db[p] # NoLine
                 THEN [sessions EXCEPT ![session_db[p]].launch = @ \cup {Flag(proc[p].status)}]
                 ELSE sessions)
        PROVE  OnlyWanted
    <3>1. \A r \in Pid :
            \/ proc'[r] = proc[r]
            \/ r = p /\ proc'[r] = Free
            \/ /\ proc'[r].line = session_db[p]
               /\ ~sessions[session_db[p]].shutdown
      BY <2>2, LoginCollected DEF Inv, Noted
    <3> QED  BY <3>1, NewProcess DEF OnlyWanted
  <2> QED  BY <1>6, <2>1, <2>2 DEF WaitForLogin
<1>7. CASE Kill
  <2>1. \A p \in Pid : proc'[p] = proc[p] \/ proc'[p] = Killed(p)
    BY <1>2, <1>7 DEF Kill
  <2>2. \A p \in Pid : Killed(p).state = "zombie"  BY <1>2 DEF Killed, Process
  <2> QED  BY <2>1, <2>2 DEF OnlyWanted
<1>8. CASE WaitForDeath
  BY <1>1, <1>8, CollectWanted DEF WaitForDeath
<1>9. CASE Processes
  BY <1>9, ChildrenStep DEF Processes, OnlyWanted
<1>10. CASE ScriptEnded \/ ShellTest \/ read_ttys \/ multi_user \/ MultiUserTest
            \/ clean_ttys \/ catatonia \/ death
  BY <1>1, <1>10
  DEF ScriptEnded, ShellTest, read_ttys, multi_user, MultiUserTest, clean_ttys, catatonia,
      death
<1>13. CASE DeathTest
  <2>1. \A r \in Pid : Outlive[r].state = "live" => Outlive[r].outlived
    BY <1>2, CoreOutlive
  <2>2. proc' = Outlive \/ proc' = proc  BY <1>13 DEF DeathTest
  <2>3. CASE proc' = Outlive  BY <2>1, <2>3 DEF OnlyWanted
  <2> QED  BY <1>1, <2>2, <2>3
<1>11. CASE alrm_handler \/ (\E sig \in Signals : transition_handler(sig))
  BY <1>1, <1>11 DEF alrm_handler, transition_handler
<1>12. CASE UNCHANGED vars  BY <1>1, <1>12 DEF vars
<1> QED
  BY <1>3, <1>4, <1>5, <1>6, <1>7, <1>8, <1>9, <1>10, <1>11, <1>12, <1>13 DEF Next, Steps

(* A session that is to be shut down gets no new login.                       *)
THEOREM ShutdownIsFinal == ASSUME WellBehaved PROVE Spec => NoLoginAfterShutdown
<1>1. Inv /\ Inv' /\ [Next]_vars =>
        [\A l \in Present : sessions[l].shutdown => LoginsOn(l)' \subseteq LoginsOn(l)]_vars
  <2> SUFFICES ASSUME Inv, Inv', [Next]_vars, NEW l \in Present, sessions[l].shutdown,
                      NEW p \in LoginsOn(l)'
               PROVE  p \in LoginsOn(l)
    OBVIOUS
  <2>1. OnlyWanted  BY LoginsWanted
  <2>2. /\ p \in Pid /\ proc'[p].state = "live"
        /\ proc'[p].role = "login" /\ proc'[p].line = l /\ ~proc'[p].outlived
    BY DEF LoginsOn, Living, Inv, Core
  <2>3. sessions[l] # NoSession  BY DEF Present
  <2>4. proc'[p] = proc[p]  BY <2>1, <2>2, <2>3 DEF OnlyWanted
  <2> QED  BY <2>2, <2>4 DEF LoginsOn, Living
<1> QED  BY <1>1, Invariance, PTL DEF Spec, NoLoginAfterShutdown

(* death returns when nothing is left, or after the third round's time is up,   *)
(* or with an ECHILD in errno that was there before it began.                   *)
THEOREM Thorough == ASSUME WellBehaved PROVE Spec => DeathIsThorough
<1>1. Inv /\ [Next]_vars =>
        [DeathReturns => Living = {} \/ (round = 3 /\ clang) \/ errno = "old"]_vars
  <2> SUFFICES ASSUME Inv, Next, pc \in {"kill", "death_test"}, pc' = "single_user"
               PROVE  Living = {} \/ (round = 3 /\ clang) \/ errno = "old"
    BY DEF DeathReturns
  <2>1. CASE Kill  BY <2>1 DEF Kill
  <2>2. CASE DeathTest
    <3>1. errno \in {"ECHILD", "old"} \/ (clang /\ ~(round < 3))
      BY <2>2 DEF DeathTest, NoneLeft, LastRound, Inv, Scalars
    <3>2. CASE errno = "ECHILD"
      BY <3>2, OnlyZombies DEF Inv, Quiet, Dying, NoneLives
    <3>3. CASE clang /\ ~(round < 3)  BY <3>3 DEF Inv, Scalars
    <3> QED  BY <3>1, <3>2, <3>3
  <2>3. CASE Processes  BY <2>3 DEF Processes
  <2>4. CASE alrm_handler \/ \E sig \in Signals : transition_handler(sig)
    BY <2>4, Interrupted DEF Inv, Scalars, alrm_handler, transition_handler
  <2>5. ~(runcom \/ WaitForScript \/ ScriptEnded \/ single_user \/ WaitForShell \/ ShellTest)
    BY DEF runcom, WaitForScript, ScriptEnded, single_user, WaitForShell, ShellTest
  <2>6. ~(read_ttys \/ multi_user \/ StartLogins \/ MultiUserTest \/ WaitForLogin)
    BY DEF read_ttys, multi_user, StartLogins, MultiUserTest, WaitForLogin
  <2>7. ~(clean_ttys \/ catatonia \/ death \/ WaitForDeath)
    BY DEF clean_ttys, catatonia, death, WaitForDeath
  <2> QED  BY <2>1, <2>2, <2>3, <2>4, <2>5, <2>6, <2>7 DEF Next, Steps
<1> QED  BY <1>1, Invariance, PTL DEF Spec, DeathIsThorough

------------------------------------------------------------------------------
(* What runs next on a line *)

(* Where no fork fails, the flags of a session are used as soon as they are set. *)
Plain == \A l \in Line : sessions[l] # NoSession => sessions[l].launch = {}

LEMMA CollectPlain ==
  ASSUME WellBehaved, Inv, Plain, NEW p \in Zombies, collect_child(p, After(p), sessions)
  PROVE  Plain'
<1>1. /\ Core(sessions, session_db, proc) /\ Scalars
      /\ sessions \in [Line -> Session \cup {NoSession}] /\ p \in Pid
  BY DEF Inv, Core, Zombies
<1>2. session_db[p] \in Line => sessions[session_db[p]] # NoSession
  BY <1>1 DEF Core
<1>3. \A k \in Line : sessions'[k] # NoSession =>
        /\ sessions[k] # NoSession
        /\ sessions'[k].launch = IF k = session_db[p] THEN {} ELSE sessions[k].launch
  BY <1>1, <1>2, Collected
<1> QED  BY <1>3 DEF Plain

LEMMA PlainStep == ASSUME WellBehaved, Inv, Plain, [Next]_vars PROVE Plain'
<1>1. CASE UNCHANGED sessions  BY <1>1 DEF Plain
<1>2. /\ Core(sessions, session_db, proc) /\ ~ForkFails(proc) /\ Scalars
      /\ \A p \in Zombies \cup Stopped : p \in Zombies
      /\ sessions \in [Line -> Session \cup {NoSession}] /\ NoSession \notin Session
  BY ForkWorks, OnlyZombies, ConfigAssumption DEF Inv, Core
<1>3. CASE WaitForScript \/ WaitForShell
  BY <1>2, <1>3, CollectPlain DEF WaitForScript, WaitForShell
<1>4. CASE WaitForDeath
  BY <1>1, <1>4, CollectPlain DEF WaitForDeath
<1>5. CASE read_ttys  BY <1>5 DEF read_ttys, NewSession, Plain
<1>6. CASE StartLogins
  <2>1. ASSUME NEW l \in ToStart,
               start_getty(l, KeptFlags(sessions[l].launch), proc, session_db, sessions)
        PROVE  Plain'
    <3>1. l \in Line /\ sessions[l] # NoSession /\ sessions[l].process = NoPid
      BY DEF ToStart, Present, Idle
    <3>2. sessions[l].launch = {}  BY <3>1 DEF Plain
    <3>3. start_getty(l, {}, proc, session_db, sessions)  BY <2>1, <3>2 DEF KeptFlags
    <3>4. /\ sessions'[l].launch = {}
          /\ \A k \in Line \ {l} : sessions'[k] = sessions[k]
      BY <1>2, <3>1, <3>3, Started
    <3> QED  BY <3>4 DEF Plain
  <2> QED  BY <1>1, <1>6, <2>1 DEF StartLogins
<1>7. CASE WaitForLogin
  <2>1. ASSUME NEW p \in Zombies, collect_child(p, After(p), Noted(p))
        PROVE  Plain'
    <3>1. \A k \in Line : sessions'[k] # NoSession =>
            /\ sessions[k] # NoSession
            /\ sessions'[k].launch = IF k = session_db[p] THEN {} ELSE sessions[k].launch
      BY <1>2, <2>1, LoginCollected
    <3> QED  BY <3>1 DEF Plain
  <2> QED  BY <1>1, <1>7, <2>1 DEF WaitForLogin, Noted
<1>8. CASE clean_ttys
  <2>1. \A l \in Line :
          \/ sessions'[l] = sessions[l]
          \/ /\ sessions[l] # NoSession
             /\ \E off \in BOOLEAN : sessions'[l] = [sessions[l] EXCEPT !.shutdown = off]
          \/ sessions'[l] \in {NewSession, NoSession}
    BY <1>8, CleanedLine
  <2>2. \A l \in Line, off \in BOOLEAN : sessions[l] # NoSession =>
          [sessions[l] EXCEPT !.shutdown = off].launch = sessions[l].launch
    BY <1>2 DEF Session
  <2>3. NewSession.launch = {}  BY DEF NewSession
  <2> QED  BY <2>1, <2>2, <2>3 DEF Plain
<1>9. CASE catatonia \/ death
  <2>1. \A l \in Line : sessions'[l] = IF sessions[l] # NoSession
                                       THEN [sessions[l] EXCEPT !.shutdown = TRUE]
                                       ELSE NoSession
    BY <1>9 DEF catatonia, death, AllShutdown, Present
  <2>2. \A l \in Line : sessions[l] # NoSession =>
          [sessions[l] EXCEPT !.shutdown = TRUE].launch = sessions[l].launch
    BY <1>2 DEF Session
  <2> QED  BY <2>1, <2>2 DEF Plain
<1>10. CASE runcom \/ ScriptEnded \/ single_user \/ ShellTest \/ multi_user \/ MultiUserTest
            \/ Kill \/ DeathTest \/ Processes
  BY <1>1, <1>10
  DEF runcom, ScriptEnded, single_user, ShellTest, multi_user, MultiUserTest, Kill, DeathTest,
      Processes
<1>11. CASE alrm_handler \/ (\E sig \in Signals : transition_handler(sig))
  BY <1>1, <1>11 DEF alrm_handler, transition_handler
<1>12. CASE UNCHANGED vars  BY <1>1, <1>12 DEF vars
<1> QED
  BY <1>3, <1>4, <1>5, <1>6, <1>7, <1>8, <1>9, <1>10, <1>11, <1>12 DEF Next, Steps

(* What start_getty makes of one flag.                                        *)
LEMMA CommandFits ==
  ASSUME NEW status, NEW l \in Line
  PROVE  /\ status = "console" /\ l \in OnOption =>
              CommandFor({Flag(status)}, l) = "onoption"
         /\ status # "console" /\ l \in OnError =>
              CommandFor({Flag(status)}, l) = "onerror"
<1>1. {"ONOPTION"} # {"ONERROR"}  OBVIOUS
<1> QED  BY <1>1 DEF CommandFor, Flag

(* An ended child stays so until init waits for it.                           *)
LEMMA ZombiesStay ==
  ASSUME Inv, Inherit \/ \E i \in Pid : Exit(i) \/ Stop(i)
  PROVE  \A i \in Pid : proc[i].state = "zombie" => proc'[i] = proc[i]
<1>1. proc \in [Pid -> Process]  BY DEF Inv, Core
<1>2. CASE Inherit
  BY <1>1, <1>2 DEF Inherit, Forked, Unused
<1>3. ASSUME NEW j \in Pid, Exit(j) \/ Stop(j)
      PROVE  \A i \in Pid : proc[i].state = "zombie" => proc'[i] = proc[i]
  BY <1>1, <1>3 DEF Exit, Stop
<1> QED  BY <1>2, <1>3

LEMMA InvPlain == ASSUME WellBehaved PROVE Spec => [](Inv /\ Plain)
<1>1. Init => Inv /\ Plain  BY InitInv DEF Init, Plain
<1>2. Inv /\ Plain /\ [Next]_vars => (Inv /\ Plain)'  BY NextInv, PlainStep
<1> QED  BY <1>1, <1>2, PTL DEF Spec

(* What runs next on a line fits the way the last login on it ended.          *)
THEOREM NextFitsExit == ASSUME WellBehaved PROVE Spec => FitsExit
<1> DEFINE Fits == \A l \in Line, p \in Zombies :
             /\ pc = "mu_wait" /\ session_db[p] = l /\ proc'[p] # proc[p]
             /\ l \in Present' /\ sessions'[l].process # NoPid
             => \A q \in LoginsOn(l)' :
                  /\ proc[p].status = "console" /\ l \in OnOption => proc'[q].command = "onoption"
                  /\ proc[p].status # "console" /\ l \in OnError => proc'[q].command = "onerror"
<1>1. Inv /\ Plain /\ Inv' /\ [Next]_vars => [Fits]_vars
  <2> SUFFICES ASSUME Inv, Plain, Inv', Next, NEW l \in Line, NEW p \in Zombies,
                      pc = "mu_wait", session_db[p] = l, proc'[p] # proc[p],
                      l \in Present', sessions'[l].process # NoPid, NEW q \in LoginsOn(l)'
               PROVE  /\ proc[p].status = "console" /\ l \in OnOption =>
                           proc'[q].command = "onoption"
                      /\ proc[p].status # "console" /\ l \in OnError =>
                           proc'[q].command = "onerror"
    OBVIOUS
  <2> SUFFICES proc'[q].command = CommandFor({Flag(proc[p].status)}, l)
    BY CommandFits
  <2>1. /\ Core(sessions, session_db, proc) /\ Scalars
        /\ p \in Pid /\ proc[p].state = "zombie" /\ proc \in [Pid -> Process]
        /\ sessions \in [Line -> Session \cup {NoSession}]
        /\ sessions[l] # NoSession /\ sessions[l].process = p
    BY DEF Inv, Core, Zombies
  <2>2. CASE WaitForLogin
    <3>1. PICK r \in Zombies : collect_child(r, After(r), Noted(r))
      BY <2>2 DEF WaitForLogin, Noted
    <3>2. \A i \in Pid :
            \/ proc'[i] = proc[i]
            \/ i = r /\ proc'[i] = Free
            \/ /\ proc'[i].line = session_db[r]
               /\ i = r \/ proc[i].state = "free"
               /\ proc'[i].command = CommandFor(Noted(r)[session_db[r]].launch, session_db[r])
      BY <2>1, <3>1, LoginCollected
    <3>3. r = p  BY <2>1, <3>2
    <3>4. Noted(p)[l].launch = {Flag(proc[p].status)}
      <4>1. Noted(p) = [sessions EXCEPT ![l].launch = @ \cup {Flag(proc[p].status)}]
        BY <2>1, ConfigAssumption DEF Noted, Present
      <4>2. sessions[l] \in Session /\ sessions[l].launch = {}  BY <2>1 DEF Plain
      <4> QED  BY <2>1, <4>1, <4>2 DEF Session
    <3>5. /\ q \in Pid /\ proc'[q].state = "live"
          /\ proc'[q].role = "login" /\ proc'[q].line = l /\ ~proc'[q].outlived
      BY DEF LoginsOn, Living, Inv, Core
    <3>6. proc[q] # proc'[q]
      BY <2>1, <3>5 DEF Core
    <3>7. proc'[q] # Free  BY <3>5, NewProcess
    <3> QED  BY <3>2, <3>3, <3>4, <3>5, <3>6, <3>7
  <2>3. CASE Processes
    <3>1. Inherit \/ \E i \in Pid : Exit(i) \/ Stop(i)  BY <2>3 DEF Processes
    <3>2. \A i \in Pid : proc[i].state = "zombie" => proc'[i] = proc[i]
      BY <3>1, ZombiesStay
    <3> QED  BY <2>1, <3>2
  <2>4. ~(runcom \/ WaitForScript \/ ScriptEnded \/ single_user \/ WaitForShell \/ ShellTest)
    BY DEF runcom, WaitForScript, ScriptEnded, single_user, WaitForShell, ShellTest
  <2>5. ~(read_ttys \/ multi_user \/ StartLogins \/ MultiUserTest \/ Kill \/ DeathTest)
    BY DEF read_ttys, multi_user, StartLogins, MultiUserTest, Kill, DeathTest
  <2>6. ~(clean_ttys \/ catatonia \/ death \/ WaitForDeath)
    BY DEF clean_ttys, catatonia, death, WaitForDeath
  <2>7. ~(alrm_handler \/ \E sig \in Signals : transition_handler(sig))
    BY DEF alrm_handler, transition_handler
  <2> QED  BY <2>2, <2>3, <2>4, <2>5, <2>6, <2>7 DEF Next, Steps
<1> QED  BY <1>1, InvPlain, PTL DEF Spec, FitsExit

------------------------------------------------------------------------------
(* The diagram, whatever fails *)

Ways == pc \in Place /\ Requests

LEMMA Modes ==
  /\ \A p \in {"single_user", "su_wait", "su_test", "exited"} : ModeOf(p) = "single user"
  /\ \A p \in {"boot", "boot_wait", "boot_test", "runcom", "rc_wait", "rc_test", "halted"} :
       ModeOf(p) = "rc"
  /\ ModeOf("read_ttys") = "read ttys"
  /\ \A p \in MultiUser : ModeOf(p) = "multi-user"
  /\ ModeOf("clean_ttys") = "clean up"
  /\ \A p \in {"death", "kill", "death_wait", "death_test"} : ModeOf(p) = "death"
  BY DEF ModeOf, MultiUser

(* A fork that fails asks for another turn of multi_user, no more.            *)
LEMMA StartAsks ==
  ASSUME NEW l, NEW flags, NEW STATE table, NEW STATE db, NEW STATE known,
         start_getty(l, flags, table, db, known)
  PROVE  requested_transition' \in {requested_transition, "clean_ttys"}
  BY DEF start_getty, Retry

LEMMA CollectAsks ==
  ASSUME NEW p, NEW STATE table, NEW STATE known, collect_child(p, table, known)
  PROVE  requested_transition' \in {requested_transition, "clean_ttys"}
  BY StartAsks DEF collect_child

(* A step stays in its mode or takes a way of the diagram.                    *)
Follows == Diagram!Next \/ ModeOf(pc') = ModeOf(pc)

LEMMA WaysStep == ASSUME Ways, [Next]_vars PROVE Ways' /\ Follows
<1> DEFINE Asked == {"runcom", "single_user", "clean_ttys", "death", "catatonia"}
           Rc    == {"boot", "boot_wait", "boot_test", "runcom", "rc_wait", "rc_test", "halted"}
           Su    == {"single_user", "su_wait", "su_test", "exited"}
<1>1. /\ pc \in Place
      /\ requested_transition \in Asked \cup {"none"}
      /\ pc \in {"mu_start", "mu_test", "mu_wait"} =>
           requested_transition \notin {"runcom", "single_user"}
      /\ pc \in {"boot", "boot_wait", "boot_test"} => requested_transition # "none"
  BY DEF Ways, Requests, Booting
<1>2. CASE UNCHANGED <<pc, requested_transition>>
  BY <1>2 DEF Ways, Requests, Booting, Follows
<1>3. CASE runcom \/ WaitForScript \/ ScriptEnded
  <2>1. /\ pc \in Rc
        /\ \/ pc' \in {"boot_wait", "boot_test"} /\ pc \in {"boot", "boot_wait"}
              /\ requested_transition' \in {requested_transition, "clean_ttys"}
           \/ pc' \in {"rc_wait", "rc_test", "halted", "read_ttys", "single_user"} \cup Asked
              /\ requested_transition' \in {requested_transition, "clean_ttys", "single_user"}
    <3>1. CASE runcom  BY <1>1, <3>1 DEF runcom, RuncomReturns, Booting
    <3>2. CASE WaitForScript  BY <3>2, CollectAsks DEF WaitForScript, Booting
    <3>3. CASE ScriptEnded  BY <1>1, <3>3 DEF ScriptEnded, RuncomReturns, Booting
    <3> QED  BY <1>3, <3>1, <3>2, <3>3
  <2>2. pc' \in Place  BY <2>1 DEF Place, Waiting, MultiUser
  <2>3. Requests'  BY <1>1, <2>1 DEF Requests, Booting
  <2>4. "catatonia" \in MultiUser  BY DEF MultiUser
  <2>5. Follows
    BY <2>1, <2>4, Modes
    DEF Follows, Diagram!Next, Diagram!RcFails, Diagram!RcSucceeds, Diagram!Interrupted
  <2> QED  BY <2>2, <2>3, <2>5 DEF Ways
<1>4. CASE single_user \/ WaitForShell \/ ShellTest
  <2>1. /\ pc \in Su /\ pc' \in {"su_wait", "su_test", "exited"} \cup Asked
        /\ requested_transition' \in {requested_transition, "none", "clean_ttys"}
    <3>1. CASE single_user  BY <3>1 DEF single_user
    <3>2. CASE WaitForShell  BY <3>2, CollectAsks DEF WaitForShell
    <3>3. CASE ShellTest  BY <1>1, <3>3 DEF ShellTest
    <3> QED  BY <1>4, <3>1, <3>2, <3>3
  <2>2. pc' \in Place  BY <2>1 DEF Place, Waiting, MultiUser
  <2>3. Requests'  BY <1>1, <2>1 DEF Requests, Booting
  <2>4. "catatonia" \in MultiUser  BY DEF MultiUser
  <2>5. Follows
    BY <2>1, <2>4, Modes
    DEF Follows, Diagram!Next, Diagram!ShellExits, Diagram!Interrupted
  <2> QED  BY <2>2, <2>3, <2>5 DEF Ways
<1>5. CASE read_ttys
  <2>1. /\ pc = "read_ttys" /\ pc' \in {"multi_user", "single_user"}
        /\ requested_transition' = requested_transition
    BY <1>5 DEF read_ttys
  <2>2. pc' \in Place  BY <2>1 DEF Place, MultiUser
  <2>3. Requests'  BY <1>1, <2>1 DEF Requests, Booting
  <2>4. "multi_user" \in MultiUser  BY DEF MultiUser
  <2>5. Follows
    BY <2>1, <2>4, Modes DEF Follows, Diagram!Next, Diagram!TtysRead, Diagram!NoSessions
  <2> QED  BY <2>2, <2>3, <2>5 DEF Ways
<1>6. CASE multi_user \/ StartLogins \/ MultiUserTest \/ WaitForLogin \/ catatonia
  <2>1. /\ pc \in MultiUser
        /\ \/ pc' \in {"mu_start", "mu_test", "mu_wait"}
              /\ requested_transition' \in {"none", "clean_ttys"}
           \/ pc' \in {"mu_start", "mu_test"} /\ pc \in {"mu_start", "mu_wait"}
              /\ requested_transition' = requested_transition
           \/ pc' \in {"multi_user", "clean_ttys", "death", "catatonia"}
              /\ requested_transition' = requested_transition
    <3>1. CASE multi_user  BY <3>1 DEF multi_user, MultiUser
    <3>2. CASE StartLogins
      <4>1. pc = "mu_start" /\ pc' \in {"mu_start", "mu_test"}  BY <3>2 DEF StartLogins
      <4>2. requested_transition' \in {requested_transition, "clean_ttys"}
        BY <3>2, StartAsks DEF StartLogins
      <4> QED  BY <4>1, <4>2 DEF MultiUser
    <3>3. CASE MultiUserTest  BY <1>1, <3>3 DEF MultiUserTest, MultiUser
    <3>4. CASE WaitForLogin
      <4>1. pc = "mu_wait" /\ pc' = "mu_test"  BY <3>4 DEF WaitForLogin
      <4>2. requested_transition' \in {requested_transition, "clean_ttys"}
        BY <3>4, CollectAsks DEF WaitForLogin
      <4> QED  BY <4>1, <4>2 DEF MultiUser
    <3>5. CASE catatonia  BY <3>5 DEF catatonia, MultiUser
    <3> QED  BY <1>6, <3>1, <3>2, <3>3, <3>4, <3>5
  <2>2. pc' \in Place  BY <2>1 DEF Place, Waiting, MultiUser
  <2>3. Requests'  BY <1>1, <2>1 DEF Requests, Booting
  <2>4. pc' \in MultiUser \cup {"clean_ttys", "death"}  BY <2>1 DEF MultiUser
  <2>5. Follows
    BY <2>1, <2>4, Modes DEF Follows, Diagram!Next, Diagram!Terminate, Diagram!Hangup
  <2> QED  BY <2>2, <2>3, <2>5 DEF Ways
<1>7. CASE clean_ttys
  <2>1. /\ pc = "clean_ttys" /\ pc' = "multi_user"
        /\ requested_transition' = requested_transition
    BY <1>7 DEF clean_ttys
  <2>2. pc' \in Place  BY <2>1 DEF Place, MultiUser
  <2>3. Requests'  BY <1>1, <2>1 DEF Requests, Booting
  <2>4. "multi_user" \in MultiUser  BY DEF MultiUser
  <2>5. Follows  BY <2>1, <2>4, Modes DEF Follows, Diagram!Next, Diagram!CleanedUp
  <2> QED  BY <2>2, <2>3, <2>5 DEF Ways
<1>8. CASE death \/ Kill \/ WaitForDeath \/ DeathTest
  <2>1. /\ pc \in {"death", "kill", "death_wait", "death_test"}
        /\ pc' \in {"kill", "death_wait", "death_test", "single_user"}
        /\ requested_transition' \in {requested_transition, "clean_ttys"}
    <3>1. CASE death  BY <3>1 DEF death
    <3>2. CASE Kill  BY <3>2 DEF Kill
    <3>3. CASE WaitForDeath  BY <3>3, CollectAsks DEF WaitForDeath
    <3>4. CASE DeathTest  BY <3>4 DEF DeathTest
    <3> QED  BY <1>8, <3>1, <3>2, <3>3, <3>4
  <2>2. pc' \in Place  BY <2>1 DEF Place, Waiting
  <2>3. Requests'  BY <1>1, <2>1 DEF Requests, Booting
  <2>4. Follows  BY <2>1, Modes DEF Follows, Diagram!Next, Diagram!AllDead
  <2> QED  BY <2>2, <2>3, <2>4 DEF Ways
<1>9. CASE alrm_handler \/ \E sig \in Signals : transition_handler(sig)
  <2>1. Interrupt  BY <1>9 DEF alrm_handler, transition_handler
  <2>2. requested_transition' \in {requested_transition, "clean_ttys", "death", "catatonia"}
    BY <1>9, ConfigAssumption DEF alrm_handler, transition_handler, TransitionFor
  <2>3. \/ pc' = pc
        \/ pc = "su_wait" /\ pc' = "su_test"
        \/ pc = "mu_wait" /\ pc' = "mu_test"
        \/ pc = "death_wait" /\ pc' = "death_test"
    BY <1>1, <2>1, Interrupted
  <2>4. pc' \in Place  BY <1>1, <2>3 DEF Place, MultiUser
  <2>5. Requests'  BY <1>1, <2>2, <2>3 DEF Requests, Booting
  <2>6. {"mu_wait", "mu_test"} \subseteq MultiUser  BY DEF MultiUser
  <2>7. Follows  BY <2>3, <2>6, Modes DEF Follows
  <2> QED  BY <2>4, <2>5, <2>7 DEF Ways
<1>10. CASE Processes \/ UNCHANGED vars  BY <1>2, <1>10 DEF Processes, vars
<1> QED
  BY <1>3, <1>4, <1>5, <1>6, <1>7, <1>8, <1>9, <1>10 DEF Next, Steps

(* init keeps to the ways of its diagram, whatever fails or is stopped.       *)
THEOREM DiagramKept == Spec => Diagram!Init /\ [][Diagram!Next]_(ModeOf(pc))
<1>1. Init => Ways /\ Diagram!Init
  BY Modes DEF Init, Ways, Place, Requests, Booting, Diagram!Init
<1>2. Ways /\ [Next]_vars => Ways' /\ [Diagram!Next]_(ModeOf(pc))
  BY WaysStep DEF Follows
<1> QED  BY <1>1, <1>2, PTL DEF Spec
==============================================================================
