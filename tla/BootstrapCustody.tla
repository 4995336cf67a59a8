-------------------------- MODULE BootstrapCustody ---------------------------
(***************************************************************************)
(* What mach_init and well-behaved tasks keep together: who receives on    *)
(* the port of a service, that what is offered will come back, that no     *)
(* death goes unnoticed, and that running servers are counted.             *)
(***************************************************************************)
EXTENDS BootstrapProofs, FiniteSetTheorems

\* One name per port, one use per requestor port, no server lost between a
\* check_in and its reply, no failure to launch.
WellBehaved == Env = {}

------------------------------------------------------------------------------
(* The invariant. *)

\* The three ways in which mach_init uses a port that it was given.
Ported    == {v \in services : v.servicetype # "SELF" /\ v.port # PORT_NULL}
Requested == {b \in bootstraps : b.requestor_port # PORT_NULL}
Queued    == {r \in inbox : r.arg # PORT_NULL}
Used      == {v.port : v \in Ported} \cup {b.requestor_port : b \in Requested}
             \cup {r.arg : r \in Queued}

\* A port has one use.
Distinct ==
  /\ \A v, w \in Ported : v.port = w.port => v = w
  /\ \A b, c \in Requested : b.requestor_port = c.requestor_port => b = c
  /\ \A q, r \in Queued : q.arg = r.arg => q = r
  /\ \A v \in Ported, b \in Requested : v.port # b.requestor_port
  /\ \A v \in Ported, r \in Queued : v.port # r.arg
  /\ \A b \in Requested, r \in Queued : b.requestor_port # r.arg

\* The ports of subsets and tasks have no other use.
Special == BootstrapPorts \cup {INHERITED} \cup TaskPorts
Apart   == Used \cap Special = {}

\* What is used has been allocated.
Known     == Used \cup Special \cup {port[s] : s \in Servers} \cup backed
             \cup {r.port : r \in inbox}
Allocated == \A p \in Known \cap Port : recv[p] # Free

\* Ports of servers and subsets are told apart, and mach_init receives on the
\* latter.
Addresses ==
  /\ \A s, t \in Servers : port[s] = port[t] /\ port[s] # PORT_NULL => s = t
  /\ \A s, t \in Servers :
       task_port[s] = task_port[t] /\ task_port[s] # PORT_NULL => s = t
  /\ \A s \in Servers : port[s] \notin BootstrapPorts
  /\ \A b \in bootstraps : b.bootstrap_port # ROOT
  /\ \A p \in BootstrapPorts : recv[p] = Broker
  /\ \A v \in services : v.servicetype = "SELF" => v.port = ROOT /\ v.isActive
  /\ \A s \in Servers : task_port[s] # INHERITED

\* A request on a server's privileged port is that server's; what it brings
\* is the sender's or dead; and who checks in is alive.
Requests ==
  \A r \in inbox :
    /\ \A s \in Servers : r.port = port[s] => r.from = s
    /\ r.arg # PORT_NULL => recv[r.arg] \in {r.from, Dead} /\ r.arg \notin backed
    /\ r.op = "check_in" => r.from \in alive

\* A task has received rights that are backed up only with a service.
Backup ==
  \A p \in backed :
    recv[p] = Broker \/ (recv[p] \in Task
                         /\ \E v \in Ported : v.port = p /\ v.bootstrap = ROOT)

\* mach_init can be told about the death of what it uses.
Rights ==
  /\ ROOT \in rights
  /\ \A v \in Ported : v.port \in rights
  /\ \A b \in Requested : b.requestor_port \in rights
  /\ \A s \in Servers : task_port[s] # PORT_NULL => task_port[s] \in rights

\* A server lives as long as its task port.
Launched ==
  /\ \A s \in unstarted : s \notin alive /\ task_port[s] = PORT_NULL
  /\ \A s \in Servers : s \in alive => recv[task_port[s]] = s
  /\ \A s \in Servers :
       task_port[s] # PORT_NULL /\ s \notin alive => recv[task_port[s]] = Dead
  /\ \A s \in Servers \ unstarted : ServerType[s] = "ETCINIT" => s \in alive

\* running_servers is the number of servers that run or whose death is still
\* to be handled; there are finitely many, however many are configured.
Running == {s \in Servers : /\ ServerType[s] # "ETCINIT"
                            /\ s \in alive \/ task_port[s] \in notices}
Tally   == running_servers = Cardinality(Running) /\ IsFiniteSet(Running)

Structure == Distinct /\ Apart /\ Allocated /\ Addresses
Dealings  == Requests /\ Backup /\ Rights /\ Launched
Custodial == /\ ActiveIffServed /\ InactiveIsBacked
             /\ PrivilegedCustody /\ DeathIsNoticed

Good == Structure /\ Dealings /\ Custodial /\ Tally
WInv == Inv /\ Good

------------------------------------------------------------------------------
(* Consequences. *)

LEMMA UsedFacts ==
  ASSUME TypeOK
  PROVE  /\ Used \subseteq Known /\ Special \subseteq Known
         /\ Used \subseteq Port
         /\ \A v \in Ported : v \in services /\ v.port \in Port /\ v.port \in Used
         /\ \A b \in Requested : b \in bootstraps /\ b.requestor_port \in Port
                                 /\ b.requestor_port \in Used
         /\ \A r \in Queued : r \in inbox /\ r.arg \in Port /\ r.arg \in Used
         /\ \A s \in Servers : task_port[s] # PORT_NULL =>
              task_port[s] \in Port /\ task_port[s] \in Special
         /\ BootstrapPorts \subseteq Special /\ BootstrapPorts \subseteq Port
BY LookupIsBootstrap
   DEF TypeOK, Used, Special, Known, Ported, Requested, Queued, TaskPorts,
       Service, BootstrapRec, Request

\* Everything Good says of receivers it says of known ports.
LEMMA KnownSuffice ==
  ASSUME WInv, recv' \in [Port -> Holder],
         \A p \in Known \cap Port : recv'[p] = recv[p],
         UNCHANGED <<backed, rights, notices, inbox, alive, services, bootstraps,
                     port, task_port, running_servers, unstarted>>
  PROVE  Good'
<1> USE DEF WInv, Inv, Good, Structure, Dealings, Custodial
<1>1. UNCHANGED <<Ported, Requested, Queued, Used, TaskPorts, BootstrapPorts,
                  Special, Known>>
  BY DEF Ported, Requested, Queued, Used, TaskPorts, BootstrapPorts, Special, Known
<1>2. Structure'
  <2>1. Distinct' /\ Apart' /\ Allocated'
    BY <1>1 DEF Distinct, Apart, Allocated
  <2>2. BootstrapPorts \subseteq Known \cap Port
    BY UsedFacts
  <2>3. Addresses'
    BY <1>1, <2>2 DEF Addresses
  <2> QED
    BY <2>1, <2>3
<1>3. Dealings'
  <2>1. Requests'
    BY <1>1, UsedFacts DEF Requests, Queued
  <2>2. Backup'
    BY <1>1, UsedFacts DEF Backup, Known, TypeOK
  <2>3. Rights'
    BY <1>1 DEF Rights
  <2>4. Launched'
    <3>1. \A s \in Servers : task_port[s] # PORT_NULL =>
            recv'[task_port'[s]] = recv[task_port[s]]
      BY UsedFacts
    <3>2. \A s \in Servers : s \in alive => task_port[s] # PORT_NULL
      BY PortFacts DEF LiveHasPort
    <3> QED
      BY <3>1, <3>2 DEF Launched
  <2> QED
    BY <2>1, <2>2, <2>3, <2>4
<1>4. Custodial'
  <2>1. \A v \in services : v.port # PORT_NULL => v.port \in Known \cap Port
    BY UsedFacts, PortFacts
       DEF Ported, Addresses, TypeOK, Service, Known, Special, BootstrapPorts
  <2>2. \A b \in bootstraps : b.requestor_port # PORT_NULL =>
                                b.requestor_port \in Known \cap Port
    BY UsedFacts DEF Requested
  <2> QED
    BY <2>1, <2>2
    DEF ActiveIffServed, InactiveIsBacked, PrivilegedCustody, DeathIsNoticed
<1>5. Tally'
  BY DEF Tally, Running
<1> QED
  BY <1>2, <1>3, <1>4, <1>5

------------------------------------------------------------------------------
(* The tasks. *)

LEMMA AllocateGood ==
  ASSUME WellBehaved, WInv, Inv', NEW t \in Task, AllocatePort(t) PROVE Good'
<1>1. PICK p \in FreePorts : recv' = [recv EXCEPT ![p] = t]
  BY DEF AllocatePort, Lowest
<1>2. p \notin Known
  BY DEF FreePorts, WInv, Good, Structure, Allocated
<1>3. recv' \in [Port -> Holder]
  BY DEF Inv, TypeOK
<1> QED
  BY <1>1, <1>2, <1>3, KnownSuffice
  DEF AllocatePort, lists, procs, WInv, Inv, TypeOK

\* A task sends what is its own and has no other use.
LEMMA SentPort ==
  ASSUME WellBehaved, NEW t \in alive, NEW r \in RequestsOf(t)
  PROVE  /\ r.from = t /\ r.port \in Contacts(t)
         /\ r.arg # PORT_NULL => r.arg \in Own(t) /\ ~InUse(r.arg)
<1>1. /\ \A p \in Registrable(t) \ {PORT_NULL} : p \in Own(t) /\ ~InUse(p)
      /\ \A p \in RequestorPorts(t) : p \in Own(t) /\ ~InUse(p)
  BY DEF WellBehaved, Registrable, RequestorPorts
<1>2. CASE r \in [op : {"register"} \cap Ops, port : Contacts(t),
                  name : Names, arg : Registrable(t), from : {t}]
  BY <1>1, <1>2
<1>3. CASE r \in [op : {"subset"} \cap Ops, port : Contacts(t),
                  name : {NoName}, arg : RequestorPorts(t), from : {t}]
  BY <1>1, <1>3
<1>4. CASE r \in [op : {"check_in", "look_up", "status", "create_service"} \cap Ops,
                  port : Contacts(t), name : Names, arg : {PORT_NULL}, from : {t}]
  BY <1>4
<1>5. CASE r \in [op : {"look_up_array", "info"} \cap Ops, port : Contacts(t),
                  name : {NoName}, arg : {PORT_NULL}, from : {t}]
  BY <1>5
<1> QED
  BY <1>2, <1>3, <1>4, <1>5 DEF RequestsOf

LEMMA SendGood ==
  ASSUME WellBehaved, WInv, Inv', NEW t \in Task, SendRequest(t) PROVE Good'
<1> USE DEF WInv, Inv, Good, Structure, Dealings, Custodial
<1>1. PICK r \in RequestsOf(t) : inbox' = inbox \cup {r}
  BY DEF SendRequest
<1>2. /\ t \in alive
      /\ UNCHANGED <<recv, backed, rights, notices, alive, services, bootstraps,
                     port, task_port, running_servers, unstarted>>
  BY DEF SendRequest, kernel, lists, procs
<1>3. /\ r.from = t /\ r.port \in Contacts(t)
      /\ r.arg # PORT_NULL => r.arg \in Own(t) /\ ~InUse(r.arg)
  BY <1>2, SentPort
<1>4. r.arg # PORT_NULL => /\ r.arg \in Port /\ recv[r.arg] = t
                           /\ r.arg \notin Used /\ r.arg \notin Special
                           /\ r.arg \notin backed
  <2> SUFFICES ASSUME r.arg # PORT_NULL
               PROVE  /\ r.arg \in Port /\ recv[r.arg] = t
                      /\ r.arg \notin Used /\ r.arg \notin Special
                      /\ r.arg \notin backed
    OBVIOUS
  <2>1. r.arg \in Port /\ recv[r.arg] = t /\ r.arg \notin TaskPorts \cup {INHERITED}
    BY <1>3 DEF Own
  <2>2. r.arg \notin Used
    BY <1>3 DEF InUse, Used, Ported, Requested, Queued
  <2>3. r.arg \notin BootstrapPorts
    BY <2>1, HolderFacts DEF Addresses
  <2> QED
    BY <2>1, <2>2, <2>3, HolderFacts DEF Special, Backup, Used
<1>5. r.port \in Known /\ r.port \in Port
  BY <1>2, <1>3, UsedFacts, PortFacts DEF Contacts, LiveHasPort, Known, Special,
     BootstrapPorts
<1>6. /\ Ported' = Ported /\ Requested' = Requested
      /\ Queued' = IF r.arg # PORT_NULL THEN Queued \cup {r} ELSE Queued
      /\ Special' = Special /\ BootstrapPorts' = BootstrapPorts
  BY <1>1, <1>2 DEF Ported, Requested, Queued, Special, TaskPorts, BootstrapPorts
<1>7. Used' = IF r.arg # PORT_NULL THEN Used \cup {r.arg} ELSE Used
  BY <1>6 DEF Used
<1>8. Known' = Known \cup (IF r.arg # PORT_NULL THEN {r.arg} ELSE {})
  BY <1>1, <1>2, <1>5, <1>6, <1>7 DEF Known
<1>9. Structure'
  <2>1. Distinct'
    BY <1>4, <1>6 DEF Distinct, Used
  <2>2. Apart'
    BY <1>4, <1>6, <1>7 DEF Apart
  <2>3. Allocated'
    BY <1>2, <1>4, <1>8, HolderFacts DEF Allocated
  <2>4. Addresses'
    BY <1>2, <1>6 DEF Addresses
  <2> QED
    BY <2>1, <2>2, <2>3, <2>4
<1>10. Dealings'
  <2>1. \A s \in Servers : r.port = port[s] => r.from = s
    BY <1>2, <1>3, PortFacts DEF Contacts, Addresses, LiveHasPort, BootstrapPorts
  <2>2. Requests'
    BY <1>1, <1>2, <1>3, <1>4, <2>1 DEF Requests
  <2>3. Backup' /\ Rights' /\ Launched'
    BY <1>2, <1>6 DEF Backup, Rights, Launched
  <2> QED
    BY <2>2, <2>3
<1>11. Custodial' /\ Tally'
  BY <1>2 DEF ActiveIffServed, InactiveIsBacked, PrivilegedCustody, DeathIsNoticed,
         Tally, Running
<1> QED
  BY <1>9, <1>10, <1>11

\* What t receives is given up; nothing that mach_init uses is lost without its
\* knowing.
LEMMA ReleaseGood ==
  ASSUME WInv, NEW t \in Task, NEW S \in SUBSET Port, Release(S),
         \A p \in S : recv[p] = t,
         UNCHANGED <<rights, inbox, services, bootstraps, port, task_port,
                     running_servers, unstarted>>,
         alive' \subseteq alive, alive \ alive' \subseteq {t},
         t \notin alive' => \A r \in inbox : r.from = t => r.op # "check_in",
         t \in Servers /\ t \notin alive' => ServerType[t] # "ETCINIT",
         t \in Servers =>
           (task_port[t] # PORT_NULL /\ t \in alive =>
             (task_port[t] \in S <=> t \notin alive'))
  PROVE  Good'
<1> USE DEF WInv, Inv, Good, Structure, Dealings, Custodial
<1>1. /\ recv' = [p \in Port |-> IF p \notin S THEN recv[p]
                                 ELSE IF p \in backed THEN Transit ELSE Dead]
      /\ backed' = backed \ S
      /\ notices' = notices \cup ((S \ backed) \cap rights)
  BY DEF Release
<1>2. UNCHANGED <<Ported, Requested, Queued, Used, TaskPorts, BootstrapPorts, Special>>
  BY DEF Ported, Requested, Queued, Used, TaskPorts, BootstrapPorts, Special
<1>3. \A p \in Port : /\ p \notin S => recv'[p] = recv[p]
                      /\ p \in S => recv[p] = t /\ recv'[p] \in {Transit, Dead}
                      /\ p \in S /\ p \notin backed => recv'[p] = Dead
  BY <1>1
<1>4. Structure'
  <2>1. Distinct' /\ Apart'
    BY <1>2 DEF Distinct, Apart
  <2>2. Allocated'
    <3>1. Known' \subseteq Known
      BY <1>1, <1>2 DEF Known
    <3> QED
      BY <1>3, <3>1, HolderFacts DEF Allocated
  <2>3. Addresses'
    <3>1. \A p \in BootstrapPorts : p \in Port /\ p \notin S
      BY UsedFacts, HolderFacts DEF Addresses
    <3> QED
      BY <1>2, <1>3, <3>1 DEF Addresses
  <2> QED
    BY <2>1, <2>2, <2>3
<1>5. \A s \in Servers : task_port[s] # PORT_NULL =>
        /\ task_port[s] \in Port /\ task_port[s] \notin backed
        /\ task_port[s] \in rights
        /\ task_port[s] \in S => s = t /\ s \in alive
  <2>1. \A p \in backed : recv[p] = Broker \/ p \in Used
    BY DEF Backup, Used
  <2>2. \A s \in Servers : task_port[s] # PORT_NULL => recv[task_port[s]] \in {s, Dead}
    BY DEF Launched
  <2> SUFFICES ASSUME NEW s \in Servers, task_port[s] # PORT_NULL
               PROVE  /\ task_port[s] \in Port /\ task_port[s] \notin backed
                      /\ task_port[s] \in rights
                      /\ task_port[s] \in S => s = t /\ s \in alive
    OBVIOUS
  <2>3. s \in Task /\ task_port[s] \in Port /\ task_port[s] \in Special
    BY UsedFacts, HolderFacts
  <2>4. task_port[s] \notin backed
    BY <2>1, <2>2, <2>3, HolderFacts DEF Apart
  <2>5. task_port[s] \in S => s = t /\ s \in alive
    BY <2>2, <2>3, HolderFacts DEF Launched
  <2> QED
    BY <2>3, <2>4, <2>5 DEF Rights
<1>6. Dealings'
  <2>1. Requests'
    BY <1>1, <1>2, <1>3, UsedFacts DEF Requests, Queued
  <2>2. Backup'
    BY <1>1, <1>2, <1>3 DEF Backup, TypeOK
  <2>3. Rights'
    BY <1>2 DEF Rights
  <2>4. Launched'
    <3>1. \A s \in Servers : s \in alive => task_port[s] # PORT_NULL
      BY PortFacts DEF LiveHasPort
    <3> QED
      BY <1>3, <1>5, <3>1 DEF Launched
  <2> QED
    BY <2>1, <2>2, <2>3, <2>4
<1>7. Custodial'
  <2>1. ActiveIffServed' /\ InactiveIsBacked'
    <3>1. ActiveIffServed'
      BY <1>3, UsedFacts, HolderFacts DEF ActiveIffServed, Ported
    <3>2. \A v \in services : ~v.isActive => v.servicetype # "SELF" /\ v.port \in Port
      BY DEF Addresses, InactiveIsBacked, TypeOK
    <3>3. InactiveIsBacked'
      BY <1>1, <3>2, PortFacts, HolderFacts DEF InactiveIsBacked, ActiveIffServed
    <3> QED
      BY <3>1, <3>3
  <2>2. PrivilegedCustody'
    BY <1>3, UsedFacts DEF PrivilegedCustody, TypeOK, Service
  <2>3. DeathIsNoticed'
    BY <1>1, <1>3, UsedFacts, HolderFacts, PortFacts
    DEF DeathIsNoticed, Rights, Ported, Requested, Addresses, BootstrapPorts,
        TypeOK, Service
  <2> QED
    BY <2>1, <2>2, <2>3
<1>8. Tally'
  <2>1. ASSUME NEW s \in Servers
        PROVE  (s \in alive' \/ task_port[s] \in notices')
                 <=> (s \in alive \/ task_port[s] \in notices)
    <3>1. s \in alive => task_port[s] # PORT_NULL
      BY PortFacts DEF LiveHasPort
    <3>2. PORT_NULL \notin notices' /\ PORT_NULL \notin notices
      BY <1>1, PortFacts DEF TypeOK
    <3> QED
      BY <1>1, <1>5, <3>1, <3>2
  <2>2. Running' = Running
    BY <2>1 DEF Running
  <2> QED
    BY <2>2 DEF Tally
<1> QED
  BY <1>4, <1>6, <1>7, <1>8

LEMMA DropGood ==
  ASSUME WellBehaved, WInv, Inv', NEW t \in Task, DropPort(t) PROVE Good'
<1>1. PICK p \in Own(t) : Release({p})
  BY DEF DropPort
<1>2. {p} \in SUBSET Port /\ recv[p] = t /\ p \notin TaskPorts
  BY <1>1 DEF Own
<1>3. t \in Servers => task_port[t] # p
  BY <1>2 DEF TaskPorts
<1> QED
  BY <1>1, <1>2, <1>3, ReleaseGood DEF DropPort, lists, procs

LEMMA DieGood ==
  ASSUME WellBehaved, WInv, Inv', NEW t \in Task, TaskDies(t) PROVE Good'
<1>1. /\ t \in alive /\ alive' = alive \ {t}
      /\ t \in Servers => ServerType[t] # "ETCINIT"
      /\ \A r \in inbox : r.from = t => r.op # "check_in"
      /\ UNCHANGED <<rights, inbox, services, bootstraps, port, task_port,
                     running_servers, unstarted>>
  BY DEF TaskDies, WellBehaved, lists, procs
<1>2. PICK S \in SUBSET Port : S = {p \in Port : recv[p] = t} /\ Release(S)
  BY DEF TaskDies
<1>3. t \in Servers /\ task_port[t] # PORT_NULL => task_port[t] \in S
  BY <1>1, <1>2, UsedFacts DEF WInv, Inv, Good, Dealings, Launched
<1> QED
  BY <1>1, <1>2, <1>3, ReleaseGood

------------------------------------------------------------------------------
(* Requests. *)

\* Fewer requests, or fewer services: only those go whose port is dead.
LEMMA FewerGood ==
  ASSUME WInv, inbox' \subseteq inbox, services' \subseteq services,
         \A v \in Ported \ services' : recv[v.port] = Dead,
         rights \subseteq rights',
         UNCHANGED <<recv, backed, notices, alive, bootstraps, port, task_port,
                     running_servers, unstarted>>
  PROVE  Good'
<1> USE DEF WInv, Inv, Good, Structure, Dealings, Custodial
<1>1. /\ Ported' = Ported \cap services' /\ Queued' \subseteq Queued
      /\ UNCHANGED <<Requested, TaskPorts, BootstrapPorts, Special>>
  BY DEF Ported, Requested, Queued, TaskPorts, BootstrapPorts, Special
<1>2. Used' \subseteq Used
  BY <1>1 DEF Used
<1>3. Structure'
  <2>1. Distinct' /\ Apart'
    BY <1>1, <1>2 DEF Distinct, Apart
  <2>2. Known' \subseteq Known
    BY <1>1, <1>2 DEF Known
  <2>3. Allocated' /\ Addresses'
    BY <1>1, <2>2 DEF Allocated, Addresses
  <2> QED
    BY <2>1, <2>3
<1>4. Dealings'
  <2>1. Requests' /\ Rights' /\ Launched'
    BY <1>1 DEF Requests, Rights, Launched
  <2>2. Backup'
    BY <1>1, HolderFacts DEF Backup
  <2> QED
    BY <2>1, <2>2
<1>5. Custodial' /\ Tally'
  BY DEF ActiveIffServed, InactiveIsBacked, PrivilegedCustody, DeathIsNoticed,
         Tally, Running
<1> QED
  BY <1>3, <1>4, <1>5

LEMMA RefuseGood ==
  ASSUME WInv, NEW r, Accept(r), Refuse(r) PROVE Good'
<1>1. \A v \in Ported : v \in services'
  BY DEF Refuse, lists, Ported
<1> QED
  BY <1>1, FewerGood DEF Accept, Refuse, lists, procs

LEMMA InfoGood ==
  ASSUME WInv, NEW r, x_bootstrap_info(r) PROVE Good'
<1>1. \A v \in Ported : v \in services'
  BY DEF x_bootstrap_info, lists, Ported
<1> QED
  BY <1>1, FewerGood DEF x_bootstrap_info, Accept, lists, procs

\* Only a dead port cannot be sent to.
LEMMA LookUpGood ==
  ASSUME WInv, NEW r, x_bootstrap_look_up(r) PROVE Good'
<1>1. \A v \in Ported \ services' : recv[v.port] = Dead
  <2> SUFFICES ASSUME NEW v \in Ported \ services' PROVE recv[v.port] = Dead
    OBVIOUS
  <2>1. ~canSend(v.port)
    BY DEF x_bootstrap_look_up, Lost, Ported
  <2> QED
    BY <2>1 DEF canSend, Ported, WInv, Good, Dealings, Rights
<1> QED
  BY <1>1, FewerGood DEF x_bootstrap_look_up, Accept, procs

\* ROOT has no ancestor but itself.
LEMMA RootAlone == ASSUME Addresses PROVE Ancestry(ROOT) \subseteq {ROOT}
<1>1. {ROOT} \in SUBSET BootstrapPorts
  BY DEF BootstrapPorts
<1> QED
  BY <1>1 DEF Ancestry, Addresses

\* A server's request is about the services of ROOT.
LEMMA ServerAsks ==
  ASSUME WInv, NEW r \in inbox, lookup_server_by_port(r.port) # {}, NEW n
  PROVE  /\ r.from \in Servers /\ lookup_server_by_port(r.port) = {r.from}
         /\ lookup_bootstrap_by_port(r.port) = ROOT
         /\ \A v \in lookup_service_by_name(ROOT, n) : v.bootstrap = ROOT
<1> USE DEF WInv, Inv, Good, Structure, Dealings
<1>1. PICK s \in Servers : port[s] = r.port
  BY DEF lookup_server_by_port
<1>2. r.from = s
  BY <1>1 DEF Requests
<1>3. lookup_server_by_port(r.port) = {s}
  BY <1>1, <1>2 DEF Requests, lookup_server_by_port
<1>4. lookup_bootstrap_by_port(r.port) = ROOT
  BY <1>1 DEF Addresses, lookup_bootstrap_by_port
<1>5. \A v \in lookup_service_by_name(ROOT, n) : v.bootstrap = ROOT
  BY RootAlone DEF lookup_service_by_name
<1> QED
  BY <1>2, <1>3, <1>4, <1>5

LEMMA CheckInGood ==
  ASSUME WInv, Inv', NEW r, x_bootstrap_check_in(r) PROVE Good'
<1> USE DEF WInv, Inv, Good, Structure, Dealings, Custodial
<1>1. Accept(r) /\ r \in inbox /\ r.op = "check_in"
  BY DEF x_bootstrap_check_in, Accept
<1>2. CASE Refuse(r)
  BY <1>1, <1>2, RefuseGood
<1>3. CASE ~Refuse(r)
  <2>1. PICK v \in lookup_service_by_name(lookup_bootstrap_by_port(r.port), r.name) :
          /\ lookup_server_by_port(r.port) # {}
          /\ ItsServer(v, lookup_server_by_port(r.port))
          /\ v.port # PORT_NULL /\ v.servicetype # "SELF" /\ canReceive(v.port)
          /\ Replace(v, CheckedIn(v))
          /\ recv' = [recv EXCEPT ![v.port] =
                        IF r.from \in alive THEN r.from ELSE Broker]
          /\ UNCHANGED <<backed, rights, bootstraps>>
    BY <1>3 DEF x_bootstrap_check_in
  <2>2. /\ inbox' \subseteq inbox
        /\ UNCHANGED <<notices, alive, port, task_port, running_servers, unstarted>>
    BY <1>1 DEF Accept, procs
  <2>3. /\ v \in services /\ v \in Ported /\ v.bootstrap = ROOT
        /\ v.server \in Servers => v.server = r.from
        /\ r.from \in Servers /\ r.from \in alive /\ r.from \in Task
    <3>1. v \in services /\ v \in Ported
      BY <2>1, LookupIsService DEF Ported
    <3>2. r.from \in alive
      BY <1>1 DEF Requests
    <3>3. v.bootstrap = ROOT /\ r.from \in Servers
      BY <1>1, <2>1, ServerAsks
    <3>4. v.server \in Servers => v.server = r.from
      BY <1>1, <2>1, ServerAsks, ConfigAssumption DEF ItsServer
    <3> QED
      BY <3>1, <3>2, <3>3, <3>4, HolderFacts
  <2>4. PICK w : w = CheckedIn(v)
    OBVIOUS
  <2>5. /\ w.port = v.port /\ w.bootstrap = v.bootstrap /\ w.server = v.server
        /\ w.servicetype = v.servicetype /\ w.isActive
        /\ services' = (services \ {v}) \cup {w}
    BY <2>1, <2>3, <2>4 DEF CheckedIn, TypeOK, Service, Replace
  <2>6. /\ recv[v.port] = Broker /\ v.port \in Port
        /\ \A p \in Port : recv'[p] = IF p = v.port THEN r.from ELSE recv[p]
    BY <2>1, <2>3, UsedFacts DEF canReceive, TypeOK
  <2>7. /\ Ported' = (Ported \ {v}) \cup {w} /\ Queued' \subseteq Queued
        /\ UNCHANGED <<Requested, TaskPorts, BootstrapPorts, Special>>
    BY <2>1, <2>2, <2>3, <2>5
    DEF Ported, Requested, Queued, TaskPorts, BootstrapPorts, Special
  <2>8. Used' \subseteq Used
    BY <2>3, <2>5, <2>7 DEF Used
  <2>9. v.port \in Used /\ v.port \notin Special
    BY <2>3, UsedFacts DEF Apart
  <2>10. Structure'
    <3>1. Distinct'
      BY <2>3, <2>5, <2>7 DEF Distinct
    <3>2. Apart'
      BY <2>7, <2>8 DEF Apart
    <3>3. Allocated'
      <4>1. Known' \subseteq Known
        BY <2>1, <2>2, <2>7, <2>8 DEF Known
      <4> QED
        BY <2>3, <2>6, <4>1, HolderFacts DEF Allocated
    <3>4. Addresses'
      BY <2>1, <2>2, <2>3, <2>5, <2>6, <2>7, <2>9, UsedFacts DEF Addresses
    <3> QED
      BY <3>1, <3>2, <3>3, <3>4
  <2>11. Dealings'
    <3>1. Requests'
      BY <2>1, <2>2, <2>3, <2>6, UsedFacts DEF Requests, Queued, Distinct
    <3>2. Backup'
      BY <2>1, <2>3, <2>5, <2>6, <2>7 DEF Backup, TypeOK
    <3>3. Rights'
      BY <2>1, <2>2, <2>3, <2>5, <2>7 DEF Rights
    <3>4. Launched'
      <4>1. \A s \in Servers : s \in alive => task_port[s] # PORT_NULL
        BY PortFacts DEF LiveHasPort
      <4> QED
        BY <2>2, <2>6, <2>9, <4>1, UsedFacts DEF Launched
    <3> QED
      BY <3>1, <3>2, <3>3, <3>4
  <2>12. Custodial'
    <3>1. \A u \in services : u # v /\ u.port # PORT_NULL =>
            u.port \in Port /\ u.port # v.port
      BY <2>3, <2>9, UsedFacts, PortFacts
      DEF Ported, Distinct, Addresses, Special, BootstrapPorts, TypeOK, Service
    <3>2. \A b \in Requested : b.requestor_port \in Port /\ b.requestor_port # v.port
      BY <2>3, UsedFacts DEF Distinct
    <3>3. ActiveIffServed'
      BY <2>3, <2>5, <2>6, <3>1, HolderFacts DEF ActiveIffServed
    <3>4. InactiveIsBacked'
      BY <2>1, <2>5 DEF InactiveIsBacked
    <3>5. PrivilegedCustody'
      BY <2>3, <2>5, <2>6, <3>1 DEF PrivilegedCustody
    <3>6. DeathIsNoticed'
      BY <2>1, <2>2, <2>3, <2>5, <2>6, <3>1, <3>2, HolderFacts
      DEF DeathIsNoticed, Requested
    <3> QED
      BY <3>3, <3>4, <3>5, <3>6
  <2>13. Tally'
    BY <2>2 DEF Tally, Running
  <2> QED
    BY <2>10, <2>11, <2>12, <2>13
<1> QED
  BY <1>2, <1>3

\* What a request brings is the port of one service, new or in the place of
\* services that mach_init held.
LEMMA BindGood ==
  ASSUME WInv, Inv', NEW r, Accept(r), NEW V \in SUBSET services, NEW w \in Service,
         services' = (services \ V) \cup {w},
         w.port = Arg(r), w.isActive, w.servicetype # "SELF",
         w.server \in Servers => w.server = r.from,
         \A v \in V : ~v.isActive,
         rights' = rights \cup ({Arg(r)} \ {PORT_NULL}),
         UNCHANGED <<recv, backed, bootstraps>>
  PROVE  Good'
<1> USE DEF WInv, Inv, Good, Structure, Dealings, Custodial
<1>1. /\ r \in inbox /\ inbox' = inbox \ {r}
      /\ UNCHANGED <<notices, alive, port, task_port, running_servers, unstarted>>
  BY DEF Accept, procs
<1>2. Arg(r) # PORT_NULL =>
        /\ Arg(r) = r.arg /\ r \in Queued /\ r.arg \in Port /\ r.arg \in Used
        /\ recv[r.arg] = r.from /\ r.from \in Task /\ r.arg \notin backed
  BY <1>1, UsedFacts DEF Arg, Queued, Requests, TypeOK, Request
<1>3. \A v \in V : v \in services /\ v \in Ported /\ recv[v.port] = Broker
  <2>1. \A v \in V : v \in services /\ v.servicetype # "SELF" /\ v.port \in backed
    BY DEF Addresses, InactiveIsBacked
  <2>2. \A v \in V : v.port # PORT_NULL
    BY <2>1, PortFacts DEF TypeOK
  <2> QED
    BY <2>1, <2>2 DEF ActiveIffServed, Ported
<1>4. /\ Ported' = (Ported \ V) \cup (IF w.port # PORT_NULL THEN {w} ELSE {})
      /\ Queued' = Queued \ {r}
      /\ UNCHANGED <<Requested, TaskPorts, BootstrapPorts, Special>>
  BY <1>1 DEF Ported, Requested, Queued, TaskPorts, BootstrapPorts, Special
<1>5. Used' \subseteq Used
  BY <1>2, <1>4 DEF Used
<1>6. Structure'
  <2>1. Distinct'
    BY <1>2, <1>4 DEF Distinct
  <2>2. Apart'
    BY <1>4, <1>5 DEF Apart
  <2>3. Known' \subseteq Known
    BY <1>1, <1>4, <1>5 DEF Known
  <2>4. Allocated'
    BY <2>3 DEF Allocated
  <2>5. Addresses'
    BY <1>1, <1>4 DEF Addresses
  <2> QED
    BY <2>1, <2>2, <2>4, <2>5
<1>7. Dealings'
  <2>1. Requests'
    BY <1>1 DEF Requests
  <2>2. Backup'
    BY <1>3, <1>4, HolderFacts DEF Backup
  <2>3. Rights'
    BY <1>1, <1>4 DEF Rights
  <2>4. Launched'
    BY <1>1 DEF Launched
  <2> QED
    BY <2>1, <2>2, <2>3, <2>4
<1>8. Custodial' /\ Tally'
  BY <1>1, <1>2, HolderFacts
  DEF ActiveIffServed, InactiveIsBacked, PrivilegedCustody, DeathIsNoticed,
         Tally, Running
<1> QED
  BY <1>6, <1>7, <1>8

LEMMA RegisterGood ==
  ASSUME WInv, Inv', NEW r, x_bootstrap_register(r) PROVE Good'
<1> DEFINE bs      == lookup_bootstrap_by_port(r.port)
           servers == lookup_server_by_port(r.port)
           found   == lookup_service_by_name(bs, r.name)
           here    == {v \in found : v.bootstrap = bs}
           new     == [name |-> r.name, bootstrap |-> bs, port |-> Arg(r),
                       isActive |-> TRUE, servicetype |-> "REGISTERED",
                       server |-> NoServer]
           rebound(v) == [v EXCEPT !.port = Arg(r), !.isActive = TRUE]
<1>1. Accept(r) /\ r \in inbox /\ r.op = "register"
  BY DEF x_bootstrap_register, Accept
<1>2. TypeOK /\ Addresses
  BY DEF WInv, Inv, Good, Structure
<1>3. Arg(r) \in Port \cup {PORT_NULL} /\ r.name \in Names
  BY <1>1, <1>2 DEF Arg, TypeOK, Request
<1>4. CASE Refuse(r)
  BY <1>1, <1>4, RefuseGood
<1>5. CASE /\ here = {}
           /\ services' = services \cup {new}
           /\ rights' = rights \cup ({Arg(r)} \ {PORT_NULL})
           /\ UNCHANGED <<recv, backed, bootstraps, status>>
  <2>1. new \in Service
    BY <1>2, <1>3, LookupIsBootstrap DEF Service
  <2>2. /\ new.port = Arg(r) /\ new.isActive /\ new.servicetype # "SELF"
        /\ new.server \notin Servers
    BY ConfigAssumption
  <2>3. PICK w \in Service : w = new
    BY <2>1
  <2>4. services' = (services \ {}) \cup {w}
    BY <1>5, <2>3
  <2> QED
    BY <1>1, <1>5, <2>2, <2>3, <2>4, BindGood
<1>6. ASSUME NEW v \in here, ~Taken(v), ItsServer(v, servers),
             servers # {} \/ r.port = bs,
             Replace(v, rebound(v)),
             rights' = (rights \ Deallocated({v.port})) \cup ({Arg(r)} \ {PORT_NULL}),
             recv' = [p \in Port |-> IF p \in Deallocated({v.port}) THEN Dead
                                     ELSE recv[p]],
             UNCHANGED <<backed, bootstraps>>
      PROVE  Good'
  <2>1. v \in services /\ v \in Service /\ ~v.isActive /\ v.servicetype # "SELF"
    BY <1>2, <1>6, LookupIsService DEF Taken, Addresses, TypeOK
  <2>2. Deallocated({v.port}) = {}
    BY <1>2, NoneDeallocated
  <2>3. UNCHANGED recv /\ rights' = rights \cup ({Arg(r)} \ {PORT_NULL})
    BY <1>2, <1>6, <2>2 DEF TypeOK
  <2>4. v.server \in Servers => v.server = r.from
    BY <1>1, <1>6, ServerAsks, ConfigAssumption DEF ItsServer
  <2>5. PICK w \in Service : w = rebound(v)
    BY <1>3, <2>1 DEF Service
  <2>6. /\ w.port = Arg(r) /\ w.isActive /\ w.servicetype # "SELF"
        /\ w.server = v.server
    BY <2>1, <2>5 DEF Service
  <2>7. services' = (services \ {v}) \cup {w} /\ {v} \in SUBSET services
    BY <1>6, <2>1, <2>5 DEF Replace
  <2> QED
    BY <1>1, <1>6, <2>1, <2>3, <2>4, <2>6, <2>7, BindGood
<1> QED
  BY <1>4, <1>5, <1>6 DEF x_bootstrap_register

LEMMA StatusGood ==
  ASSUME WInv, NEW r, x_bootstrap_status(r) PROVE Good'
BY RefuseGood DEF x_bootstrap_status

\* What is free is unknown, and what is known stays where it is when a free
\* port is taken.
LEMMA FreshPort ==
  ASSUME WInv, NEW p \in FreePorts
  PROVE  /\ p \in Port /\ p \notin Known /\ p \notin Used /\ p \notin Special
         /\ p \notin backed /\ p \notin BootstrapPorts
         /\ \A s \in Servers : port[s] # p /\ task_port[s] # p
         /\ \A v \in services : v.port # p
         /\ \A v \in services : v.port # PORT_NULL => v.port \in Known \cap Port
         /\ \A b \in Requested : b.requestor_port \in Known \cap Port
         /\ \A s \in Servers : task_port[s] # PORT_NULL =>
              task_port[s] \in Known \cap Port
<1> USE DEF WInv, Inv, Good, Structure
<1>1. p \in Port /\ p \notin Known
  BY DEF FreePorts, Allocated
<1>2. \A v \in services : v.port # PORT_NULL => v.port \in Known \cap Port
  BY UsedFacts, PortFacts
     DEF Ported, Addresses, TypeOK, Service, Known, Special, BootstrapPorts
<1>3. \A s \in Servers : port[s] # p /\ task_port[s] # p
  BY <1>1 DEF Known, Special, TaskPorts
<1> QED
  BY <1>1, <1>2, <1>3, UsedFacts, PortFacts DEF Known

LEMMA SubsetGood ==
  ASSUME WInv, Inv', NEW r, x_bootstrap_subset(r) PROVE Good'
<1> USE DEF WInv, Inv, Good, Structure, Dealings, Custodial
<1>1. /\ r \in inbox /\ inbox' = inbox \ {r}
      /\ UNCHANGED <<backed, services, notices, alive, port, task_port,
                     running_servers, unstarted>>
  BY DEF x_bootstrap_subset, Accept, procs
<1> DEFINE new(p) == [bootstrap_port |-> p, requestor_port |-> Arg(r),
                      parent |-> lookup_bootstrap_by_port(r.port)]
<1>2. PICK p \in FreePorts, b \in bootstraps' :
        /\ recv' = [recv EXCEPT ![p] = Broker]
        /\ rights' = rights \cup ({p, Arg(r)} \ {PORT_NULL})
        /\ bootstraps' = bootstraps \cup {b}
        /\ b.bootstrap_port = p /\ b.requestor_port = Arg(r)
  <2>1. PICK p \in FreePorts :
          /\ recv' = [recv EXCEPT ![p] = Broker]
          /\ rights' = rights \cup ({p, Arg(r)} \ {PORT_NULL})
          /\ bootstraps' = bootstraps \cup {new(p)}
    BY DEF x_bootstrap_subset, Lowest
  <2>2. new(p).bootstrap_port = p /\ new(p).requestor_port = Arg(r)
    OBVIOUS
  <2> HIDE DEF new
  <2> QED
    BY <2>1, <2>2
<1> HIDE DEF new
<1>3. Arg(r) # PORT_NULL =>
        /\ Arg(r) = r.arg /\ r \in Queued /\ r.arg \in Port /\ r.arg \in Used
        /\ recv[r.arg] = r.from /\ r.from \in Task
  BY <1>1, UsedFacts DEF Arg, Queued, Requests, TypeOK, Request
<1>4. /\ recv' = [q \in Port |-> IF q = p THEN Broker ELSE recv[q]]
      /\ p \in Port /\ p # PORT_NULL
  BY <1>2, PortFacts DEF TypeOK, FreePorts
<1>5. /\ Requested' = Requested \cup (IF Arg(r) # PORT_NULL THEN {b} ELSE {})
      /\ Queued' = Queued \ {r}
      /\ BootstrapPorts' = BootstrapPorts \cup {p}
      /\ UNCHANGED <<Ported, TaskPorts>>
  BY <1>1, <1>2 DEF Ported, Requested, Queued, TaskPorts, BootstrapPorts
<1>6. /\ Used' \subseteq Used /\ Special' = Special \cup {p}
      /\ Known' \subseteq Known \cup {p}
  <2>1. Used' \subseteq Used
    BY <1>2, <1>3, <1>5 DEF Used
  <2>2. Special' = Special \cup {p}
    BY <1>5 DEF Special
  <2> QED
    BY <1>1, <2>1, <2>2 DEF Known
<1>7. Structure'
  <2>1. Distinct'
    BY <1>2, <1>3, <1>5 DEF Distinct
  <2>2. Apart'
    BY <1>2, <1>6, FreshPort DEF Apart
  <2>3. Allocated'
    BY <1>4, <1>6, HolderFacts DEF Allocated
  <2>4. Addresses'
    <3>1. p # ROOT /\ \A s \in Servers : port[s] # p
      BY FreshPort DEF BootstrapPorts
    <3>2. \A q \in BootstrapPorts' : recv'[q] = Broker
      BY <1>4, <1>5, UsedFacts DEF Addresses
    <3>3. \A c \in bootstraps' : c.bootstrap_port # ROOT
      BY <1>2, <3>1 DEF Addresses
    <3>4. \A s \in Servers : port'[s] \notin BootstrapPorts'
      BY <1>1, <1>5, <3>1 DEF Addresses
    <3> QED
      BY <1>1, <3>2, <3>3, <3>4 DEF Addresses
  <2> QED
    BY <2>1, <2>2, <2>3, <2>4
<1>8. Dealings'
  <2>1. Requests'
    BY <1>1, <1>2, <1>4, <1>5, FreshPort, UsedFacts DEF Requests, Queued
  <2>2. Backup'
    BY <1>1, <1>4, <1>5 DEF Backup, TypeOK
  <2>3. Rights'
    BY <1>1, <1>2, <1>5 DEF Rights
  <2>4. Launched'
    <3>1. \A s \in Servers : s \in alive => task_port[s] # PORT_NULL
      BY PortFacts DEF LiveHasPort
    <3> QED
      BY <1>1, <1>2, <1>4, <3>1, FreshPort DEF Launched
  <2> QED
    BY <2>1, <2>2, <2>3, <2>4
<1>9. Custodial'
  <2>1. \A v \in services : v.port # PORT_NULL => recv'[v.port] = recv[v.port]
    BY <1>2, <1>4, FreshPort
  <2>2. ActiveIffServed' /\ InactiveIsBacked' /\ PrivilegedCustody'
    BY <1>1, <2>1 DEF ActiveIffServed, InactiveIsBacked, PrivilegedCustody
  <2>3. \A c \in Requested : recv'[c.requestor_port] = recv[c.requestor_port]
    BY <1>2, <1>4, FreshPort, UsedFacts
  <2>4. Arg(r) # PORT_NULL => recv'[Arg(r)] # Dead
    BY <1>3, <1>4, HolderFacts
  <2>5. DeathIsNoticed'
    BY <1>1, <1>2, <2>1, <2>3, <2>4 DEF DeathIsNoticed, Requested
  <2> QED
    BY <2>2, <2>5
<1>10. Tally'
  BY <1>1 DEF Tally, Running
<1> QED
  BY <1>7, <1>8, <1>9, <1>10

LEMMA CreateGood ==
  ASSUME WInv, Inv', NEW r, x_bootstrap_create_service(r) PROVE Good'
<1> USE DEF WInv, Inv, Good, Structure, Dealings, Custodial
<1>1. /\ Accept(r) /\ r \in inbox /\ inbox' = inbox \ {r}
      /\ UNCHANGED <<notices, alive, port, task_port, running_servers, unstarted>>
  BY DEF x_bootstrap_create_service, Accept, procs
<1>2. CASE Refuse(r)
  BY <1>1, <1>2, RefuseGood
<1>3. CASE ~Refuse(r)
  <2> DEFINE new(p) ==
        [name |-> r.name, bootstrap |-> lookup_bootstrap_by_port(r.port),
         port |-> p, isActive |-> FALSE, servicetype |-> "DECLARED",
         server |-> NoServer]
  <2>1. PICK p \in FreePorts, w \in services' :
          /\ recv' = [recv EXCEPT ![p] = Broker]
          /\ backed' = backed \cup {p} /\ rights' = rights \cup {p}
          /\ services' = services \cup {w}
          /\ w.port = p /\ ~w.isActive /\ w.servicetype = "DECLARED"
          /\ w.server = NoServer
          /\ UNCHANGED bootstraps
    <3>1. PICK p \in FreePorts :
            /\ recv' = [recv EXCEPT ![p] = Broker]
            /\ backed' = backed \cup {p} /\ rights' = rights \cup {p}
            /\ services' = services \cup {new(p)}
            /\ UNCHANGED bootstraps
      BY <1>3 DEF x_bootstrap_create_service, Lowest
    <3>2. /\ new(p).port = p /\ ~new(p).isActive
          /\ new(p).servicetype = "DECLARED" /\ new(p).server = NoServer
      OBVIOUS
    <3> HIDE DEF new
    <3> QED
      BY <3>1, <3>2
  <2> HIDE DEF new
  <2>2. /\ recv' = [q \in Port |-> IF q = p THEN Broker ELSE recv[q]]
        /\ p \in Port /\ p # PORT_NULL /\ w.server \notin Servers
    BY <2>1, PortFacts, ConfigAssumption DEF TypeOK, FreePorts
  <2>3. /\ Ported' = Ported \cup {w} /\ Queued' = Queued \ {r}
        /\ UNCHANGED <<Requested, TaskPorts, BootstrapPorts, Special>>
    BY <1>1, <2>1, <2>2 DEF Ported, Requested, Queued, TaskPorts, BootstrapPorts, Special
  <2>4. Used' \subseteq Used \cup {p}
    BY <2>1, <2>3 DEF Used
  <2>5. Known' \subseteq Known \cup {p}
    BY <1>1, <2>1, <2>3, <2>4 DEF Known
  <2>6. Structure'
    <3>1. Distinct'
      BY <2>1, <2>3, FreshPort, UsedFacts DEF Distinct
    <3>2. Apart'
      BY <2>1, <2>3, <2>4, FreshPort DEF Apart
    <3>3. Allocated'
      BY <2>2, <2>5, HolderFacts DEF Allocated
    <3>4. Addresses'
      BY <1>1, <2>1, <2>2, <2>3, UsedFacts DEF Addresses
    <3> QED
      BY <3>1, <3>2, <3>3, <3>4
  <2>7. Dealings'
    <3>1. Requests'
      BY <1>1, <2>1, <2>2, FreshPort, UsedFacts DEF Requests, Queued
    <3>2. Backup'
      BY <2>1, <2>2, <2>3 DEF Backup, TypeOK
    <3>3. Rights'
      BY <1>1, <2>1, <2>3 DEF Rights
    <3>4. Launched'
      <4>1. \A s \in Servers : s \in alive => task_port[s] # PORT_NULL
        BY PortFacts DEF LiveHasPort
      <4> QED
        BY <1>1, <2>1, <2>2, <4>1, FreshPort DEF Launched
    <3> QED
      BY <3>1, <3>2, <3>3, <3>4
  <2>8. Custodial'
    <3>1. \A v \in services : v.port # PORT_NULL => recv'[v.port] = recv[v.port]
      BY <2>1, <2>2, FreshPort
    <3>2. \A c \in Requested : recv'[c.requestor_port] = recv[c.requestor_port]
      BY <2>1, <2>2, FreshPort, UsedFacts
    <3>3. ActiveIffServed' /\ InactiveIsBacked' /\ PrivilegedCustody'
      BY <2>1, <2>2, <3>1
      DEF ActiveIffServed, InactiveIsBacked, PrivilegedCustody
    <3>4. DeathIsNoticed'
      BY <1>1, <2>1, <2>2, <3>1, <3>2, HolderFacts DEF DeathIsNoticed, Requested
    <3> QED
      BY <3>3, <3>4
  <2>9. Tally'
    BY <1>1 DEF Tally, Running
  <2> QED
    BY <2>6, <2>7, <2>8, <2>9
<1> QED
  BY <1>2, <1>3

------------------------------------------------------------------------------
(* Starting servers, and the notices about them. *)

\* A server always comes up, with two new ports.
LEMMA ComesUp ==
  ASSUME WellBehaved, Inv, NEW s \in Servers, start_server(s)
  PROVE  \E sp \in FreePorts : \E tp \in FreePorts \ {sp} :
           /\ port' = [port EXCEPT ![s] = sp]
           /\ recv' = [p \in Port |-> IF p = sp THEN Broker
                                      ELSE IF p = tp THEN s ELSE recv[p]]
           /\ rights' = rights \cup {sp, tp}
           /\ task_port' = [task_port EXCEPT ![s] = tp]
           /\ alive' = alive \cup {s}
<1> DEFINE gone == Deallocated({port[s]} \ {PORT_NULL})
           old(sp, tp) == [p \in Port |-> CASE p = sp -> Broker
                                            [] p \in {tp} -> s
                                            [] p \in gone -> Dead
                                            [] OTHER -> recv[p]]
           new(sp, tp) == [p \in Port |-> IF p = sp THEN Broker
                                          ELSE IF p = tp THEN s ELSE recv[p]]
<1>1. gone = {}
  BY NoneDeallocated DEF Inv
<1>2. PICK sp \in FreePorts : \E tp \in FreePorts \ {sp} :
        /\ port' = [port EXCEPT ![s] = sp]
        /\ recv' = old(sp, tp)
        /\ rights' = (rights \ gone) \cup {sp, tp}
        /\ task_port' = [task_port EXCEPT ![s] = tp]
        /\ alive' = alive \cup {s}
  BY DEF start_server, Lowest, WellBehaved
<1>3. PICK tp \in FreePorts \ {sp} :
        /\ port' = [port EXCEPT ![s] = sp]
        /\ recv' = old(sp, tp)
        /\ rights' = (rights \ gone) \cup {sp, tp}
        /\ task_port' = [task_port EXCEPT ![s] = tp]
        /\ alive' = alive \cup {s}
  BY <1>2
<1>4. old(sp, tp) = new(sp, tp) /\ rights \ gone = rights
  BY <1>1
<1> HIDE DEF old, gone
<1> QED
  BY <1>3, <1>4

\* A server that does not run gets two new ports, whatever becomes of the
\* notice about its last task.
LEMMA StartGood ==
  ASSUME WellBehaved, WInv, Inv', NEW s \in Servers, s \notin alive, start_server(s),
         notices' \subseteq notices, notices \ notices' \subseteq TaskPorts,
         unstarted' = unstarted \ {s},
         UNCHANGED <<backed, inbox, services, bootstraps>>
  PROVE  Structure' /\ Dealings' /\ Custodial'
<1> USE DEF WInv, Inv, Good, Structure, Dealings, Custodial
<1>1. PICK sp \in FreePorts, tp \in FreePorts :
        /\ sp # tp
        /\ port' = [port EXCEPT ![s] = sp]
        /\ recv' = [p \in Port |-> IF p = sp THEN Broker
                                   ELSE IF p = tp THEN s ELSE recv[p]]
        /\ rights' = rights \cup {sp, tp}
        /\ task_port' = [task_port EXCEPT ![s] = tp]
        /\ alive' = alive \cup {s}
  BY ComesUp
<1>2. /\ \A t \in Servers : port'[t] = IF t = s THEN sp ELSE port[t]
      /\ \A t \in Servers : task_port'[t] = IF t = s THEN tp ELSE task_port[t]
      /\ sp \in Port /\ tp \in Port /\ sp # tp
  BY <1>1 DEF TypeOK, FreePorts
<1>3. /\ \A p \in Known \cap Port : recv'[p] = recv[p]
      /\ recv'[sp] = Broker /\ recv'[tp] = s
      /\ sp \notin Known /\ tp \notin Known
  BY <1>1, <1>2, FreshPort
<1>4. UNCHANGED <<Ported, Requested, Queued, Used, BootstrapPorts>>
  BY DEF Ported, Requested, Queued, Used, BootstrapPorts
<1>5. /\ TaskPorts' \subseteq TaskPorts \cup {tp}
      /\ Special' \subseteq Special \cup {tp}
      /\ Known' \subseteq Known \cup {sp, tp}
  <2>1. TaskPorts' \subseteq TaskPorts \cup {tp}
    BY <1>2 DEF TaskPorts
  <2>2. Special' \subseteq Special \cup {tp}
    BY <1>4, <2>1 DEF Special
  <2> QED
    BY <1>2, <1>4, <2>1, <2>2 DEF Known
<1>6. Structure'
  <2>1. Distinct' /\ Apart'
    BY <1>3, <1>4, <1>5, UsedFacts DEF Distinct, Apart
  <2>2. Allocated'
    BY <1>3, <1>5, HolderFacts DEF Allocated
  <2>3. Addresses'
    <3>1. /\ sp \notin BootstrapPorts /\ tp # INHERITED
          /\ \A t \in Servers : port[t] # sp /\ task_port[t] # tp
      BY <1>1, FreshPort DEF Special
    <3>2. \A p \in BootstrapPorts : recv'[p] = Broker
      BY <1>3, UsedFacts DEF Addresses
    <3> QED
      BY <1>2, <1>4, <3>1, <3>2 DEF Addresses
  <2> QED
    BY <2>1, <2>2, <2>3
<1>7. Dealings'
  <2>1. Requests'
    <3>1. \A r \in inbox : r.port # sp
      BY <1>3 DEF Known
    <3>2. \A r \in Queued : recv'[r.arg] = recv[r.arg]
      BY <1>3, UsedFacts
    <3> QED
      BY <1>1, <1>2, <1>4, <3>1, <3>2 DEF Requests, Queued
  <2>2. Backup'
    BY <1>3, <1>4 DEF Backup, Known, TypeOK
  <2>3. Rights'
    BY <1>1, <1>2, <1>4 DEF Rights
  <2>4. Launched'
    <3>1. \A t \in Servers : task_port[t] # PORT_NULL =>
            recv'[task_port[t]] = recv[task_port[t]]
      BY <1>1, <1>3, FreshPort
    <3>2. \A t \in Servers : t \in alive => task_port[t] # PORT_NULL
      BY PortFacts DEF LiveHasPort
    <3> QED
      BY <1>1, <1>2, <1>3, <3>1, <3>2 DEF Launched
  <2> QED
    BY <2>1, <2>2, <2>3, <2>4
<1>8. Custodial'
  <2>1. \A v \in services : v.port # PORT_NULL => recv'[v.port] = recv[v.port]
    BY <1>1, <1>3, FreshPort
  <2>2. \A b \in Requested : recv'[b.requestor_port] = recv[b.requestor_port]
    BY <1>1, <1>3, FreshPort
  <2>3. ActiveIffServed' /\ InactiveIsBacked' /\ PrivilegedCustody'
    BY <2>1 DEF ActiveIffServed, InactiveIsBacked, PrivilegedCustody
  <2>4. \A v \in services :
          v.port # PORT_NULL /\ v.port \in TaskPorts => recv[v.port] # Dead
    BY UsedFacts, HolderFacts DEF Addresses, Apart, Ported, Special, BootstrapPorts
  <2>5. \A b \in Requested : b.requestor_port \notin TaskPorts
    BY UsedFacts DEF Apart, Special
  <2>6. DeathIsNoticed'
    BY <2>1, <2>2, <2>4, <2>5 DEF DeathIsNoticed, Requested
  <2> QED
    BY <2>3, <2>6
<1> QED
  BY <1>6, <1>7, <1>8

LEMMA BootGood ==
  ASSUME WellBehaved, WInv, Inv', NEW s \in Servers, BootServer(s) PROVE Good'
<1> USE DEF WInv, Inv, Good, Structure, Dealings
<1>1. /\ start_server(s) /\ s \in unstarted /\ unstarted' = unstarted \ {s}
      /\ running_servers' = Counted(s, running_servers)
      /\ UNCHANGED <<backed, notices, inbox, services, bootstraps>>
  BY DEF BootServer, lists
<1>2. s \notin alive /\ task_port[s] = PORT_NULL
  BY <1>1 DEF Launched
<1>3. Structure' /\ Dealings' /\ Custodial'
  BY <1>1, <1>2, StartGood
<1>4. PICK tp \in Port :
        /\ tp \notin TaskPorts /\ recv[tp] = Free
        /\ task_port' = [task_port EXCEPT ![s] = tp] /\ alive' = alive \cup {s}
  BY <1>1, ComesUp, FreshPort DEF Special, FreePorts
<1>5. Tally'
  <2>1. tp \notin notices /\ PORT_NULL \notin notices
    BY <1>4, HolderFacts, PortFacts DEF NoticesDead, TypeOK
  <2>2. s \notin Running
    BY <1>2, <2>1 DEF Running
  <2>3. Running' = IF ServerType[s] = "ETCINIT" THEN Running ELSE Running \cup {s}
    BY <1>1, <1>4, <2>1 DEF Running, TypeOK
  <2>4. running_servers' = IF ServerType[s] = "ETCINIT" THEN running_servers
                           ELSE running_servers + 1
    BY <1>1, <1>4 DEF Counted
  <2> QED
    BY <2>2, <2>3, <2>4, FS_AddElement DEF Tally
<1> QED
  BY <1>3, <1>5

\* The inherited bootstrap port is no server's task port.
LEMMA InheritedGood ==
  ASSUME WInv, Inv', NEW np \in Port, InheritedDied(np) PROVE Good'
<1> USE DEF WInv, Inv, Good, Structure, Dealings, Custodial
<1>1. /\ np = INHERITED /\ notices' = notices \ {np}
      /\ UNCHANGED <<recv, backed, rights, alive, inbox, services, bootstraps, port,
                     task_port, running_servers, unstarted>>
  BY PortFacts DEF InheritedDied, lists, procs, TypeOK
<1>2. UNCHANGED <<Ported, Requested, Queued, Used, TaskPorts, BootstrapPorts,
                  Special, Known>>
  BY <1>1 DEF Ported, Requested, Queued, Used, TaskPorts, BootstrapPorts, Special, Known
<1>3. Structure'
  BY <1>1, <1>2 DEF Distinct, Apart, Allocated, Addresses
<1>4. Dealings'
  BY <1>1, <1>2 DEF Requests, Backup, Rights, Launched
<1>5. Custodial'
  <2>1. np \in Special /\ \A v \in Ported : v.port # np
    BY <1>1, UsedFacts DEF Apart, Special
  <2>2. \A b \in Requested : b.requestor_port # np
    BY <2>1, UsedFacts DEF Apart
  <2>3. \A v \in services : v.port # PORT_NULL /\ recv[v.port] = Dead => v.port # np
    BY <2>1, HolderFacts DEF Ported, Addresses, BootstrapPorts
  <2> QED
    BY <1>1, <2>2, <2>3
    DEF ActiveIffServed, InactiveIsBacked, PrivilegedCustody, DeathIsNoticed, Requested
<1>6. Tally'
  <2>1. Running' = Running
    BY <1>1 DEF Running, Addresses
  <2> QED
    BY <1>1, <2>1 DEF Tally
<1> QED
  BY <1>3, <1>4, <1>5, <1>6

LEMMA ServerDiedGood ==
  ASSUME WellBehaved, WInv, Inv', NEW np \in Port, ServerDied(np) PROVE Good'
<1> USE DEF WInv, Inv, Good, Structure, Dealings, Custodial
<1>1. PICK s \in Servers :
        /\ task_port[s] = np
        /\ IF Restarted(s)
           THEN start_server(s) /\ running_servers' = Counted(s, Decremented)
           ELSE /\ running_servers' = Decremented
                /\ UNCHANGED <<recv, rights, alive, port, task_port, status>>
  BY DEF ServerDied, lookup_server_by_task_port
<1>2. /\ np \in notices /\ notices' = notices \ {np} /\ unstarted = {}
      /\ UNCHANGED <<backed, inbox, services, bootstraps, unstarted>>
  BY DEF ServerDied, Serving, lists
<1>3. /\ recv[np] = Dead /\ s \notin alive /\ ServerType[s] # "ETCINIT"
      /\ np # PORT_NULL /\ np \in TaskPorts
      /\ \A t \in Servers : t # s => task_port[t] # np
  BY <1>1, <1>2, PortFacts, HolderFacts
  DEF NoticesDead, Launched, Addresses, TaskPorts
<1>4. /\ s \in Running /\ Cardinality(Running) \in Nat
      /\ running_servers > 0 /\ Decremented = running_servers - 1
      /\ IsFiniteSet(Running \ {s})
      /\ Cardinality(Running \ {s}) = running_servers - 1
  <2>1. s \in Running
    BY <1>1, <1>2, <1>3 DEF Running
  <2>2. /\ IsFiniteSet(Running \ {s}) /\ Cardinality(Running) \in Nat
        /\ Cardinality(Running \ {s}) = Cardinality(Running) - 1
        /\ Cardinality(Running \ {s}) \in Nat
    BY <2>1, FS_RemoveElement, FS_CardinalityType DEF Tally
  <2> QED
    BY <2>1, <2>2 DEF Tally, Decremented
<1>5. CASE Restarted(s)
  <2>1. Structure' /\ Dealings' /\ Custodial'
    BY <1>1, <1>2, <1>3, <1>5, StartGood
  <2>2. PICK tp \in Port :
          /\ tp \notin TaskPorts
          /\ task_port' = [task_port EXCEPT ![s] = tp] /\ alive' = alive \cup {s}
    BY <1>1, <1>5, ComesUp, FreshPort DEF Special, FreePorts
  <2>3. Running' = Running
    BY <1>2, <1>3, <1>4, <2>2 DEF Running, TypeOK
  <2>4. running_servers' = running_servers
    BY <1>1, <1>3, <1>4, <1>5, <2>2 DEF Counted, TypeOK
  <2> QED
    BY <2>1, <2>3, <2>4 DEF Tally
<1>6. CASE ~Restarted(s)
  <2>1. UNCHANGED <<recv, backed, rights, alive, inbox, services, bootstraps, port,
                    task_port, unstarted>>
    BY <1>1, <1>2, <1>6
  <2>2. UNCHANGED <<Ported, Requested, Queued, Used, TaskPorts, BootstrapPorts,
                    Special, Known>>
    BY <2>1 DEF Ported, Requested, Queued, Used, TaskPorts, BootstrapPorts, Special, Known
  <2>3. Structure'
    BY <2>1, <2>2 DEF Distinct, Apart, Allocated, Addresses
  <2>4. Dealings'
    BY <2>1, <2>2 DEF Requests, Backup, Rights, Launched
  <2>5. Custodial'
    <3>1. \A v \in Ported : v.port # np
      BY <1>3, UsedFacts DEF Apart, Special
    <3>2. \A b \in Requested : b.requestor_port # np
      BY <1>3, UsedFacts DEF Apart, Special
    <3>3. \A v \in services : v.port # PORT_NULL /\ recv[v.port] = Dead => v.port # np
      BY <3>1, HolderFacts DEF Ported, Addresses, BootstrapPorts
    <3> QED
      BY <1>2, <2>1, <3>2, <3>3
      DEF ActiveIffServed, InactiveIsBacked, PrivilegedCustody, DeathIsNoticed, Requested
  <2>6. Tally'
    <3>1. Running' = Running \ {s}
      BY <1>1, <1>2, <1>3, <2>1 DEF Running
    <3> QED
      BY <1>1, <1>4, <1>6, <3>1 DEF Tally
  <2> QED
    BY <2>3, <2>4, <2>5, <2>6
<1> QED
  BY <1>5, <1>6

------------------------------------------------------------------------------
(* Ports that die or come back. *)

\* The rights to a service's port come back, or those to a port that no
\* service has.
LEMMA BackedUpGood ==
  ASSUME WellBehaved, WInv, Inv', NEW np \in Port, PortBackedUp(np) PROVE Good'
<1> USE DEF WInv, Inv, Good, Structure, Dealings, Custodial
<1>1. /\ recv[np] = Transit
      /\ UNCHANGED <<notices, alive, inbox, bootstraps, port, task_port,
                     running_servers, unstarted>>
  BY DEF PortBackedUp, procs
<1>2. /\ \A r \in Queued : r.arg # np
      /\ \A s \in Servers : task_port[s] # np
      /\ np \notin BootstrapPorts /\ np # PORT_NULL
  <2>1. \A r \in Queued : r.arg # np
    <3>1. \A r \in inbox : r.from \in Task
      BY DEF TypeOK, Request
    <3>2. \A r \in Queued : r \in inbox /\ recv[r.arg] \in {r.from, Dead}
      BY DEF Requests, Queued
    <3> QED
      BY <1>1, <3>1, <3>2, HolderFacts
  <2>2. \A s \in Servers : task_port[s] # np
    BY <1>1, HolderFacts, PortFacts DEF Launched
  <2> QED
    BY <1>1, <2>1, <2>2, HolderFacts, PortFacts DEF Addresses
<1>3. Tally'
  BY <1>1 DEF Tally, Running
<1>4. ASSUME NEW v \in services, v.port = np,
             Replace(v, Reinitialized(v, np)),
             recv' = [recv EXCEPT ![np] = Broker],
             backed' = BackedAgain({np}), UNCHANGED rights
      PROVE  Good'
  <2>1. v \in Ported
    BY <1>2, <1>4 DEF Ported, Addresses, BootstrapPorts
  <2>2. PICK w : w = Reinitialized(v, np)
    OBVIOUS
  <2>3. /\ w.port = v.port /\ w.bootstrap = v.bootstrap /\ w.server = v.server
        /\ w.servicetype = v.servicetype /\ ~w.isActive
        /\ services' = (services \ {v}) \cup {w}
    BY <1>4, <2>2 DEF Reinitialized, TypeOK, Service, Replace
  <2>4. /\ \A p \in Port : recv'[p] = IF p = np THEN Broker ELSE recv[p]
        /\ backed' = backed \cup {np}
    BY <1>4 DEF TypeOK, BackedAgain
  <2>5. /\ Ported' = (Ported \ {v}) \cup {w}
        /\ UNCHANGED <<Requested, Queued, TaskPorts, BootstrapPorts, Special>>
    BY <1>1, <2>1, <2>3 DEF Ported, Requested, Queued, TaskPorts, BootstrapPorts, Special
  <2>6. Used' \subseteq Used /\ np \in Used
    BY <1>4, <2>1, <2>3, <2>5 DEF Used
  <2>7. Structure'
    <3>1. Distinct'
      BY <2>1, <2>3, <2>5 DEF Distinct
    <3>2. Apart'
      BY <2>5, <2>6 DEF Apart
    <3>3. Known' \subseteq Known
      BY <1>1, <2>4, <2>5, <2>6 DEF Known
    <3>4. Allocated'
      BY <2>4, <3>3, HolderFacts DEF Allocated
    <3>5. Addresses'
      BY <1>1, <2>1, <2>3, <2>4, <2>5, UsedFacts DEF Addresses, Ported
    <3> QED
      BY <3>1, <3>2, <3>4, <3>5
  <2>8. Dealings'
    <3>1. Requests'
      BY <1>1, <1>2, <2>4, <2>5, UsedFacts DEF Requests, Queued
    <3>2. Backup'
      BY <2>1, <2>3, <2>4, <2>5 DEF Backup, TypeOK
    <3>3. Rights'
      BY <1>1, <1>4, <2>1, <2>3, <2>5 DEF Rights
    <3>4. Launched'
      <4>1. \A s \in Servers : s \in alive => task_port[s] # PORT_NULL
        BY PortFacts DEF LiveHasPort
      <4> QED
        BY <1>1, <1>2, <2>4, <4>1, UsedFacts DEF Launched
    <3> QED
      BY <3>1, <3>2, <3>3, <3>4
  <2>9. Custodial'
    <3>1. \A u \in services : u # v /\ u.port # PORT_NULL => u.port \in Port /\ u.port # np
      BY <1>2, <1>4, <2>1, UsedFacts, PortFacts
      DEF Ported, Distinct, Addresses, BootstrapPorts, TypeOK, Service
    <3>2. ActiveIffServed'
      BY <1>4, <2>3, <2>4, <3>1 DEF ActiveIffServed
    <3>3. InactiveIsBacked'
      BY <1>4, <2>3, <2>4 DEF InactiveIsBacked
    <3>4. PrivilegedCustody'
      BY <1>4, <2>3, <2>4, <3>1 DEF PrivilegedCustody
    <3>5. DeathIsNoticed'
      BY <1>1, <1>4, <2>3, <2>4, <3>1, UsedFacts, HolderFacts DEF DeathIsNoticed, Requested
    <3> QED
      BY <3>2, <3>3, <3>4, <3>5
  <2> QED
    BY <1>3, <2>7, <2>8, <2>9
<1>5. ASSUME lookup_service_by_port(np) = {},
             recv' = [recv EXCEPT ![np] = Broker],
             UNCHANGED <<rights, backed, services>>
      PROVE  Good'
  <2>1. \A p \in Port : recv'[p] = IF p = np THEN Broker ELSE recv[p]
    BY <1>5 DEF TypeOK
  <2>2. UNCHANGED <<Ported, Requested, Queued, Used, TaskPorts, BootstrapPorts,
                    Special, Known>>
    BY <1>1, <1>5
    DEF Ported, Requested, Queued, Used, TaskPorts, BootstrapPorts, Special, Known
  <2>3. Structure'
    <3>1. Distinct' /\ Apart' /\ Allocated'
      BY <2>1, <2>2, HolderFacts DEF Distinct, Apart, Allocated
    <3>2. Addresses'
      BY <1>1, <1>5, <2>1, <2>2, UsedFacts DEF Addresses
    <3> QED
      BY <3>1, <3>2
  <2>4. Dealings'
    <3>1. Requests'
      BY <1>1, <1>2, <1>5, <2>1, <2>2, UsedFacts DEF Requests, Queued
    <3>2. Backup' /\ Rights'
      BY <1>1, <1>5, <2>1, <2>2 DEF Backup, Rights, TypeOK
    <3>3. Launched'
      <4>1. \A s \in Servers : s \in alive => task_port[s] # PORT_NULL
        BY PortFacts DEF LiveHasPort
      <4> QED
        BY <1>1, <1>2, <2>1, <4>1, UsedFacts DEF Launched
    <3> QED
      BY <3>1, <3>2, <3>3
  <2>5. Custodial'
    <3>1. \A v \in services : v.port # PORT_NULL => v.port \in Port /\ v.port # np
      BY <1>5 DEF lookup_service_by_port, TypeOK, Service
    <3> QED
      BY <1>1, <1>5, <2>1, <3>1, UsedFacts, HolderFacts
      DEF ActiveIffServed, InactiveIsBacked, PrivilegedCustody, DeathIsNoticed, Requested
  <2> QED
    BY <1>3, <2>3, <2>4, <2>5
<1>6. Deallocated({np}) = {}
  BY NoneDeallocated
<1> QED
  BY <1>4, <1>5, <1>6 DEF PortBackedUp, lookup_service_by_port

\* What delete_bootstrap takes away: subset ports and requestor ports.
Closed(np) == {b.bootstrap_port : b \in Doomed(np)}
Given(np)  == Closed(np) \cup {b.requestor_port : b \in Doomed(np)}

LEMMA PortDiedFacts ==
  ASSUME WInv, NEW np \in Port, PortDied(np)
  PROVE  /\ np \in notices /\ notices' = notices \ {np} /\ recv[np] = Dead
         /\ \A s \in Servers : task_port[s] # np
         /\ bootstraps' = bootstraps \ Doomed(np) /\ inbox' \subseteq inbox
         /\ Doomed(np) \subseteq bootstraps
         /\ UNCHANGED <<alive, port, task_port, running_servers, unstarted>>
         /\ Closed(np) \subseteq BootstrapPorts /\ ROOT \notin Closed(np)
         /\ BootstrapPorts' = BootstrapPorts \ Closed(np)
         /\ Requested' = Requested \ Doomed(np)
         /\ \A p \in Given(np) : p # PORT_NULL => p \in BootstrapPorts \/ p \in Used
         /\ \A v \in Ported : v.port \notin Given(np)
         /\ \A b \in Requested \ Doomed(np) : b.requestor_port \notin Given(np)
         /\ \A r \in Queued : r.arg \notin Given(np)
         /\ \A p \in BootstrapPorts \ Closed(np) : p \notin Given(np)
         /\ \A s \in Servers :
              task_port[s] # PORT_NULL => task_port[s] \notin Given(np)
<1> USE DEF WInv, Inv, Good, Structure, Dealings
<1>1. /\ np \in notices /\ notices' = notices \ {np} /\ recv[np] = Dead
      /\ \A s \in Servers : task_port[s] # np
      /\ bootstraps' = bootstraps \ Doomed(np) /\ inbox' \subseteq inbox
      /\ Doomed(np) \subseteq bootstraps
      /\ UNCHANGED <<alive, port, task_port, running_servers, unstarted>>
  BY DEF PortDied, procs, NoticesDead, lookup_server_by_task_port, Doomed
\* No port of a service and no requestor port is closed.
<1>2. /\ Closed(np) \subseteq BootstrapPorts /\ ROOT \notin Closed(np)
      /\ BootstrapPorts' = BootstrapPorts \ Closed(np)
      /\ Requested' = Requested \ Doomed(np)
  <2>1. Closed(np) \subseteq BootstrapPorts /\ ROOT \notin Closed(np)
    BY <1>1 DEF Closed, BootstrapPorts, Addresses
  <2>2. \A c \in bootstraps : c.bootstrap_port \in Closed(np) => c \in Doomed(np)
    BY DEF Doomed, Closed
  <2> QED
    BY <1>1, <2>1, <2>2 DEF Closed, BootstrapPorts, Requested
<1>3. /\ \A p \in Given(np) : p # PORT_NULL => p \in BootstrapPorts \/ p \in Used
      /\ \A v \in Ported : v.port \notin Given(np)
      /\ \A b \in Requested \ Doomed(np) : b.requestor_port \notin Given(np)
      /\ \A r \in Queued : r.arg \notin Given(np)
      /\ \A p \in BootstrapPorts \ Closed(np) : p \notin Given(np)
      /\ \A s \in Servers : task_port[s] # PORT_NULL => task_port[s] \notin Given(np)
  <2>1. \A b \in Doomed(np) : b.requestor_port # PORT_NULL => b \in Requested
    BY <1>1 DEF Requested
  <2>2. \A p \in Given(np) : p # PORT_NULL =>
          p \in Closed(np) \/ \E b \in Requested \cap Doomed(np) : p = b.requestor_port
    BY <2>1 DEF Given, Closed
  <2>3. \A v \in Ported : v.port \notin Given(np)
    BY <1>2, <2>2, UsedFacts, PortFacts DEF Distinct, Apart
  <2>4. \A b \in Requested \ Doomed(np) : b.requestor_port \notin Given(np)
    BY <1>2, <2>2, UsedFacts, PortFacts DEF Distinct, Apart
  <2>5. \A r \in Queued : r.arg \notin Given(np)
    <3>1. \A r \in Queued : r.arg # PORT_NULL /\ r.arg \notin BootstrapPorts
      BY UsedFacts, PortFacts DEF Apart
    <3>2. \A r \in Queued, b \in Requested : b.requestor_port # r.arg
      BY DEF Distinct
    <3> QED
      BY <1>2, <2>2, <3>1, <3>2
  <2>6. \A p \in BootstrapPorts \ Closed(np) : p \notin Given(np)
    BY <2>2, UsedFacts, PortFacts DEF Apart
  <2>7. \A s \in Servers : task_port[s] # PORT_NULL => task_port[s] \notin Closed(np)
    BY <1>2, HolderFacts DEF Addresses, Launched
  <2>8. \A s \in Servers : task_port[s] # PORT_NULL => task_port[s] \notin Given(np)
    BY <2>2, <2>7, UsedFacts DEF Apart
  <2>9. \A p \in Given(np) : p # PORT_NULL => p \in BootstrapPorts \/ p \in Used
    BY <1>2, <2>2, UsedFacts
  <2> QED
    BY <2>3, <2>4, <2>5, <2>6, <2>8, <2>9
<1> QED
  BY <1>1, <1>2, <1>3

\* The port of a service or the requestor port of subsets has died.
LEMMA PortDiedGood ==
  ASSUME WellBehaved, WInv, Inv', NEW np \in Port, PortDied(np) PROVE Good'
<1> USE DEF WInv, Inv, Good, Structure, Dealings, Custodial
<1> DEFINE ended  == {p \in Given(np) : p # PORT_NULL /\ recv[p] = Broker}
           left   == {v \in services : v.bootstrap \notin Closed(np)}
           failed == {v \in left : v.port = np /\ v.servicetype # "REGISTERED"}
<1>1. PICK new \in Allocations(failed) :
        /\ services' = {v \in left : v.port # np}
                       \cup {Reinitialized(v, new[v]) : v \in failed}
        /\ recv' = [p \in Port |->
                      CASE p \in ended -> IF p \in backed THEN Transit ELSE Dead
                        [] p \in {new[v] : v \in failed} -> Broker
                        [] OTHER -> recv[p]]
        /\ backed' = (backed \cup {new[v] : v \in failed}) \ ended
        /\ rights' = (rights \ Given(np)) \cup {new[v] : v \in failed}
  BY DEF PortDied, BackedAgain, Closed, Given
<1>2. PICK fresh \in SUBSET FreePorts : fresh = {new[v] : v \in failed}
  <2>1. \A v \in failed : new[v] \in FreePorts
    BY DEF Allocations
  <2> QED
    BY <2>1
<1>3. /\ recv' = [p \in Port |->
                    CASE p \in ended -> IF p \in backed THEN Transit ELSE Dead
                      [] p \in fresh -> Broker
                      [] OTHER -> recv[p]]
      /\ backed' = (backed \cup fresh) \ ended
      /\ rights' = (rights \ Given(np)) \cup fresh
  BY <1>1, <1>2
<1>4. /\ np \in notices /\ notices' = notices \ {np} /\ recv[np] = Dead
      /\ \A s \in Servers : task_port[s] # np
      /\ bootstraps' = bootstraps \ Doomed(np) /\ inbox' \subseteq inbox
      /\ Doomed(np) \subseteq bootstraps
      /\ UNCHANGED <<alive, port, task_port, running_servers, unstarted>>
  BY PortDiedFacts
<1>5. /\ Closed(np) \subseteq BootstrapPorts /\ ROOT \notin Closed(np)
      /\ BootstrapPorts' = BootstrapPorts \ Closed(np)
      /\ Requested' = Requested \ Doomed(np)
  BY PortDiedFacts
<1>6. /\ \A p \in Given(np) : p # PORT_NULL => p \in BootstrapPorts \/ p \in Used
      /\ \A v \in Ported : v.port \notin Given(np)
      /\ \A b \in Requested \ Doomed(np) : b.requestor_port \notin Given(np)
      /\ \A r \in Queued : r.arg \notin Given(np)
      /\ \A p \in BootstrapPorts \ Closed(np) : p \notin Given(np)
      /\ \A s \in Servers : task_port[s] # PORT_NULL => task_port[s] \notin Given(np)
  BY PortDiedFacts
<1>7. \A p \in fresh : p \in Port /\ p \notin Known /\ p \notin Given(np)
  <2>1. \A p \in fresh : p \in Port /\ p \notin Known /\ p \notin BootstrapPorts
                         /\ p \notin Used
    BY FreshPort
  <2> QED
    BY <1>6, <2>1, PortFacts
\* The services that are left: they keep their ports, or have new ones.
<1>8. ASSUME NEW w \in services'
      PROVE  \/ w \in services /\ w.bootstrap \notin Closed(np) /\ w.port # np
             \/ /\ w.port \in fresh /\ ~w.isActive /\ w.servicetype # "SELF"
  <2>1. CASE w \in left /\ w.port # np
    BY <2>1
  <2>2. CASE w \in {Reinitialized(v, new[v]) : v \in failed}
    <3>1. PICK v \in failed : w = Reinitialized(v, new[v])
      BY <2>2
    <3>2. v \in services /\ v.port = np /\ np # ROOT
      BY <1>4, HolderFacts DEF Addresses, BootstrapPorts
    <3>3. w.port = new[v] /\ ~w.isActive /\ w.servicetype # "SELF"
      BY <3>1, <3>2 DEF Reinitialized, TypeOK, Service, Addresses
    <3> QED
      BY <1>2, <3>3
  <2> QED
    BY <1>1, <2>1, <2>2
<1>9. \A v \in services : v.bootstrap \notin Closed(np) /\ v.port # np => v \in services'
  BY <1>1
<1>10. \A v, w \in services' : v.port \in fresh /\ w.port \in fresh => v = w
  <2>1. ASSUME NEW w \in services', w.port \in fresh
        PROVE  w \in {Reinitialized(v, new[v]) : v \in failed}
    <3>1. ~(w \in services)
      BY <2>1, FreshPort
    <3> QED
      BY <1>1, <3>1
  <2>2. \A v, w \in failed : v = w
    BY <1>4, PortFacts, HolderFacts
    DEF Distinct, Ported, Addresses, BootstrapPorts
  <2> QED
    BY <2>1, <2>2
<1> HIDE DEF left, failed
\* What is known and not Given(np) up keeps its receiver, its backup and its right.
<1>11. /\ \A p \in Known \cap Port : p \notin Given(np) =>
            recv'[p] = recv[p] /\ (p \in backed => p \in backed')
            /\ (p \in rights => p \in rights')
       /\ \A p \in Known \cap Port : recv'[p] # Free
       /\ \A p \in fresh : recv'[p] = Broker /\ p \in backed' /\ p \in rights'
       /\ \A p \in backed' :
            p \in fresh \/ (p \in backed /\ (p \in Given(np) => recv[p] # Broker))
       /\ \A p \in Given(np) : p \in ended \/ p = PORT_NULL \/ recv[p] # Broker
       /\ \A p \in Port : p \notin ended /\ p \notin fresh => recv'[p] = recv[p]
  <2>1. \A p \in ended : p \in Given(np)
    OBVIOUS
  <2>2. \A p \in Given(np) : p \in ended \/ p = PORT_NULL \/ recv[p] # Broker
    OBVIOUS
  <2>3. \A p \in backed : p # PORT_NULL
    BY PortFacts DEF TypeOK
  <2>4. \A p \in fresh : p \notin ended /\ p \in Port
    BY <1>7, <2>1
  <2> HIDE DEF ended
  <2>5. \A p \in Known \cap Port : p \notin Given(np) =>
          recv'[p] = recv[p] /\ (p \in backed => p \in backed')
          /\ (p \in rights => p \in rights')
    BY <1>3, <1>7, <2>1
  <2>6. \A p \in Known \cap Port : recv'[p] # Free
    BY <1>3, <1>7, HolderFacts DEF Allocated
  <2>7. \A p \in fresh : recv'[p] = Broker /\ p \in backed' /\ p \in rights'
    BY <1>3, <2>4
  <2>8. \A p \in backed' :
          p \in fresh \/ (p \in backed /\ (p \in Given(np) => recv[p] # Broker))
    BY <1>3, <2>2, <2>3
  <2>9. \A p \in Port : p \notin ended /\ p \notin fresh => recv'[p] = recv[p]
    BY <1>3
  <2> QED
    BY <2>2, <2>5, <2>6, <2>7, <2>8, <2>9
<1> HIDE DEF ended
<1>12. /\ Ported' \subseteq services' /\ Queued' \subseteq Queued
       /\ \A w \in Ported' : \/ w \in Ported /\ w.bootstrap \notin Closed(np) /\ w.port # np
                             \/ w.port \in fresh
       /\ \A v \in Ported : v.bootstrap \notin Closed(np) /\ v.port # np => v \in Ported'
       /\ TaskPorts' = TaskPorts
  BY <1>4, <1>8, <1>9 DEF Ported, Queued, TaskPorts
<1>13. Structure'
  <2>1. Used' \subseteq Used \cup fresh
    BY <1>5, <1>12 DEF Used
  <2>2. Special' \subseteq Special
    BY <1>5, <1>12 DEF Special
  <2>3. Known' \subseteq Known \cup fresh
    BY <1>3, <1>4, <2>1, <2>2 DEF Known
  <2>4. Distinct'
    <3>1. \A p \in fresh : p \notin Used
      BY <1>7, UsedFacts
    <3>2. \A v, w \in Ported' : v.port = w.port => v = w
      BY <1>10, <1>12, <3>1, UsedFacts DEF Distinct
    <3>3. \A v \in Ported', b \in Requested' : v.port # b.requestor_port
      BY <1>5, <1>12, <3>1, UsedFacts DEF Distinct
    <3>4. \A v \in Ported', r \in Queued' : v.port # r.arg
      BY <1>12, <3>1, UsedFacts DEF Distinct
    <3> QED
      BY <1>5, <1>12, <3>2, <3>3, <3>4 DEF Distinct
  <2>5. Apart'
    BY <1>7, <2>1, <2>2, UsedFacts DEF Apart
  <2>6. Allocated'
    BY <1>11, <2>3, HolderFacts DEF Allocated
  <2>7. Addresses'
    <3>1. \A p \in BootstrapPorts' : recv'[p] = Broker
      BY <1>5, <1>6, <1>11, UsedFacts DEF Addresses
    <3> QED
      BY <1>4, <1>5, <1>8, <3>1 DEF Addresses
  <2> QED
    BY <2>4, <2>5, <2>6, <2>7
<1>14. Dealings'
  <2>1. Requests'
    <3>1. \A r \in Queued : recv'[r.arg] = recv[r.arg] /\ r.arg \in Used
      BY <1>6, <1>11, UsedFacts
    <3>2. \A r \in Queued : r.arg \notin backed'
      BY <1>7, <1>11, <3>1, UsedFacts DEF Requests, Queued
    <3> QED
      BY <1>4, <1>12, <3>1, <3>2 DEF Requests, Queued
  <2>2. Backup'
    <3> SUFFICES ASSUME NEW p \in backed', p \notin fresh
                 PROVE  \/ recv'[p] = Broker
                        \/ /\ recv'[p] \in Task
                           /\ \E v \in Ported' : v.port = p /\ v.bootstrap = ROOT
      BY <1>11 DEF Backup
    <3>1. p \in backed /\ p \in Port /\ (p \in Given(np) => recv[p] # Broker)
      BY <1>11 DEF TypeOK
    <3>2. p \notin Given(np)
      BY <1>6, <3>1 DEF Backup
    <3>3. recv'[p] = recv[p]
      BY <1>11, <3>1, <3>2 DEF Known
    <3>4. recv[p] \in Task => p # np
      BY <1>4, HolderFacts
    <3> QED
      BY <1>5, <1>12, <3>1, <3>3, <3>4 DEF Backup
  <2>3. Rights'
    <3>1. \A w \in Ported' : w.port \in rights'
      BY <1>6, <1>11, <1>12, UsedFacts DEF Rights
    <3>2. \A b \in Requested' : b.requestor_port \in rights'
      BY <1>5, <1>6, <1>11, UsedFacts DEF Rights
    <3>3. \A s \in Servers : task_port[s] # PORT_NULL => task_port[s] \in rights'
      BY <1>6, <1>11, UsedFacts DEF Rights
    <3>4. ROOT \in rights'
      BY <1>5, <1>6, <1>11, UsedFacts DEF Rights, BootstrapPorts
    <3> QED
      BY <1>4, <3>1, <3>2, <3>3, <3>4 DEF Rights
  <2>4. Launched'
    <3>1. \A s \in Servers : task_port[s] # PORT_NULL =>
            recv'[task_port[s]] = recv[task_port[s]]
      BY <1>6, <1>11, UsedFacts
    <3>2. \A s \in Servers : s \in alive => task_port[s] # PORT_NULL
      BY PortFacts DEF LiveHasPort
    <3> QED
      BY <1>4, <3>1, <3>2 DEF Launched
  <2> QED
    BY <2>1, <2>2, <2>3, <2>4
<1>15. Custodial'
  <2>1. ASSUME NEW w \in services', w.port # PORT_NULL
        PROVE  \/ /\ w \in services /\ w.port # np /\ w.port \in Port
                  /\ recv'[w.port] = recv[w.port]
                  /\ w.port \in backed => w.port \in backed'
               \/ /\ ~w.isActive /\ recv'[w.port] = Broker /\ w.port \in backed'
    <3>1. CASE w.port \in fresh
      BY <1>8, <1>7, <1>11, <3>1, UsedFacts, PortFacts
      DEF Ported, Addresses, Known, Special, BootstrapPorts
    <3>2. CASE w.port \notin fresh
      <4>1. w \in services /\ w.port # np
        BY <1>8, <3>2
      <4>2. w.port \notin Given(np)
        BY <1>5, <1>6, <2>1, <4>1 DEF Ported, Addresses, BootstrapPorts
      <4>3. w.port \in Known \cap Port
        BY <2>1, <4>1, UsedFacts, PortFacts
        DEF Ported, Addresses, Known, Special, BootstrapPorts
      <4> QED
        BY <1>11, <4>1, <4>2, <4>3
    <3> QED
      BY <3>1, <3>2
  <2>2. \A w \in services' : w.port = PORT_NULL => w \in services
    BY <1>7, <1>8, PortFacts
  <2>3. ActiveIffServed'
    BY <2>1 DEF ActiveIffServed
  <2>4. InactiveIsBacked'
    BY <2>1, <2>2, PortFacts DEF InactiveIsBacked, TypeOK
  <2>5. PrivilegedCustody'
    BY <2>1 DEF PrivilegedCustody
  <2>6. DeathIsNoticed'
    <3>1. \A w \in services' : w.port # PORT_NULL /\ recv'[w.port] = Dead =>
            w.port \in notices'
      BY <1>4, <2>1, HolderFacts DEF DeathIsNoticed
    <3>2. \A b \in Requested' : b \in Requested /\ b.requestor_port # np
      <4>1. \A b \in bootstraps : b.requestor_port = np => b \in Doomed(np)
        BY DEF Doomed, Ancestry, lookup_bootstrap_req_by_port, BootstrapPorts
      <4> QED
        BY <1>5, <4>1 DEF Requested
    <3>3. \A b \in Requested' : recv'[b.requestor_port] = recv[b.requestor_port]
      BY <1>5, <1>6, <1>11, UsedFacts
    <3> QED
      BY <1>4, <3>1, <3>2, <3>3 DEF DeathIsNoticed, Requested
  <2> QED
    BY <2>3, <2>4, <2>5, <2>6
<1>16. Tally'
  BY <1>4 DEF Tally, Running
<1> QED
  BY <1>13, <1>14, <1>15, <1>16

------------------------------------------------------------------------------
(* The theorems. *)

LEMMA InitGood == ASSUME Init PROVE Good
<1> USE DEF PORT_NULL, ROOT, INHERITED
<1> DEFINE made(n, f) ==
             [name |-> n, bootstrap |-> ROOT, port |-> f[n], isActive |-> FALSE,
              servicetype |-> "DECLARED", server |-> Declared[n]]
           self == {[name |-> n, bootstrap |-> ROOT, port |-> ROOT,
                     isActive |-> TRUE, servicetype |-> "SELF",
                     server |-> MachInit] : n \in SelfNames}
<1>1. PICK f \in [DOMAIN Declared -> Port] :
        /\ \A m, n \in DOMAIN Declared : f[m] = f[n] => m = n
        /\ \A n \in DOMAIN Declared : f[n] > 2
        /\ services = {made(n, f) : n \in DOMAIN Declared} \cup self
        /\ backed = {f[n] : n \in DOMAIN Declared}
        /\ recv = [p \in Port |-> CASE p \in backed \cup {ROOT} -> Broker
                                    [] p = INHERITED /\ Parent # NoTask -> Parent
                                    [] p = INHERITED /\ Parent = NoTask -> Dead
                                    [] OTHER -> Free]
        /\ rights = backed \cup {ROOT}
                    \cup IF Parent = NoTask THEN {} ELSE {INHERITED}
  BY DEF Init
<1> HIDE DEF made, self
<1>2. /\ notices = {} /\ inbox = {} /\ bootstraps = {} /\ unstarted = Servers
      /\ \A s \in Servers : port[s] = PORT_NULL /\ task_port[s] = PORT_NULL
      /\ running_servers = 0 /\ \A s \in Servers : s \notin alive
  BY ConfigAssumption DEF Init
<1>3. \A n \in DOMAIN Declared :
        LET v == made(n, f)
        IN  /\ v.port = f[n] /\ v.bootstrap = ROOT /\ ~v.isActive
            /\ v.servicetype = "DECLARED"
  BY DEF made
<1>4. \A v \in self : /\ v.port = ROOT /\ v.isActive /\ v.servicetype = "SELF"
                      /\ v.server = MachInit
  BY DEF self
<1>5. \A v \in services :
        \/ v \in self
        \/ \E n \in DOMAIN Declared : /\ v = made(n, f) /\ v.port = f[n]
                                      /\ v.port \in backed /\ ~v.isActive
                                      /\ v.servicetype = "DECLARED"
  BY <1>1, <1>3
<1>6. \A p \in backed : /\ p \in Port /\ p # PORT_NULL /\ p # ROOT /\ p # INHERITED
                        /\ p \in rights /\ recv[p] = Broker
  <2>1. \A p \in backed : p \in Port /\ p > 2
    BY <1>1
  <2>2. \A p \in backed : p \in rights /\ p # INHERITED
    BY <1>1, <2>1
  <2>3. \A p \in backed : recv[p] = Broker
    BY <1>1, <2>1, <2>2
  <2> QED
    BY <2>1, <2>2, <2>3, PortFacts
<1>7. /\ BootstrapPorts = {ROOT} /\ recv[ROOT] = Broker
      /\ recv[INHERITED] # Free
  <2>1. BootstrapPorts = {ROOT}
    BY <1>2 DEF BootstrapPorts
  <2>2. recv[ROOT] = Broker
    BY <1>1, PortFacts
  <2>3. Parent # NoTask => Parent \in Task
    BY ConfigAssumption, HolderFacts
  <2>4. recv[INHERITED] \in {Broker, Parent, Dead}
        /\ (Parent = NoTask => recv[INHERITED] \in {Broker, Dead})
    BY <1>1, PortFacts
  <2> QED
    BY <2>1, <2>2, <2>3, <2>4, HolderFacts
<1>8. /\ Requested = {} /\ Queued = {} /\ Used \subseteq backed
      /\ Special \subseteq {ROOT, INHERITED, PORT_NULL}
      /\ Known \subseteq backed \cup {ROOT, INHERITED, PORT_NULL}
  <2>1. Requested = {} /\ Queued = {}
    BY <1>2 DEF Requested, Queued
  <2>2. Used \subseteq backed
    BY <1>4, <1>5, <2>1 DEF Used, Ported
  <2>3. Special \subseteq {ROOT, INHERITED, PORT_NULL}
    BY <1>2, <1>7 DEF Special, TaskPorts
  <2> QED
    BY <1>2, <2>1, <2>2, <2>3 DEF Known
<1>9. Structure
  <2>1. Distinct
    BY <1>1, <1>4, <1>5, <1>8 DEF Distinct, Ported
  <2>2. Apart
    BY <1>6, <1>8 DEF Apart
  <2>3. Allocated
    BY <1>6, <1>7, <1>8, PortFacts, HolderFacts DEF Allocated
  <2>4. Addresses
    <3>1. \A v \in services : v.servicetype = "SELF" => v.port = ROOT /\ v.isActive
      BY <1>4, <1>5
    <3>2. \A p \in BootstrapPorts : recv[p] = Broker
      BY <1>7
    <3>3. \A s \in Servers : port[s] \notin BootstrapPorts /\ task_port[s] # INHERITED
      BY <1>2, <1>7
    <3> QED
      BY <1>2, <3>1, <3>2, <3>3 DEF Addresses
  <2> QED
    BY <2>1, <2>2, <2>3, <2>4 DEF Structure
<1>10. Dealings
  <2>1. Requests /\ Launched
    BY <1>2 DEF Requests, Launched
  <2>2. Backup
    BY <1>6 DEF Backup
  <2>3. Rights
    BY <1>1, <1>2, <1>4, <1>5, <1>6, <1>8 DEF Rights, Ported
  <2> QED
    BY <2>1, <2>2, <2>3 DEF Dealings
<1>11. Custodial
  <2>1. \A v \in services : v \in self \/ (~v.isActive /\ v.port \in backed
                                           /\ recv[v.port] = Broker)
    BY <1>5, <1>6
  <2>2. \A v \in self : recv[v.port] = Broker
    BY <1>4, <1>7
  <2> QED
    BY <1>2, <1>4, <2>1, <2>2, HolderFacts
    DEF Custodial, ActiveIffServed, InactiveIsBacked, PrivilegedCustody, DeathIsNoticed
<1>12. Tally
  <2>1. Running = {}
    BY <1>2 DEF Running
  <2> QED
    BY <1>2, <2>1, FS_EmptySet DEF Tally
<1> QED
  BY <1>9, <1>10, <1>11, <1>12 DEF Good

LEMMA NextGood == ASSUME WellBehaved, WInv, [Next]_vars PROVE WInv'
<1>1. Inv'
  BY NextInv DEF WInv
<1>2. ASSUME NEW t \in Task,
             AllocatePort(t) \/ SendRequest(t) \/ DropPort(t) \/ TaskDies(t)
      PROVE  Good'
  BY <1>1, <1>2, AllocateGood, SendGood, DropGood, DieGood
<1>3. ASSUME NEW r \in inbox,
             \/ x_bootstrap_check_in(r)  \/ x_bootstrap_register(r)
             \/ x_bootstrap_look_up(r)   \/ x_bootstrap_status(r)
             \/ x_bootstrap_info(r)      \/ x_bootstrap_subset(r)
             \/ x_bootstrap_create_service(r)
      PROVE  Good'
  BY <1>1, <1>3, CheckInGood, RegisterGood, LookUpGood, StatusGood, InfoGood,
     SubsetGood, CreateGood
<1>4. ASSUME NEW s \in Servers, BootServer(s)
      PROVE  Good'
  BY <1>1, <1>4, BootGood
<1>5. ASSUME NEW np \in Port, HandleNotice(np)
      PROVE  Good'
  BY <1>1, <1>5, InheritedGood, ServerDiedGood, PortDiedGood, BackedUpGood
     DEF HandleNotice
<1>6. ASSUME UNCHANGED vars PROVE Good'
  <2>1. services' \subseteq services /\ Ported \subseteq services'
    BY <1>6 DEF vars, lists, Ported
  <2> QED
    BY <1>6, <2>1, FewerGood DEF vars, kernel, lists, procs
<1>7. Good'
  BY <1>2, <1>3, <1>4, <1>5, <1>6
     DEF Next, Environment, MachInitStep, HandleRequest
<1> QED
  BY <1>1, <1>7 DEF WInv

LEMMA CustodyInvariance == ASSUME WellBehaved PROVE Spec => []WInv
<1>1. Init => WInv
  BY InitInv, InitGood DEF WInv
<1>2. WInv /\ [Next]_vars => WInv'
  BY NextGood
<1> QED
  BY <1>1, <1>2, PTL DEF Spec

\* Among well-behaved tasks a service is inactive exactly while mach_init holds
\* the receive rights of its port: nobody can check in what is served, and
\* what nobody serves is never taken for served.
THEOREM Served == ASSUME WellBehaved PROVE Spec => []ActiveIffServed
<1>1. WInv => ActiveIffServed
  BY DEF WInv, Good, Custodial
<1> QED
  BY <1>1, CustodyInvariance, PTL

\* What mach_init offers for check-in is backed up: the rights it will hand
\* out return to it when the server that took them dies.
THEOREM OfferedComesBack == ASSUME WellBehaved PROVE Spec => []InactiveIsBacked
<1>1. WInv => InactiveIsBacked
  BY DEF WInv, Good, Custodial
<1> QED
  BY <1>1, CustodyInvariance, PTL

\* Only the server it was configured for ever receives on the port of a
\* configured service.
THEOREM PrivilegeKept == ASSUME WellBehaved PROVE Spec => []PrivilegedCustody
<1>1. WInv => PrivilegedCustody
  BY DEF WInv, Good, Custodial
<1> QED
  BY <1>1, CustodyInvariance, PTL

\* No service and no subset stays behind on a dead port without a notice on
\* its way to server_loop.
THEOREM NoSilentDeath == ASSUME WellBehaved PROVE Spec => []DeathIsNoticed
<1>1. WInv => DeathIsNoticed
  BY DEF WInv, Good, Custodial
<1> QED
  BY <1>1, CustodyInvariance, PTL

\* running_servers is the number of the launched servers that live or whose
\* death is still to be handled, so the test that guards a restart never
\* refuses one on account of the count.
THEOREM ServersAreCounted == ASSUME WellBehaved PROVE Spec => []RunningCount
<1>1. WInv => RunningCount
  BY DEF WInv, Good, Tally, Running, RunningCount
<1> QED
  BY <1>1, CustodyInvariance, PTL

------------------------------------------------------------------------------
(* No service is forgotten while somebody may serve it. *)

Forgetting ==
  \A v \in services :
    \/ \E w \in services' : SameBinding(v, w)
    \/ v.port # PORT_NULL /\ recv[v.port] = Dead
    \/ v.bootstrap \notin BootstrapPorts'

LEMMA SupersetForgetsNone ==
  ASSUME services \subseteq services' PROVE Forgetting
BY DEF Forgetting, SameBinding

LEMMA ReplaceForgetsNone ==
  ASSUME NEW v \in services, NEW w, Replace(v, w), SameBinding(v, w) PROVE Forgetting
BY DEF Forgetting, SameBinding, Replace

LEMMA RequestForgets ==
  ASSUME WInv, NEW r \in inbox,
         \/ x_bootstrap_check_in(r)  \/ x_bootstrap_register(r)
         \/ x_bootstrap_look_up(r)   \/ x_bootstrap_status(r)
         \/ x_bootstrap_info(r)      \/ x_bootstrap_subset(r)
         \/ x_bootstrap_create_service(r)
  PROVE  Forgetting
<1>1. \A v \in services : SameBinding(v, CheckedIn(v))
                          /\ SameBinding(v, [v EXCEPT !.port = Arg(r), !.isActive = TRUE])
  BY DEF WInv, Inv, TypeOK, Service, CheckedIn, SameBinding
<1>2. CASE x_bootstrap_check_in(r)
  BY <1>1, <1>2, LookupIsService, SupersetForgetsNone, ReplaceForgetsNone
  DEF x_bootstrap_check_in, Refuse, lists
<1>3. CASE x_bootstrap_register(r)
  BY <1>1, <1>3, LookupIsService, SupersetForgetsNone, ReplaceForgetsNone
  DEF x_bootstrap_register, Refuse, lists
<1>4. CASE x_bootstrap_look_up(r)
  <2>1. \A v \in services \ services' : v.port # PORT_NULL /\ ~canSend(v.port)
    BY <1>4 DEF x_bootstrap_look_up, Lost
  <2>2. \A v \in services : v.port # PORT_NULL => v.port \in rights
    BY DEF WInv, Good, Structure, Dealings, Addresses, Rights, Ported
  <2> QED
    BY <2>1, <2>2 DEF Forgetting, SameBinding, canSend
<1>5. CASE x_bootstrap_status(r) \/ x_bootstrap_info(r) \/ x_bootstrap_subset(r)
  BY <1>5, SupersetForgetsNone
  DEF x_bootstrap_status, x_bootstrap_info, x_bootstrap_subset, Refuse, lists
<1>6. CASE x_bootstrap_create_service(r)
  BY <1>6, SupersetForgetsNone DEF x_bootstrap_create_service, Refuse, lists
<1> QED
  BY <1>2, <1>3, <1>4, <1>5, <1>6

LEMMA PortDiedForgets ==
  ASSUME WInv, NEW np \in Port, PortDied(np) PROVE Forgetting
<1>1. \A v \in services : v.bootstrap \notin Closed(np) /\ v.port # np =>
                           v \in services'
  BY DEF PortDied, Closed
<1> QED
  BY <1>1, PortDiedFacts, PortFacts DEF Forgetting, SameBinding

LEMMA BackedUpForgetsNone ==
  ASSUME WInv, NEW np \in Port, PortBackedUp(np) PROVE Forgetting
<1>1. \/ services' = services
      \/ \E v \in services : v.port = np /\ Replace(v, Reinitialized(v, np))
  BY DEF PortBackedUp, lookup_service_by_port
<1>2. \A v \in services : SameBinding(v, Reinitialized(v, np))
  BY DEF SameBinding, Reinitialized, WInv, Inv, TypeOK, Service
<1> QED
  BY <1>1, <1>2, SupersetForgetsNone, ReplaceForgetsNone

LEMMA NextForgets == ASSUME WInv, [Next]_vars PROVE Forgetting
<1>1. CASE \E r \in inbox :
             \/ x_bootstrap_check_in(r)  \/ x_bootstrap_register(r)
             \/ x_bootstrap_look_up(r)   \/ x_bootstrap_status(r)
             \/ x_bootstrap_info(r)      \/ x_bootstrap_subset(r)
             \/ x_bootstrap_create_service(r)
  BY <1>1, RequestForgets
<1>2. CASE \E np \in Port : PortDied(np) \/ PortBackedUp(np)
  BY <1>2, PortDiedForgets, BackedUpForgetsNone
<1>3. CASE Environment
  BY <1>3, SupersetForgetsNone
  DEF Environment, AllocatePort, SendRequest, DropPort, TaskDies, lists
<1>4. CASE \/ \E s \in Servers : BootServer(s)
           \/ \E np \in Port : InheritedDied(np) \/ ServerDied(np)
  BY <1>4, SupersetForgetsNone DEF BootServer, InheritedDied, ServerDied, lists
<1>5. CASE UNCHANGED vars
  BY <1>5, SupersetForgetsNone DEF vars, lists
<1> QED
  BY <1>1, <1>2, <1>3, <1>4, <1>5
  DEF Next, MachInitStep, HandleRequest, HandleNotice

\* Among well-behaved tasks a name disappears only with the port it stands for
\* or with its bootstrap: no lookup forgets a service that somebody serves.
THEOREM NothingIsForgotten == ASSUME WellBehaved PROVE Spec => DeletedOnlyIfGone
<1>1. WInv /\ [Next]_vars => [Forgetting]_vars
  BY NextForgets
<1> QED
  BY <1>1, CustodyInvariance, PTL DEF Spec, DeletedOnlyIfGone, Forgetting
==============================================================================
