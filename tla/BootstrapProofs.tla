--------------------------- MODULE BootstrapProofs ---------------------------
(***************************************************************************)
(* What mach_init keeps whatever its clients do: for every configuration,  *)
(* every set of tasks, every bound and every Env.  Inv is inductive; each  *)
(* lemma named after an action says that the action preserves it.          *)
(***************************************************************************)
EXTENDS Bootstrap, TLAPS

USE DEF PORT_NULL, ROOT, INHERITED

LEMMA PortFacts == /\ ROOT \in Port /\ INHERITED \in Port
                   /\ PORT_NULL \notin Port /\ Port \subseteq Nat
BY ConfigAssumption DEF Port

LEMMA HolderFacts ==
  /\ Task \subseteq Holder /\ Servers \subseteq Task /\ Clients \subseteq Task
  /\ {Broker, Transit, Dead, Free} \subseteq Holder
  /\ \A t \in Task : t \notin {Broker, Transit, Dead, Free}
  /\ Broker # Dead /\ Broker # Free /\ Transit # Dead /\ Dead # Free
  /\ Broker # Transit /\ Transit # Free
BY ConfigAssumption DEF Holder, Task, Broker, Transit, Dead, Free

------------------------------------------------------------------------------
(* The lookups of lists.c. *)

\* A port that arrives with a request always denotes an existing bootstrap.
LEMMA LookupIsBootstrap ==
  ASSUME TypeOK, NEW p
  PROVE  /\ lookup_bootstrap_by_port(p) \in BootstrapPorts
         /\ BootstrapPorts \subseteq Port
BY PortFacts DEF TypeOK, BootstrapRec, lookup_bootstrap_by_port, BootstrapPorts

\* A name resolves to services of that name only.
LEMMA LookupIsService ==
  ASSUME NEW bp, NEW n
  PROVE  \A v \in lookup_service_by_name(bp, n) : v \in services /\ v.name = n
BY DEF lookup_service_by_name

\* A name that a bootstrap itself has is found, whatever its ancestors hold.
LEMMA OwnNameIsFound ==
  ASSUME NEW v \in services, v.bootstrap \in BootstrapPorts
  PROVE  v \in lookup_service_by_name(v.bootstrap, v.name)
<1>1. v.bootstrap \in Ancestry(v.bootstrap)
  BY DEF Ancestry
<1> QED
  BY <1>1 DEF lookup_service_by_name

\* The ancestors of a subset's parent are its own.
LEMMA AncestryOfParent ==
  ASSUME NEW b \in bootstraps, NEW a \in Ancestry(b.parent)
  PROVE  a \in Ancestry(b.bootstrap_port)
<1>1. a \in BootstrapPorts
  BY DEF Ancestry
<1>2. ASSUME NEW S \in SUBSET BootstrapPorts, b.bootstrap_port \in S,
             \A c \in bootstraps : c.bootstrap_port \in S => c.parent \in S
      PROVE  a \in S
  <2>1. b.parent \in S
    BY <1>2
  <2> QED
    BY <1>2, <2>1 DEF Ancestry
<1> QED
  BY <1>1, <1>2 DEF Ancestry

\* msg_destroy_port takes every port for important: its last search can never
\* return the list head it compares the result with.
LEMMA AllImportant ==
  ASSUME TypeOK, NEW p
  PROVE  Important(p)
<1>1. Head \notin bootstraps
  BY PortFacts DEF TypeOK, BootstrapRec, Head
<1>2. lookup_bootstrap_req_by_port(p) # {Head}
  BY <1>1 DEF lookup_bootstrap_req_by_port
<1> QED
  BY <1>2 DEF Important

LEMMA NoneDeallocated ==
  ASSUME TypeOK, NEW S
  PROVE  Deallocated(S) = {}
BY AllImportant DEF Deallocated

LEMMA ReleaseFacts ==
  ASSUME TypeOK, NoticesDead, NEW S \in SUBSET Port, Release(S),
         \A p \in S : recv[p] # Dead
  PROVE  /\ recv' \in [Port -> Holder]
         /\ backed' \subseteq Port /\ notices' \subseteq Port
         /\ \A np \in notices' : recv'[np] = Dead
BY HolderFacts DEF TypeOK, NoticesDead, Release

------------------------------------------------------------------------------
(* The tasks preserve Inv. *)

LEMMA AllocateStep ==
  ASSUME Inv, NEW t \in Task, AllocatePort(t)
  PROVE  Inv'
<1> USE DEF Inv, AllocatePort, kernel, lists, procs
<1>1. PICK p \in FreePorts : recv' = [recv EXCEPT ![p] = t]
  BY DEF Lowest
<1>2. TypeOK'
  BY <1>1, HolderFacts DEF TypeOK, FreePorts
<1>3. NoticesDead'
  BY <1>1, HolderFacts DEF TypeOK, FreePorts, NoticesDead
<1>4. LiveHasPort'
  BY DEF LiveHasPort
<1>5. UniqueNames' /\ NoOrphans'
  BY DEF UniqueNames, NoOrphans, BootstrapPorts
<1> QED
  BY <1>2, <1>3, <1>4, <1>5

\* A live task addresses its requests to ports.
LEMMA RequestsAreTyped ==
  ASSUME TypeOK, LiveHasPort, NEW t \in alive
  PROVE  RequestsOf(t) \subseteq Request
<1>1. Contacts(t) \subseteq Port
  <2>1. BootstrapPorts \subseteq Port
    BY LookupIsBootstrap
  <2> QED
    BY <2>1, PortFacts DEF Contacts, LiveHasPort
<1>2. Registrable(t) \subseteq Port \cup {PORT_NULL}
  BY DEF Registrable, Own, TypeOK, Service
<1>3. RequestorPorts(t) \subseteq Port \cup {PORT_NULL}
  BY DEF RequestorPorts, Own, TypeOK
<1>4. t \in Task /\ Ops \subseteq Op
  BY ConfigAssumption DEF TypeOK
<1>5. ASSUME NEW r \in RequestsOf(t) PROVE r \in Request
  <2>1. CASE r \in [op : {"check_in", "look_up", "status", "create_service"} \cap Ops,
                    port : Contacts(t), name : Names, arg : {PORT_NULL}, from : {t}]
    BY <2>1, <1>1, <1>4 DEF Request
  <2>2. CASE r \in [op : {"register"} \cap Ops, port : Contacts(t),
                    name : Names, arg : Registrable(t), from : {t}]
    BY <2>2, <1>1, <1>2, <1>4 DEF Request
  <2>3. CASE r \in [op : {"subset"} \cap Ops, port : Contacts(t),
                    name : {NoName}, arg : RequestorPorts(t), from : {t}]
    BY <2>3, <1>1, <1>3, <1>4 DEF Request
  <2>4. CASE r \in [op : {"look_up_array", "info"} \cap Ops, port : Contacts(t),
                    name : {NoName}, arg : {PORT_NULL}, from : {t}]
    BY <2>4, <1>1, <1>4 DEF Request
  <2> QED
    BY <1>5, <2>1, <2>2, <2>3, <2>4 DEF RequestsOf
<1> QED
  BY <1>5

LEMMA SendStep ==
  ASSUME Inv, NEW t \in Task, SendRequest(t)
  PROVE  Inv'
<1> USE DEF Inv, SendRequest, kernel, lists, procs
<1>1. inbox' \subseteq Request
  BY RequestsAreTyped DEF TypeOK
<1>2. TypeOK'
  BY <1>1 DEF TypeOK
<1>3. NoticesDead' /\ LiveHasPort'
  BY DEF NoticesDead, LiveHasPort
<1>4. UniqueNames' /\ NoOrphans'
  BY DEF UniqueNames, NoOrphans, BootstrapPorts
<1> QED
  BY <1>2, <1>3, <1>4

LEMMA DropStep ==
  ASSUME Inv, NEW t \in Task, DropPort(t)
  PROVE  Inv'
<1> USE DEF Inv, DropPort, lists, procs
<1>1. PICK p \in Own(t) : Release({p})
  OBVIOUS
<1>2. p \in Port /\ recv[p] # Dead
  BY <1>1, HolderFacts DEF Own
<1>3. TypeOK' /\ NoticesDead'
  BY <1>1, <1>2, ReleaseFacts DEF TypeOK, NoticesDead
<1>4. LiveHasPort'
  BY DEF LiveHasPort
<1>5. UniqueNames' /\ NoOrphans'
  BY DEF UniqueNames, NoOrphans, BootstrapPorts
<1> QED
  BY <1>3, <1>4, <1>5

LEMMA DieStep ==
  ASSUME Inv, NEW t \in Task, TaskDies(t)
  PROVE  Inv'
<1> USE DEF Inv, TaskDies, lists, procs
<1> DEFINE S == {p \in Port : recv[p] = t}
<1>1. S \in SUBSET Port /\ \A p \in S : recv[p] # Dead
  BY HolderFacts
<1>2. Release(S)
  OBVIOUS
<1>3. TypeOK' /\ NoticesDead'
  BY <1>1, <1>2, ReleaseFacts DEF TypeOK, NoticesDead
<1>4. LiveHasPort'
  BY DEF LiveHasPort
<1>5. UniqueNames' /\ NoOrphans'
  BY DEF UniqueNames, NoOrphans, BootstrapPorts
<1> QED
  BY <1>3, <1>4, <1>5

------------------------------------------------------------------------------
(* The request handlers preserve Inv. *)

\* What Accept leaves alone.
LEMMA AcceptFacts ==
  ASSUME TypeOK, NEW r, Accept(r)
  PROVE  /\ r \in Request /\ inbox' \subseteq Request
         /\ Arg(r) \in Port \cup {PORT_NULL}
         /\ notices' = notices /\ alive' = alive /\ port' = port
         /\ task_port' = task_port /\ running_servers' = running_servers
         /\ unstarted' = unstarted
         /\ inherited_bootstrap_port' = inherited_bootstrap_port
<1>1. r \in Request /\ inbox' \subseteq Request
  BY DEF Accept, TypeOK
<1>2. Arg(r) \in Port \cup {PORT_NULL}
  BY <1>1 DEF Arg, Request
<1> QED
  BY <1>1, <1>2 DEF Accept, procs

\* A service keeps its place when its record is replaced by one of the same
\* name and bootstrap.
LEMMA ReplaceFacts ==
  ASSUME UniqueNames, NoOrphans, NEW v \in services, NEW w,
         SameBinding(v, w), Replace(v, w), bootstraps' = bootstraps
  PROVE  UniqueNames' /\ NoOrphans'
<1>1. UniqueNames'
  BY DEF UniqueNames, SameBinding, Replace
<1>2. NoOrphans'
  BY DEF NoOrphans, SameBinding, Replace, BootstrapPorts
<1> QED
  BY <1>1, <1>2

LEMMA RefuseStep ==
  ASSUME Inv, NEW r, Accept(r), Refuse(r)
  PROVE  Inv'
<1> USE DEF Inv, Refuse, lists
<1>1. TypeOK'
  BY AcceptFacts DEF TypeOK
<1>2. LiveHasPort' /\ NoticesDead'
  BY AcceptFacts DEF LiveHasPort, NoticesDead
<1>3. UniqueNames' /\ NoOrphans'
  BY DEF UniqueNames, NoOrphans, BootstrapPorts
<1> QED
  BY <1>1, <1>2, <1>3

LEMMA CheckInStep ==
  ASSUME Inv, NEW r, x_bootstrap_check_in(r)
  PROVE  Inv'
<1> USE DEF Inv
<1>1. CASE Refuse(r)
  BY <1>1, RefuseStep DEF x_bootstrap_check_in
<1>2. CASE ~Refuse(r)
  <2>1. PICK v \in services :
          /\ canReceive(v.port) /\ Replace(v, CheckedIn(v))
          /\ recv' = [recv EXCEPT ![v.port] =
                        IF r.from \in alive THEN r.from ELSE Broker]
          /\ UNCHANGED <<backed, rights, bootstraps, status>>
    BY <1>2 DEF x_bootstrap_check_in, lookup_service_by_name
  <2>2. Accept(r)
    BY DEF x_bootstrap_check_in
  <2>3. v \in Service /\ CheckedIn(v) \in Service /\ SameBinding(v, CheckedIn(v))
    BY DEF TypeOK, Service, CheckedIn, SameBinding
  <2>4. TypeOK'
    <3>1. recv' \in [Port -> Holder]
      BY <2>1, HolderFacts DEF TypeOK
    <3>2. services' \subseteq Service
      BY <2>1, <2>3 DEF TypeOK, Replace
    <3> QED
      BY <2>1, <2>2, <3>1, <3>2, AcceptFacts DEF TypeOK
  <2>5. NoticesDead' /\ LiveHasPort'
    <3>1. recv[v.port] # Dead
      BY <2>1, HolderFacts DEF canReceive
    <3> QED
      BY <2>1, <2>2, <3>1, AcceptFacts DEF NoticesDead, LiveHasPort, TypeOK
  <2> QED
    BY <2>1, <2>3, <2>4, <2>5, ReplaceFacts
<1> QED
  BY <1>1, <1>2

LEMMA RegisterStep ==
  ASSUME Inv, NEW r, x_bootstrap_register(r)
  PROVE  Inv'
<1> USE DEF Inv
<1> DEFINE bs == lookup_bootstrap_by_port(r.port)
           found == lookup_service_by_name(bs, r.name)
           here == {v \in found : v.bootstrap = bs}
           new == [name |-> r.name, bootstrap |-> bs, port |-> Arg(r),
                   isActive |-> TRUE, servicetype |-> "REGISTERED",
                   server |-> NoServer]
<1>1. Accept(r) /\ r.op = "register"
  BY DEF x_bootstrap_register
<1>2. CASE Refuse(r)
  BY <1>1, <1>2, RefuseStep
<1>3. CASE /\ here = {} /\ services' = services \cup {new}
           /\ rights' = rights \cup ({Arg(r)} \ {PORT_NULL})
           /\ UNCHANGED <<recv, backed, bootstraps, status>>
  <2>1. bs \in BootstrapPorts /\ bs \in Port
    BY LookupIsBootstrap
  <2>2. new \in Service
    <3>1. r.name \in Names
      BY <1>1, AcceptFacts DEF Request
    <3> QED
      BY <1>1, <2>1, <3>1, AcceptFacts DEF Service
  <2>3. TypeOK'
    BY <1>1, <1>3, <2>2, AcceptFacts DEF TypeOK
  <2>4. NoticesDead' /\ LiveHasPort'
    BY <1>1, <1>3, AcceptFacts DEF NoticesDead, LiveHasPort
  <2>5. \A v \in services : ~SameBinding(v, new)
    BY <1>3, <2>1, OwnNameIsFound DEF SameBinding
  <2>6. UniqueNames'
    BY <1>3, <2>5 DEF UniqueNames, SameBinding
  <2>7. NoOrphans'
    BY <1>3, <2>1 DEF NoOrphans, BootstrapPorts
  <2> QED
    BY <2>3, <2>4, <2>6, <2>7
<1>4. CASE /\ \E v \in here :
                LET gone == Deallocated({v.port})
                IN  /\ Replace(v, [v EXCEPT !.port = Arg(r), !.isActive = TRUE])
                    /\ rights' = (rights \ gone) \cup ({Arg(r)} \ {PORT_NULL})
                    /\ recv' = [p \in Port |-> IF p \in gone THEN Dead ELSE recv[p]]
           /\ UNCHANGED <<backed, bootstraps, status>>
  <2>1. PICK v \in here :
          /\ Replace(v, [v EXCEPT !.port = Arg(r), !.isActive = TRUE])
          /\ rights' = rights \cup ({Arg(r)} \ {PORT_NULL})
          /\ recv' = [p \in Port |-> recv[p]]
    BY <1>4, NoneDeallocated
  <2> DEFINE w == [v EXCEPT !.port = Arg(r), !.isActive = TRUE]
  <2>2. v \in services /\ v \in Service
    BY LookupIsService DEF TypeOK
  <2>3. w \in Service /\ SameBinding(v, w)
    BY <1>1, <2>2, AcceptFacts DEF Service, SameBinding
  <2>4. recv' = recv
    BY <2>1 DEF TypeOK
  <2>5. TypeOK'
    <3>1. services' \subseteq Service
      BY <2>1, <2>3 DEF TypeOK, Replace
    <3>2. rights' \subseteq Port
      BY <1>1, <2>1, AcceptFacts DEF TypeOK
    <3> QED
      BY <1>1, <1>4, <2>4, <3>1, <3>2, AcceptFacts DEF TypeOK
  <2>6. NoticesDead' /\ LiveHasPort'
    BY <1>1, <2>4, AcceptFacts DEF NoticesDead, LiveHasPort
  <2> QED
    BY <1>4, <2>1, <2>2, <2>3, <2>5, <2>6, ReplaceFacts
<1> QED
  BY <1>2, <1>3, <1>4 DEF x_bootstrap_register

LEMMA LookUpStep ==
  ASSUME Inv, NEW r, x_bootstrap_look_up(r)
  PROVE  Inv'
<1> USE DEF Inv, x_bootstrap_look_up
<1>1. Accept(r) /\ services' \subseteq services /\ bootstraps' = bootstraps
  OBVIOUS
<1>2. TypeOK'
  BY <1>1, AcceptFacts DEF TypeOK
<1>3. NoticesDead' /\ LiveHasPort'
  BY <1>1, AcceptFacts DEF NoticesDead, LiveHasPort
<1>4. UniqueNames'
  BY <1>1 DEF UniqueNames
<1>5. NoOrphans'
  BY <1>1 DEF NoOrphans, BootstrapPorts
<1> QED
  BY <1>2, <1>3, <1>4, <1>5

LEMMA StatusStep ==
  ASSUME Inv, NEW r, x_bootstrap_status(r)
  PROVE  Inv'
BY RefuseStep DEF x_bootstrap_status

LEMMA InfoStep ==
  ASSUME Inv, NEW r, x_bootstrap_info(r)
  PROVE  Inv'
<1> USE DEF Inv, x_bootstrap_info, lists
<1>1. TypeOK'
  BY AcceptFacts DEF TypeOK
<1>2. NoticesDead' /\ LiveHasPort'
  BY AcceptFacts DEF NoticesDead, LiveHasPort
<1>3. UniqueNames' /\ NoOrphans'
  BY DEF UniqueNames, NoOrphans, BootstrapPorts
<1> QED
  BY <1>1, <1>2, <1>3

LEMMA SubsetStep ==
  ASSUME Inv, NEW r, x_bootstrap_subset(r)
  PROVE  Inv'
<1> USE DEF Inv, x_bootstrap_subset
<1> DEFINE bs == lookup_bootstrap_by_port(r.port)
           new(p) == [bootstrap_port |-> p, requestor_port |-> Arg(r),
                      parent |-> bs]
<1>1. Accept(r) /\ services' = services /\ backed' = backed /\ status' = status
  OBVIOUS
<1>2. PICK p \in FreePorts : /\ recv' = [recv EXCEPT ![p] = Broker]
                             /\ rights' = rights \cup ({p, Arg(r)} \ {PORT_NULL})
                             /\ bootstraps' = bootstraps \cup {new(p)}
  BY DEF Lowest
<1>3. p \in Port /\ recv[p] = Free
  BY DEF FreePorts
<1>4. bs \in BootstrapPorts /\ bs \in Port
  BY LookupIsBootstrap
<1>5. TypeOK'
  <2>1. new(p) \in BootstrapRec
    BY <1>1, <1>3, <1>4, AcceptFacts DEF BootstrapRec
  <2>2. recv' \in [Port -> Holder]
    BY <1>2, HolderFacts DEF TypeOK
  <2>3. rights' \subseteq Port
    BY <1>1, <1>2, <1>3, AcceptFacts DEF TypeOK
  <2>4. bootstraps' \subseteq BootstrapRec
    BY <1>2, <2>1 DEF TypeOK
  <2> QED
    BY <1>1, <2>2, <2>3, <2>4, AcceptFacts DEF TypeOK
<1>6. NoticesDead'
  BY <1>1, <1>2, <1>3, AcceptFacts, HolderFacts DEF NoticesDead, TypeOK
<1>7. LiveHasPort'
  BY <1>1, AcceptFacts DEF LiveHasPort
<1>8. UniqueNames'
  BY <1>1 DEF UniqueNames
<1>9. NoOrphans'
  <2>1. BootstrapPorts \subseteq BootstrapPorts'
    BY <1>2 DEF BootstrapPorts
  <2> QED
    BY <1>1, <1>2, <1>4, <2>1 DEF NoOrphans
<1> QED
  BY <1>5, <1>6, <1>7, <1>8, <1>9

LEMMA CreateStep ==
  ASSUME Inv, NEW r, x_bootstrap_create_service(r)
  PROVE  Inv'
<1> USE DEF Inv
<1> DEFINE bs == lookup_bootstrap_by_port(r.port)
           new(p) == [name |-> r.name, bootstrap |-> bs, port |-> p,
                      isActive |-> FALSE, servicetype |-> "DECLARED",
                      server |-> NoServer]
<1>1. Accept(r) /\ r.op = "create_service"
  BY DEF x_bootstrap_create_service
<1>2. CASE Refuse(r)
  BY <1>1, <1>2, RefuseStep
<1>3. CASE ~Refuse(r)
  <2>1. /\ lookup_service_by_name(bs, r.name) = {}
        /\ UNCHANGED <<bootstraps, status>>
    BY <1>3 DEF x_bootstrap_create_service
  <2>2. PICK p \in FreePorts : /\ recv' = [recv EXCEPT ![p] = Broker]
                               /\ backed' = backed \cup {p}
                               /\ rights' = rights \cup {p}
                               /\ services' = services \cup {new(p)}
    BY <1>3 DEF x_bootstrap_create_service, Lowest
  <2>3. p \in Port /\ recv[p] = Free
    BY DEF FreePorts
  <2>4. bs \in BootstrapPorts /\ bs \in Port
    BY LookupIsBootstrap
  <2>5. TypeOK'
    <3>1. new(p) \in Service
      <4>1. r.name \in Names
        BY <1>1, AcceptFacts DEF Request
      <4> QED
        BY <2>3, <2>4, <4>1 DEF Service
    <3>2. recv' \in [Port -> Holder]
      BY <2>2, HolderFacts DEF TypeOK
    <3>3. services' \subseteq Service
      BY <2>2, <3>1 DEF TypeOK
    <3>4. rights' \subseteq Port /\ backed' \subseteq Port
      BY <2>2, <2>3 DEF TypeOK
    <3> QED
      BY <1>1, <2>1, <3>2, <3>3, <3>4, AcceptFacts DEF TypeOK
  <2>6. NoticesDead'
    BY <1>1, <2>2, <2>3, AcceptFacts, HolderFacts DEF NoticesDead, TypeOK
  <2>7. LiveHasPort'
    BY <1>1, AcceptFacts DEF LiveHasPort
  <2>8. UniqueNames'
    <3>1. \A v \in services : ~SameBinding(v, new(p))
      BY <2>1, <2>4, OwnNameIsFound DEF SameBinding
    <3> QED
      BY <2>2, <3>1 DEF UniqueNames, SameBinding
  <2>9. NoOrphans'
    BY <2>1, <2>2, <2>4 DEF NoOrphans, BootstrapPorts
  <2> QED
    BY <2>5, <2>6, <2>7, <2>8, <2>9
<1> QED
  BY <1>2, <1>3
------------------------------------------------------------------------------
(* Starting servers and handling notices preserve Inv. *)

\* start_server takes free ports only, and a server it brings up has its two.
LEMMA StartFacts ==
  ASSUME Inv, NEW s \in Servers, start_server(s)
  PROVE  /\ recv' \in [Port -> Holder] /\ rights' \subseteq Port
         /\ alive' \subseteq Task /\ status' \in {"up", "exited", "hung"}
         /\ port' \in [Servers -> Port \cup {PORT_NULL}]
         /\ task_port' \in [Servers -> Port \cup {PORT_NULL}]
         /\ LiveHasPort'
         /\ \A p \in Port : recv[p] = Dead <=> recv'[p] = Dead
         /\ rights \subseteq rights'
<1> USE DEF Inv
<1> DEFINE Privileged(sp, h) ==
             [p \in Port |-> CASE p = sp -> Broker
                               [] p \in h -> s
                               [] OTHER -> recv[p]]
<1>1. PICK sp \in FreePorts :
        /\ port' = [port EXCEPT ![s] = sp]
        /\ \/ \E tp \in FreePorts \ {sp} :
                /\ recv' = Privileged(sp, {tp})
                /\ rights' = rights \cup {sp, tp}
                /\ task_port' = [task_port EXCEPT ![s] = tp]
                /\ alive' = alive \cup {s} /\ status' = status
           \/ /\ recv' = Privileged(sp, {}) /\ rights' = rights \cup {sp}
              /\ task_port' = task_port /\ alive' = alive
              /\ status' \in {status, "exited"}
  <2> DEFINE gone == Deallocated({port[s]} \ {PORT_NULL})
  <2>1. gone = {}
    BY NoneDeallocated
  <2> DEFINE old(sp, h) ==
               [p \in Port |-> CASE p = sp -> Broker
                                 [] p \in h -> s
                                 [] p \in gone -> Dead
                                 [] OTHER -> recv[p]]
             Up(sp, tp) == /\ recv' = old(sp, {tp})
                           /\ rights' = (rights \ gone) \cup {sp, tp}
                           /\ task_port' = [task_port EXCEPT ![s] = tp]
                           /\ alive' = alive \cup {s} /\ status' = status
             Down(sp)   == /\ recv' = old(sp, {})
                           /\ rights' = (rights \ gone) \cup {sp}
                           /\ task_port' = task_port /\ alive' = alive
                           /\ status' \in {status, "exited"}
  <2>2. PICK sp \in FreePorts :
          /\ port' = [port EXCEPT ![s] = sp]
          /\ (\E tp \in FreePorts \ {sp} : Up(sp, tp)) \/ Down(sp)
    BY DEF start_server, Lowest
  <2>3. ASSUME NEW h PROVE old(sp, h) = Privileged(sp, h)
    BY <2>1
  <2>4. rights \ gone = rights
    BY <2>1
  <2>5. CASE Down(sp)
    <3>1. recv' = Privileged(sp, {}) /\ rights' = rights \cup {sp}
      BY <2>3, <2>4, <2>5
    <3> QED
      BY <2>2, <2>5, <3>1
  <2>6. CASE \E tp \in FreePorts \ {sp} : Up(sp, tp)
    <3>1. PICK tp \in FreePorts \ {sp} : Up(sp, tp)
      BY <2>6
    <3>2. recv' = Privileged(sp, {tp}) /\ rights' = rights \cup {sp, tp}
      BY <2>3, <2>4, <3>1
    <3> QED
      BY <2>2, <3>1, <3>2
  <2> QED
    BY <2>2, <2>5, <2>6
<1>2. sp \in Port /\ recv[sp] = Free
  BY DEF FreePorts
<1>3. CASE \E tp \in FreePorts \ {sp} :
             /\ recv' = Privileged(sp, {tp})
             /\ rights' = rights \cup {sp, tp}
             /\ task_port' = [task_port EXCEPT ![s] = tp]
             /\ alive' = alive \cup {s} /\ status' = status
  <2>1. PICK tp \in FreePorts \ {sp} :
             /\ recv' = Privileged(sp, {tp})
             /\ rights' = rights \cup {sp, tp}
             /\ task_port' = [task_port EXCEPT ![s] = tp]
             /\ alive' = alive \cup {s} /\ status' = status
    BY <1>3
  <2>2. tp \in Port /\ recv[tp] = Free
    BY DEF FreePorts
  <2>3. recv' \in [Port -> Holder]
    BY <2>1, HolderFacts DEF TypeOK
  <2>4. \A p \in Port : recv[p] = Dead <=> recv'[p] = Dead
    BY <1>2, <2>1, <2>2, HolderFacts
  <2>5. LiveHasPort'
    BY <1>1, <1>2, <2>1, <2>2 DEF LiveHasPort, TypeOK
  <2> QED
    BY <1>1, <1>2, <2>1, <2>2, <2>3, <2>4, <2>5, HolderFacts DEF TypeOK
<1>4. CASE /\ recv' = Privileged(sp, {}) /\ rights' = rights \cup {sp}
           /\ task_port' = task_port /\ alive' = alive
           /\ status' \in {status, "exited"}
  <2>1. recv' \in [Port -> Holder]
    BY <1>4, HolderFacts DEF TypeOK
  <2>2. \A p \in Port : recv[p] = Dead <=> recv'[p] = Dead
    BY <1>2, <1>4, HolderFacts
  <2>3. LiveHasPort'
    BY <1>1, <1>2, <1>4 DEF LiveHasPort, TypeOK
  <2> QED
    BY <1>1, <1>2, <1>4, <2>1, <2>2, <2>3 DEF TypeOK
<1> QED
  BY <1>1, <1>3, <1>4

LEMMA CountFacts ==
  ASSUME TypeOK
  PROVE  /\ Decremented \in Nat
         /\ \A s \in Servers, n \in Nat : Counted(s, n) \in Nat
<1>1. Decremented \in Nat
  BY DEF TypeOK, Decremented
<1>2. \A s \in Servers, n \in Nat : Counted(s, n) \in Nat
  BY DEF Counted
<1> QED
  BY <1>1, <1>2

LEMMA BootStep ==
  ASSUME Inv, NEW s \in Servers, BootServer(s)
  PROVE  Inv'
<1> USE DEF Inv, BootServer, lists
<1>1. TypeOK'
  BY StartFacts, CountFacts DEF TypeOK
<1>2. LiveHasPort' /\ NoticesDead'
  BY StartFacts DEF NoticesDead, TypeOK
<1>3. UniqueNames' /\ NoOrphans'
  BY DEF UniqueNames, NoOrphans, BootstrapPorts
<1> QED
  BY <1>1, <1>2, <1>3

LEMMA InheritedStep ==
  ASSUME Inv, NEW np \in Port, InheritedDied(np)
  PROVE  Inv'
<1> USE DEF Inv, InheritedDied, lists, procs
<1>1. TypeOK'
  BY DEF TypeOK
<1>2. LiveHasPort' /\ NoticesDead'
  BY DEF LiveHasPort, NoticesDead
<1>3. UniqueNames' /\ NoOrphans'
  BY DEF UniqueNames, NoOrphans, BootstrapPorts
<1> QED
  BY <1>1, <1>2, <1>3

LEMMA ServerDiedStep ==
  ASSUME Inv, NEW np \in Port, ServerDied(np)
  PROVE  Inv'
<1> USE DEF Inv, ServerDied, lists
<1>1. PICK s \in Servers :
        IF Restarted(s)
        THEN start_server(s) /\ running_servers' = Counted(s, Decremented)
        ELSE /\ running_servers' = Decremented
             /\ UNCHANGED <<recv, rights, alive, port, task_port, status>>
  BY DEF lookup_server_by_task_port
<1>2. TypeOK' /\ LiveHasPort' /\ NoticesDead'
  <2>1. CASE Restarted(s)
    <3>1. TypeOK'
      BY <1>1, <2>1, StartFacts, CountFacts DEF TypeOK
    <3> QED
      BY <1>1, <2>1, <3>1, StartFacts DEF NoticesDead, TypeOK
  <2>2. CASE ~Restarted(s)
    BY <1>1, <2>2, CountFacts DEF TypeOK, LiveHasPort, NoticesDead
  <2> QED
    BY <2>1, <2>2
<1>3. UniqueNames' /\ NoOrphans'
  BY DEF UniqueNames, NoOrphans, BootstrapPorts
<1> QED
  BY <1>2, <1>3

\* The subsets that survive delete_bootstrap have a parent that survives.
LEMMA SurvivorsKeepParent ==
  ASSUME TypeOK, NoOrphans, NEW np, NEW b \in bootstraps \ Doomed(np)
  PROVE  b.parent \in {ROOT} \cup
                      {c.bootstrap_port : c \in bootstraps \ Doomed(np)}
<1>1. b.parent \in BootstrapPorts
  BY DEF NoOrphans
<1>2. SUFFICES ASSUME NEW c \in bootstraps, b.parent = c.bootstrap_port
               PROVE  c \notin Doomed(np)
  BY <1>1 DEF BootstrapPorts
<1>3. SUFFICES ASSUME NEW a \in lookup_bootstrap_req_by_port(np),
                      a.bootstrap_port \in Ancestry(c.bootstrap_port)
               PROVE  FALSE
  BY DEF Doomed
<1>4. a.bootstrap_port \in Ancestry(b.bootstrap_port)
  BY <1>2, <1>3, AncestryOfParent
<1> QED
  BY <1>4 DEF Doomed

\* delete_bootstrap and the re-initialization of services: what is deleted is
\* closed under descent, and what is re-initialized keeps its name.
LEMMA PortDiedStep ==
  ASSUME Inv, NEW np \in Port, PortDied(np)
  PROVE  Inv'
<1> USE DEF Inv
<1> DEFINE closed == {b.bootstrap_port : b \in Doomed(np)}
           given  == closed \cup {b.requestor_port : b \in Doomed(np)}
           ended  == {p \in given : p # PORT_NULL /\ recv[p] = Broker}
           left   == {v \in services : v.bootstrap \notin closed}
           failed == {v \in left : v.port = np /\ v.servicetype # "REGISTERED"}
           again(v, p) == [v EXCEPT !.port = p, !.isActive = FALSE]
<1>1. PICK new \in Allocations(failed) :
        /\ services' = {v \in left : v.port # np}
                       \cup {again(v, new[v]) : v \in failed}
        /\ recv' = [p \in Port |->
                      CASE p \in ended -> IF p \in backed THEN Transit ELSE Dead
                        [] p \in {new[v] : v \in failed} -> Broker
                        [] OTHER -> recv[p]]
        /\ backed' = (backed \cup {new[v] : v \in failed}) \ ended
        /\ rights' = (rights \ given) \cup {new[v] : v \in failed}
  BY DEF PortDied, Reinitialized, BackedAgain
<1>2. /\ notices' = notices \ {np} /\ bootstraps' = bootstraps \ Doomed(np)
      /\ inbox' \subseteq inbox /\ status' \in {status, "exited"}
      /\ alive' = alive /\ port' = port /\ task_port' = task_port
      /\ running_servers' = running_servers /\ unstarted' = unstarted
      /\ inherited_bootstrap_port' = inherited_bootstrap_port
  BY DEF PortDied, procs
<1>3. \A v \in failed : new[v] \in Port /\ recv[new[v]] = Free
  BY DEF Allocations, FreePorts
<1>4. services' \subseteq Service
  <2>1. \A v \in failed : again(v, new[v]) \in Service
    BY <1>3 DEF TypeOK, Service
  <2> QED
    BY <1>1, <2>1 DEF TypeOK
<1>5. recv' \in [Port -> Holder]
  BY <1>1, HolderFacts DEF TypeOK
<1>6. TypeOK'
  <2>1. {new[v] : v \in failed} \subseteq Port
    BY <1>3
  <2>2. backed' \subseteq Port /\ rights' \subseteq Port
    BY <1>1, <2>1 DEF TypeOK
  <2> QED
    BY <1>2, <1>4, <1>5, <2>2 DEF TypeOK
<1>7. NoticesDead'
  <2> SUFFICES ASSUME NEW p \in notices' PROVE recv'[p] = Dead
    BY DEF NoticesDead
  <2>1. p \in Port /\ recv[p] = Dead
    BY <1>2 DEF NoticesDead, TypeOK
  <2>2. p \notin {new[v] : v \in failed} /\ p \notin ended
    BY <1>3, <2>1, HolderFacts
  <2> QED
    BY <1>1, <2>1, <2>2
<1>8. LiveHasPort'
  BY <1>2 DEF LiveHasPort
<1>9. \A v \in services' : \E u \in left : SameBinding(u, v)
                                          /\ (u.port # np => v = u)
                                          /\ (u.port = np =>
                                                u \in failed /\ v = again(u, new[u]))
  BY <1>1 DEF SameBinding, TypeOK, Service
<1>10. UniqueNames'
  <2> SUFFICES ASSUME NEW v \in services', NEW w \in services', SameBinding(v, w)
               PROVE  v = w
    BY DEF UniqueNames
  <2>1. PICK u \in left : /\ SameBinding(u, v) /\ (u.port # np => v = u)
                          /\ (u.port = np => u \in failed /\ v = again(u, new[u]))
    BY <1>9
  <2>2. PICK x \in left : /\ SameBinding(x, w) /\ (x.port # np => w = x)
                          /\ (x.port = np => x \in failed /\ w = again(x, new[x]))
    BY <1>9
  <2>3. u = x
    BY <2>1, <2>2 DEF UniqueNames, SameBinding
  <2> QED
    BY <2>1, <2>2, <2>3
<1>11. NoOrphans'
  <2>1. BootstrapPorts' = {ROOT} \cup
                          {c.bootstrap_port : c \in bootstraps \ Doomed(np)}
    BY <1>2 DEF BootstrapPorts
  <2>2. \A b \in bootstraps' : b.parent \in BootstrapPorts'
    BY <1>2, <2>1, SurvivorsKeepParent
  <2>3. \A u \in left : u.bootstrap \in BootstrapPorts'
    BY <2>1 DEF NoOrphans, BootstrapPorts
  <2>4. \A v \in services' : v.bootstrap \in BootstrapPorts'
    BY <1>9, <2>3 DEF SameBinding
  <2> QED
    BY <2>2, <2>4 DEF NoOrphans
<1> QED
  BY <1>6, <1>7, <1>8, <1>10, <1>11

LEMMA BackedUpStep ==
  ASSUME Inv, NEW np \in Port, PortBackedUp(np)
  PROVE  Inv'
<1> USE DEF Inv
<1>1. /\ recv[np] = Transit /\ recv' = [recv EXCEPT ![np] = Broker]
      /\ rights' = rights /\ backed' \subseteq backed \cup {np}
      /\ notices' = notices /\ alive' = alive /\ inbox' = inbox
      /\ bootstraps' = bootstraps /\ port' = port /\ task_port' = task_port
      /\ running_servers' = running_servers /\ unstarted' = unstarted
      /\ inherited_bootstrap_port' = inherited_bootstrap_port
      /\ status' = status
  BY NoneDeallocated DEF PortBackedUp, BackedAgain, procs
<1>2. \/ services' = services
      \/ \E v \in services : Replace(v, Reinitialized(v, np))
  BY DEF PortBackedUp, lookup_service_by_port
<1>3. services' \subseteq Service /\ UniqueNames' /\ NoOrphans'
  <2>1. CASE services' = services
    BY <1>1, <2>1 DEF TypeOK, UniqueNames, NoOrphans, BootstrapPorts
  <2>2. CASE \E v \in services : Replace(v, Reinitialized(v, np))
    <3>1. PICK v \in services : Replace(v, Reinitialized(v, np))
      BY <2>2
    <3>2. /\ Reinitialized(v, np) \in Service
          /\ SameBinding(v, Reinitialized(v, np))
      BY DEF TypeOK, Service, Reinitialized, SameBinding
    <3>3. services' \subseteq Service
      BY <3>1, <3>2 DEF TypeOK, Replace
    <3> QED
      BY <1>1, <3>1, <3>2, <3>3, ReplaceFacts
  <2> QED
    BY <1>2, <2>1, <2>2
<1>4. TypeOK'
  BY <1>1, <1>3, HolderFacts DEF TypeOK
<1>5. NoticesDead' /\ LiveHasPort'
  BY <1>1, HolderFacts DEF NoticesDead, LiveHasPort, TypeOK
<1> QED
  BY <1>3, <1>4, <1>5

------------------------------------------------------------------------------
(* The theorems. *)

LEMMA InitInv == Init => Inv
<1> SUFFICES ASSUME Init PROVE Inv
  OBVIOUS
<1> DEFINE declared(f) ==
             {[name |-> n, bootstrap |-> ROOT, port |-> f[n], isActive |-> FALSE,
               servicetype |-> "DECLARED", server |-> Declared[n]] :
                n \in DOMAIN Declared}
           self == {[name |-> n, bootstrap |-> ROOT, port |-> ROOT,
                     isActive |-> TRUE, servicetype |-> "SELF",
                     server |-> MachInit] : n \in SelfNames}
<1>1. PICK f \in [DOMAIN Declared -> Port] :
        /\ services = declared(f) \cup self
        /\ backed = {f[n] : n \in DOMAIN Declared}
        /\ recv = [p \in Port |-> CASE p \in backed \cup {ROOT} -> Broker
                                    [] p = INHERITED /\ Parent # NoTask -> Parent
                                    [] p = INHERITED /\ Parent = NoTask -> Dead
                                    [] OTHER -> Free]
        /\ rights = backed \cup {ROOT}
                    \cup IF Parent = NoTask THEN {} ELSE {INHERITED}
  BY DEF Init
<1>2. services \subseteq Service
  <2>1. ASSUME NEW n \in DOMAIN Declared
        PROVE  [name |-> n, bootstrap |-> ROOT, port |-> f[n],
                isActive |-> FALSE, servicetype |-> "DECLARED",
                server |-> Declared[n]] \in Service
    <3>1. n \in Names /\ f[n] \in Port /\ Declared[n] \in Servers \cup {NoServer}
      BY ConfigAssumption
    <3> QED
      BY <3>1, PortFacts DEF Service
  <2>2. ASSUME NEW n \in SelfNames
        PROVE  [name |-> n, bootstrap |-> ROOT, port |-> ROOT,
                isActive |-> TRUE, servicetype |-> "SELF",
                server |-> MachInit] \in Service
    <3>1. n \in Names
      BY ConfigAssumption
    <3> QED
      BY <3>1, PortFacts DEF Service
  <2> QED
    BY <1>1, <2>1, <2>2
<1>3. backed \subseteq Port /\ rights \subseteq Port
  BY <1>1, PortFacts
<1>4. recv \in [Port -> Holder]
  BY <1>1, HolderFacts, ConfigAssumption DEF Task
<1>5. TypeOK
  BY <1>2, <1>3, <1>4, HolderFacts DEF TypeOK, Init
<1>6. LiveHasPort
  BY ConfigAssumption DEF LiveHasPort, Init
<1>7. NoticesDead
  BY DEF NoticesDead, Init
<1>8. UniqueNames
  <2> SUFFICES ASSUME NEW v \in services, NEW w \in services, v.name = w.name
               PROVE  v = w
    BY DEF UniqueNames, SameBinding
  <2>1. \A u \in declared(f) : u.name \in DOMAIN Declared
    OBVIOUS
  <2>2. \A u \in self : u.name \in SelfNames
    OBVIOUS
  <2>3. SelfNames \cap DOMAIN Declared = {}
    BY ConfigAssumption
  <2>4. CASE v \in declared(f) /\ w \in declared(f)
    <3>1. PICK m \in DOMAIN Declared :
            v = [name |-> m, bootstrap |-> ROOT, port |-> f[m],
                 isActive |-> FALSE, servicetype |-> "DECLARED",
                 server |-> Declared[m]]
      BY <2>4
    <3>2. PICK n \in DOMAIN Declared :
            w = [name |-> n, bootstrap |-> ROOT, port |-> f[n],
                 isActive |-> FALSE, servicetype |-> "DECLARED",
                 server |-> Declared[n]]
      BY <2>4
    <3>3. m = n
      BY <3>1, <3>2
    <3> QED
      BY <3>1, <3>2, <3>3
  <2>5. CASE v \in self /\ w \in self
    <3>1. PICK m \in SelfNames :
            v = [name |-> m, bootstrap |-> ROOT, port |-> ROOT,
                 isActive |-> TRUE, servicetype |-> "SELF",
                 server |-> MachInit]
      BY <2>5
    <3>2. PICK n \in SelfNames :
            w = [name |-> n, bootstrap |-> ROOT, port |-> ROOT,
                 isActive |-> TRUE, servicetype |-> "SELF",
                 server |-> MachInit]
      BY <2>5
    <3>3. m = n
      BY <3>1, <3>2
    <3> QED
      BY <3>1, <3>2, <3>3
  <2> QED
    BY <1>1, <2>1, <2>2, <2>3, <2>4, <2>5
<1>9. NoOrphans
  BY <1>1 DEF NoOrphans, BootstrapPorts, Init
<1> QED
  BY <1>5, <1>6, <1>7, <1>8, <1>9 DEF Inv

LEMMA NextInv == Inv /\ [Next]_vars => Inv'
<1> SUFFICES ASSUME Inv, [Next]_vars PROVE Inv'
  OBVIOUS
<1>1. ASSUME NEW t \in Task,
             AllocatePort(t) \/ SendRequest(t) \/ DropPort(t) \/ TaskDies(t)
      PROVE  Inv'
  BY <1>1, AllocateStep, SendStep, DropStep, DieStep
<1>2. ASSUME NEW r \in inbox,
             \/ x_bootstrap_check_in(r)  \/ x_bootstrap_register(r)
             \/ x_bootstrap_look_up(r)   \/ x_bootstrap_status(r)
             \/ x_bootstrap_info(r)      \/ x_bootstrap_subset(r)
             \/ x_bootstrap_create_service(r)
      PROVE  Inv'
  BY <1>2, CheckInStep, RegisterStep, LookUpStep, StatusStep, InfoStep,
     SubsetStep, CreateStep
<1>3. ASSUME NEW s \in Servers, BootServer(s)
      PROVE  Inv'
  BY <1>3, BootStep
<1>4. ASSUME NEW np \in Port, HandleNotice(np)
      PROVE  Inv'
  BY <1>4, InheritedStep, ServerDiedStep, PortDiedStep, BackedUpStep
     DEF HandleNotice
<1>5. CASE UNCHANGED vars
  BY <1>5 DEF vars, kernel, lists, procs, Inv, TypeOK, LiveHasPort, NoticesDead,
              UniqueNames, NoOrphans, BootstrapPorts
<1> QED
  BY <1>1, <1>2, <1>3, <1>4, <1>5
     DEF Next, Environment, MachInitStep, HandleRequest

\* Inv holds in every reachable state of every configuration, whatever the
\* clients do: types are kept, no notice is premature, the names of a
\* bootstrap are unique, and delete_bootstrap leaves no orphan.
THEOREM Invariance == Spec => []Inv
<1>1. Init => Inv
  BY InitInv
<1>2. Inv /\ [Next]_vars => Inv'
  BY NextInv
<1> QED
  BY <1>1, <1>2, PTL DEF Spec

\* A bootstrap never has two services of one name.
THEOREM NamesAreUnique == Spec => []UniqueNames
<1>1. Inv => UniqueNames
  BY DEF Inv
<1> QED
  BY <1>1, Invariance, PTL

\* Every service and every subset belongs to a bootstrap that exists.
THEOREM NothingIsOrphaned == Spec => []NoOrphans
<1>1. Inv => NoOrphans
  BY DEF Inv
<1> QED
  BY <1>1, Invariance, PTL

------------------------------------------------------------------------------
(* A name is never bound to another port under a client that uses it. *)

\* What StableBinding says of one step.
BindingKept ==
  \A v \in services, w \in services' :
    SameBinding(v, w) /\ v.port # w.port =>
      ~v.isActive \/ (v.port # PORT_NULL /\ recv[v.port] = Dead)

\* Removing services, adding one under a new name or changing one that keeps
\* its port or is not in use rebinds no name.
LEMMA Rebinding ==
  ASSUME UniqueNames
  PROVE  /\ services' \subseteq services => BindingKept
         /\ \A u : ( /\ services' = services \cup {u}
                     /\ \A v \in services : ~SameBinding(v, u) ) => BindingKept
         /\ \A v \in services : \A w :
              ( /\ SameBinding(v, w) /\ Replace(v, w)
                /\ v.port = w.port \/ ~v.isActive ) => BindingKept
<1>1. services' \subseteq services => BindingKept
  BY DEF UniqueNames, BindingKept
<1>2. ASSUME NEW u, services' = services \cup {u},
             \A v \in services : ~SameBinding(v, u)
      PROVE  BindingKept
  BY <1>2 DEF UniqueNames, BindingKept
<1>3. ASSUME NEW v \in services, NEW w, SameBinding(v, w), Replace(v, w),
             v.port = w.port \/ ~v.isActive
      PROVE  BindingKept
  BY <1>3 DEF UniqueNames, BindingKept, Replace, SameBinding
<1> QED
  BY <1>1, <1>2, <1>3

LEMMA RegisterKeepsBinding ==
  ASSUME Inv, NEW r, x_bootstrap_register(r)
  PROVE  BindingKept
<1> USE DEF Inv
<1> DEFINE bs == lookup_bootstrap_by_port(r.port)
           here == {v \in lookup_service_by_name(bs, r.name) : v.bootstrap = bs}
           new == [name |-> r.name, bootstrap |-> bs, port |-> Arg(r),
                   isActive |-> TRUE, servicetype |-> "REGISTERED",
                   server |-> NoServer]
           rebound(v) == [v EXCEPT !.port = Arg(r), !.isActive = TRUE]
<1>1. \/ services' = services
      \/ here = {} /\ services' = services \cup {new}
      \/ \E v \in here : ~v.isActive /\ Replace(v, rebound(v))
  BY DEF x_bootstrap_register, Refuse, lists, Taken
<1>2. CASE services' = services
  BY <1>2, Rebinding
<1>3. CASE here = {} /\ services' = services \cup {new}
  <2>1. bs \in BootstrapPorts
    BY LookupIsBootstrap
  <2>2. \A v \in services : ~SameBinding(v, new)
    BY <1>3, <2>1, OwnNameIsFound DEF SameBinding
  <2> QED
    BY <1>3, <2>2, Rebinding
<1>4. CASE \E v \in here : ~v.isActive /\ Replace(v, rebound(v))
  <2>1. PICK v \in here : ~v.isActive /\ Replace(v, rebound(v))
    BY <1>4
  <2>2. v \in services /\ v \in Service
    BY LookupIsService DEF TypeOK
  <2>3. SameBinding(v, rebound(v))
    BY <2>2 DEF SameBinding, Service
  <2> QED
    BY <2>1, <2>2, <2>3, Rebinding
<1> QED
  BY <1>1, <1>2, <1>3, <1>4

LEMMA CreateKeepsBinding ==
  ASSUME Inv, NEW r, x_bootstrap_create_service(r)
  PROVE  BindingKept
<1> USE DEF Inv
<1> DEFINE bs == lookup_bootstrap_by_port(r.port)
           new(p) == [name |-> r.name, bootstrap |-> bs, port |-> p,
                      isActive |-> FALSE, servicetype |-> "DECLARED",
                      server |-> NoServer]
<1>1. CASE Refuse(r)
  BY <1>1, Rebinding DEF Refuse, lists
<1>2. CASE ~Refuse(r)
  <2>1. PICK p : services' = services \cup {new(p)}
    BY <1>2 DEF x_bootstrap_create_service
  <2>2. lookup_service_by_name(bs, r.name) = {} /\ bs \in BootstrapPorts
    BY <1>2, LookupIsBootstrap DEF x_bootstrap_create_service
  <2>3. \A v \in services : ~SameBinding(v, new(p))
    BY <2>2, OwnNameIsFound DEF SameBinding
  <2> QED
    BY <2>1, <2>3, Rebinding
<1> QED
  BY <1>1, <1>2

LEMMA CheckInKeepsBinding ==
  ASSUME Inv, NEW r, x_bootstrap_check_in(r)
  PROVE  BindingKept
<1> USE DEF Inv
<1>1. \/ services' = services
      \/ \E v \in services : Replace(v, CheckedIn(v))
  BY DEF x_bootstrap_check_in, Refuse, lists, lookup_service_by_name
<1>2. \A v \in services : /\ SameBinding(v, CheckedIn(v))
                          /\ CheckedIn(v).port = v.port
  BY DEF SameBinding, CheckedIn, TypeOK, Service
<1> QED
  BY <1>1, <1>2, Rebinding

LEMMA PortDiedKeepsBinding ==
  ASSUME Inv, NEW np \in Port, PortDied(np)
  PROVE  BindingKept
<1> USE DEF Inv
<1>1. np # PORT_NULL /\ recv[np] = Dead
  BY PortFacts DEF PortDied, NoticesDead
<1>2. ASSUME NEW w \in services'
      PROVE  \E u \in services : SameBinding(u, w) /\ (u.port # np => w = u)
  <2>1. PICK new :
          \/ w \in services
          \/ \E v \in services : v.port = np /\ w = Reinitialized(v, new[v])
    BY DEF PortDied
  <2>2. \A v \in services : SameBinding(v, Reinitialized(v, new[v]))
    BY DEF Reinitialized, SameBinding, TypeOK, Service
  <2> QED
    BY <2>1, <2>2 DEF SameBinding
<1> SUFFICES ASSUME NEW v \in services, NEW w \in services',
                    SameBinding(v, w), v.port # w.port
             PROVE  v.port = np
  BY <1>1 DEF BindingKept
<1>3. PICK u \in services : SameBinding(u, w) /\ (u.port # np => w = u)
  BY <1>2
<1>4. u = v
  BY <1>3 DEF UniqueNames, SameBinding
<1> QED
  BY <1>3, <1>4

LEMMA BackedUpKeepsBinding ==
  ASSUME Inv, NEW np \in Port, PortBackedUp(np)
  PROVE  BindingKept
<1> USE DEF Inv
<1>1. \/ services' = services
      \/ \E v \in services : v.port = np /\ Replace(v, Reinitialized(v, np))
  BY DEF PortBackedUp, lookup_service_by_port
<1>2. \A v \in services : /\ SameBinding(v, Reinitialized(v, np))
                          /\ Reinitialized(v, np).port = np
  BY DEF SameBinding, Reinitialized, TypeOK, Service
<1> QED
  BY <1>1, <1>2, Rebinding

LEMMA NextKeepsBinding == Inv /\ [Next]_vars => BindingKept
<1> SUFFICES ASSUME Inv, [Next]_vars PROVE BindingKept
  OBVIOUS
<1> USE DEF Inv
<1>1. CASE services' \subseteq services
  BY <1>1, Rebinding
<1>2. CASE \E r \in inbox : \/ x_bootstrap_check_in(r)
                            \/ x_bootstrap_register(r)
                            \/ x_bootstrap_create_service(r)
  BY <1>2, CheckInKeepsBinding, RegisterKeepsBinding, CreateKeepsBinding
<1>3. CASE \E np \in Port : PortDied(np) \/ PortBackedUp(np)
  BY <1>3, PortDiedKeepsBinding, BackedUpKeepsBinding
<1>4. \/ services' \subseteq services
      \/ \E r \in inbox : \/ x_bootstrap_check_in(r)
                          \/ x_bootstrap_register(r)
                          \/ x_bootstrap_create_service(r)
      \/ \E np \in Port : PortDied(np) \/ PortBackedUp(np)
  <2>1. ASSUME Environment PROVE services' = services
    BY <2>1 DEF Environment, AllocatePort, SendRequest, DropPort, TaskDies, lists
  <2>2. ASSUME NEW r, \/ x_bootstrap_look_up(r) \/ x_bootstrap_status(r)
                      \/ x_bootstrap_info(r) \/ x_bootstrap_subset(r)
        PROVE  services' \subseteq services
    BY <2>2 DEF x_bootstrap_look_up, x_bootstrap_status, Refuse,
                x_bootstrap_info, x_bootstrap_subset, lists
  <2>3. ASSUME NEW s, BootServer(s) PROVE services' = services
    BY <2>3 DEF BootServer, lists
  <2>4. ASSUME NEW np, InheritedDied(np) \/ ServerDied(np)
        PROVE  services' = services
    BY <2>4 DEF InheritedDied, ServerDied, lists
  <2>5. CASE UNCHANGED vars
    BY <2>5 DEF vars, lists
  <2> QED
    BY <2>1, <2>2, <2>3, <2>4, <2>5
       DEF Next, MachInitStep, HandleRequest, HandleNotice
<1> QED
  BY <1>1, <1>2, <1>3, <1>4

\* Clients of a name keep a valid port: it is rebound only if the port has
\* died or nobody had claimed it.
THEOREM BindingsAreStable == Spec => StableBinding
<1>1. Inv /\ [Next]_vars => [BindingKept]_vars
  BY NextKeepsBinding
<1> QED
  BY <1>1, Invariance, PTL DEF Spec, StableBinding, BindingKept

------------------------------------------------------------------------------
(* What mach_init gives up. *)

\* mach_init gives up its send right on p, or a receive right of p that it
\* holds or that is on its way back.
GivenUp(p) == \/ p \in rights /\ p \notin rights'
              \/ recv[p] \in {Broker, Transit} /\ recv'[p] = Dead

\* A right is given up only with a subset: it is on the bootstrap port or the
\* requestor port of one that the step deletes.
RightsKept ==
  \A p \in Port : GivenUp(p) =>
    \E b \in bootstraps \ bootstraps' : p \in {b.bootstrap_port, b.requestor_port}

LEMMA PortDiedKeepsRights ==
  ASSUME Inv, NEW np \in Port, PortDied(np)
  PROVE  RightsKept
<1> USE DEF Inv
<1> DEFINE closed == {b.bootstrap_port : b \in Doomed(np)}
           given  == closed \cup {b.requestor_port : b \in Doomed(np)}
           ended  == {p \in given : p # PORT_NULL /\ recv[p] = Broker}
           left   == {v \in services : v.bootstrap \notin closed}
           failed == {v \in left : v.port = np /\ v.servicetype # "REGISTERED"}
<1>1. PICK new \in Allocations(failed) :
        /\ recv' = [p \in Port |->
                      CASE p \in ended -> IF p \in backed THEN Transit ELSE Dead
                        [] p \in {new[v] : v \in failed} -> Broker
                        [] OTHER -> recv[p]]
        /\ rights' = (rights \ given) \cup {new[v] : v \in failed}
  BY DEF PortDied
<1>2. bootstraps' = bootstraps \ Doomed(np)  BY DEF PortDied
<1>3. Doomed(np) \subseteq bootstraps  BY DEF Doomed
<1>4. ASSUME NEW p \in Port, GivenUp(p) PROVE p \in given
  BY <1>1, <1>4, HolderFacts DEF GivenUp
<1> QED
  BY <1>2, <1>3, <1>4 DEF RightsKept

LEMMA RequestKeepsRights ==
  ASSUME Inv, HandleRequest
  PROVE  rights \subseteq rights' /\ \A p \in Port : recv[p] # Dead => recv'[p] # Dead
<1> USE DEF Inv
<1> PICK r \in inbox :
      \/ x_bootstrap_check_in(r)  \/ x_bootstrap_register(r)
      \/ x_bootstrap_look_up(r)   \/ x_bootstrap_status(r)
      \/ x_bootstrap_info(r)      \/ x_bootstrap_subset(r)
      \/ x_bootstrap_create_service(r)
  BY DEF HandleRequest
<1>1. CASE Refuse(r)  BY <1>1 DEF Refuse
<1>2. CASE ~Refuse(r) /\ x_bootstrap_check_in(r)
  <2>1. PICK v : /\ recv' = [recv EXCEPT ![v.port] =
                                IF r.from \in alive THEN r.from ELSE Broker]
                 /\ rights' = rights
    BY <1>2 DEF x_bootstrap_check_in
  <2> QED  BY <2>1, HolderFacts DEF TypeOK
<1>3. CASE ~Refuse(r) /\ x_bootstrap_register(r)
  <2>1. \/ recv' = recv /\ rights' = rights \cup ({Arg(r)} \ {PORT_NULL})
        \/ \E v : LET gone == Deallocated({v.port})
                  IN  /\ rights' = (rights \ gone) \cup ({Arg(r)} \ {PORT_NULL})
                      /\ recv' = [p \in Port |-> IF p \in gone THEN Dead ELSE recv[p]]
    BY <1>3 DEF x_bootstrap_register
  <2> QED  BY <2>1, NoneDeallocated
<1>4. CASE x_bootstrap_look_up(r) \/ x_bootstrap_info(r)
  BY <1>4 DEF x_bootstrap_look_up, x_bootstrap_info
<1>5. CASE ~Refuse(r) /\ (x_bootstrap_subset(r) \/ x_bootstrap_create_service(r))
  <2>1. PICK p : recv' = [recv EXCEPT ![p] = Broker]
    BY <1>5 DEF x_bootstrap_subset, x_bootstrap_create_service
  <2>2. rights \subseteq rights'
    BY <1>5 DEF x_bootstrap_subset, x_bootstrap_create_service
  <2> QED  BY <2>1, <2>2, HolderFacts DEF TypeOK
<1> QED
  BY <1>1, <1>2, <1>3, <1>4, <1>5 DEF x_bootstrap_status

LEMMA NextKeepsRights == Inv /\ [Next]_vars => RightsKept
<1> SUFFICES ASSUME Inv, [Next]_vars PROVE RightsKept
  OBVIOUS
<1> USE DEF Inv
<1>1. CASE HandleRequest
  BY <1>1, RequestKeepsRights, HolderFacts DEF RightsKept, GivenUp
<1>2. CASE Environment
  <2>1. rights' = rights
    BY <1>2 DEF Environment, AllocatePort, SendRequest, DropPort, TaskDies, kernel
  <2>2. PICK t \in Task : AllocatePort(t) \/ SendRequest(t) \/ DropPort(t) \/ TaskDies(t)
    BY <1>2 DEF Environment
  <2>3. \A p \in Port : recv[p] \in {Broker, Transit} => recv'[p] = recv[p]
    <3>1. CASE AllocatePort(t)
      BY <3>1, HolderFacts DEF AllocatePort, Lowest, FreePorts, TypeOK
    <3>2. CASE SendRequest(t)  BY <3>2 DEF SendRequest, kernel
    <3>3. CASE DropPort(t) \/ TaskDies(t)
      BY <3>3, HolderFacts DEF DropPort, TaskDies, Release, Own
    <3> QED  BY <2>2, <3>1, <3>2, <3>3
  <2> QED  BY <2>1, <2>3, HolderFacts DEF RightsKept, GivenUp
<1>3. ASSUME NEW s \in Servers, BootServer(s) PROVE RightsKept
  <2>1. start_server(s)  BY <1>3 DEF BootServer
  <2> QED  BY <2>1, StartFacts, HolderFacts DEF RightsKept, GivenUp
<1>4. ASSUME NEW np \in Port, HandleNotice(np) PROVE RightsKept
  <2>1. CASE InheritedDied(np)
    BY <2>1, HolderFacts DEF InheritedDied, RightsKept, GivenUp
  <2>2. CASE ServerDied(np)
    <3>1. \/ recv' = recv /\ rights' = rights
          \/ \E s \in Servers : start_server(s)
      BY <2>2 DEF ServerDied, lookup_server_by_task_port
    <3> QED  BY <3>1, StartFacts, HolderFacts DEF RightsKept, GivenUp
  <2>3. CASE PortDied(np)  BY <2>3, PortDiedKeepsRights
  <2>4. CASE PortBackedUp(np)
    <3>1. recv' = [recv EXCEPT ![np] = Broker] /\ rights' = rights
      BY <2>4, NoneDeallocated DEF PortBackedUp
    <3> QED  BY <3>1, HolderFacts DEF RightsKept, GivenUp, TypeOK
  <2> QED  BY <1>4, <2>1, <2>2, <2>3, <2>4 DEF HandleNotice
<1>5. CASE UNCHANGED vars
  BY <1>5, HolderFacts DEF vars, kernel, RightsKept, GivenUp
<1> QED
  BY <1>1, <1>2, <1>3, <1>4, <1>5 DEF Next, MachInitStep

\* Whatever messages mach_init receives and whatever it replaces, the only ports
\* it deallocates are those delete_bootstrap does: msg_destroy_port, called for
\* all others to "deallocate uninteresting ports", finds none of them so.
THEOREM OnlySubsetsGiveUp == Spec => [][RightsKept]_vars
<1>1. Inv /\ [Next]_vars => [RightsKept]_vars
  BY NextKeepsRights
<1> QED
  BY <1>1, Invariance, PTL DEF Spec
==============================================================================
