------------------------------ MODULE Bootstrap ------------------------------
(***************************************************************************)
(* mach_init, the Mach bootstrap server: server_loop and its request and   *)
(* notification handlers, start_server and the lists they work on, with    *)
(* the part of the kernel they rely on (who receives on a port, backup     *)
(* ports, deletion notices) and the tasks that use it.                     *)
(*                                                                         *)
(* Ports are 1 .. MaxPorts, handed out in order and never reused.  A       *)
(* bootstrap is named by its bootstrap_port; the head of the C list        *)
(* `bootstraps' is ROOT and is not an element of the set.  The lists are   *)
(* sets: names are unique within a bootstrap (UniqueNames).                *)
(***************************************************************************)
EXTENDS Naturals, FiniteSets

CONSTANTS
  Servers,      \* the server entries of the configuration file
  Clients,      \* the other tasks that send requests
  Names,        \* service names
  MaxPorts,     \* bound: ports the kernel can allocate in a behaviour
  MaxRequests,  \* bound: requests queued on the bootstrap port set
  ServerType,   \* Servers -> "SERVER", "RESTARTABLE" or "ETCINIT"
  Declared,     \* the configured services: a subset of Names -> its server
  SelfNames,    \* the names bound to the bootstrap port itself
  Parent,       \* the task behind an inherited bootstrap port, or NoTask
  Ops,          \* the requests the tasks send
  Env,          \* the hazards the environment may show, a subset of Hazards
  NoServer, MachInit, NoTask, NoName

Port      == 1 .. MaxPorts
PORT_NULL == 0
ROOT      == 1
INHERITED == 2
Task      == Servers \cup Clients
Broker    == "mach_init"    \* mach_init holds the receive rights
Transit   == "returning"    \* in a message queued on backup_port
Dead      == "dead"
Free      == "unallocated"
Holder    == Task \cup {Broker, Transit, Dead, Free}
Op        == {"check_in", "register", "look_up", "look_up_array",
              "status", "info", "subset", "create_service"}

(***************************************************************************)
(* alias: a port is registered under a second name.  sharedreq: a port is  *)
(* given as requestor although it is in use.  taskreq: a server gives its  *)
(* task port as requestor.  deadreply: a server dies between its check_in  *)
(* request and the reply.  forkfail, earlyexit: fork fails; the child is   *)
(* gone before task_by_unix_pid.  debuginit: -d, so that the init server   *)
(* can die without a panic.  uaf: reading a freed child bootstrap crashes. *)
(***************************************************************************)
Hazards == {"alias", "sharedreq", "taskreq", "deadreply",
            "forkfail", "earlyexit", "debuginit", "uaf"}

ASSUME ConfigAssumption ==
  /\ MaxPorts \in Nat /\ MaxPorts >= 2
  /\ MaxRequests \in Nat
  /\ {Broker, Transit, Dead, Free} \cap Task = {}
  /\ NoTask \notin Task
  /\ {NoServer, MachInit} \cap Servers = {}
  /\ NoServer # MachInit
  /\ NoName \notin Names
  /\ Servers \cap Clients = {}
  /\ ServerType \in [Servers -> {"SERVER", "RESTARTABLE", "ETCINIT"}]
  /\ DOMAIN Declared \subseteq Names
  /\ \A n \in DOMAIN Declared : Declared[n] \in Servers \cup {NoServer}
  /\ SelfNames \subseteq Names \ DOMAIN Declared
  /\ Parent \in Clients \cup {NoTask}
  /\ Ops \subseteq Op /\ Env \subseteq Hazards

VARIABLES
  \* the kernel
  recv,             \* port -> who holds its receive rights
  backed,           \* ports whose backup port is backup_port
  rights,           \* ports mach_init has send rights on
  notices,          \* NOTIFY_PORT_DELETED messages queued on notify_port
  inbox,            \* requests queued on bootstrap, subset and server ports
  alive,            \* running tasks
  \* mach_init
  services,         \* the list of services
  bootstraps,       \* the list of subset bootstraps
  port,             \* server -> its privileged bootstrap port
  task_port,        \* server -> its task port
  running_servers,
  inherited_bootstrap_port,
  unstarted,        \* servers main has not started yet
  status            \* "up", "exited" or "hung"

kernel == <<recv, backed, rights, notices, alive>>
lists  == <<services, bootstraps>>
procs  == <<port, task_port, running_servers, unstarted>>
vars   == <<kernel, inbox, lists, procs, inherited_bootstrap_port, status>>

Service ==
  [name : Names, bootstrap : Port, port : Port \cup {PORT_NULL},
   isActive : BOOLEAN, servicetype : {"DECLARED", "REGISTERED", "SELF"},
   server : Servers \cup {NoServer, MachInit}]
BootstrapRec ==
  [bootstrap_port : Port, requestor_port : Port \cup {PORT_NULL}, parent : Port]
Request ==
  {r \in [op : Op, port : Port, name : Names \cup {NoName},
          arg : Port \cup {PORT_NULL}, from : Task] :
     r.op \in {"subset", "look_up_array", "info"} \/ r.name \in Names}

------------------------------------------------------------------------------
(* Lookups of lists.c and predicates on rights. *)

BootstrapPorts == {ROOT} \cup {b.bootstrap_port : b \in bootstraps}

canReceive(p) == p # PORT_NULL /\ recv[p] = Broker
canSendOnlyIfNotOwner(p) == p \in rights /\ recv[p] \notin {Dead, Broker}
canSend(p)    == p # PORT_NULL /\ p \in rights /\ recv[p] # Dead

\* The bootstrap that owns p; any other port, a server's included, is ROOT's.
lookup_bootstrap_by_port(p) == IF p \in BootstrapPorts THEN p ELSE ROOT
lookup_by_bootstrap_port(p) == {b \in bootstraps : b.bootstrap_port = p}
lookup_bootstrap_req_by_port(p) == {b \in bootstraps : b.requestor_port = p}
lookup_server_by_port(p)      == {s \in Servers : port[s] = p}
lookup_server_by_task_port(p) == {s \in Servers : task_port[s] = p}
lookup_service_by_port(p)     == {v \in services : v.port = p}

\* bp, its parent, and so on up to ROOT: the least set closed under parent.
Ancestry(bp) ==
  {a \in BootstrapPorts :
     \A S \in SUBSET BootstrapPorts :
       (bp \in S /\ \A b \in bootstraps :
                      b.bootstrap_port \in S => b.parent \in S) => a \in S}

\* A bug: the search begins with the parent.
lookup_from_parent(bp, n) ==
  {v \in services : v.name = n /\ v.bootstrap \in Ancestry(bp) \ {bp}}

\* The service name n denotes at bootstrap bp: the one of the nearest
\* ancestor that has the name.  At most one element.
lookup_service_by_name(bp, n) ==
  LET known == {v \in services : v.name = n /\ v.bootstrap \in Ancestry(bp)}
  IN  {v \in known : \A w \in known : w.bootstrap \in Ancestry(v.bootstrap)}

\* msg_destroy_port returns without deallocating p.  The search for a
\* requestor never yields the list head it is compared with.
Head == [bootstrap_port |-> ROOT, requestor_port |-> PORT_NULL,
         parent |-> PORT_NULL]
Important(p) ==
  \/ p \in {PORT_NULL, inherited_bootstrap_port, ROOT}
  \/ lookup_service_by_port(p) # {}
  \/ lookup_server_by_port(p) # {}
  \/ lookup_bootstrap_by_port(p) # ROOT
  \/ lookup_bootstrap_req_by_port(p) # {Head}

\* Ports p of S on which mach_init gives up its rights after the handler.
Deallocated(S) == {p \in S : ~Important(p)}

------------------------------------------------------------------------------
(* The kernel: allocation, and what becomes of a port without receiver. *)

FreePorts == {p \in Port : recv[p] = Free}
Lowest(S) == {p \in S : \A q \in S : p <= q}      \* at most one element

\* Distinct new ports for the services of V, the lowest free ones.
Allocations(V) ==
  {f \in [V -> FreePorts] :
     /\ \A v, w \in V : f[v] = f[w] => v = w
     /\ \A v \in V, q \in FreePorts : q < f[v] => \E w \in V : f[w] = q}

\* The receiver of the ports of S gives them up: a backed-up port goes to
\* backup_port; any other dies, and mach_init is told if it has rights on it.
Release(S) ==
  /\ recv' = [p \in Port |-> IF p \notin S THEN recv[p]
                             ELSE IF p \in backed THEN Transit ELSE Dead]
  /\ backed' = backed \ S
  /\ notices' = notices \cup ((S \ backed) \cap rights)

\* Bound: the ports mach_init must still allocate on account of what has
\* already happened.  The environment acts only while they can be had.
Owed ==
  2 * Cardinality(unstarted)
  + 2 * Cardinality({s \in Servers : task_port[s] \in notices})
  + Cardinality({v \in services : v.port # PORT_NULL /\ recv[v.port] = Dead})
  + Cardinality({r \in inbox : r.op \in {"subset", "create_service"}})
Solvent == Owed <= Cardinality(FreePorts)

------------------------------------------------------------------------------
(* The tasks: they allocate ports, send requests, drop ports and die. *)

TaskPorts == {task_port[s] : s \in Servers}
Own(t)    == {p \in Port : recv[p] = t} \ (TaskPorts \cup {INHERITED})
InUse(p)  ==
  \/ \E v \in services : v.port = p
  \/ \E b \in bootstraps : b.requestor_port = p
  \/ \E r \in inbox : r.arg = p

\* A server has its privileged port, a client the one named in SelfNames.
Contacts(t) ==
  (BootstrapPorts \ {ROOT})
  \cup IF t \in Servers THEN {port[t]} ELSE {ROOT}

Registrable(t) ==
  {PORT_NULL} \cup {p \in Own(t) : ~InUse(p)}
  \cup IF "alias" \in Env THEN Own(t) \cup {v.port : v \in services} ELSE {}
RequestorPorts(t) ==
  {p \in Own(t) : "sharedreq" \in Env \/ ~InUse(p)}
  \cup IF "taskreq" \in Env /\ t \in Servers THEN {task_port[t]} ELSE {}

RequestsOf(t) ==
  [op : {"check_in", "look_up", "status", "create_service"} \cap Ops,
   port : Contacts(t), name : Names, arg : {PORT_NULL}, from : {t}]
  \cup [op : {"register"} \cap Ops, port : Contacts(t), name : Names,
        arg : Registrable(t), from : {t}]
  \cup [op : {"subset"} \cap Ops, port : Contacts(t), name : {NoName},
        arg : RequestorPorts(t), from : {t}]
  \cup [op : {"look_up_array", "info"} \cap Ops, port : Contacts(t),
        name : {NoName}, arg : {PORT_NULL}, from : {t}]

AllocatePort(t) ==
  /\ t \in alive /\ {p \in Own(t) : ~InUse(p)} = {}
  /\ \E p \in Lowest(FreePorts) : recv' = [recv EXCEPT ![p] = t]
  /\ UNCHANGED <<backed, rights, notices, alive, inbox, lists, procs,
                 inherited_bootstrap_port, status>>

SendRequest(t) ==
  /\ t \in alive /\ Cardinality(inbox) < MaxRequests
  /\ \E r \in RequestsOf(t) : r \notin inbox /\ inbox' = inbox \cup {r}
  /\ UNCHANGED <<kernel, lists, procs, inherited_bootstrap_port, status>>

DropPort(t) ==
  /\ t \in alive
  /\ \E p \in Own(t) : Release({p})
  /\ UNCHANGED <<rights, alive, inbox, lists, procs,
                 inherited_bootstrap_port, status>>

TaskDies(t) ==
  /\ t \in alive
  /\ t \in Servers /\ ServerType[t] = "ETCINIT" => "debuginit" \in Env
  /\ \/ "deadreply" \in Env
     \/ \A r \in inbox : r.from = t => r.op # "check_in"
  /\ alive' = alive \ {t}
  /\ Release({p \in Port : recv[p] = t})
  /\ UNCHANGED <<rights, inbox, lists, procs, inherited_bootstrap_port, status>>

------------------------------------------------------------------------------
(* The request handlers of rpc_services.c. *)

Serving == status = "up" /\ unstarted = {}

\* The port a request carries, PORT_NULL if it died in the queue.
Arg(r) == IF r.arg # PORT_NULL /\ recv[r.arg] = Dead THEN PORT_NULL ELSE r.arg

\* server_loop takes r from its queue.  The send right r carries stays with
\* mach_init: the msg_destroy at the end of the loop gives up none.
Accept(r) ==
  /\ Serving /\ r \in inbox
  /\ inbox' = inbox \ {r}
  /\ UNCHANGED <<notices, alive, procs, inherited_bootstrap_port>>
Refuse(r) ==
  /\ rights' = rights \cup ({Arg(r)} \ {PORT_NULL})
  /\ UNCHANGED <<recv, backed, lists, status>>
Replace(v, w) == services' = (services \ {v}) \cup {w}

\* What check_in and register ask of a service's server and state, with a bug
\* of each, and what check_in leaves in the service.
AnyServer(v, servers)  == v.servicetype # "SELF"
ItsServer(v, servers)  == v.server = NoServer \/ v.server \in servers
CheckedIn(v)           == [v EXCEPT !.isActive = TRUE]
TakenIfServed(v)       == v.isActive /\ v.server # NoServer
Taken(v)               == v.isActive

x_bootstrap_check_in(r) ==
  LET servers == lookup_server_by_port(r.port)
      found   == {v \in lookup_service_by_name(
                          lookup_bootstrap_by_port(r.port), r.name) :
                    v.port # PORT_NULL}
      granted == {v \in found :
                    /\ servers # {}
                    /\ ItsServer(v, servers)
                    /\ v.servicetype # "SELF" /\ canReceive(v.port)}
  IN  /\ r.op = "check_in" /\ Accept(r)
      /\ \/ granted = {} /\ Refuse(r)
         \/ \E v \in granted :
              /\ Replace(v, CheckedIn(v))
              /\ recv' = [recv EXCEPT ![v.port] =
                            IF r.from \in alive THEN r.from ELSE Broker]
              /\ UNCHANGED <<backed, rights, bootstraps, status>>

x_bootstrap_register(r) ==
  LET bs      == lookup_bootstrap_by_port(r.port)
      servers == lookup_server_by_port(r.port)
      found   == lookup_service_by_name(bs, r.name)
      here    == {v \in found : v.bootstrap = bs}
      refused == \/ \E v \in found : ~ItsServer(v, servers)
                 \/ servers = {} /\ r.port # bs
                 \/ \E v \in here : Taken(v)
  IN  /\ r.op = "register" /\ Accept(r)
      /\ \/ refused /\ Refuse(r)
         \/ /\ ~refused /\ here = {}
            /\ services' = services \cup
                 {[name |-> r.name, bootstrap |-> bs, port |-> Arg(r),
                   isActive |-> TRUE, servicetype |-> "REGISTERED",
                   server |-> NoServer]}
            /\ rights' = rights \cup ({Arg(r)} \ {PORT_NULL})
            /\ UNCHANGED <<recv, backed, bootstraps, status>>
         \/ /\ ~refused
            /\ \E v \in here :
                 LET gone == Deallocated({v.port})
                 IN  /\ Replace(v, [v EXCEPT !.port = Arg(r),
                                             !.isActive = TRUE])
                     /\ rights' = (rights \ gone)
                                  \cup ({Arg(r)} \ {PORT_NULL})
                     /\ recv' = [p \in Port |-> IF p \in gone THEN Dead
                                                ELSE recv[p]]
            /\ UNCHANGED <<backed, bootstraps, status>>

\* The services a lookup of the names of N deletes: their port has gone.
Lost(bp, N) ==
  {v \in UNION {lookup_service_by_name(bp, n) : n \in N} :
     v.port # PORT_NULL /\ ~canSend(v.port)}

x_bootstrap_look_up(r) ==
  /\ r.op \in {"look_up", "look_up_array"} /\ Accept(r)
  /\ services' = services \
       Lost(lookup_bootstrap_by_port(r.port),
            IF r.op = "look_up" THEN {r.name} ELSE Names)
  /\ UNCHANGED <<recv, backed, rights, bootstraps, status>>

x_bootstrap_status(r) == r.op = "status" /\ Accept(r) /\ Refuse(r)

\* The second loop counts the visible services up to nservices, going round
\* the list as often as that takes; it never ends when none is visible.
x_bootstrap_info(r) ==
  LET bs == lookup_bootstrap_by_port(r.port)
      visible == {v \in services : v \in lookup_service_by_name(bs, v.name)}
  IN  /\ r.op = "info" /\ Accept(r)
      /\ status' = IF services # {} /\ visible = {} THEN "hung" ELSE status
      /\ UNCHANGED <<recv, backed, rights, lists>>

x_bootstrap_subset(r) ==
  /\ r.op = "subset" /\ Accept(r)
  /\ \E p \in Lowest(FreePorts) :
       /\ recv' = [recv EXCEPT ![p] = Broker]
       /\ rights' = rights \cup ({p, Arg(r)} \ {PORT_NULL})
       /\ bootstraps' = bootstraps \cup
            {[bootstrap_port |-> p, requestor_port |-> Arg(r),
              parent |-> lookup_bootstrap_by_port(r.port)]}
  /\ UNCHANGED <<backed, services, status>>

x_bootstrap_create_service(r) ==
  LET bs == lookup_bootstrap_by_port(r.port)
      known == lookup_service_by_name(bs, r.name) # {}
  IN  /\ r.op = "create_service" /\ Accept(r)
      /\ \/ known /\ Refuse(r)
         \/ /\ ~known
            /\ \E p \in Lowest(FreePorts) :
                 /\ recv' = [recv EXCEPT ![p] = Broker]
                 /\ backed' = backed \cup {p}
                 /\ rights' = rights \cup {p}
                 /\ services' = services \cup
                      {[name |-> r.name, bootstrap |-> bs, port |-> p,
                        isActive |-> FALSE, servicetype |-> "DECLARED",
                        server |-> NoServer]}
            /\ UNCHANGED <<bootstraps, status>>

------------------------------------------------------------------------------
(* start_server, and the notification handlers of server_loop. *)

\* A server gets a new privileged port and, unless fork fails, a task.
start_server(s) ==
  \E sp \in Lowest(FreePorts) :
    LET gone == Deallocated({port[s]} \ {PORT_NULL})
        Privileged(h) ==      \* h: the port the kernel gave meanwhile
          [p \in Port |-> CASE p = sp -> Broker
                            [] p \in h -> s
                            [] p \in gone -> Dead
                            [] OTHER -> recv[p]]
        kept == rights \ gone
    IN  /\ port' = [port EXCEPT ![s] = sp]
        /\ \/ \E tp \in Lowest(FreePorts \ {sp}) :    \* the task is started
                /\ recv' = Privileged({tp})
                /\ rights' = kept \cup {sp, tp}
                /\ task_port' = [task_port EXCEPT ![s] = tp]
                /\ alive' = alive \cup {s}
                /\ UNCHANGED status
           \/ /\ "forkfail" \in Env /\ ServerType[s] # "ETCINIT"
              /\ recv' = Privileged({})
              /\ rights' = kept \cup {sp}
              /\ UNCHANGED <<task_port, alive, status>>
           \/ /\ "earlyexit" \in Env /\ ServerType[s] # "ETCINIT"
              /\ recv' = Privileged({})
              /\ rights' = kept \cup {sp}
              /\ status' = "exited"
              /\ UNCHANGED <<task_port, alive>>

\* running_servers after start_server(s), from the count before it; after a
\* death; and which deaths make start_server run again; with a bug of each.
CountedAtBoot(s, n) == IF s \in alive' /\ s \in unstarted THEN n + 1 ELSE n
Counted(s, n) == IF s \in alive' /\ ServerType[s] # "ETCINIT" THEN n + 1 ELSE n

Decremented     == IF running_servers > 0 THEN running_servers - 1 ELSE 0
RestartedLate(s) == running_servers > 1 /\ ServerType[s] = "RESTARTABLE"
Restarted(s)    == running_servers > 0 /\ ServerType[s] = "RESTARTABLE"

BootServer(s) ==
  /\ status = "up" /\ s \in unstarted
  /\ unstarted' = unstarted \ {s}
  /\ start_server(s)
  /\ running_servers' = Counted(s, running_servers)
  /\ UNCHANGED <<backed, notices, inbox, lists, inherited_bootstrap_port>>

InheritedDied(np) ==
  /\ Serving /\ np \in notices /\ np = inherited_bootstrap_port
  /\ notices' = notices \ {np}
  /\ inherited_bootstrap_port' = PORT_NULL
  /\ UNCHANGED <<recv, backed, rights, alive, inbox, lists, procs, status>>

ServerDied(np) ==
  /\ Serving /\ np \in notices /\ np # inherited_bootstrap_port
  /\ notices' = notices \ {np}
  /\ \E s \in lookup_server_by_task_port(np) :
       IF Restarted(s)
       THEN /\ start_server(s)
            /\ running_servers' = Counted(s, Decremented)
       ELSE /\ running_servers' = Decremented
            /\ UNCHANGED <<recv, rights, alive, port, task_port, status>>
  /\ UNCHANGED <<backed, inbox, lists, unstarted, inherited_bootstrap_port>>

\* delete_bootstrap of every subset np is the requestor of, with its
\* descendants; and a bug: the children stay.
DoomedAlone(np) == lookup_bootstrap_req_by_port(np)
Doomed(np) ==
  {b \in bootstraps : \E a \in lookup_bootstrap_req_by_port(np) :
                        a.bootstrap_port \in Ancestry(b.bootstrap_port)}

\* A service whose port p came back or was made anew, and the ports that then
\* have backup_port as their backup; with a bug of each.
StillActive(v, p)  == [v EXCEPT !.port = p]
Reinitialized(v, p) == [v EXCEPT !.port = p, !.isActive = FALSE]
NotBackedAgain(S)  == backed
BackedAgain(S)     == backed \cup S

\* A subset requestor or a service port has died: delete_bootstrap, which
\* deallocates both ports of a subset, then the services left with that port
\* are deleted or get a new, backed-up port.
PortDied(np) ==
  LET doomed == Doomed(np)
      closed == {b.bootstrap_port : b \in doomed}
      given  == closed \cup {b.requestor_port : b \in doomed}
      ended  == {p \in given : p # PORT_NULL /\ recv[p] = Broker}
      left   == {v \in services : v.bootstrap \notin closed}
      failed == {v \in left : v.port = np /\ v.servicetype # "REGISTERED"}
  IN  /\ Serving /\ np \in notices /\ np # inherited_bootstrap_port
      /\ lookup_server_by_task_port(np) = {}
      /\ notices' = notices \ {np}
      /\ \E new \in Allocations(failed) :
           LET fresh == {new[v] : v \in failed}
           IN  /\ services' =
                    {v \in left : v.port # np}
                    \cup {Reinitialized(v, new[v]) : v \in failed}
               /\ recv' = [p \in Port |->
                             CASE p \in ended -> IF p \in backed THEN Transit
                                                 ELSE Dead
                               [] p \in fresh -> Broker
                               [] OTHER -> recv[p]]
               /\ backed' = BackedAgain(fresh) \ ended
               /\ rights' = (rights \ given) \cup fresh
      /\ bootstraps' = bootstraps \ doomed
      /\ inbox' = {r \in inbox : r.port \notin closed}
      /\ \/ UNCHANGED status
         \/ /\ "uaf" \in Env /\ \E b \in doomed : b.parent \in closed
            /\ status' = "exited"
      /\ UNCHANGED <<alive, procs, inherited_bootstrap_port>>

\* Receive rights come back through backup_port.
PortBackedUp(np) ==
  /\ Serving /\ recv[np] = Transit
  /\ \/ \E v \in lookup_service_by_port(np) :
          /\ Replace(v, Reinitialized(v, np))
          /\ recv' = [recv EXCEPT ![np] = Broker]
          /\ backed' = BackedAgain({np})
          /\ UNCHANGED rights
     \/ /\ lookup_service_by_port(np) = {}
        /\ recv' = [recv EXCEPT ![np] =
                      IF Deallocated({np}) = {} THEN Broker ELSE Dead]
        /\ rights' = rights \ Deallocated({np})
        /\ UNCHANGED <<backed, services>>
  /\ UNCHANGED <<notices, alive, inbox, bootstraps, procs,
                 inherited_bootstrap_port, status>>

------------------------------------------------------------------------------
(* The specification. *)

\* After init_config and init_ports: the configured services have their
\* ports, no server runs yet.
Init ==
  /\ \E f \in [DOMAIN Declared -> Port] :
       /\ \A m, n \in DOMAIN Declared : f[m] = f[n] => m = n
       /\ \A n \in DOMAIN Declared :
            f[n] > 2 /\ f[n] <= 2 + Cardinality(DOMAIN Declared)
       /\ services =
            {[name |-> n, bootstrap |-> ROOT, port |-> f[n], isActive |-> FALSE,
              servicetype |-> "DECLARED", server |-> Declared[n]] :
               n \in DOMAIN Declared}
            \cup {[name |-> n, bootstrap |-> ROOT, port |-> ROOT,
                   isActive |-> TRUE, servicetype |-> "SELF",
                   server |-> MachInit] : n \in SelfNames}
       /\ backed = {f[n] : n \in DOMAIN Declared}
       /\ recv = [p \in Port |-> CASE p \in backed \cup {ROOT} -> Broker
                                   [] p = INHERITED /\ Parent # NoTask -> Parent
                                   [] p = INHERITED /\ Parent = NoTask -> Dead
                                   [] OTHER -> Free]
       /\ rights = backed \cup {ROOT}
                   \cup IF Parent = NoTask THEN {} ELSE {INHERITED}
  /\ notices = {} /\ inbox = {}
  /\ alive = Clients
  /\ bootstraps = {}
  /\ port = [s \in Servers |-> PORT_NULL]
  /\ task_port = [s \in Servers |-> PORT_NULL]
  /\ running_servers = 0
  /\ inherited_bootstrap_port = IF Parent = NoTask THEN PORT_NULL ELSE INHERITED
  /\ unstarted = Servers
  /\ status = "up"

Environment ==
  /\ \E t \in Task : \/ AllocatePort(t) \/ SendRequest(t)
                     \/ DropPort(t) \/ TaskDies(t)
  /\ Solvent'

HandleRequest ==
  \E r \in inbox :
    \/ x_bootstrap_check_in(r)  \/ x_bootstrap_register(r)
    \/ x_bootstrap_look_up(r)   \/ x_bootstrap_status(r)
    \/ x_bootstrap_info(r)      \/ x_bootstrap_subset(r)
    \/ x_bootstrap_create_service(r)
HandleNotice(np) ==
  InheritedDied(np) \/ ServerDied(np) \/ PortDied(np) \/ PortBackedUp(np)

MachInitStep ==
  \/ \E s \in Servers : BootServer(s)
  \/ HandleRequest
  \/ \E np \in Port : HandleNotice(np)

Next == Environment \/ MachInitStep

Spec == Init /\ [][Next]_vars

\* mach_init keeps running, and every notice and returning right queued for
\* it is received in the end, however many follow it: msg_receive takes them
\* in order.
Fairness ==
  /\ WF_vars(\E s \in Servers : BootServer(s))
  /\ WF_vars(HandleRequest)
  /\ \A np \in Port : WF_vars(HandleNotice(np))
FairSpec == Spec /\ Fairness

------------------------------------------------------------------------------
(* Properties.  Those marked (well-behaved) hold when Env is empty: one    *)
(* name per port, one use per requestor port, no server lost between a     *)
(* check_in and its reply.                                                 *)

\* Every variable keeps its type.
TypeOK ==
  /\ recv \in [Port -> Holder]
  /\ backed \subseteq Port /\ rights \subseteq Port /\ notices \subseteq Port
  /\ inbox \subseteq Request
  /\ alive \subseteq Task
  /\ services \subseteq Service
  /\ bootstraps \subseteq BootstrapRec
  /\ port \in [Servers -> Port \cup {PORT_NULL}]
  /\ task_port \in [Servers -> Port \cup {PORT_NULL}]
  /\ running_servers \in Nat
  /\ inherited_bootstrap_port \in {PORT_NULL, INHERITED}
  /\ unstarted \subseteq Servers
  /\ status \in {"up", "exited", "hung"}

SameBinding(v, w) == v.name = w.name /\ v.bootstrap = w.bootstrap

\* A bootstrap never has two services of one name: register replaces or
\* refuses, create_service refuses, whatever else holds the name further up.
UniqueNames ==
  \A v, w \in services : SameBinding(v, w) => v = w

\* delete_bootstrap leaves nothing behind: every service and every subset
\* belongs to a bootstrap that still exists.
NoOrphans ==
  /\ \A v \in services : v.bootstrap \in BootstrapPorts
  /\ \A b \in bootstraps : b.parent \in BootstrapPorts

\* A live server has its ports.
LiveHasPort ==
  \A s \in Servers : s \in alive => port[s] \in Port /\ task_port[s] \in Port

\* Notices are never premature: what mach_init is told has died is dead.
NoticesDead == \A np \in notices : recv[np] = Dead

\* Whatever the tasks do: the inductive invariant of the proofs.
Inv == TypeOK /\ LiveHasPort /\ NoticesDead /\ UniqueNames /\ NoOrphans

\* (well-behaved) A service is inactive exactly while mach_init itself holds
\* the receive rights of its port.
ActiveIffServed ==
  \A v \in services :
    v.servicetype # "SELF" /\ v.port # PORT_NULL =>
      (v.isActive <=> recv[v.port] # Broker)

\* (well-behaved) What mach_init offers for check-in will come back to it: the
\* backup port is set again each time the rights return or are renewed.
InactiveIsBacked ==
  \A v \in services : ~v.isActive => v.port \in backed

\* (well-behaved) No service and no subset rests on a dead port without a
\* notice that will tell mach_init.
DeathIsNoticed ==
  /\ \A v \in services :
       v.port # PORT_NULL /\ recv[v.port] = Dead => v.port \in notices
  /\ \A b \in bootstraps :
       b.requestor_port # PORT_NULL /\ recv[b.requestor_port] = Dead =>
         b.requestor_port \in notices

\* (well-behaved) The port of a service configured for a server is received
\* by that server or by nobody else than mach_init.
PrivilegedCustody ==
  \A v \in services :
    v.server \in Servers /\ v.port # PORT_NULL =>
      recv[v.port] \in {v.server, Broker, Transit, Dead}

\* (well-behaved) running_servers counts the launched servers that live or
\* whose death is still to be handled.
RunningCount ==
  running_servers =
    Cardinality({s \in Servers : /\ ServerType[s] # "ETCINIT"
                                 /\ s \in alive \/ task_port[s] \in notices})

\* (well-behaved) A service disappears only with its port or its bootstrap.
DeletedOnlyIfGone ==
  [][\A v \in services :
       \/ \E w \in services' : SameBinding(v, w)
       \/ v.port # PORT_NULL /\ recv[v.port] = Dead
       \/ v.bootstrap \notin BootstrapPorts']_vars

\* A name is bound to another port only if the old one has died or was free
\* to be claimed: clients of a crashed server keep a valid port.
StableBinding ==
  [][\A v \in services, w \in services' :
       SameBinding(v, w) /\ v.port # w.port =>
         ~v.isActive \/ (v.port # PORT_NULL /\ recv[v.port] = Dead)]_vars

\* (well-behaved) A restartable server that was started and dies runs again.
RestartableComesBack ==
  \A s \in Servers :
    (ServerType[s] = "RESTARTABLE" /\ s \notin alive /\ task_port[s] # PORT_NULL)
      ~> s \in alive

\* (well-behaved) No subset outlives its requestor port for long: again and
\* again there is none whose requestor port is dead.
SubsetReaped ==
  []<>(\A b \in bootstraps :
         b.requestor_port # PORT_NULL => recv[b.requestor_port] # Dead)

------------------------------------------------------------------------------
(* The promise of ServiceCustody, for the services of the configuration.    *)

Custody(n) ==
  LET bound == {v \in services : v.name = n /\ v.bootstrap = ROOT}
  IN  IF bound = {} THEN "forgotten"
      ELSE IF \E v \in bound : v.port = PORT_NULL THEN "withdrawn"
      ELSE IF \E v \in bound : ~v.isActive THEN "offered"
      ELSE IF \E v \in bound : recv[v.port] \in Task THEN "served"
      ELSE "lost"

Promise == INSTANCE ServiceCustody WITH
             Service <- DOMAIN Declared,
             custody <- [n \in DOMAIN Declared |-> Custody(n)]

\* (well-behaved) Every step of mach_init and of the tasks is one the promise
\* allows, and a service that has lost its server does not stay so.
KeepsPromise == Promise!Spec
==============================================================================
