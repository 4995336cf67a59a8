-------------------------- MODULE BootstrapPromise ---------------------------
(***************************************************************************)
(* mach_init keeps the promise of ServiceCustody: seen through Custody,    *)
(* every step of mach_init and of well-behaved tasks is one the promise    *)
(* allows.                                                                 *)
(***************************************************************************)
EXTENDS BootstrapCustody

\* The refinement mapping of Promise.
Custodies == [n \in DOMAIN Declared |-> Custody(n)]

Here(S, n) == {v \in S : v.name = n /\ v.bootstrap = ROOT}
Phase(v, holder) ==
  IF v.port = PORT_NULL THEN "withdrawn"
  ELSE IF ~v.isActive THEN "offered"
  ELSE IF holder[v.port] \in Task THEN "served"
  ELSE "lost"

\* A configured service is forgotten, or in the phase of its only entry.
LEMMA PhaseNow ==
  ASSUME WInv, NEW n \in DOMAIN Declared
  PROVE  /\ Here(services, n) = {} => Custodies[n] = "forgotten"
         /\ \A v \in Here(services, n) : Custodies[n] = Phase(v, recv)
<1>1. \A v \in Here(services, n) : Here(services, n) = {v}
  BY DEF WInv, Inv, UniqueNames, SameBinding, Here
<1> QED
  BY <1>1 DEF Custodies, Custody, Here, Phase

LEMMA PhaseNext ==
  ASSUME WInv', NEW n \in DOMAIN Declared
  PROVE  /\ Here(services', n) = {} => Custodies'[n] = "forgotten"
         /\ \A v \in Here(services', n) : Custodies'[n] = Phase(v, recv')
<1>1. \A v \in Here(services', n) : Here(services', n) = {v}
  BY DEF WInv, Inv, UniqueNames, SameBinding, Here
<1> QED
  BY <1>1 DEF Custodies, Custody, Here, Phase

LEMMA SamePhase ==
  ASSUME WInv, WInv', NEW n \in DOMAIN Declared,
         Here(services', n) = Here(services, n),
         \A v \in Here(services, n) : v.port # PORT_NULL => recv'[v.port] = recv[v.port]
  PROVE  Custodies'[n] = Custodies[n]
BY PhaseNow, PhaseNext DEF Phase

------------------------------------------------------------------------------
(* Steps of the promise. *)

Move(a, b) ==
  \/ a \in {"offered", "forgotten"} /\ b \in {"served", "withdrawn"}
  \/ a \in {"lost", "forgotten"} /\ b = "offered"
  \/ a = "lost" /\ b = "forgotten"
Allowed == Promise!Next \/ Custodies' = Custodies

LEMMA NoneMoves ==
  ASSUME \A n \in DOMAIN Declared : Custodies'[n] = Custodies[n]
  PROVE  Allowed
BY DEF Custodies, Allowed

LEMMA SomeLost ==
  ASSUME \A n \in DOMAIN Declared :
           \/ Custodies'[n] = Custodies[n]
           \/ Custodies[n] = "served" /\ Custodies'[n] = "lost"
  PROVE  Allowed
<1> DEFINE S == {n \in DOMAIN Declared :
                   Custodies[n] = "served" /\ Custodies'[n] = "lost"}
<1>1. /\ \A n \in S : Custodies[n] = "served"
      /\ Custodies' = [n \in DOMAIN Declared |-> IF n \in S THEN "lost"
                                                 ELSE Custodies[n]]
  BY DEF Custodies
<1>2. Promise!Lose(S)
  BY <1>1 DEF Promise!Lose, Custodies
<1> QED
  BY <1>2 DEF Allowed, Promise!Next

LEMMA SomeForgotten ==
  ASSUME \A n \in DOMAIN Declared :
           \/ Custodies'[n] = Custodies[n]
           \/ Custodies[n] = "lost" /\ Custodies'[n] = "forgotten"
  PROVE  Allowed
<1> DEFINE S == {n \in DOMAIN Declared :
                   Custodies[n] = "lost" /\ Custodies'[n] = "forgotten"}
<1>1. /\ \A n \in S : Custodies[n] = "lost"
      /\ Custodies' = [n \in DOMAIN Declared |-> IF n \in S THEN "forgotten"
                                                 ELSE Custodies[n]]
  BY DEF Custodies
<1>2. Promise!Forget(S)
  BY <1>1 DEF Promise!Forget, Custodies
<1> QED
  BY <1>2 DEF Allowed, Promise!Next

LEMMA OneMoves ==
  ASSUME NEW m,
         \A n \in DOMAIN Declared : n # m => Custodies'[n] = Custodies[n],
         m \in DOMAIN Declared => \/ Custodies'[m] = Custodies[m]
                                  \/ Move(Custodies[m], Custodies'[m])
  PROVE  Allowed
<1>1. CASE m \notin DOMAIN Declared \/ Custodies'[m] = Custodies[m]
  BY <1>1, NoneMoves
<1>2. CASE m \in DOMAIN Declared /\ Move(Custodies[m], Custodies'[m])
  <2>1. CASE Custodies[m] = "lost" /\ Custodies'[m] = "forgotten"
    BY <2>1, SomeForgotten
  <2>2. Custodies' = [Custodies EXCEPT ![m] = Custodies'[m]]
    BY <1>2 DEF Custodies
  <2>3. CASE Custodies[m] \in {"offered", "forgotten"} /\ Custodies'[m] = "served"
    <3>1. Promise!Serve(m)
      BY <2>2, <2>3 DEF Promise!Serve, Promise!Step, Custodies
    <3> QED
      BY <1>2, <3>1 DEF Allowed, Promise!Next
  <2>4. CASE Custodies[m] \in {"offered", "forgotten"} /\ Custodies'[m] = "withdrawn"
    <3>1. Promise!Withdraw(m)
      BY <2>2, <2>4 DEF Promise!Withdraw, Promise!Step, Custodies
    <3> QED
      BY <1>2, <3>1 DEF Allowed, Promise!Next
  <2>5. CASE Custodies[m] \in {"lost", "forgotten"} /\ Custodies'[m] = "offered"
    <3>1. Promise!Recover(m)
      BY <2>2, <2>5 DEF Promise!Recover, Promise!Step, Custodies
    <3> QED
      BY <1>2, <3>1 DEF Allowed, Promise!Next
  <2> QED
    BY <1>2, <2>1, <2>3, <2>4, <2>5 DEF Move
<1> QED
  BY <1>1, <1>2

------------------------------------------------------------------------------
(* The steps of the tasks and of mach_init. *)

\* Steps after which the services and the receivers of their ports are as
\* before.
LEMMA QuietStep ==
  ASSUME WInv, WInv', services' = services,
         \A v \in services : v.port # PORT_NULL => recv'[v.port] = recv[v.port]
  PROVE  Allowed
<1>1. \A n \in DOMAIN Declared : /\ Here(services', n) = Here(services, n)
                                 /\ Here(services, n) \subseteq services
  BY DEF Here
<1> QED
  BY <1>1, SamePhase, NoneMoves

\* A free port is no service's port.
LEMMA QuietAllocation ==
  ASSUME WInv, WInv', NEW p \in FreePorts, NEW h, recv' = [recv EXCEPT ![p] = h],
         services' = services
  PROVE  Allowed
<1>1. \A v \in services : v.port # PORT_NULL => recv'[v.port] = recv[v.port]
  BY FreshPort DEF WInv, Inv, TypeOK
<1> QED
  BY <1>1, QuietStep

\* Drops and deaths.
LEMMA ReleaseStep ==
  ASSUME WInv, WInv', NEW t \in Task, NEW S \in SUBSET Port, Release(S),
         \A p \in S : recv[p] = t, services' = services
  PROVE  Allowed
<1>1. \A v \in services : v.port # PORT_NULL =>
        \/ recv'[v.port] = recv[v.port]
        \/ recv[v.port] \in Task /\ recv'[v.port] \notin Task
  BY HolderFacts DEF Release, WInv, Inv, TypeOK, Service
<1>2. \A v \in services : v.port # PORT_NULL /\ recv[v.port] \in Task => v.isActive
  BY HolderFacts DEF WInv, Good, Structure, Custodial, Addresses, ActiveIffServed
<1>3. ASSUME NEW n \in DOMAIN Declared
      PROVE  \/ Custodies'[n] = Custodies[n]
             \/ Custodies[n] = "served" /\ Custodies'[n] = "lost"
  <2>1. CASE Here(services, n) = {}
    BY <2>1, PhaseNow, PhaseNext
  <2>2. ASSUME NEW v \in Here(services, n)
        PROVE  \/ Custodies'[n] = Custodies[n]
               \/ Custodies[n] = "served" /\ Custodies'[n] = "lost"
    <3>1. /\ v \in services
          /\ Custodies[n] = Phase(v, recv) /\ Custodies'[n] = Phase(v, recv')
      BY <2>2, PhaseNow, PhaseNext DEF Here
    <3> QED
      BY <1>1, <1>2, <3>1 DEF Phase
  <2> QED
    BY <2>1, <2>2
<1> QED
  BY <1>3, SomeLost

LEMMA TaskStep ==
  ASSUME WellBehaved, WInv, WInv', NEW t \in Task,
         AllocatePort(t) \/ SendRequest(t) \/ DropPort(t) \/ TaskDies(t)
  PROVE  Allowed
<1>1. CASE AllocatePort(t)
  <2>1. PICK p \in FreePorts : recv' = [recv EXCEPT ![p] = t]
    BY <1>1 DEF AllocatePort, Lowest
  <2> QED
    BY <1>1, <2>1, QuietAllocation DEF AllocatePort, lists
<1>2. CASE SendRequest(t)
  BY <1>2, QuietStep DEF SendRequest, lists, kernel
<1>3. CASE DropPort(t)
  <2>1. PICK p \in Own(t) : Release({p})
    BY <1>3 DEF DropPort
  <2>2. {p} \in SUBSET Port /\ recv[p] = t
    BY <2>1 DEF Own
  <2> QED
    BY <1>3, <2>1, <2>2, ReleaseStep DEF DropPort, lists
<1>4. CASE TaskDies(t)
  <2>1. PICK S \in SUBSET Port : S = {p \in Port : recv[p] = t} /\ Release(S)
    BY <1>4 DEF TaskDies
  <2> QED
    BY <1>4, <2>1, ReleaseStep DEF TaskDies, lists
<1> QED
  BY <1>1, <1>2, <1>3, <1>4

LEMMA LaunchStep ==
  ASSUME WellBehaved, WInv, WInv',
         \/ \E s \in Servers : BootServer(s)
         \/ \E np \in Port : InheritedDied(np) \/ ServerDied(np)
  PROVE  Allowed
<1>1. services' = services
  BY DEF BootServer, InheritedDied, ServerDied, lists
<1>2. recv' = recv \/ \E s \in Servers : start_server(s)
  BY DEF BootServer, InheritedDied, ServerDied, lookup_server_by_task_port
<1>3. CASE recv' = recv
  BY <1>1, <1>3, QuietStep
<1>4. CASE \E s \in Servers : start_server(s)
  <2>1. PICK s \in Servers, sp \in FreePorts, tp \in FreePorts :
          recv' = [p \in Port |-> IF p = sp THEN Broker
                                  ELSE IF p = tp THEN s ELSE recv[p]]
    BY <1>4, ComesUp DEF WInv
  <2>2. \A v \in services : v.port # PORT_NULL => recv'[v.port] = recv[v.port]
    BY <2>1, FreshPort
  <2> QED
    BY <1>1, <2>2, QuietStep
<1> QED
  BY <1>2, <1>3, <1>4

\* One entry comes in the place of those of its name, which mach_init held.
LEMMA EntryStep ==
  ASSUME WInv, WInv', NEW V \in SUBSET services, NEW w \in services',
         services' = (services \ V) \cup {w},
         \A v \in V : SameBinding(v, w),
         V = {} => \A v \in services : ~SameBinding(v, w),
         \A v \in services \ V : v.port # PORT_NULL => recv'[v.port] = recv[v.port],
         w.bootstrap = ROOT /\ w.name \in DOMAIN Declared =>
           \/ V = {} /\ Move("forgotten", Phase(w, recv'))
           \/ \E v \in V : Move(Phase(v, recv), Phase(w, recv'))
  PROVE  Allowed
<1>1. ASSUME NEW n \in DOMAIN Declared, n # w.name \/ w.bootstrap # ROOT
      PROVE  Custodies'[n] = Custodies[n]
  <2>1. Here(services', n) = Here(services, n) /\ Here(services, n) \subseteq services \ V
    BY <1>1 DEF Here, SameBinding
  <2> QED
    BY <2>1, SamePhase
<1>2. ASSUME w.bootstrap = ROOT, w.name \in DOMAIN Declared
      PROVE  Move(Custodies[w.name], Custodies'[w.name])
  <2>1. Custodies'[w.name] = Phase(w, recv')
    BY <1>2, PhaseNext DEF Here
  <2>2. CASE V = {} /\ Move("forgotten", Phase(w, recv'))
    <3>1. Here(services, w.name) = {}
      BY <1>2, <2>2 DEF Here, SameBinding
    <3> QED
      BY <1>2, <2>1, <2>2, <3>1, PhaseNow
  <2>3. ASSUME NEW v \in V, Move(Phase(v, recv), Phase(w, recv'))
        PROVE  Move(Custodies[w.name], Custodies'[w.name])
    <3>1. v \in Here(services, w.name)
      BY <1>2 DEF Here, SameBinding
    <3> QED
      BY <1>2, <2>1, <2>3, <3>1, PhaseNow
  <2> QED
    BY <1>2, <2>2, <2>3
<1>3. CASE w.bootstrap = ROOT
  BY <1>1, <1>2, <1>3, OneMoves
<1>4. CASE w.bootstrap # ROOT
  BY <1>1, <1>4, NoneMoves
<1> QED
  BY <1>3, <1>4

LEMMA ReplaceStep ==
  ASSUME WInv, WInv', NEW v \in services, NEW w,
         services' = (services \ {v}) \cup {w}, SameBinding(v, w),
         \A u \in services \ {v} : u.port # PORT_NULL => recv'[u.port] = recv[u.port],
         Move(Phase(v, recv), Phase(w, recv'))
  PROVE  Allowed
<1>1. PICK V \in SUBSET services : V = {v}
  OBVIOUS
<1>2. w \in services' /\ services' = (services \ V) \cup {w}
  BY <1>1
<1> QED
  BY <1>1, <1>2, EntryStep

LEMMA AddStep ==
  ASSUME WInv, WInv', NEW w, services' = services \cup {w},
         \A v \in services : ~SameBinding(v, w),
         \A v \in services : v.port # PORT_NULL => recv'[v.port] = recv[v.port],
         Move("forgotten", Phase(w, recv'))
  PROVE  Allowed
<1>1. PICK V \in SUBSET services : V = {}
  OBVIOUS
<1>2. w \in services' /\ services' = (services \ V) \cup {w}
  BY <1>1
<1> QED
  BY <1>1, <1>2, EntryStep

------------------------------------------------------------------------------
(* The requests and notices that change services. *)

LEMMA CheckInAllowed ==
  ASSUME WInv, WInv', NEW r, x_bootstrap_check_in(r) PROVE Allowed
<1>1. CASE Refuse(r)
  BY <1>1, QuietStep DEF Refuse, lists
<1>2. CASE ~Refuse(r)
  <2>1. PICK v \in lookup_service_by_name(lookup_bootstrap_by_port(r.port), r.name) :
          /\ v.port # PORT_NULL /\ v.servicetype # "SELF" /\ canReceive(v.port)
          /\ Replace(v, CheckedIn(v))
          /\ recv' = [recv EXCEPT ![v.port] =
                        IF r.from \in alive THEN r.from ELSE Broker]
          /\ r \in inbox /\ r.op = "check_in"
    BY <1>2 DEF x_bootstrap_check_in, Accept
  <2>2. /\ v \in services /\ v \in Ported /\ v.port \in Port
        /\ recv[v.port] = Broker /\ ~v.isActive
    BY <2>1, LookupIsService, UsedFacts
    DEF Ported, canReceive, WInv, Inv, Good, Custodial, ActiveIffServed
  <2>3. r.from \in alive /\ r.from \in Task
    BY <2>1 DEF WInv, Inv, TypeOK, Good, Dealings, Requests
  <2>4. PICK w : w = CheckedIn(v)
    OBVIOUS
  <2>5. /\ w.port = v.port /\ w.isActive /\ SameBinding(v, w)
        /\ services' = (services \ {v}) \cup {w}
    BY <2>1, <2>2, <2>4
    DEF CheckedIn, SameBinding, Replace, WInv, Inv, TypeOK, Service
  <2>6. \A u \in services \ {v} : u.port # PORT_NULL => recv'[u.port] = recv[u.port]
    <3>1. \A u \in services \ {v} : u.port # v.port
      BY <2>2, UsedFacts
      DEF Ported, WInv, Inv, Good, Structure, Distinct, Addresses, Apart, Special,
          BootstrapPorts
    <3> QED
      BY <2>1, <3>1 DEF WInv, Inv, TypeOK, Service
  <2>7. recv'[w.port] \in Task
    BY <2>1, <2>2, <2>3, <2>5 DEF WInv, Inv, TypeOK
  <2>8. Move(Phase(v, recv), Phase(w, recv'))
    BY <2>1, <2>2, <2>5, <2>7 DEF Move, Phase
  <2> QED
    BY <2>2, <2>5, <2>6, <2>8, ReplaceStep
<1> QED
  BY <1>1, <1>2

LEMMA RegisterAllowed ==
  ASSUME WInv, WInv', NEW r, x_bootstrap_register(r) PROVE Allowed
<1> DEFINE bs == lookup_bootstrap_by_port(r.port)
           here == {v \in lookup_service_by_name(bs, r.name) : v.bootstrap = bs}
           new == [name |-> r.name, bootstrap |-> bs, port |-> Arg(r),
                   isActive |-> TRUE, servicetype |-> "REGISTERED",
                   server |-> NoServer]
           rebound(v) == [v EXCEPT !.port = Arg(r), !.isActive = TRUE]
<1>1. /\ r \in inbox
      /\ Arg(r) # PORT_NULL => Arg(r) \in Port /\ recv[Arg(r)] = r.from /\ r.from \in Task
  BY DEF x_bootstrap_register, Accept, Arg, WInv, Inv, TypeOK, Request, Good, Dealings,
         Requests
<1>2. \/ Refuse(r)
      \/ here = {} /\ services' = services \cup {new} /\ recv' = recv
      \/ /\ \E v \in here : ~v.isActive /\ Replace(v, rebound(v))
         /\ recv' = recv
  <2>1. \A v : Deallocated({v.port}) = {}
    BY NoneDeallocated DEF WInv, Inv
  <2>2. [p \in Port |-> recv[p]] = recv
    BY DEF WInv, Inv, TypeOK
  <2> QED
    BY <2>1, <2>2 DEF x_bootstrap_register, Taken
<1>3. ASSUME NEW w, w.port = Arg(r), w.isActive, recv' = recv
      PROVE  /\ Move("forgotten", Phase(w, recv'))
             /\ \A v : v.port # PORT_NULL /\ ~v.isActive =>
                         Move(Phase(v, recv), Phase(w, recv'))
  BY <1>1, <1>3 DEF Move, Phase
<1>4. CASE Refuse(r)
  BY <1>4, QuietStep DEF Refuse, lists
<1>5. CASE here = {} /\ services' = services \cup {new} /\ recv' = recv
  <2>1. bs \in BootstrapPorts
    BY LookupIsBootstrap DEF WInv, Inv
  <2>2. \A v \in services : ~SameBinding(v, new)
    BY <1>5, <2>1, OwnNameIsFound DEF SameBinding
  <2>3. new.port = Arg(r) /\ new.isActive
    OBVIOUS
  <2>4. PICK w : w = new
    OBVIOUS
  <2>5. services' = services \cup {w}
    BY <1>5, <2>4
  <2> HIDE DEF new
  <2> QED
    BY <1>3, <1>5, <2>2, <2>3, <2>4, <2>5, AddStep
<1>6. CASE /\ \E v \in here : ~v.isActive /\ Replace(v, rebound(v))
           /\ recv' = recv
  <2>1. PICK v \in here : ~v.isActive /\ Replace(v, rebound(v))
    BY <1>6
  <2>2. v \in services /\ v.port # PORT_NULL
    BY <2>1, LookupIsService, PortFacts
    DEF WInv, Inv, TypeOK, Good, Custodial, InactiveIsBacked
  <2>3. PICK w : w = rebound(v)
    OBVIOUS
  <2>4. /\ w.port = Arg(r) /\ w.isActive /\ SameBinding(v, w)
        /\ services' = (services \ {v}) \cup {w}
    BY <2>1, <2>2, <2>3 DEF SameBinding, Replace, WInv, Inv, TypeOK, Service
  <2> QED
    BY <1>3, <1>6, <2>1, <2>2, <2>4, ReplaceStep
<1> QED
  BY <1>2, <1>4, <1>5, <1>6

LEMMA CreateAllowed ==
  ASSUME WInv, WInv', NEW r, x_bootstrap_create_service(r) PROVE Allowed
<1> DEFINE bs == lookup_bootstrap_by_port(r.port)
           new(p) == [name |-> r.name, bootstrap |-> bs, port |-> p,
                      isActive |-> FALSE, servicetype |-> "DECLARED",
                      server |-> NoServer]
<1>1. CASE Refuse(r)
  BY <1>1, QuietStep DEF Refuse, lists
<1>2. CASE ~Refuse(r)
  <2>1. PICK p \in FreePorts : /\ services' = services \cup {new(p)}
                               /\ recv' = [recv EXCEPT ![p] = Broker]
    BY <1>2 DEF x_bootstrap_create_service, Lowest
  <2>2. lookup_service_by_name(bs, r.name) = {} /\ bs \in BootstrapPorts
    BY <1>2, LookupIsBootstrap DEF x_bootstrap_create_service, WInv, Inv
  <2>3. \A v \in services : ~SameBinding(v, new(p))
    BY <2>2, OwnNameIsFound DEF SameBinding
  <2>4. p # PORT_NULL /\ ~new(p).isActive /\ new(p).port = p
    BY PortFacts DEF FreePorts
  <2>5. \A v \in services : v.port # PORT_NULL => recv'[v.port] = recv[v.port]
    BY <2>1, FreshPort DEF WInv, Inv, TypeOK
  <2>6. PICK w : w = new(p)
    OBVIOUS
  <2>7. services' = services \cup {w}
    BY <2>1, <2>6
  <2> HIDE DEF new
  <2>8. Move("forgotten", Phase(w, recv'))
    BY <2>4, <2>6 DEF Move, Phase
  <2> QED
    BY <2>3, <2>5, <2>6, <2>7, <2>8, AddStep
<1> QED
  BY <1>1, <1>2

\* A lookup forgets what is lost.
LEMMA LookUpAllowed ==
  ASSUME WInv, WInv', NEW r, x_bootstrap_look_up(r) PROVE Allowed
<1>1. /\ services' \subseteq services /\ recv' = recv
      /\ \A v \in services \ services' : v.port # PORT_NULL /\ ~canSend(v.port)
  BY DEF x_bootstrap_look_up, Lost
<1>2. \A v \in services \ services' : recv[v.port] = Dead
  BY <1>1 DEF canSend, WInv, Good, Structure, Dealings, Addresses, Rights, Ported
<1>3. \A v \in services \ services' : v.isActive
  BY <1>1, <1>2, HolderFacts
  DEF WInv, Good, Structure, Custodial, Addresses, ActiveIffServed
<1>4. \A v \in services \ services' : Phase(v, recv) = "lost"
  BY <1>1, <1>2, <1>3, HolderFacts DEF Phase
<1>5. ASSUME NEW n \in DOMAIN Declared
      PROVE  \/ Custodies'[n] = Custodies[n]
             \/ Custodies[n] = "lost" /\ Custodies'[n] = "forgotten"
  <2>1. CASE Here(services', n) = Here(services, n)
    BY <1>1, <2>1, SamePhase
  <2>2. CASE Here(services', n) # Here(services, n)
    <3>1. PICK v \in Here(services, n) : v \notin services'
      BY <1>1, <2>2 DEF Here
    <3>2. Here(services', n) = {}
      BY <1>1, <3>1 DEF Here, WInv, Inv, UniqueNames, SameBinding
    <3> QED
      BY <1>4, <3>1, <3>2, PhaseNow, PhaseNext DEF Here
  <2> QED
    BY <2>1, <2>2
<1> QED
  BY <1>5, SomeForgotten

LEMMA QuietRequest ==
  ASSUME WInv, WInv', NEW r,
         x_bootstrap_status(r) \/ x_bootstrap_info(r) \/ x_bootstrap_subset(r)
  PROVE  Allowed
<1>1. CASE x_bootstrap_status(r) \/ x_bootstrap_info(r)
  BY <1>1, QuietStep DEF x_bootstrap_status, x_bootstrap_info, Refuse, lists
<1>2. CASE x_bootstrap_subset(r)
  <2>1. PICK p \in FreePorts : recv' = [recv EXCEPT ![p] = Broker]
    BY <1>2 DEF x_bootstrap_subset, Lowest
  <2> QED
    BY <1>2, <2>1, QuietAllocation DEF x_bootstrap_subset
<1> QED
  BY <1>1, <1>2

\* The rights come back: what was lost is offered again.
LEMMA BackedUpAllowed ==
  ASSUME WInv, WInv', NEW np \in Port, PortBackedUp(np) PROVE Allowed
<1> USE DEF WInv, Inv, Good, Structure, Custodial
<1>1. recv[np] = Transit /\ np # PORT_NULL
  BY PortFacts DEF PortBackedUp
<1>2. ASSUME NEW v \in services, v.port = np, Replace(v, Reinitialized(v, np)),
             recv' = [recv EXCEPT ![np] = Broker]
      PROVE  Allowed
  <2>1. v.servicetype # "SELF" /\ v.isActive
    BY <1>1, <1>2, HolderFacts DEF Addresses, BootstrapPorts, ActiveIffServed
  <2>2. PICK w : w = Reinitialized(v, np)
    OBVIOUS
  <2>3. /\ w.port = np /\ ~w.isActive /\ SameBinding(v, w)
        /\ services' = (services \ {v}) \cup {w}
    BY <1>2, <2>2 DEF Reinitialized, SameBinding, Replace, TypeOK, Service
  <2>4. \A u \in services \ {v} : u.port # PORT_NULL => recv'[u.port] = recv[u.port]
    <3>1. \A u \in services \ {v} : u.port # np
      BY <1>1, <1>2, <2>1, HolderFacts
      DEF Ported, Distinct, Addresses, BootstrapPorts
    <3> QED
      BY <1>2, <3>1 DEF TypeOK, Service
  <2>5. Move(Phase(v, recv), Phase(w, recv'))
    BY <1>1, <1>2, <2>1, <2>3, HolderFacts DEF Move, Phase
  <2> HIDE DEF WInv, Inv, Good, Structure, Custodial
  <2> QED
    BY <2>3, <2>4, <2>5, ReplaceStep
<1>3. ASSUME lookup_service_by_port(np) = {}, services' = services,
             \E h : recv' = [recv EXCEPT ![np] = h]
      PROVE  Allowed
  <2>1. \A v \in services : v.port # PORT_NULL => recv'[v.port] = recv[v.port]
    BY <1>3 DEF lookup_service_by_port, TypeOK, Service
  <2> HIDE DEF WInv, Inv, Good, Structure, Custodial
  <2> QED
    BY <1>3, <2>1, QuietStep
<1> QED
  BY <1>2, <1>3 DEF PortBackedUp, lookup_service_by_port

\* A dead port: what was lost is offered again on a new port or, if it had
\* been registered, forgotten.
LEMMA PortDiedAllowed ==
  ASSUME WInv, WInv', NEW np \in Port, PortDied(np) PROVE Allowed
<1> DEFINE left   == {v \in services : v.bootstrap \notin Closed(np)}
           failed == {v \in left : v.port = np /\ v.servicetype # "REGISTERED"}
           ended  == {p \in Given(np) : p # PORT_NULL /\ recv[p] = Broker}
<1>1. PICK new \in Allocations(failed) :
        /\ services' = {v \in left : v.port # np}
                       \cup {Reinitialized(v, new[v]) : v \in failed}
        /\ \A p \in Port : p \notin ended /\ p \notin {new[v] : v \in failed} =>
                             recv'[p] = recv[p]
  BY DEF PortDied, Closed, Given
<1>2. \A v \in failed : /\ new[v] \in FreePorts /\ new[v] # PORT_NULL
                        /\ SameBinding(v, Reinitialized(v, new[v]))
                        /\ ~Reinitialized(v, new[v]).isActive
                        /\ Reinitialized(v, new[v]).port = new[v]
  BY PortFacts
  DEF Allocations, FreePorts, Reinitialized, SameBinding, WInv, Inv, TypeOK, Service
<1>3. \A v \in services : v.port # PORT_NULL /\ v.port # np =>
                            recv'[v.port] = recv[v.port]
  <2>1. \A v \in services : v.port # PORT_NULL => v.port \notin Given(np)
    BY PortDiedFacts DEF Ported, WInv, Good, Structure, Addresses, BootstrapPorts
  <2>2. \A v \in services, u \in failed : v.port # new[u]
    BY <1>2, FreshPort
  <2>3. \A v \in services : v.port # PORT_NULL => v.port \in Port
    BY DEF WInv, Inv, TypeOK, Service
  <2> QED
    BY <1>1, <2>1, <2>2, <2>3
<1>4. ASSUME NEW n \in DOMAIN Declared, NEW v \in Here(services, n), v.port # np
      PROVE  Custodies'[n] = Custodies[n]
  <2>1. v \in services /\ v \in Here(services', n)
    BY <1>1, <1>4, PortDiedFacts DEF Here
  <2> QED
    BY <1>3, <1>4, <2>1, PhaseNow, PhaseNext DEF Phase
<1>5. ASSUME NEW n \in DOMAIN Declared, Here(services, n) \cap failed = {}
      PROVE  \A w \in Here(services', n) : w \in Here(services, n) /\ w.port # np
  BY <1>1, <1>2, <1>5 DEF Here, SameBinding
<1>6. ASSUME NEW n \in DOMAIN Declared, Here(services, n) = {}
      PROVE  Custodies'[n] = Custodies[n]
  BY <1>5, <1>6, PhaseNow, PhaseNext
<1>7. ASSUME NEW n \in DOMAIN Declared, NEW v \in Here(services, n), v.port = np
      PROVE  Move(Custodies[n], Custodies'[n])
  <2>1. /\ v \in services /\ v \in left /\ np # PORT_NULL
        /\ recv[np] = Dead /\ Here(services, n) = {v}
    BY <1>7, PortDiedFacts, PortFacts
    DEF Here, WInv, Inv, UniqueNames, SameBinding
  <2>2. Custodies[n] = "lost"
    <3>1. v.isActive
      BY <1>7, <2>1, HolderFacts
      DEF WInv, Good, Structure, Custodial, Addresses, BootstrapPorts, ActiveIffServed
    <3> QED
      BY <1>7, <2>1, <3>1, PhaseNow, HolderFacts DEF Phase
  <2>3. CASE v \in failed
    <3>1. PICK w : w = Reinitialized(v, new[v])
      OBVIOUS
    <3>2. w \in Here(services', n) /\ ~w.isActive /\ w.port # PORT_NULL
      BY <1>1, <1>2, <1>7, <2>3, <3>1 DEF Here, SameBinding
    <3>3. Custodies'[n] = "offered"
      BY <3>2, PhaseNext DEF Phase
    <3> QED
      BY <2>2, <3>3 DEF Move
  <2>4. CASE v \notin failed
    <3>1. Here(services', n) = {}
      BY <1>5, <1>7, <2>1, <2>4
    <3>2. Custodies'[n] = "forgotten"
      BY <3>1, PhaseNext
    <3> QED
      BY <2>2, <3>2 DEF Move
  <2> QED
    BY <2>3, <2>4
\* One service at most has the port.
<1>8. \A u, v \in services : u.port = np /\ v.port = np => u = v
  BY PortDiedFacts, PortFacts, HolderFacts
  DEF WInv, Good, Structure, Distinct, Ported, Addresses, BootstrapPorts
<1> HIDE DEF left, failed, ended
<1>9. CASE \E v \in services : v.port = np
  <2>1. PICK v \in services : v.port = np
    BY <1>9
  <2>2. ASSUME NEW n \in DOMAIN Declared, n # v.name
        PROVE  Custodies'[n] = Custodies[n]
    BY <1>4, <1>6, <1>8, <2>1, <2>2 DEF Here
  <2>3. v.name \in DOMAIN Declared =>
          \/ Custodies'[v.name] = Custodies[v.name]
          \/ Move(Custodies[v.name], Custodies'[v.name])
    BY <1>4, <1>6, <1>7
  <2> QED
    BY <2>2, <2>3, OneMoves
<1>10. CASE ~ \E v \in services : v.port = np
  <2>1. \A n \in DOMAIN Declared : Custodies'[n] = Custodies[n]
    BY <1>4, <1>6, <1>10 DEF Here
  <2> QED
    BY <2>1, NoneMoves
<1> QED
  BY <1>9, <1>10

------------------------------------------------------------------------------
(* The refinement. *)

LEMMA InitPromised == ASSUME Init PROVE Promise!Init
<1>1. WInv
  BY InitInv, InitGood DEF WInv
<1>2. ASSUME NEW n \in DOMAIN Declared
      PROVE  Custody(n) = "offered"
  <2>1. PICK v \in services : v.name = n /\ v.bootstrap = ROOT /\ ~v.isActive
    <3> DEFINE made(f, m) ==
          [name |-> m, bootstrap |-> ROOT, port |-> f[m], isActive |-> FALSE,
           servicetype |-> "DECLARED", server |-> Declared[m]]
    <3>1. PICK f \in [DOMAIN Declared -> Port] :
            {made(f, m) : m \in DOMAIN Declared} \subseteq services
      BY DEF Init
    <3>2. made(f, n) \in services
      BY <3>1
    <3>3. made(f, n).name = n /\ made(f, n).bootstrap = ROOT /\ ~made(f, n).isActive
      OBVIOUS
    <3> HIDE DEF made
    <3> QED
      BY <3>2, <3>3
  <2>2. v.port # PORT_NULL
    BY <1>1, <2>1, PortFacts
    DEF WInv, Inv, TypeOK, Good, Custodial, InactiveIsBacked
  <2>3. Custodies[n] = "offered"
    BY <1>1, <1>2, <2>1, <2>2, PhaseNow DEF Here, Phase
  <2> QED
    BY <1>2, <2>3 DEF Custodies
<1> QED
  BY <1>2 DEF Promise!Init

LEMMA NextPromised == ASSUME WellBehaved, WInv, [Next]_vars PROVE Allowed
<1>1. WInv'
  BY NextGood
<1>2. ASSUME NEW t \in Task,
             AllocatePort(t) \/ SendRequest(t) \/ DropPort(t) \/ TaskDies(t)
      PROVE  Allowed
  BY <1>1, <1>2, TaskStep
<1>3. ASSUME NEW r \in inbox,
             \/ x_bootstrap_check_in(r)  \/ x_bootstrap_register(r)
             \/ x_bootstrap_look_up(r)   \/ x_bootstrap_status(r)
             \/ x_bootstrap_info(r)      \/ x_bootstrap_subset(r)
             \/ x_bootstrap_create_service(r)
      PROVE  Allowed
  BY <1>1, <1>3, CheckInAllowed, RegisterAllowed, LookUpAllowed, QuietRequest,
     CreateAllowed
<1>4. ASSUME NEW s \in Servers, BootServer(s)
      PROVE  Allowed
  BY <1>1, <1>4, LaunchStep
<1>5. ASSUME NEW np \in Port, HandleNotice(np)
      PROVE  Allowed
  BY <1>1, <1>5, LaunchStep, PortDiedAllowed, BackedUpAllowed DEF HandleNotice
<1>6. ASSUME UNCHANGED vars PROVE Allowed
  BY <1>1, <1>6, QuietStep DEF vars, kernel, lists
<1> QED
  BY <1>2, <1>3, <1>4, <1>5, <1>6
     DEF Next, Environment, MachInitStep, HandleRequest

\* The safety part of KeepsPromise: among well-behaved tasks mach_init
\* implements ServiceCustody.  A configured service begins as offered, nobody
\* takes it over while it is served, it is lost only when it was served, and
\* only a lost one is forgotten.
THEOREM PromiseIsKept ==
  ASSUME WellBehaved
  PROVE  Spec => Promise!Init /\ [][Promise!Next]_Custodies
<1>1. Init => Promise!Init
  BY InitPromised
<1>2. WInv /\ [Next]_vars => [Promise!Next]_Custodies
  BY NextPromised DEF Allowed
<1> QED
  BY <1>1, <1>2, CustodyInvariance, PTL DEF Spec
==============================================================================
