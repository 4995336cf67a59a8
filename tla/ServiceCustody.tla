--------------------------- MODULE ServiceCustody ---------------------------
(***************************************************************************)
(* What mach_init promises for the services of its configuration file,    *)
(* without ports, tasks or messages: a service is offered for check-in,    *)
(* served, or has lost its server; then it is offered again.  A service    *)
(* can also be withdrawn (PORT_NULL is registered for it) or, if a lookup   *)
(* comes upon its dead port before the notice does, forgotten.             *)
(***************************************************************************)
CONSTANT Service                \* the configured services
VARIABLE custody                \* service -> its state

States == {"offered", "served", "lost", "withdrawn", "forgotten"}

Init == custody = [n \in Service |-> "offered"]

Step(n, from, to) == custody[n] \in from /\ custody' = [custody EXCEPT ![n] = to]

\* check_in, or register with a new port
Serve(n)    == Step(n, {"offered", "forgotten"}, "served")
Withdraw(n) == Step(n, {"offered", "forgotten"}, "withdrawn")
\* several services can lose their server in one step
Lose(S)     == /\ \A n \in S : custody[n] = "served"
               /\ custody' = [n \in Service |-> IF n \in S THEN "lost"
                                                ELSE custody[n]]
\* the rights come back, or the port is made anew; create_service
Recover(n)  == Step(n, {"lost", "forgotten"}, "offered")
Forget(S)   == /\ \A n \in S : custody[n] = "lost"
               /\ custody' = [n \in Service |-> IF n \in S THEN "forgotten"
                                                ELSE custody[n]]

Next ==
  \/ \E n \in Service : Serve(n) \/ Withdraw(n) \/ Recover(n)
  \/ \E S \in SUBSET Service : Lose(S) \/ Forget(S)

\* No service stays lost.
Recovery == \A n \in Service : custody[n] = "lost" ~> custody[n] # "lost"

Spec == Init /\ [][Next]_custody /\ Recovery
=============================================================================
