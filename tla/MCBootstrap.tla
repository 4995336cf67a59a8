----------------------------- MODULE MCBootstrap -----------------------------
(* Small instances of Bootstrap for TLC.                                    *)
EXTENDS Bootstrap, TLC

CONSTANTS s1, s2, a, b

\* One restartable server that owns the service a.
OneServer   == s1 :> "RESTARTABLE"
OwnsA       == a :> s1

\* A restartable server that owns a, and one that is not restarted.
TwoServers  == s1 :> "RESTARTABLE" @@ s2 :> "SERVER"

\* A restartable server and the init server.
WithInit    == s1 :> "RESTARTABLE" @@ s2 :> "ETCINIT"

\* No server: a is a free-standing configured service.
NoServers   == [s \in {} |-> "SERVER"]
FreeA       == a :> NoServer

\* Nothing configured at all.
NoneD       == [n \in {} |-> NoServer]
==============================================================================
