--------------------------- MODULE MCConfigParser ---------------------------
(* Configuration files for TLC: all the short ones, and those made of up to *)
(* three statements, right and wrong.                                       *)
EXTENDS ConfigParser

MCString == {"a", "b", "c"}
MCDefault == <<"init", "a", ";", "services", "b", ";">>

Statements ==
  {<<>>, <<"forward">>, <<"self", "a">>, <<"self", "priority", "=", "num", "b">>,
   <<"services", "a", "b">>, <<"services", "c">>, <<"services", "b", "=", "num">>,
   <<"server", "a">>, <<"server", "c", "services", "b">>,
   <<"restartable", "server", "a", "services", "a">>,
   <<"server", "priority", "=", "num", "b", "services", "c">>,
   <<"server", "priority", "num">>, <<"init", "c">>,
   <<"init", "b", "services", "a">>, <<"restartable", "init", "c">>,
   <<"a">>, <<"bad">>, <<"stray">>}

Short == UNION {[1 .. n -> Token] : n \in 0 .. 2}
Long  == {s \o <<";">> \o t \o <<";">> \o u : s, t, u \in Statements}
MCFiles == Short \cup Long
==============================================================================
