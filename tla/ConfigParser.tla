---------------------------- MODULE ConfigParser ----------------------------
(***************************************************************************)
(* The parser of mach_init's configuration file (parser.c), which runs     *)
(* before anything else of the system does.  A file is a sequence of       *)
(* tokens; an action is one branch of parse_conf_file or one turn of one   *)
(* of its loops.  Its result is what Bootstrap starts from.                *)
(***************************************************************************)
EXTENDS Naturals, Sequences, FiniteSets

CONSTANTS
  String,       \* the names and commands that occur
  Files,        \* the configuration files considered
  DefaultFile   \* default_conf of bootstrap.c

Keyword == {"server", "init", "restartable", "services", "self", "forward",
            "priority"}
Sign    == {"=", ";", "num",
            "bad",      \* a token too long or a quote not closed
            "stray"}    \* a character no token begins with
Token   == String \cup Keyword \cup Sign
NoOne   == 0            \* NULL_SERVER

ASSUME FileAssumption ==
  /\ String \cap (Keyword \cup Sign \cup {"eof"}) = {}
  /\ \A f \in Files \cup {DefaultFile} : f \in Seq(Token)

VARIABLES
  conf,        \* the file bootstrap.conf, or Missing
  source,      \* "conf" or "default": where charget reads from
  pos,         \* the place of current_token in the file being read
  pc,          \* where parse_conf_file is
  owner,       \* the server, by its number, whose services are being read
  parse_ok, good_parse,
  servers,     \* the servers declared, in order
  services,    \* the services declared
  forward_ok

vars == <<conf, source, pos, pc, owner, parse_ok, good_parse, servers,
          services, forward_ok>>
flags == <<conf, source, good_parse, forward_ok>>

Missing == <<"eof">>
Input  == IF source = "conf" THEN conf ELSE DefaultFile
Tok(p) == IF p > Len(Input) THEN "eof" ELSE Input[p]

\* advance_token: a stray character is not consumed.
advance_token(p) == IF Tok(p) \in {"eof", "stray"} THEN p ELSE p + 1

Init ==
  /\ conf \in Files \cup {Missing}
  /\ source = IF conf = Missing THEN "default" ELSE "conf"
  /\ pos = 1 /\ pc = "begin" /\ owner = NoOne
  /\ parse_ok = TRUE /\ good_parse = TRUE
  /\ servers = <<>> /\ services = {} /\ forward_ok = FALSE

\* A parse function returns TRUE, or FALSE after a message, at p.
Return(ok, p) == pos' = p /\ parse_ok' = ok /\ pc' = "end"
\* The place after priority = NUM at p, and whether it is there.
parse_pri_ok(p) == /\ Tok(advance_token(p)) = "="
                   /\ Tok(advance_token(advance_token(p))) = "num"
AfterPri(p) == advance_token(advance_token(advance_token(p)))
PriFails(p) == LET q == advance_token(p)
               IN  IF Tok(q) = "=" THEN advance_token(q) ELSE q

Begin ==
  /\ pc = "begin"
  /\ IF Tok(pos) = "eof" THEN pc' = "parsed" /\ good_parse' = FALSE
     ELSE pc' = "statement" /\ UNCHANGED good_parse
  /\ UNCHANGED <<conf, source, pos, owner, parse_ok, servers, services,
                 forward_ok>>

\* The first switch, except for servers.
Statement ==
  /\ pc = "statement"
  /\ Tok(pos) \notin {"server", "init", "restartable"}
  /\ \/ /\ Tok(pos) = "eof" /\ pc' = "parsed"
        /\ UNCHANGED <<pos, owner, parse_ok, forward_ok>>
     \/ /\ Tok(pos) = "services"
        /\ pc' = "services" /\ owner' = NoOne /\ pos' = advance_token(pos)
        /\ parse_ok' = TRUE /\ UNCHANGED forward_ok
     \/ /\ Tok(pos) = "self"
        /\ LET p == advance_token(pos)
           IN  IF Tok(p) = "priority" /\ ~parse_pri_ok(p)
               THEN Return(FALSE, PriFails(p))
               ELSE /\ pos' = IF Tok(p) = "priority" THEN AfterPri(p) ELSE p
                    /\ pc' = "self" /\ parse_ok' = TRUE
        /\ UNCHANGED <<owner, forward_ok>>
     \/ /\ Tok(pos) = "forward" /\ Return(TRUE, advance_token(pos))
        /\ forward_ok' = TRUE /\ UNCHANGED owner
     \/ /\ Tok(pos) = ";" /\ Return(TRUE, advance_token(pos))
        /\ UNCHANGED <<owner, forward_ok>>
     \/ /\ Tok(pos) \notin {"eof", "services", "self", "forward", ";"}
        /\ Return(FALSE, pos) /\ UNCHANGED <<owner, forward_ok>>
  /\ UNCHANGED <<conf, source, good_parse, servers, services>>

HasInit == \E i \in DOMAIN servers : servers[i].type = "ETCINIT"

\* The server whose services follow; a bug would be to take the first.
FirstServer  == 1
LatestServer == Len(servers) + 1

parse_server ==
  /\ pc = "statement" /\ Tok(pos) \in {"server", "init", "restartable"}
  /\ LET again == Tok(pos) = "restartable"
         p     == IF again THEN advance_token(pos) ELSE pos
         q     == advance_token(p)
         r     == IF Tok(q) = "priority" THEN AfterPri(q) ELSE q
         after == advance_token(r)
         wrong == \/ Tok(p) \notin {"server", "init"}
                  \/ Tok(p) = "init" /\ (HasInit \/ again)
         nopri == Tok(q) = "priority" /\ ~parse_pri_ok(q)
     IN  \/ wrong /\ Return(FALSE, p) /\ UNCHANGED <<servers, owner>>
         \/ /\ ~wrong /\ nopri /\ Return(FALSE, PriFails(q))
            /\ UNCHANGED <<servers, owner>>
         \/ /\ ~wrong /\ ~nopri /\ Tok(r) \notin String
            /\ Return(FALSE, r) /\ UNCHANGED <<servers, owner>>
         \/ /\ ~wrong /\ ~nopri /\ Tok(r) \in String
            /\ servers' = Append(servers,
                 [cmd |-> Tok(r),
                  type |-> CASE Tok(p) = "init" -> "ETCINIT"
                             [] again -> "RESTARTABLE"
                             [] OTHER -> "SERVER"])
            /\ IF Tok(after) = "services"
               THEN /\ pos' = advance_token(after) /\ pc' = "services"
                    /\ owner' = LatestServer /\ parse_ok' = TRUE
               ELSE Return(TRUE, after) /\ UNCHANGED owner
  /\ UNCHANGED <<flags, services>>

\* One turn of the loop of parse_service or parse_self.
Name ==
  /\ pc \in {"services", "self"}
  /\ IF Tok(pos) \notin String
     THEN Return(TRUE, pos) /\ UNCHANGED services
     ELSE IF \E v \in services : v.name = Tok(pos)
          THEN Return(FALSE, pos) /\ UNCHANGED services
          ELSE /\ services' = services \cup
                    {[name |-> Tok(pos),
                      servicetype |-> IF pc = "self" THEN "SELF" ELSE "DECLARED",
                      server |-> IF pc = "self" THEN NoOne ELSE owner]}
               /\ pos' = advance_token(pos) /\ UNCHANGED <<pc, parse_ok>>
  /\ UNCHANGED <<flags, owner, servers>>

\* The second switch: a semicolon, the end, or an error.
EndOfStatement ==
  /\ pc = "end"
  /\ IF Tok(pos) \in {";", "eof"}
     THEN /\ pos' = advance_token(pos) /\ pc' = "statement"
          /\ good_parse' = (good_parse /\ parse_ok)
     ELSE pc' = "resync" /\ good_parse' = FALSE /\ UNCHANGED pos
  /\ UNCHANGED <<conf, source, owner, parse_ok, servers, services, forward_ok>>

\* Where re-synchronisation ends; a bug would be to forget the end of the file.
ResyncAtSemicolon == {";"}
ResyncAt          == {";", "eof"}

\* One turn of "Try to re-sync with input": with a stray character it repeats
\* for ever.  The semicolon it stops at is not consumed.
Resync ==
  /\ pc = "resync"
  /\ IF Tok(pos) \in ResyncAt THEN pc' = "statement" /\ UNCHANGED pos
     ELSE pos' = advance_token(pos) /\ UNCHANGED pc
  /\ UNCHANGED <<flags, owner, parse_ok, servers, services>>

\* init_lists before the second attempt; a bug would be to forget it.
Kept(list, empty)    == list
Emptied(list, empty) == empty

\* The end of init_config.
Conclude ==
  /\ pc = "parsed"
  /\ \/ good_parse /\ pc' = "done"
        /\ UNCHANGED <<source, pos, good_parse, servers, services>>
     \/ /\ ~good_parse /\ source = "conf"
        /\ source' = "default" /\ pos' = 1 /\ pc' = "begin"
        /\ good_parse' = TRUE
        /\ servers' = Emptied(servers, <<>>)
        /\ services' = Emptied(services, {})
     \/ /\ ~good_parse /\ source = "default" /\ pc' = "fatal"
        /\ UNCHANGED <<source, pos, good_parse, servers, services>>
  /\ UNCHANGED <<conf, owner, parse_ok, forward_ok>>

Next == \/ Begin \/ Statement \/ parse_server \/ Name \/ EndOfStatement
        \/ Resync \/ Conclude
Spec == Init /\ [][Next]_vars /\ WF_vars(Next)

------------------------------------------------------------------------------
(* Properties. *)

\* What a file declares, read off its tokens without parsing: the strings
\* after `services' or `self' in a statement are names, the others commands.
StatementOf(f, i) == {j \in DOMAIN f : \A k \in DOMAIN f :
                        (j <= k /\ k <= i) \/ (i <= k /\ k <= j) => f[k] # ";"}
Listed(f, i) == \E j \in StatementOf(f, i) : j < i /\ f[j] \in {"services", "self"}
Commands(f) == {i \in DOMAIN f : f[i] \in String /\ ~Listed(f, i)}
NamesIn(f)  == {i \in DOMAIN f : f[i] \in String /\ Listed(f, i)}
Number(f, i) == Cardinality({j \in Commands(f) : j <= i})
OwnerOf(f, i) ==
  LET mine == Commands(f) \cap StatementOf(f, i)
  IN  IF mine = {} THEN NoOne ELSE CHOOSE n \in 1 .. Len(f) :
                                     \E j \in mine : n = Number(f, j)

\* When parsing succeeds the lists are what the file declares: every command
\* a server, every name once and with the server of its statement.
DeclaresTheFile ==
  pc = "done" =>
    LET f == Input
    IN  /\ Len(servers) = Cardinality(Commands(f))
        /\ \A i \in Commands(f) : servers[Number(f, i)].cmd = f[i]
        /\ Cardinality(services) = Cardinality(NamesIn(f))
        /\ \A i \in NamesIn(f) : \E v \in services :
             v.name = f[i] /\ v.server = OwnerOf(f, i)

\* Bootstrap's Init gets unique names and at most one init server, which is
\* not restartable, whatever the file; mach_init always finds the default
\* configuration to its taste.
Bootable ==
  /\ pc # "fatal"
  /\ \A v, w \in services : v.name = w.name => v = w
  /\ Cardinality({i \in DOMAIN servers : servers[i].type = "ETCINIT"}) <= 1

\* The system boots with some configuration, if every character of the file
\* begins a token.
BootsIfNoStray == (\A i \in DOMAIN conf : conf[i] # "stray") => <>(pc = "done")
==============================================================================
