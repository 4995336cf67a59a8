---------------------------- MODULE ConfigProofs -----------------------------
(* DeclaresTheFile and Bootable for every set of configuration files.         *)
EXTENDS ConfigParser, FiniteSetTheorems, TLAPS

(* default_conf of bootstrap.c: init "/sbin/init"; services NetMessage;       *)
DefaultConf == \E a, b \in String :
                 DefaultFile = <<"init", a, ";", "services", b, ";">>

Lists == {"services", "self"}

(* A statement begins at s: after a semicolon, or with the file.              *)
StartsAt(f, s) == s = 1 \/ f[s - 1] = ";"
Plain(f, s, t)    == \A k \in s..t : f[k] # ";"
NoString(f, s, t) == \A k \in s..t : f[k] \notin String \cup {";"}
NoList(f, s, t)   == \A k \in s..t : f[k] \notin String \cup Lists \cup {";"}

(* Statements run from semicolon to semicolon.                                *)
LEMMA StatementIs ==
  ASSUME NEW f \in Seq(Token), NEW i \in DOMAIN f
  PROVE  StatementOf(f, i) = {j \in DOMAIN f : Plain(f, j, i) /\ Plain(f, i, j)}
<1>1. DOMAIN f = 1..Len(f) /\ Len(f) \in Nat  OBVIOUS
<1>2. ASSUME NEW j \in DOMAIN f
      PROVE  (\A k \in DOMAIN f : (j <= k /\ k <= i) \/ (i <= k /\ k <= j) => f[k] # ";")
               <=> Plain(f, j, i) /\ Plain(f, i, j)
  <2>1. \A k : k \in j..i <=> k \in DOMAIN f /\ j <= k /\ k <= i  BY <1>1
  <2>2. \A k : k \in i..j <=> k \in DOMAIN f /\ i <= k /\ k <= j  BY <1>1
  <2> QED BY <2>1, <2>2 DEF Plain
<1> QED BY <1>2 DEF StatementOf

(* A string before which no list begins is a command.                         *)
LEMMA NotListed ==
  ASSUME NEW f \in Seq(Token), NEW s \in DOMAIN f, NEW c \in DOMAIN f, s <= c,
         StartsAt(f, s), \A k \in s..c : f[k] \notin Lists
  PROVE  ~Listed(f, c)
<1>1. DOMAIN f = 1..Len(f) /\ Len(f) \in Nat  OBVIOUS
<1> SUFFICES ASSUME NEW j \in StatementOf(f, c), j < c, f[j] \in Lists PROVE FALSE
  BY DEF Listed, Lists
<1>2. j \in DOMAIN f /\ Plain(f, j, c)  BY StatementIs
<1>3. j < s  BY <1>1, <1>2
<1>4. s # 1 /\ s - 1 \in j..c  BY <1>1, <1>2, <1>3
<1> QED BY <1>2, <1>4 DEF StartsAt, Plain

(* After `services' or `self', to the end of the statement, strings are names *)
(* of the server whose command comes before in the statement, if any.         *)
LEMMA ListedAfter ==
  ASSUME NEW f \in Seq(Token), NEW s \in DOMAIN f, NEW j \in DOMAIN f, s <= j,
         StartsAt(f, s), Plain(f, s, j), f[j] \in Lists,
         NEW k \in DOMAIN f, j < k, Plain(f, j, k)
  PROVE  /\ Listed(f, k)
         /\ \A c \in Commands(f) \cap StatementOf(f, k) : c \in s..j
<1>1. DOMAIN f = 1..Len(f) /\ Len(f) \in Nat  OBVIOUS
<1>2. Listed(f, k)
  <2>1. k..j = {}  BY <1>1
  <2>2. Plain(f, k, j)  BY <2>1 DEF Plain
  <2>3. j \in StatementOf(f, k)  BY <2>2, StatementIs
  <2> QED BY <2>3 DEF Listed, Lists
<1>3. ASSUME NEW c \in Commands(f) \cap StatementOf(f, k) PROVE c \in s..j
  <2>1. c \in DOMAIN f /\ ~Listed(f, c) /\ Plain(f, c, k) /\ Plain(f, k, c)
    BY StatementIs DEF Commands
  <2>2. c >= s
    <3> SUFFICES ASSUME c < s PROVE FALSE
      BY <1>1, <2>1
    <3>1. s # 1 /\ s - 1 \in c..k  BY <1>1, <2>1
    <3> QED BY <2>1, <3>1 DEF StartsAt, Plain
  <2>3. c <= j
    <3> SUFFICES ASSUME c > j PROVE FALSE
      BY <1>1, <2>1
    <3>1. Plain(f, j, c)
      <4> SUFFICES ASSUME NEW m \in j..c PROVE f[m] # ";"
        BY DEF Plain
      <4>1. m \in j..k \/ m \in k..c  BY <1>1, <2>1
      <4> QED BY <2>1, <4>1 DEF Plain
    <3>2. c..j = {}  BY <1>1, <2>1
    <3>4. Plain(f, c, j)  BY <3>2 DEF Plain
    <3>3. j \in StatementOf(f, c)  BY <2>1, <3>1, <3>4, StatementIs
    <3> QED BY <2>1, <3>3 DEF Listed, Lists
  <2> QED BY <1>1, <2>1, <2>2, <2>3
<1> QED BY <1>2, <1>3

LEMMA NoOwner ==
  ASSUME NEW f, NEW k, Commands(f) \cap StatementOf(f, k) = {}
  PROVE  OwnerOf(f, k) = NoOne
BY DEF OwnerOf

(* Commands are numbered in the order of the file.                            *)
Upto(f, c) == {j \in Commands(f) : j <= c}
LEMMA Numbers ==
  ASSUME NEW f \in Seq(Token), NEW c \in Commands(f)
  PROVE  /\ IsFiniteSet(Upto(f, c)) /\ Number(f, c) = Cardinality(Upto(f, c))
         /\ Number(f, c) \in 1..Len(f)
<1>1. DOMAIN f = 1..Len(f) /\ Len(f) \in Nat  OBVIOUS
<1>2. IsFiniteSet(1..Len(f)) /\ Cardinality(1..Len(f)) = Len(f)
  BY <1>1, FS_Interval
<1>3. Upto(f, c) \subseteq 1..Len(f)  BY <1>1 DEF Upto, Commands
<1>4. /\ IsFiniteSet(Upto(f, c)) /\ Cardinality(Upto(f, c)) <= Len(f)
      /\ Cardinality(Upto(f, c)) \in Nat
  BY <1>2, <1>3, FS_Subset, FS_CardinalityType
<1>5. c \in Upto(f, c)  BY <1>1 DEF Upto, Commands
<1>6. Cardinality(Upto(f, c)) # 0  BY <1>4, <1>5, FS_EmptySet
<1> QED BY <1>1, <1>4, <1>6 DEF Upto, Number

LEMMA OneOwner ==
  ASSUME NEW f \in Seq(Token), NEW k, NEW c \in Commands(f),
         Commands(f) \cap StatementOf(f, k) = {c}
  PROVE  OwnerOf(f, k) = Number(f, c)
<1>1. Number(f, c) \in 1..Len(f)  BY Numbers
<1> QED BY <1>1 DEF OwnerOf

------------------------------------------------------------------------------
(* The steps of the parser *)

Server == [cmd : String, type : {"ETCINIT", "RESTARTABLE", "SERVER"}]
Service == [name : String, servicetype : {"SELF", "DECLARED"}, server : Nat]

(* The types, what a step of the parser begins with, and what Bootstrap needs *)
(* of the lists.                                                              *)
TypesOK ==
  /\ conf \in Files \cup {Missing} /\ source \in {"conf", "default"}
  /\ source = "conf" => conf # Missing
  /\ pos \in 1..(Len(Input) + 1)
  /\ pc \in {"begin", "statement", "services", "self", "end", "resync", "parsed", "done", "fatal"}
  /\ owner \in Nat /\ parse_ok \in BOOLEAN /\ good_parse \in BOOLEAN
  /\ servers \in Seq(Server) /\ services \subseteq Service /\ IsFiniteSet(services)
StepsOK ==
  /\ pc = "begin" => pos = 1 /\ servers = <<>> /\ services = {} /\ good_parse
  /\ pc = "resync" => ~good_parse
  /\ pc \in {"parsed", "done"} => Tok(pos) = "eof"
  /\ pc = "done" => good_parse
  /\ pc = "fatal" => source = "default"
UniqueNames == \A v, w \in services : v.name = w.name => v = w
OneInit == \A i, j \in DOMAIN servers :
             servers[i].type = "ETCINIT" /\ servers[j].type = "ETCINIT" => i = j
Parsing == TypesOK /\ StepsOK /\ UniqueNames /\ OneInit

LEMMA InputOK == ASSUME TypesOK PROVE Input \in Seq(Token) /\ Len(Input) \in Nat
BY FileAssumption DEF TypesOK, Input

LEMMA Tokens ==
  ASSUME TypesOK, NEW p \in 1..(Len(Input) + 1)
  PROVE  /\ Tok(p) = "eof" <=> p = Len(Input) + 1
         /\ p # Len(Input) + 1 => p \in DOMAIN Input /\ Tok(p) = Input[p] /\ Tok(p) \in Token
         /\ p \in Nat
         /\ Tok(p) \notin {"eof", "stray"} => /\ advance_token(p) = p + 1
                                              /\ p + 1 \in 1..(Len(Input) + 1)
         /\ advance_token(p) \in 1..(Len(Input) + 1) /\ advance_token(p) >= p
<1>1. /\ Input \in Seq(Token) /\ Len(Input) \in Nat /\ p \in Nat
      /\ DOMAIN Input = 1..Len(Input)
  BY InputOK
<1>2. p # Len(Input) + 1 => p \in DOMAIN Input /\ Input[p] \in Token /\ p <= Len(Input)
  BY <1>1
<1>3. "eof" \notin Token  BY FileAssumption DEF Token, Keyword, Sign
<1>4. p = Len(Input) + 1 => p > Len(Input)  BY <1>1
<1>5. Tok(p) = "eof" <=> p = Len(Input) + 1
  BY <1>1, <1>2, <1>3, <1>4 DEF Tok
<1>6. p # Len(Input) + 1 => p \in DOMAIN Input /\ Tok(p) = Input[p] /\ Tok(p) \in Token
  BY <1>1, <1>2 DEF Tok
<1>7. Tok(p) # "eof" => p + 1 \in 1..(Len(Input) + 1)
  BY <1>1, <1>2, <1>5
<1> QED BY <1>1, <1>5, <1>6, <1>7 DEF advance_token

(* No name is a keyword or a sign.                                            *)
LEMMA Distinct ==
  ASSUME NEW x \in String
  PROVE  x \notin {"eof", "stray", ";", "=", "num", "bad", "priority", "services", "self",
                   "server", "init", "restartable", "forward"}
BY FileAssumption DEF Keyword, Sign

(* parse_pri_ok: the tokens it passes are neither names nor ends.             *)
LEMMA Priority ==
  ASSUME TypesOK, NEW p \in 1..(Len(Input) + 1), Tok(p) = "priority", parse_pri_ok(p)
  PROVE  /\ AfterPri(p) = p + 3 /\ p + 3 \in 1..(Len(Input) + 1)
         /\ \A k \in p..(p + 2) : Input[k] \notin String \cup Lists \cup {";"}
<1>1. /\ advance_token(p) = p + 1 /\ p + 1 \in 1..(Len(Input) + 1) /\ Input[p] = "priority"
      /\ p \in Nat
  BY Tokens
<1>2. Tok(p + 1) = "=" /\ Tok(advance_token(p + 1)) = "num"
  BY <1>1 DEF parse_pri_ok
<1>3. /\ advance_token(p + 1) = p + 2 /\ p + 2 \in 1..(Len(Input) + 1) /\ Input[p + 1] = "="
  <2>1. advance_token(p + 1) = (p + 1) + 1 /\ (p + 1) + 1 \in 1..(Len(Input) + 1) /\ Input[p + 1] = "="
    BY <1>1, <1>2, Tokens
  <2>2. (p + 1) + 1 = p + 2  BY <1>1
  <2> QED BY <2>1, <2>2
<1>4. Tok(p + 2) = "num"  BY <1>2, <1>3
<1>5. /\ advance_token(p + 2) = p + 3 /\ p + 3 \in 1..(Len(Input) + 1) /\ Input[p + 2] = "num"
  <2>1. advance_token(p + 2) = (p + 2) + 1 /\ (p + 2) + 1 \in 1..(Len(Input) + 1) /\ Input[p + 2] = "num"
    BY <1>3, <1>4, Tokens
  <2>2. (p + 2) + 1 = p + 3  BY <1>1
  <2> QED BY <2>1, <2>2
<1>6. AfterPri(p) = p + 3  BY <1>1, <1>3, <1>5 DEF AfterPri
<1>7. \A k \in p..(p + 2) : k = p \/ k = p + 1 \/ k = p + 2  BY <1>1
<1> QED BY <1>1, <1>3, <1>5, <1>6, <1>7, Distinct DEF Lists

LEMMA PriorityFails ==
  ASSUME TypesOK, NEW p \in 1..(Len(Input) + 1)
  PROVE  PriFails(p) \in 1..(Len(Input) + 1) /\ PriFails(p) >= p
<1> DEFINE q == advance_token(p)
<1>1. q \in 1..(Len(Input) + 1) /\ q >= p /\ p \in Nat /\ q \in Nat  BY Tokens
<1> HIDE DEF q
<1>2. advance_token(q) \in 1..(Len(Input) + 1) /\ advance_token(q) >= q /\ advance_token(q) \in Nat
  BY <1>1, Tokens
<1>3. advance_token(q) >= p  BY <1>1, <1>2
<1> QED BY <1>1, <1>2, <1>3 DEF PriFails, q

(* A statement that is wrong.                                                 *)
Wrong == /\ pc' = "end" /\ ~parse_ok' /\ pos' \in 1..(Len(Input) + 1) /\ pos' >= pos
         /\ Tok(pos) \notin {";", "eof"}
         /\ UNCHANGED <<conf, source, good_parse, servers, services, owner>>
         /\ parse_ok' \in BOOLEAN

LEMMA StatementSteps ==
  ASSUME TypesOK, Statement
  PROVE  \/ Wrong
         \/ /\ UNCHANGED <<conf, source, good_parse, servers, services>>
            /\ pos' \in 1..(Len(Input) + 1)
            /\ \/ Tok(pos) = "eof" /\ pc' = "parsed" /\ UNCHANGED <<pos, owner, parse_ok>>
               \/ /\ pos \in DOMAIN Input /\ Input[pos] = "services"
                  /\ pc' = "services" /\ owner' = NoOne /\ pos' = pos + 1 /\ parse_ok' = TRUE
               \/ /\ pos \in DOMAIN Input /\ Input[pos] = "self"
                  /\ pc' = "self" /\ UNCHANGED owner /\ parse_ok' = TRUE
                  /\ pos' \in {pos + 1, pos + 4} /\ NoString(Input, pos, pos' - 1)
               \/ /\ pos \in DOMAIN Input /\ Input[pos] \in {"forward", ";"}
                  /\ pc' = "end" /\ pos' = pos + 1 /\ parse_ok' = TRUE /\ UNCHANGED owner
<1> DEFINE n == Len(Input) + 1
<1>1. UNCHANGED <<conf, source, good_parse, servers, services>>  BY DEF Statement
<1>2. pos \in 1..n  BY DEF TypesOK
<1> HIDE DEF n
<1>3. CASE Tok(pos) = "eof" /\ pc' = "parsed" /\ UNCHANGED <<pos, owner, parse_ok, forward_ok>>
  BY <1>1, <1>2, <1>3 DEF n
<1>4. CASE /\ Tok(pos) = "services"
           /\ pc' = "services" /\ owner' = NoOne /\ pos' = advance_token(pos) /\ parse_ok' = TRUE
  BY <1>1, <1>2, <1>4, Tokens DEF n
<1>5. CASE Tok(pos) = "self"
  <2> DEFINE p == advance_token(pos)
  <2>1. /\ p = pos + 1 /\ p \in 1..n /\ pos \in DOMAIN Input /\ Input[pos] = "self" /\ pos \in Nat
        /\ pos \in 1..n
    BY <1>2, <1>5, Tokens DEF n
  <2>2. /\ IF Tok(p) = "priority" /\ ~parse_pri_ok(p)
           THEN Return(FALSE, PriFails(p))
           ELSE /\ pos' = IF Tok(p) = "priority" THEN AfterPri(p) ELSE p
                /\ pc' = "self" /\ parse_ok' = TRUE
        /\ UNCHANGED <<owner, forward_ok>>
    BY <1>5, Distinct DEF Statement
  <2> HIDE DEF p
  <2>3. CASE Tok(p) = "priority" /\ ~parse_pri_ok(p)
    <3>1. PriFails(p) \in 1..n /\ PriFails(p) >= p /\ PriFails(p) \in Nat
      BY <2>1, PriorityFails, InputOK DEF n
    <3>2. PriFails(p) >= pos  BY <2>1, <3>1
    <3>3. pos' = PriFails(p) /\ ~parse_ok' /\ parse_ok' \in BOOLEAN /\ pc' = "end" /\ UNCHANGED owner
      BY <2>2, <2>3 DEF Return
    <3> QED BY <1>1, <1>5, <3>1, <3>2, <3>3 DEF Wrong, n
  <2>4. CASE Tok(p) = "priority" /\ parse_pri_ok(p)
    <3>1. /\ pos' = p + 3 /\ p + 3 \in 1..n
          /\ \A k \in p..(p + 2) : Input[k] \notin String \cup Lists \cup {";"}
      BY <2>1, <2>2, <2>4, Priority DEF n
    <3>5. pos' = p + 3 /\ p = pos + 1 /\ pos \in Nat  BY <2>1, <3>1
    <3>4. pos' = pos + 4  BY <3>5
    <3>2. \A k \in pos..(pos' - 1) : k = pos \/ k \in p..(p + 2)
      BY <2>1, <3>4
    <3>3. NoString(Input, pos, pos' - 1)
      BY <2>1, <3>1, <3>2, Distinct DEF NoString
    <3>6. pos' \in 1..n  BY <3>1
    <3>7. pc' = "self" /\ parse_ok' = TRUE /\ UNCHANGED owner  BY <2>2, <2>4
    <3> QED BY <1>1, <2>1, <3>3, <3>4, <3>6, <3>7 DEF n
  <2>5. CASE Tok(p) # "priority"
    <3>1. pos' = pos + 1 /\ pos' - 1 = pos /\ pos..pos = {pos}
      BY <2>1, <2>2, <2>5
    <3>2. NoString(Input, pos, pos' - 1)
      BY <2>1, <3>1, Distinct DEF NoString
    <3> QED BY <1>1, <2>1, <2>2, <2>5, <3>1, <3>2 DEF n
  <2> QED BY <2>3, <2>4, <2>5
<1>6. CASE /\ Tok(pos) \in {"forward", ";"} /\ Return(TRUE, advance_token(pos))
           /\ UNCHANGED owner
  BY <1>1, <1>2, <1>6, Tokens DEF n, Return
<1>7. CASE /\ Tok(pos) \notin {"eof", "services", "self", "forward", ";"}
           /\ Return(FALSE, pos) /\ UNCHANGED <<owner, forward_ok>>
  <2>1. pos >= pos  BY <1>2
  <2> QED BY <1>1, <1>2, <1>7, <2>1 DEF n, Return, Wrong
<1> QED BY <1>3, <1>4, <1>5, <1>6, <1>7 DEF Statement

LEMMA ServerSteps ==
  ASSUME TypesOK, parse_server
  PROVE  \/ Wrong
         \/ \E r \in DOMAIN Input :
              /\ pos < r /\ Input[r] \in String
              /\ NoList(Input, pos, r - 1)
              /\ \E s \in Server : /\ s.cmd = Input[r] /\ (s.type = "ETCINIT" => ~HasInit)
                                  /\ servers' = Append(servers, s)
              /\ UNCHANGED <<conf, source, good_parse, services>>
              /\ pos' \in 1..(Len(Input) + 1) /\ parse_ok' = TRUE
              /\ \/ /\ r + 1 \in DOMAIN Input /\ Input[r + 1] = "services"
                    /\ pos' = r + 2 /\ pc' = "services" /\ owner' = Len(servers) + 1
                 \/ pos' = r + 1 /\ pc' = "end" /\ UNCHANGED owner
<1> DEFINE n     == Len(Input) + 1
           again == Tok(pos) = "restartable"
           p     == IF again THEN advance_token(pos) ELSE pos
           q     == advance_token(p)
           r     == IF Tok(q) = "priority" THEN AfterPri(q) ELSE q
           after == advance_token(r)
           wrong == \/ Tok(p) \notin {"server", "init"}
                    \/ Tok(p) = "init" /\ (HasInit \/ again)
           nopri == Tok(q) = "priority" /\ ~parse_pri_ok(q)
           rec   == [cmd |-> Tok(r),
                     type |-> CASE Tok(p) = "init" -> "ETCINIT"
                                [] again -> "RESTARTABLE"
                                [] OTHER -> "SERVER"]
<1>1. /\ UNCHANGED <<conf, source, good_parse, services>>
      /\ Tok(pos) \in {"server", "init", "restartable"}
  BY DEF parse_server, flags
<1>2. \/ wrong /\ Return(FALSE, p) /\ UNCHANGED <<servers, owner>>
      \/ ~wrong /\ nopri /\ Return(FALSE, PriFails(q)) /\ UNCHANGED <<servers, owner>>
      \/ ~wrong /\ ~nopri /\ Tok(r) \notin String /\ Return(FALSE, r) /\ UNCHANGED <<servers, owner>>
      \/ /\ ~wrong /\ ~nopri /\ Tok(r) \in String
         /\ servers' = Append(servers, rec)
         /\ IF Tok(after) = "services"
            THEN /\ pos' = advance_token(after) /\ pc' = "services"
                 /\ owner' = Len(servers) + 1 /\ parse_ok' = TRUE
            ELSE Return(TRUE, after) /\ UNCHANGED owner
  BY DEF parse_server, LatestServer
<1>3. /\ pos \in 1..n /\ pos \in Nat /\ n \in Nat /\ n = Len(Input) + 1
      /\ DOMAIN Input = 1..(n - 1) /\ Len(Input) \in Nat
  BY InputOK DEF TypesOK
<1>4. /\ p \in 1..n /\ p \in Nat /\ p \in {pos, pos + 1}
      /\ p = pos + 1 => Tok(pos) = "restartable" /\ pos \in DOMAIN Input
      /\ again <=> p = pos + 1
  BY <1>1, <1>3, Tokens
<1>5. q \in 1..n /\ q \in Nat /\ q >= p  BY <1>3, <1>4, Tokens
<1>6. PriFails(q) \in 1..n /\ PriFails(q) >= q /\ PriFails(q) \in Nat
  BY <1>3, <1>5, PriorityFails
<1>7. Tok(p) \in {"server", "init"} =>
        /\ q = p + 1 /\ \A k \in pos..(q - 1) : Input[k] \in {"restartable", "server", "init"}
  <2> SUFFICES ASSUME Tok(p) \in {"server", "init"}
               PROVE  /\ q = p + 1
                      /\ \A k \in pos..(q - 1) : Input[k] \in {"restartable", "server", "init"}
    OBVIOUS
  <2>1. q = p + 1 /\ Input[p] = Tok(p)  BY <1>4, Tokens
  <2>2. again => Input[pos] = Tok(pos) /\ Tok(pos) = "restartable"  BY <1>3, Tokens
  <2> HIDE DEF q, p, again
  <2>3. \A k \in pos..(q - 1) : k = p \/ (k = pos /\ p = pos + 1)
    BY <1>3, <1>4, <2>1
  <2> QED BY <1>4, <2>1, <2>2, <2>3
<1>8. ~nopri =>
        /\ r \in 1..n /\ r \in Nat /\ r >= q
        /\ \A k \in q..(r - 1) : Input[k] \notin String \cup Lists \cup {";"}
  <2>1. CASE Tok(q) # "priority"
    <3>1. r = q  BY <2>1
    <3> HIDE DEF r, q
    <3>2. q..(r - 1) = {}  BY <1>5, <3>1
    <3>3. q \in 1..n /\ q \in Nat /\ q >= q  BY <1>5
    <3>4. \A k \in q..(q - 1) : Input[k] \notin String \cup Lists \cup {";"}
      BY <3>1, <3>2
    <3> QED BY <3>1, <3>3, <3>4
  <2>2. CASE Tok(q) = "priority" /\ parse_pri_ok(q)
    <3>1. /\ r = q + 3 /\ q + 3 \in 1..n
          /\ \A k \in q..(q + 2) : Input[k] \notin String \cup Lists \cup {";"}
      BY <1>5, <2>2, Priority
    <3> HIDE DEF r, q
    <3>3. r = q + 3 /\ q \in Nat  BY <1>5, <3>1
    <3>2. r - 1 = q + 2 /\ r \in Nat /\ r >= q  BY <3>3
    <3> QED BY <3>1, <3>2
  <2> QED BY <2>1, <2>2
<1> HIDE DEF p, q, r, after
<1>9. CASE wrong /\ Return(FALSE, p) /\ UNCHANGED <<servers, owner>>
  <2>1. p >= pos  BY <1>3, <1>4
  <2> QED BY <1>1, <1>4, <1>9, <2>1 DEF Return, Wrong
<1>13. q >= pos /\ q \in Nat
  <2>1. q >= p /\ p >= pos /\ p \in Nat /\ q \in Nat /\ pos \in Nat  BY <1>3, <1>4, <1>5
  <2> QED BY <2>1
<1>10. CASE nopri /\ Return(FALSE, PriFails(q)) /\ UNCHANGED <<servers, owner>>
  <2>1. PriFails(q) >= pos  BY <1>3, <1>6, <1>13
  <2> QED BY <1>1, <1>6, <1>10, <2>1 DEF Return, Wrong
<1>11. CASE ~nopri /\ Return(FALSE, r) /\ UNCHANGED <<servers, owner>>
  <2>2. r >= q /\ r \in Nat  BY <1>8, <1>11
  <2>1. r >= pos  BY <1>3, <1>13, <2>2
  <2> QED BY <1>1, <1>8, <1>11, <2>1 DEF Return, Wrong
<1>12. CASE /\ ~wrong /\ ~nopri /\ Tok(r) \in String
            /\ servers' = Append(servers, rec)
            /\ IF Tok(after) = "services"
               THEN /\ pos' = advance_token(after) /\ pc' = "services"
                    /\ owner' = Len(servers) + 1 /\ parse_ok' = TRUE
               ELSE Return(TRUE, after) /\ UNCHANGED owner
  <2>1. /\ r \in DOMAIN Input /\ Input[r] = Tok(r) /\ Input[r] \in String
        /\ after = r + 1 /\ r + 1 \in 1..n /\ r \in Nat
    <3>1. r \in 1..n /\ Tok(r) \notin {"eof", "stray"}
      BY <1>8, <1>12, Distinct
    <3> QED BY <1>8, <1>12, <3>1, Tokens DEF after
  <2>2. pos < r
    <3>1. q = p + 1 /\ r >= q /\ r \in Nat /\ q \in Nat  BY <1>5, <1>7, <1>8, <1>12
    <3>2. p \in Nat /\ pos \in Nat /\ (p = pos \/ p = pos + 1)  BY <1>3, <1>4
    <3> QED BY <3>1, <3>2
  <2>3. NoList(Input, pos, r - 1)
    <3>1. SUFFICES ASSUME NEW k \in pos..(r - 1)
                   PROVE  Input[k] \notin String \cup Lists \cup {";"}
      BY DEF NoList
    <3>2. k \in pos..(q - 1) \/ k \in q..(r - 1)
      BY <1>3, <1>5, <2>1
    <3>3. CASE k \in pos..(q - 1)
      <4>1. Input[k] \in {"restartable", "server", "init"}  BY <1>7, <1>12, <3>3
      <4> QED BY <4>1, Distinct DEF Lists
    <3>4. CASE k \in q..(r - 1)
      BY <1>8, <1>12, <3>4
    <3> QED BY <3>2, <3>3, <3>4
  <2>4. rec \in Server /\ rec.cmd = Input[r] /\ (rec.type = "ETCINIT" => ~HasInit)
    BY <1>12, <2>1 DEF Server
  <2>5. CASE Tok(after) = "services"
    <3>1. /\ r + 1 \in DOMAIN Input /\ Input[r + 1] = "services"
          /\ advance_token(r + 1) = (r + 1) + 1 /\ (r + 1) + 1 \in 1..n
      BY <2>1, <2>5, Tokens
    <3>2. (r + 1) + 1 = r + 2  BY <2>1
    <3>3. pos' = r + 2 /\ pc' = "services" /\ owner' = Len(servers) + 1 /\ parse_ok' = TRUE
      BY <1>12, <2>1, <2>5, <3>1, <3>2
    <3> QED BY <1>1, <1>12, <2>1, <2>2, <2>3, <2>4, <3>1, <3>2, <3>3
  <2>6. CASE Tok(after) # "services"
    <3>3. pos' = r + 1 /\ pc' = "end" /\ UNCHANGED owner /\ parse_ok' = TRUE
      BY <1>12, <2>1, <2>6 DEF Return
    <3> QED BY <1>1, <1>12, <2>1, <2>2, <2>3, <2>4, <3>3
  <2> QED BY <2>5, <2>6
<1> QED BY <1>2, <1>9, <1>10, <1>11, <1>12

(* The loop of parse_service and parse_self.                                  *)
LEMMA NameSteps ==
  ASSUME TypesOK, Name
  PROVE  /\ UNCHANGED <<conf, source, good_parse, owner, servers>>
         /\ \/ pc' = "end" /\ parse_ok' \in BOOLEAN /\ UNCHANGED <<pos, services>>
            \/ /\ pos \in DOMAIN Input /\ Input[pos] \in String
               /\ \A v \in services : v.name # Input[pos]
               /\ \E w \in Service :
                    /\ w.name = Input[pos] /\ services' = services \cup {w}
                    /\ w.server = IF pc = "self" THEN NoOne ELSE owner
               /\ pos' = pos + 1 /\ pos + 1 \in 1..(Len(Input) + 1) /\ UNCHANGED <<pc, parse_ok>>
<1>1. UNCHANGED <<conf, source, good_parse, owner, servers>>  BY DEF Name, flags
<1>2. CASE Tok(pos) \notin String \/ \E v \in services : v.name = Tok(pos)
  BY <1>1, <1>2 DEF Name, Return
<1>3. CASE Tok(pos) \in String /\ \A v \in services : v.name # Tok(pos)
  <2> DEFINE w == [name |-> Tok(pos), servicetype |-> IF pc = "self" THEN "SELF" ELSE "DECLARED",
                   server |-> IF pc = "self" THEN NoOne ELSE owner]
  <2>1. services' = services \cup {w} /\ pos' = advance_token(pos) /\ UNCHANGED <<pc, parse_ok>>
    BY <1>3 DEF Name
  <2>2. pos \in 1..(Len(Input) + 1)  BY DEF TypesOK
  <2>3. /\ pos \in DOMAIN Input /\ Input[pos] = Tok(pos)
        /\ advance_token(pos) = pos + 1 /\ pos + 1 \in 1..(Len(Input) + 1)
    BY <1>3, <2>2, Tokens, Distinct
  <2>4. w \in Service
    BY <1>3 DEF Service, TypesOK, NoOne
  <2> QED BY <1>1, <1>3, <2>1, <2>3, <2>4
<1> QED BY <1>2, <1>3

LEMMA SameInput ==
  ASSUME UNCHANGED <<conf, source>>
  PROVE  Input' = Input /\ \A p : Tok(p)' = IF p > Len(Input) THEN "eof" ELSE Input[p]
BY DEF Input, Tok

(* The two steps that change the lists keep what Bootstrap needs of them.     *)
LEMMA AddServer ==
  ASSUME Parsing, NEW s \in Server, s.type = "ETCINIT" => ~HasInit,
         servers' = Append(servers, s)
  PROVE  servers' \in Seq(Server) /\ OneInit'
<1>1. servers \in Seq(Server) /\ Len(servers) \in Nat  BY DEF Parsing, TypesOK
<1>2. servers' \in Seq(Server)  BY <1>1
<1>3. /\ DOMAIN servers' = 1..(Len(servers) + 1) /\ DOMAIN servers = 1..Len(servers)
      /\ \A i \in 1..Len(servers) : servers'[i] = servers[i]
      /\ servers'[Len(servers) + 1] = s
  BY <1>1
<1>4. \A i \in DOMAIN servers' : i \in DOMAIN servers \/ i = Len(servers) + 1
  BY <1>1, <1>3
<1>5. OneInit'
  <2> SUFFICES ASSUME NEW i \in DOMAIN servers', NEW j \in DOMAIN servers',
                      servers'[i].type = "ETCINIT", servers'[j].type = "ETCINIT"
               PROVE  i = j
    BY DEF OneInit
  <2> QED BY <1>3, <1>4 DEF OneInit, HasInit, Parsing
<1> QED BY <1>2, <1>5

LEMMA ParsingInit == Init => Parsing
<1> SUFFICES ASSUME Init PROVE Parsing
  OBVIOUS
<1>1. /\ conf \in Files \cup {Missing} /\ source \in {"conf", "default"}
      /\ source = "conf" => conf # Missing
  BY DEF Init
<1>2. Len(Input) \in Nat
  BY <1>1, FileAssumption DEF Input
<1>3. pos \in 1..(Len(Input) + 1)  BY <1>2 DEF Init
<1>4. IsFiniteSet(services)  BY FS_EmptySet DEF Init
<1>5. TypesOK  BY <1>1, <1>3, <1>4 DEF Init, TypesOK, NoOne
<1> QED BY <1>5 DEF Init, Parsing, StepsOK, UniqueNames, OneInit

LEMMA ParsingStep == Parsing /\ [Next]_vars => Parsing'
<1> SUFFICES ASSUME Parsing, [Next]_vars PROVE Parsing'
  OBVIOUS
<1> USE DEF Parsing
<1>1. CASE Begin
  <2>1. UNCHANGED <<conf, source, pos, owner, parse_ok, servers, services>>
    BY <1>1 DEF Begin
  <2>2. Input' = Input  BY <2>1, SameInput
  <2>3. /\ pc' \in {"parsed", "statement"} /\ good_parse' \in BOOLEAN
        /\ pc' = "parsed" => Tok(pos) = "eof"
    BY <1>1 DEF Begin, TypesOK
  <2>4. Tok(pos)' = Tok(pos)  BY <2>1, <2>2 DEF Tok
  <2>5. TypesOK'  BY <2>1, <2>2, <2>3 DEF TypesOK
  <2>6. StepsOK'  BY <2>3, <2>4 DEF StepsOK
  <2> QED BY <2>1, <2>5, <2>6 DEF UniqueNames, OneInit
<1>2. CASE Statement
  <2>1. /\ UNCHANGED <<conf, source, good_parse, servers, services>>
        /\ pos' \in 1..(Len(Input) + 1)
        /\ pc' \in {"end", "services", "self", "parsed"}
        /\ pc' = "parsed" => Tok(pos) = "eof" /\ pos' = pos
    BY <1>2, StatementSteps, Zenon DEF Wrong
  <2>7. parse_ok' \in BOOLEAN /\ (owner' = owner \/ owner' = NoOne)
    BY <1>2, StatementSteps, Zenon DEF Wrong, TypesOK
  <2>8. owner' \in Nat  BY <2>7 DEF NoOne, TypesOK
  <2>2. Input' = Input  BY <2>1, SameInput
  <2>4. pc' = "parsed" => Tok(pos)' = Tok(pos)  BY <2>1, <2>2 DEF Tok
  <2>5. TypesOK'  BY <2>1, <2>2, <2>7, <2>8 DEF TypesOK
  <2>6. StepsOK'  BY <2>1, <2>4 DEF StepsOK
  <2> QED BY <2>1, <2>5, <2>6 DEF UniqueNames, OneInit
<1>3. CASE parse_server
  <2>1. /\ UNCHANGED <<conf, source, good_parse, services>>
        /\ pos' \in 1..(Len(Input) + 1)
        /\ pc' \in {"end", "services"} /\ owner' \in Nat /\ parse_ok' \in BOOLEAN
        /\ servers' \in Seq(Server) /\ OneInit'
    <3>1. CASE Wrong
      BY <3>1 DEF Wrong, TypesOK, OneInit
    <3>2. ASSUME ~Wrong, NEW s \in Server, s.type = "ETCINIT" => ~HasInit,
                 servers' = Append(servers, s)
          PROVE  /\ UNCHANGED <<conf, source, good_parse, services>>
                 /\ pos' \in 1..(Len(Input) + 1)
                 /\ pc' \in {"end", "services"} /\ owner' \in Nat /\ parse_ok' \in BOOLEAN
                 /\ servers' \in Seq(Server) /\ OneInit'
      <4>1. servers' \in Seq(Server) /\ OneInit'  BY <3>2, AddServer
      <4>2. Len(servers) + 1 \in Nat  BY DEF TypesOK
      <4>3. /\ UNCHANGED <<conf, source, good_parse, services>>
            /\ pos' \in 1..(Len(Input) + 1) /\ parse_ok' = TRUE
            /\ pc' \in {"end", "services"} /\ owner' \in {owner, Len(servers) + 1}
        BY <1>3, <3>2, ServerSteps, Zenon
      <4>4. owner' \in Nat  BY <4>2, <4>3 DEF TypesOK
      <4> QED BY <4>1, <4>3, <4>4
    <3>3. CASE ~Wrong
      <4>1. PICK r \in DOMAIN Input :
              \E s \in Server : /\ s.cmd = Input[r] /\ (s.type = "ETCINIT" => ~HasInit)
                                /\ servers' = Append(servers, s)
        BY <1>3, <3>3, ServerSteps, Zenon
      <4>2. PICK s \in Server : /\ s.cmd = Input[r] /\ (s.type = "ETCINIT" => ~HasInit)
                               /\ servers' = Append(servers, s)
        BY <4>1
      <4>3. s.type = "ETCINIT" => ~HasInit  BY <4>2
      <4>4. servers' = Append(servers, s)  BY <4>2
      <4>5. s \in Server  BY <4>2
      <4> QED BY <3>2, <3>3, <4>3, <4>4, <4>5, Zenon
    <3> QED BY <3>1, <3>3
  <2>2. Input' = Input  BY <2>1, SameInput
  <2>5. TypesOK'  BY <2>1, <2>2 DEF TypesOK
  <2>6. StepsOK'  BY <2>1 DEF StepsOK
  <2> QED BY <2>1, <2>5, <2>6 DEF UniqueNames
<1>4. CASE Name
  <2>1. /\ UNCHANGED <<conf, source, good_parse, owner, servers>>
        /\ pc' \in {"end", "services", "self"} /\ parse_ok' \in BOOLEAN
        /\ pos' \in 1..(Len(Input) + 1)
    BY <1>4, NameSteps DEF TypesOK, Name
  <2>2. Input' = Input  BY <2>1, SameInput
  <2>3. services' \subseteq Service /\ IsFiniteSet(services') /\ UniqueNames'
    <3>1. CASE UNCHANGED services
      BY <3>1 DEF TypesOK, UniqueNames
    <3>2. ASSUME NEW w \in Service, services' = services \cup {w},
                 \A v \in services : v.name # w.name
          PROVE  services' \subseteq Service /\ IsFiniteSet(services') /\ UniqueNames'
      BY <3>2, FS_AddElement DEF TypesOK, UniqueNames
    <3> QED BY <1>4, <3>1, <3>2, NameSteps
  <2>5. TypesOK'  BY <2>1, <2>2, <2>3 DEF TypesOK
  <2>6. StepsOK'  BY <2>1 DEF StepsOK
  <2> QED BY <2>1, <2>3, <2>5, <2>6 DEF OneInit
<1>5. CASE EndOfStatement
  <2>1. UNCHANGED <<conf, source, owner, parse_ok, servers, services>>
    BY <1>5 DEF EndOfStatement
  <2>2. Input' = Input  BY <2>1, SameInput
  <2>3. /\ pc' \in {"statement", "resync"} /\ good_parse' \in BOOLEAN
        /\ pc' = "resync" => ~good_parse'
        /\ pos' \in {pos, advance_token(pos)}
    BY <1>5 DEF EndOfStatement, TypesOK
  <2>4. pos' \in 1..(Len(Input) + 1)  BY <2>3, Tokens DEF TypesOK
  <2>5. TypesOK'  BY <2>1, <2>2, <2>3, <2>4 DEF TypesOK
  <2>6. StepsOK'  BY <2>3 DEF StepsOK
  <2> QED BY <2>1, <2>5, <2>6 DEF UniqueNames, OneInit
<1>6. CASE Resync
  <2>1. UNCHANGED <<conf, source, good_parse, owner, parse_ok, servers, services>>
    BY <1>6 DEF Resync, flags
  <2>2. Input' = Input  BY <2>1, SameInput
  <2>3. pc' \in {"statement", "resync"} /\ pos' \in {pos, advance_token(pos)} /\ ~good_parse
    BY <1>6 DEF Resync, StepsOK
  <2>4. pos' \in 1..(Len(Input) + 1)  BY <2>3, Tokens DEF TypesOK
  <2>5. TypesOK'  BY <2>1, <2>2, <2>3, <2>4 DEF TypesOK
  <2>6. StepsOK'  BY <2>1, <2>3 DEF StepsOK
  <2> QED BY <2>1, <2>5, <2>6 DEF UniqueNames, OneInit
<1>7. CASE Conclude
  <2>1. UNCHANGED <<conf, owner, parse_ok>>  BY <1>7 DEF Conclude
  <2>2. CASE UNCHANGED <<source, pos, good_parse, servers, services>>
    <3>1. Input' = Input  BY <2>1, <2>2, SameInput
    <3>2. /\ pc' \in {"done", "fatal"} /\ (pc' = "done" => good_parse) /\ Tok(pos) = "eof"
          /\ pc' = "fatal" => source = "default"
      <4>1. pc' \in {"done", "fatal", "begin"}  BY <1>7 DEF Conclude
      <4>2. pc' # "begin"
        <5>1. pc' = "begin" => ~good_parse /\ good_parse' = TRUE  BY <1>7 DEF Conclude
        <5> QED BY <2>2, <5>1, Zenon
      <4>3. Tok(pos) = "eof"  BY <1>7 DEF Conclude, StepsOK
      <4> QED BY <1>7, <4>1, <4>2, <4>3 DEF Conclude
    <3>3. Tok(pos)' = Tok(pos)  BY <2>2, <3>1 DEF Tok
    <3>4. TypesOK'  BY <2>1, <2>2, <3>1, <3>2 DEF TypesOK
    <3>5. StepsOK'  BY <2>2, <3>2, <3>3 DEF StepsOK
    <3> QED BY <2>2, <3>4, <3>5 DEF UniqueNames, OneInit
  <2>3. CASE /\ source' = "default" /\ pos' = 1 /\ pc' = "begin" /\ good_parse' = TRUE
             /\ servers' = <<>> /\ services' = {}
    <3>1. Input' = DefaultFile  BY <2>3 DEF Input
    <3>2. Len(DefaultFile) \in Nat  BY FileAssumption
    <3>3. pos' \in 1..(Len(Input') + 1)  BY <2>3, <3>1, <3>2
    <3>4. TypesOK'  BY <2>1, <2>3, <3>3, FS_EmptySet DEF TypesOK
    <3> QED BY <2>3, <3>4 DEF StepsOK, UniqueNames, OneInit
  <2> QED BY <1>7, <2>2, <2>3 DEF Conclude, Emptied
<1>8. CASE UNCHANGED vars
  <2>1. Input' = Input  BY <1>8, SameInput DEF vars
  <2>2. Tok(pos)' = Tok(pos)  BY <1>8, <2>1 DEF Tok, vars
  <2>3. TypesOK'  BY <1>8, <2>1 DEF TypesOK, vars
  <2>4. StepsOK'  BY <1>8, <2>2 DEF StepsOK, vars
  <2> QED BY <1>8, <2>3, <2>4 DEF UniqueNames, OneInit, vars
<1> QED BY <1>1, <1>2, <1>3, <1>4, <1>5, <1>6, <1>7, <1>8 DEF Next

LEMMA ParsingIsInvariant == Spec => []Parsing
BY ParsingInit, ParsingStep, PTL DEF Spec

------------------------------------------------------------------------------
(* mach_init boots with its default configuration *)

LEMMA Consumed ==
  ASSUME NEW p, Tok(p) \in String \cup {"init", "services", ";"}
  PROVE  advance_token(p) = p + 1
BY Distinct DEF advance_token

(* Where the parser is in the default configuration, of which it has no       *)
(* complaint: the one command and the one name meet no other.                 *)
Defaulting ==
  source = "default" =>
    /\ good_parse
    /\ \/ pc = "begin"
       \/ pc = "statement" /\ pos = 1 /\ servers = <<>> /\ services = {}
       \/ pc = "end"       /\ pos = 3 /\ services = {} /\ parse_ok
       \/ pc = "statement" /\ pos = 4 /\ services = {}
       \/ pc = "services"  /\ pos = 5 /\ services = {}
       \/ pc = "services"  /\ pos = 6
       \/ pc = "end"       /\ pos = 6 /\ parse_ok
       \/ pc = "statement" /\ pos = 7
       \/ pc \in {"parsed", "done"}

LEMMA DefaultingStep ==
  ASSUME DefaultConf, Parsing, Defaulting, [Next]_vars
  PROVE  Defaulting'
<1>1. PICK a \in String, b \in String : DefaultFile = <<"init", a, ";", "services", b, ";">>
  BY DEF DefaultConf
<1>2. CASE source' = "default" /\ source # "default"
  BY <1>2 DEF Defaulting, Next, vars, flags, Begin, Statement, parse_server, Name, EndOfStatement,
     Resync, Conclude
<1>3. CASE source = "default" /\ source' = "default"
  <2>1. /\ Tok(1) = "init" /\ Tok(2) = a /\ Tok(3) = ";" /\ Tok(4) = "services"
        /\ Tok(5) = b /\ Tok(6) = ";" /\ Tok(7) = "eof"
        /\ advance_token(1) = 2 /\ advance_token(2) = 3 /\ advance_token(3) = 4
        /\ advance_token(4) = 5 /\ advance_token(5) = 6 /\ advance_token(6) = 7
    <3>1. Input = <<"init", a, ";", "services", b, ";">>  BY <1>1, <1>3 DEF Input
    <3>2. Len(Input) = 6  BY <3>1
    <3>3. /\ Input[1] = "init" /\ Input[2] = a /\ Input[3] = ";" /\ Input[4] = "services"
          /\ Input[5] = b /\ Input[6] = ";"
      BY <3>1
    <3>4. /\ Tok(1) = Input[1] /\ Tok(2) = Input[2] /\ Tok(3) = Input[3] /\ Tok(4) = Input[4]
          /\ Tok(5) = Input[5] /\ Tok(6) = Input[6] /\ Tok(7) = "eof"
      BY <3>2 DEF Tok
    <3>5. /\ Tok(1) = "init" /\ Tok(2) = a /\ Tok(3) = ";" /\ Tok(4) = "services"
          /\ Tok(5) = b /\ Tok(6) = ";" /\ Tok(7) = "eof"
      BY <3>3, <3>4, Zenon
    <3>6. /\ advance_token(1) = 1 + 1 /\ advance_token(2) = 2 + 1 /\ advance_token(3) = 3 + 1
          /\ advance_token(4) = 4 + 1 /\ advance_token(5) = 5 + 1 /\ advance_token(6) = 6 + 1
      BY <3>5, Consumed
    <3>7. /\ advance_token(1) = 2 /\ advance_token(2) = 3 /\ advance_token(3) = 4
          /\ advance_token(4) = 5 /\ advance_token(5) = 6 /\ advance_token(6) = 7
      BY <3>6
    <3> QED BY <3>5, <3>7, Zenon
  <2>2. good_parse /\ good_parse = TRUE  BY <1>3 DEF Defaulting, Parsing, TypesOK
  <2>3. CASE pc = "begin"
    <3>1. pos = 1 /\ servers = <<>> /\ services = {}
      BY <2>3 DEF Parsing, StepsOK
    <3>2. Begin \/ UNCHANGED vars
      BY <2>3 DEF Next, Statement, parse_server, Name, EndOfStatement, Resync, Conclude
    <3> QED BY <2>1, <2>2, <2>3, <3>1, <3>2 DEF Begin, vars, Defaulting
  <2>4. CASE pc = "statement" /\ pos = 1 /\ servers = <<>> /\ services = {}
    <3>1. parse_server \/ UNCHANGED vars
      BY <2>1, <2>4 DEF Next, Begin, Statement, Name, EndOfStatement, Resync, Conclude
    <3>2. CASE parse_server
      <4>1. Tok(2) \in String /\ Tok(2) # "priority"  BY <2>1, Distinct
      <4>2. ~HasInit  BY <2>4 DEF HasInit
      <4>3. pos' = 3 /\ parse_ok' = TRUE /\ pc' = "end" /\ UNCHANGED <<flags, services>>
        BY <2>1, <2>4, <3>2, <4>1, <4>2 DEF parse_server, Return
      <4> QED BY <2>2, <2>4, <4>3 DEF Defaulting, flags
    <3> QED BY <2>2, <2>4, <3>1, <3>2 DEF vars, Defaulting
  <2>5. CASE pc = "end" /\ pos = 3 /\ services = {} /\ parse_ok
    <3>1. EndOfStatement \/ UNCHANGED vars
      BY <2>5 DEF Next, Begin, Statement, parse_server, Name, Resync, Conclude
    <3> QED BY <2>1, <2>2, <2>5, <3>1 DEF EndOfStatement, vars, Defaulting
  <2>6. CASE pc = "statement" /\ pos = 4 /\ services = {}
    <3>1. Statement \/ UNCHANGED vars
      BY <2>1, <2>6 DEF Next, Begin, parse_server, Name, EndOfStatement, Resync, Conclude
    <3> QED BY <2>1, <2>2, <2>6, <3>1 DEF Statement, vars, Defaulting
  <2>7. CASE pc = "services" /\ pos = 5 /\ services = {}
    <3>1. Name \/ UNCHANGED vars
      BY <2>7 DEF Next, Begin, Statement, parse_server, EndOfStatement, Resync, Conclude
    <3> QED BY <2>1, <2>2, <2>7, <3>1 DEF Name, flags, vars, Defaulting
  <2>8. CASE pc = "services" /\ pos = 6
    <3>1. Name \/ UNCHANGED vars
      BY <2>8 DEF Next, Begin, Statement, parse_server, EndOfStatement, Resync, Conclude
    <3>2. Tok(6) \notin String  BY <2>1, Distinct
    <3> QED BY <2>1, <2>2, <2>8, <3>1, <3>2 DEF Name, Return, flags, vars, Defaulting
  <2>9. CASE pc = "end" /\ pos = 6 /\ parse_ok
    <3>1. EndOfStatement \/ UNCHANGED vars
      BY <2>9 DEF Next, Begin, Statement, parse_server, Name, Resync, Conclude
    <3> QED BY <2>1, <2>2, <2>9, <3>1 DEF EndOfStatement, vars, Defaulting
  <2>10. CASE pc = "statement" /\ pos = 7
    <3>1. Statement \/ UNCHANGED vars
      BY <2>1, <2>10 DEF Next, Begin, parse_server, Name, EndOfStatement, Resync, Conclude
    <3> QED BY <2>1, <2>2, <2>10, <3>1 DEF Statement, vars, Defaulting
  <2>11. CASE pc \in {"parsed", "done"}
    <3>1. Conclude \/ UNCHANGED vars
      BY <2>11 DEF Next, Begin, Statement, parse_server, Name, EndOfStatement, Resync
    <3> QED BY <2>2, <2>11, <3>1 DEF Conclude, vars, Defaulting
  <2> QED BY <1>3, <2>3, <2>4, <2>5, <2>6, <2>7, <2>8, <2>9, <2>10, <2>11 DEF Defaulting
<1> QED BY <1>2, <1>3 DEF Defaulting

(* Bootstrap starts from a good list of servers and services: the one place   *)
(* where mach_init gives up, "default config_file unusable", is not reached   *)
(* with default_conf, and no file gives a name twice or two init servers.     *)
THEOREM AlwaysBootable ==
  ASSUME DefaultConf
  PROVE  Spec => []Bootable
<1>1. Init => Defaulting
  BY DEF Init, Defaulting
<1>2. Parsing /\ Defaulting /\ [Next]_vars => Defaulting'
  BY DefaultingStep
<1>3. Parsing /\ Defaulting => Bootable
  <2> SUFFICES ASSUME Parsing, Defaulting PROVE Bootable
    OBVIOUS
  <2> DEFINE inits == {i \in DOMAIN servers : servers[i].type = "ETCINIT"}
  <2>1. pc # "fatal"  BY DEF Parsing, StepsOK, Defaulting
  <2>2. \A v, w \in services : v.name = w.name => v = w
    BY DEF Parsing, UniqueNames
  <2>3. Cardinality(inits) <= 1
    <3>1. CASE inits = {}
      BY <3>1, FS_EmptySet
    <3>2. CASE \E i : i \in inits
      <4>1. PICK i : i \in inits  BY <3>2
      <4>2. inits = {i}  BY <4>1 DEF Parsing, OneInit
      <4>3. Cardinality(inits) = 1  BY <4>2, FS_Singleton
      <4> QED BY <4>3
    <3> QED BY <3>1, <3>2
  <2> QED BY <2>1, <2>2, <2>3 DEF Bootable
<1> QED BY <1>1, <1>2, <1>3, ParsingIsInvariant, PTL DEF Spec
------------------------------------------------------------------------------
(* Parsing without a complaint declares the file *)

CommandsTo(f, p) == {i \in Commands(f) : i < p}
NamesTo(f, p)    == {i \in NamesIn(f) : i < p}

(* In a list, to the end of the statement strings are names of its server.    *)
NamesOf(f, p, n) ==
  \A k \in DOMAIN f : p <= k /\ Plain(f, p, k) => Listed(f, k) /\ OwnerOf(f, k) = n

(* The file has been found good so far.                                       *)
Sound == good_parse /\ (pc = "end" => parse_ok)

LEMMA Finite ==
  ASSUME NEW f \in Seq(Token), NEW p \in Nat
  PROVE  IsFiniteSet(CommandsTo(f, p)) /\ IsFiniteSet(NamesTo(f, p))
<1>1. IsFiniteSet(DOMAIN f)
  <2>1. DOMAIN f = 1..Len(f) /\ Len(f) \in Nat  OBVIOUS
  <2> QED BY <2>1, FS_Interval
<1>2. CommandsTo(f, p) \subseteq DOMAIN f /\ NamesTo(f, p) \subseteq DOMAIN f
  BY DEF CommandsTo, NamesTo, Commands, NamesIn
<1> QED BY <1>1, <1>2, FS_Subset

(* Without a string from p to t, nothing more is declared.                    *)
LEMMA Advance ==
  ASSUME NEW f \in Seq(Token), NEW p \in Nat, NEW t \in Nat, p <= t,
         \A k \in p..(t - 1) : f[k] \notin String
  PROVE  CommandsTo(f, t) = CommandsTo(f, p) /\ NamesTo(f, t) = NamesTo(f, p)
<1>1. DOMAIN f = 1..Len(f) /\ Len(f) \in Nat  OBVIOUS
<1>2. ASSUME NEW i \in DOMAIN f, f[i] \in String PROVE i < t <=> i < p
  <2>1. i \in Nat  BY <1>1
  <2>2. i < p \/ i \in p..(t - 1) \/ i >= t  BY <2>1
  <2>3. i \notin p..(t - 1)  BY <1>2
  <2> QED BY <2>1, <2>2, <2>3
<1> QED BY <1>2 DEF CommandsTo, NamesTo, Commands, NamesIn

(* A command is numbered next.                                                *)
LEMMA NextCommand ==
  ASSUME NEW f \in Seq(Token), NEW r \in Commands(f)
  PROVE  /\ CommandsTo(f, r + 1) = CommandsTo(f, r) \cup {r}
         /\ NamesTo(f, r + 1) = NamesTo(f, r)
         /\ Number(f, r) = Cardinality(CommandsTo(f, r)) + 1
         /\ Cardinality(CommandsTo(f, r + 1)) = Cardinality(CommandsTo(f, r)) + 1
<1>1. DOMAIN f = 1..Len(f) /\ Len(f) \in Nat /\ r \in DOMAIN f /\ r \in Nat /\ ~Listed(f, r)
  BY DEF Commands
<1>2. \A i \in DOMAIN f : i < r + 1 <=> (i < r \/ i = r)  BY <1>1
<1>3. CommandsTo(f, r + 1) = CommandsTo(f, r) \cup {r}
  BY <1>1, <1>2 DEF CommandsTo, Commands
<1>4. NamesTo(f, r + 1) = NamesTo(f, r)
  BY <1>1, <1>2 DEF NamesTo, NamesIn
<1>5. Upto(f, r) = CommandsTo(f, r) \cup {r}
  <2>1. \A i \in DOMAIN f : i <= r <=> (i < r \/ i = r)  BY <1>1
  <2> QED BY <1>1, <2>1 DEF Upto, CommandsTo, Commands
<1>6. IsFiniteSet(CommandsTo(f, r)) /\ r \notin CommandsTo(f, r)
  BY <1>1, Finite DEF CommandsTo
<1>7. Cardinality(CommandsTo(f, r) \cup {r}) = Cardinality(CommandsTo(f, r)) + 1
  BY <1>6, FS_AddElement
<1>8. Number(f, r) = Cardinality(Upto(f, r))  BY Numbers
<1> QED BY <1>3, <1>4, <1>5, <1>7, <1>8

(* The commands before p have the numbers up to how many they are.            *)
LEMMA Numbered ==
  ASSUME NEW f \in Seq(Token), NEW p \in Nat, NEW i \in CommandsTo(f, p)
  PROVE  Number(f, i) \in 1..Cardinality(CommandsTo(f, p))
<1>1. DOMAIN f = 1..Len(f) /\ Len(f) \in Nat /\ i \in DOMAIN f /\ i \in Nat /\ i \in Commands(f)
      /\ i < p
  BY DEF CommandsTo, Commands
<1>2. Upto(f, i) \subseteq CommandsTo(f, p)
  <2>1. \A j \in DOMAIN f : j <= i => j < p  BY <1>1
  <2> QED BY <2>1 DEF Upto, CommandsTo, Commands
<1>3. IsFiniteSet(CommandsTo(f, p))  BY Finite
<1>4. /\ Cardinality(Upto(f, i)) <= Cardinality(CommandsTo(f, p))
      /\ Cardinality(Upto(f, i)) \in Nat /\ Cardinality(CommandsTo(f, p)) \in Nat
  BY <1>2, <1>3, FS_Subset, FS_CardinalityType
<1>5. Number(f, i) \in 1..Len(f) /\ Number(f, i) = Cardinality(Upto(f, i))
  BY <1>1, Numbers
<1> QED BY <1>1, <1>4, <1>5

(* A name is one more.                                                        *)
LEMMA NextName ==
  ASSUME NEW f \in Seq(Token), NEW r \in NamesIn(f)
  PROVE  /\ NamesTo(f, r + 1) = NamesTo(f, r) \cup {r}
         /\ CommandsTo(f, r + 1) = CommandsTo(f, r)
         /\ Cardinality(NamesTo(f, r + 1)) = Cardinality(NamesTo(f, r)) + 1
<1>1. DOMAIN f = 1..Len(f) /\ Len(f) \in Nat /\ r \in DOMAIN f /\ r \in Nat /\ Listed(f, r)
  BY DEF NamesIn
<1>2. \A i \in DOMAIN f : i < r + 1 <=> (i < r \/ i = r)  BY <1>1
<1>3. NamesTo(f, r + 1) = NamesTo(f, r) \cup {r}
  BY <1>1, <1>2 DEF NamesTo, NamesIn
<1>4. CommandsTo(f, r + 1) = CommandsTo(f, r)
  BY <1>1, <1>2 DEF CommandsTo, Commands
<1>5. IsFiniteSet(NamesTo(f, r)) /\ r \notin NamesTo(f, r)
  BY <1>1, Finite DEF NamesTo
<1> QED BY <1>3, <1>4, <1>5, FS_AddElement

(* What follows `services' or `self' at the beginning of a statement.         *)
LEMMA AfterList ==
  ASSUME NEW f \in Seq(Token), NEW s \in DOMAIN f, NEW t \in Nat, s < t,
         StartsAt(f, s), f[s] \in Lists, NoString(f, s, t - 1)
  PROVE  NamesOf(f, t, NoOne)
<1>1. DOMAIN f = 1..Len(f) /\ Len(f) \in Nat /\ s \in Nat  OBVIOUS
<1> SUFFICES ASSUME NEW k \in DOMAIN f, t <= k, Plain(f, t, k)
             PROVE  Listed(f, k) /\ OwnerOf(f, k) = NoOne
  BY DEF NamesOf
<1>2. s < k /\ k \in Nat  BY <1>1
<1>3. Plain(f, s, k)
  <2> SUFFICES ASSUME NEW m \in s..k PROVE f[m] # ";"
    BY DEF Plain
  <2>1. m \in s..(t - 1) \/ m \in t..k  BY <1>1, <1>2
  <2> QED BY <2>1 DEF Plain, NoString
<1>4. s \in s..s /\ s \in s..(t - 1) /\ \A m \in s..s : m = s  BY <1>1
<1>5. f[s] # ";" /\ f[s] \notin String  BY <1>4 DEF NoString
<1>6. Plain(f, s, s)  BY <1>4, <1>5 DEF Plain
<1>7. Listed(f, k) /\ \A c \in Commands(f) \cap StatementOf(f, k) : c \in s..s
  BY <1>1, <1>2, <1>3, <1>6, ListedAfter
<1>8. Commands(f) \cap StatementOf(f, k) = {}
  BY <1>4, <1>5, <1>7 DEF Commands
<1> QED BY <1>7, <1>8, NoOwner

(* What follows `services' after a command.                                   *)
LEMMA AfterCommand ==
  ASSUME NEW f \in Seq(Token), NEW s \in DOMAIN f, NEW r \in DOMAIN f, s < r, StartsAt(f, s),
         NoList(f, s, r - 1), f[r] \in String,
         r + 1 \in DOMAIN f, f[r + 1] = "services"
  PROVE  NamesOf(f, r + 2, Number(f, r))
<1>1. DOMAIN f = 1..Len(f) /\ Len(f) \in Nat /\ s \in Nat /\ r \in Nat  OBVIOUS
<1> SUFFICES ASSUME NEW k \in DOMAIN f, r + 2 <= k, Plain(f, r + 2, k)
             PROVE  Listed(f, k) /\ OwnerOf(f, k) = Number(f, r)
  BY DEF NamesOf
<1>2. f[r] # ";" /\ f[r] \notin Lists  BY Distinct DEF Lists
<1>3. "services" # ";" /\ f[r + 1] \notin String  BY Distinct
<1>4. s <= r + 1 /\ r + 1 < k /\ k \in Nat  BY <1>1
<1>5. \A m \in s..(r + 1) : m \in s..(r - 1) \/ m = r \/ m = r + 1  BY <1>1
<1>6. Plain(f, s, r + 1)  BY <1>2, <1>3, <1>5 DEF Plain, NoList
<1>7. ASSUME NEW a \in {r, r + 1} PROVE Plain(f, a, k)
  <2> SUFFICES ASSUME NEW m \in a..k PROVE f[m] # ";"
    BY DEF Plain
  <2>1. m \in s..(r + 1) \/ m \in (r + 2)..k  BY <1>1, <1>4
  <2> QED BY <1>6, <2>1 DEF Plain
<1>8. Listed(f, k) /\ \A c \in Commands(f) \cap StatementOf(f, k) : c \in s..(r + 1)
  BY <1>3, <1>4, <1>6, <1>7, ListedAfter DEF Lists
<1>9. r \in Commands(f)
  <2>1. \A m \in s..r : f[m] \notin Lists
    <3>1. \A m \in s..r : m \in s..(r - 1) \/ m = r  BY <1>1
    <3> QED BY <1>2, <3>1 DEF NoList
  <2> QED BY <1>1, <2>1, NotListed DEF Commands
<1>10. r \in StatementOf(f, k)
  <2>1. k..r = {}  BY <1>1, <1>4
  <2> QED BY <1>7, <2>1, StatementIs DEF Plain
<1>11. Commands(f) \cap StatementOf(f, k) = {r}
  <2>1. ASSUME NEW c \in Commands(f) \cap StatementOf(f, k) PROVE c = r
    <3>1. f[c] \in String  BY DEF Commands
    <3> QED BY <1>3, <1>5, <1>8, <3>1 DEF NoList
  <2> QED BY <1>9, <1>10, <2>1
<1> QED BY <1>8, <1>9, <1>11, OneOwner

LEMMA CommandFound ==
  ASSUME NEW f \in Seq(Token), NEW s \in DOMAIN f, NEW r \in DOMAIN f, s <= r, StartsAt(f, s),
         NoList(f, s, r - 1), f[r] \in String
  PROVE  r \in Commands(f)
<1>1. DOMAIN f = 1..Len(f) /\ Len(f) \in Nat /\ s \in Nat /\ r \in Nat  OBVIOUS
<1>2. f[r] \notin Lists  BY Distinct DEF Lists
<1>3. \A m \in s..r : m \in s..(r - 1) \/ m = r  BY <1>1
<1>4. \A m \in s..r : f[m] \notin Lists  BY <1>2, <1>3 DEF NoList
<1> QED BY <1>1, <1>4, NotListed DEF Commands

(* The lists s and v are what the file declares before p.                     *)
Declares(s, v, f, p) ==
  /\ Len(s) = Cardinality(CommandsTo(f, p))
  /\ \A i \in CommandsTo(f, p) : s[Number(f, i)].cmd = f[i]
  /\ Cardinality(v) = Cardinality(NamesTo(f, p))
  /\ \A i \in NamesTo(f, p) : \E x \in v : x.name = f[i] /\ x.server = OwnerOf(f, i)

LEMMA NothingDeclared ==
  ASSUME NEW f \in Seq(Token)
  PROVE  Declares(<<>>, {}, f, 1)
<1>1. DOMAIN f = 1..Len(f) /\ \A i \in DOMAIN f : ~(i < 1)  OBVIOUS
<1>2. CommandsTo(f, 1) = {} /\ NamesTo(f, 1) = {}
  BY <1>1 DEF CommandsTo, NamesTo, Commands, NamesIn
<1>3. Cardinality({}) = 0 /\ Len(<<>>) = 0  BY FS_EmptySet
<1> QED BY <1>2, <1>3 DEF Declares

LEMMA StillDeclares ==
  ASSUME NEW s, NEW v, NEW f \in Seq(Token), NEW p \in Nat, NEW t \in Nat, p <= t,
         \A k \in p..(t - 1) : f[k] \notin String, Declares(s, v, f, p)
  PROVE  Declares(s, v, f, t)
<1>1. CommandsTo(f, t) = CommandsTo(f, p) /\ NamesTo(f, t) = NamesTo(f, p)  BY Advance
<1> QED BY <1>1, Zenon DEF Declares

LEMMA CommandDeclared ==
  ASSUME NEW s \in Seq(Server), NEW v, NEW f \in Seq(Token), NEW r \in Commands(f),
         Declares(s, v, f, r), NEW x \in Server, x.cmd = f[r]
  PROVE  Declares(Append(s, x), v, f, r + 1) /\ Number(f, r) = Len(s) + 1
<1>1. /\ CommandsTo(f, r + 1) = CommandsTo(f, r) \cup {r}
      /\ NamesTo(f, r + 1) = NamesTo(f, r)
      /\ Number(f, r) = Cardinality(CommandsTo(f, r)) + 1
      /\ Cardinality(CommandsTo(f, r + 1)) = Cardinality(CommandsTo(f, r)) + 1
  BY NextCommand
<1>2. Len(s) = Cardinality(CommandsTo(f, r)) /\ Len(s) \in Nat  BY DEF Declares
<1>3. /\ Len(Append(s, x)) = Len(s) + 1 /\ Append(s, x)[Len(s) + 1] = x
      /\ \A n \in 1..Len(s) : Append(s, x)[n] = s[n]
  OBVIOUS
<1>4. Number(f, r) = Len(s) + 1  BY <1>1, <1>2
<1>5. Len(Append(s, x)) = Cardinality(CommandsTo(f, r + 1))  BY <1>1, <1>2, <1>3
<1>6. ASSUME NEW i \in CommandsTo(f, r + 1) PROVE Append(s, x)[Number(f, i)].cmd = f[i]
  <2>1. CASE i = r
    BY <1>3, <1>4, <2>1
  <2>2. CASE i \in CommandsTo(f, r)
    <3>1. r \in Nat
      <4>1. DOMAIN f = 1..Len(f)  OBVIOUS
      <4> QED BY <4>1 DEF Commands
    <3>2. Number(f, i) \in 1..Len(s)  BY <1>2, <2>2, <3>1, Numbered
    <3>3. s[Number(f, i)].cmd = f[i]  BY <2>2 DEF Declares
    <3> QED BY <1>3, <3>2, <3>3
  <2> QED BY <1>1, <2>1, <2>2
<1> QED BY <1>1, <1>4, <1>5, <1>6 DEF Declares

LEMMA NameDeclared ==
  ASSUME NEW s, NEW v, IsFiniteSet(v), NEW f \in Seq(Token), NEW r \in NamesIn(f),
         Declares(s, v, f, r), NEW x, x.name = f[r], x.server = OwnerOf(f, r),
         \A y \in v : y.name # f[r]
  PROVE  Declares(s, v \cup {x}, f, r + 1)
<1>1. /\ NamesTo(f, r + 1) = NamesTo(f, r) \cup {r}
      /\ CommandsTo(f, r + 1) = CommandsTo(f, r)
      /\ Cardinality(NamesTo(f, r + 1)) = Cardinality(NamesTo(f, r)) + 1
  BY NextName
<1>2. Cardinality(v \cup {x}) = Cardinality(v) + 1  BY FS_AddElement
<1> QED BY <1>1, <1>2 DEF Declares

Declaring ==
  Sound => /\ Declares(servers, services, Input, pos)
           /\ pc = "statement" => pos = Len(Input) + 1 \/ StartsAt(Input, pos)
           /\ pc = "services" => NamesOf(Input, pos, owner)
           /\ pc = "self" => NamesOf(Input, pos, NoOne)

LEMMA DeclaringStep ==
  ASSUME Parsing, Declaring, [Next]_vars
  PROVE  Declaring'
<1> SUFFICES ASSUME Sound'
             PROVE  /\ Declares(servers', services', Input', pos')
                    /\ pc' = "statement" => pos' = Len(Input') + 1 \/ StartsAt(Input', pos')
                    /\ pc' = "services" => NamesOf(Input', pos', owner')
                    /\ pc' = "self" => NamesOf(Input', pos', NoOne)
  BY DEF Declaring
<1> DEFINE f == Input
<1>1. /\ f \in Seq(Token) /\ Len(f) \in Nat /\ DOMAIN f = 1..Len(f) /\ f = Input
      /\ pos \in 1..(Len(f) + 1) /\ pos \in Nat
  BY InputOK DEF Parsing, TypesOK
<1> HIDE DEF f
<1>2. CASE Begin
  <2>1. /\ UNCHANGED <<conf, source, pos, servers, services>> /\ pc = "begin"
        /\ pc' \in {"parsed", "statement"}
        /\ pc' = "parsed" => ~good_parse'
    BY <1>2 DEF Begin
  <2>2. Input' = Input  BY <2>1, SameInput
  <2>3. pc' = "statement" /\ good_parse /\ Sound /\ pos = 1  BY <2>1 DEF Sound, Parsing, StepsOK
  <2> QED BY <2>1, <2>2, <2>3 DEF Declaring, StartsAt
<1>3. CASE Statement
  <2>1. pc = "statement" /\ UNCHANGED <<conf, source, good_parse, servers, services>>
    BY <1>3 DEF Statement
  <2>2. Input' = f /\ Sound  BY <1>1, <2>1, SameInput DEF Sound
  <2>3. Declares(servers, services, f, pos) /\ (pos \in DOMAIN f => StartsAt(f, pos))
    BY <1>1, <2>1, <2>2 DEF Declaring
  <2>4. ~Wrong  BY DEF Wrong, Sound
  <2>5. CASE pc' = "parsed" /\ UNCHANGED pos
    BY <2>1, <2>2, <2>3, <2>5
  <2>6. CASE /\ pos \in DOMAIN f /\ f[pos] = "services"
             /\ pc' = "services" /\ owner' = NoOne /\ pos' = pos + 1
    <3>1. NoString(f, pos, (pos + 1) - 1)
      <4>1. \A k \in pos..((pos + 1) - 1) : k = pos  BY <1>1
      <4> QED BY <2>6, <4>1, Distinct DEF NoString
    <3>2. NamesOf(f, pos + 1, NoOne)
      BY <1>1, <2>3, <2>6, <3>1, AfterList DEF Lists
    <3>3. Declares(servers, services, f, pos + 1)
      <4>1. \A k \in pos..((pos + 1) - 1) : f[k] \notin String  BY <3>1 DEF NoString
      <4> QED BY <1>1, <2>3, <4>1, StillDeclares
    <3> QED BY <2>1, <2>2, <2>6, <3>2, <3>3
  <2>7. CASE /\ pos \in DOMAIN f /\ f[pos] = "self" /\ pc' = "self"
             /\ pos' \in {pos + 1, pos + 4} /\ NoString(f, pos, pos' - 1)
    <3>1. PICK t \in Nat : t = pos' /\ pos < t  BY <1>1, <2>7
    <3>2. NoString(f, pos, t - 1)  BY <2>7, <3>1
    <3>3. NamesOf(f, t, NoOne)
      BY <1>1, <2>3, <2>7, <3>1, <3>2, AfterList DEF Lists
    <3>4. Declares(servers, services, f, t)
      <4>1. \A k \in pos..(t - 1) : f[k] \notin String  BY <3>2 DEF NoString
      <4>2. t \in Nat /\ pos <= t  BY <1>1, <3>1
      <4>3. Declares(servers, services, f, pos)  BY <2>3
      <4>4. f \in Seq(Token) /\ pos \in Nat  BY <1>1
      <4> QED BY <4>1, <4>2, <4>3, <4>4, StillDeclares
    <3> QED BY <2>1, <2>2, <2>7, <3>1, <3>3, <3>4
  <2>8. CASE /\ pos \in DOMAIN f /\ f[pos] \in {"forward", ";"} /\ pc' = "end" /\ pos' = pos + 1
    <3>1. \A k \in pos..((pos + 1) - 1) : f[k] \notin String
      <4>1. \A k \in pos..((pos + 1) - 1) : k = pos  BY <1>1
      <4> QED BY <2>8, <4>1, Distinct
    <3>2. Declares(servers, services, f, pos + 1)  BY <1>1, <2>3, <3>1, StillDeclares
    <3> QED BY <2>1, <2>2, <2>8, <3>2
  <2>9. \/ pc' = "parsed" /\ UNCHANGED pos
        \/ /\ pos \in DOMAIN f /\ f[pos] = "services"
           /\ pc' = "services" /\ owner' = NoOne /\ pos' = pos + 1
        \/ /\ pos \in DOMAIN f /\ f[pos] = "self" /\ pc' = "self"
           /\ pos' \in {pos + 1, pos + 4} /\ NoString(f, pos, pos' - 1)
        \/ /\ pos \in DOMAIN f /\ f[pos] \in {"forward", ";"} /\ pc' = "end" /\ pos' = pos + 1
    BY <1>1, <1>3, <2>4, StatementSteps, Zenon DEF Parsing
  <2> QED BY <2>5, <2>6, <2>7, <2>8, <2>9
<1>4. CASE parse_server
  <2>1. pc = "statement" /\ UNCHANGED <<conf, source, good_parse, services>>
    BY <1>4 DEF parse_server, flags
  <2>2. Input' = f /\ Sound  BY <1>1, <2>1, SameInput DEF Sound
  <2>3. Declares(servers, services, f, pos) /\ (pos \in DOMAIN f => StartsAt(f, pos))
    BY <1>1, <2>1, <2>2 DEF Declaring
  <2>4. ~Wrong  BY DEF Wrong, Sound
  <2>5. TypesOK /\ servers \in Seq(Server)  BY DEF Parsing, TypesOK
  <2>6. PICK r \in DOMAIN f :
          /\ pos < r /\ f[r] \in String /\ NoList(f, pos, r - 1)
          /\ \E s \in Server : s.cmd = f[r] /\ servers' = Append(servers, s)
          /\ \/ /\ r + 1 \in DOMAIN f /\ f[r + 1] = "services"
                /\ pos' = r + 2 /\ pc' = "services" /\ owner' = Len(servers) + 1
             \/ pos' = r + 1 /\ pc' = "end"
    BY <1>1, <1>4, <2>4, <2>5, ServerSteps
  <2>7. r \in Nat /\ pos \in DOMAIN f /\ StartsAt(f, pos)  BY <1>1, <2>3, <2>6
  <2>8. r \in Commands(f)  BY <1>1, <2>6, <2>7, CommandFound
  <2>9. Declares(servers, services, f, r)
    <3>1. \A k \in pos..(r - 1) : f[k] \notin String  BY <2>6 DEF NoList
    <3> QED BY <1>1, <2>3, <2>6, <2>7, <3>1, StillDeclares
  <2>10. PICK s \in Server : s.cmd = f[r] /\ servers' = Append(servers, s)  BY <2>6
  <2>11. Declares(servers', services, f, r + 1) /\ Number(f, r) = Len(servers) + 1
    BY <1>1, <2>5, <2>8, <2>9, <2>10, CommandDeclared
  <2>12. CASE /\ r + 1 \in DOMAIN f /\ f[r + 1] = "services"
              /\ pos' = r + 2 /\ pc' = "services" /\ owner' = Len(servers) + 1
    <3>1. NamesOf(f, r + 2, Number(f, r))
      BY <1>1, <2>6, <2>7, <2>12, AfterCommand
    <3>2. Declares(servers', services, f, r + 2)
      <4>1. r + 1 \in Nat /\ r + 2 \in Nat /\ r + 1 <= r + 2
            /\ \A k \in (r + 1)..((r + 2) - 1) : k = r + 1
        BY <2>7
      <4>2. \A k \in (r + 1)..((r + 2) - 1) : f[k] \notin String  BY <2>12, <4>1, Distinct
      <4> QED BY <1>1, <2>11, <4>1, <4>2, StillDeclares
    <3> QED BY <2>1, <2>2, <2>11, <2>12, <3>1, <3>2
  <2>13. CASE pos' = r + 1 /\ pc' = "end"
    BY <2>1, <2>2, <2>11, <2>13
  <2> QED BY <2>6, <2>12, <2>13
<1>5. CASE Name
  <2>1. /\ UNCHANGED <<conf, source, good_parse, owner, servers>>
        /\ pc \in {"services", "self"} /\ TypesOK /\ IsFiniteSet(services)
    BY <1>5 DEF Name, flags, Parsing, TypesOK
  <2>2. Input' = f /\ Sound  BY <1>1, <2>1, SameInput DEF Sound
  <2> DEFINE n == IF pc = "self" THEN NoOne ELSE owner
  <2>3. Declares(servers, services, f, pos) /\ NamesOf(f, pos, n)
    BY <1>1, <2>1, <2>2 DEF Declaring
  <2> HIDE DEF n
  <2>4. CASE pc' = "end" /\ UNCHANGED <<pos, services>>
    BY <2>1, <2>2, <2>3, <2>4
  <2>5. ASSUME pos \in DOMAIN f, f[pos] \in String, \A v \in services : v.name # f[pos],
               NEW w \in Service, w.name = f[pos], services' = services \cup {w}, w.server = n,
               pos' = pos + 1, UNCHANGED pc
        PROVE  /\ Declares(servers', services', f, pos')
               /\ pc' = "services" => NamesOf(f, pos', owner')
               /\ pc' = "self" => NamesOf(f, pos', NoOne)
    <3>1. f[pos] # ";"  BY <2>5, Distinct
    <3>2. Plain(f, pos, pos)
      <4>1. \A k \in pos..pos : k = pos  BY <1>1
      <4> QED BY <3>1, <4>1 DEF Plain
    <3>3. Listed(f, pos) /\ OwnerOf(f, pos) = n
      BY <1>1, <2>3, <2>5, <3>2 DEF NamesOf
    <3>4. pos \in NamesIn(f)  BY <2>5, <3>3 DEF NamesIn
    <3>5. Declares(servers, services \cup {w}, f, pos + 1)
      BY <1>1, <2>1, <2>3, <2>5, <3>3, <3>4, NameDeclared
    <3>6. NamesOf(f, pos + 1, n)
      <4> SUFFICES ASSUME NEW k \in DOMAIN f, pos + 1 <= k, Plain(f, pos + 1, k)
                   PROVE  Listed(f, k) /\ OwnerOf(f, k) = n
        BY DEF NamesOf
      <4>1. pos <= k /\ \A m \in pos..k : m = pos \/ m \in (pos + 1)..k  BY <1>1
      <4>2. Plain(f, pos, k)  BY <3>1, <4>1 DEF Plain
      <4> QED BY <2>3, <4>1, <4>2 DEF NamesOf
    <3> QED BY <2>1, <2>5, <3>5, <3>6 DEF n
  <2>6. CASE pc' # "end" \/ ~UNCHANGED <<pos, services>>
    <3>1. /\ pos \in DOMAIN f /\ f[pos] \in String
          /\ \A v \in services : v.name # f[pos]
          /\ \E w \in Service : w.name = f[pos] /\ services' = services \cup {w} /\ w.server = n
          /\ pos' = pos + 1 /\ UNCHANGED pc
      BY <1>1, <1>5, <2>1, <2>6, NameSteps DEF n
    <3> QED BY <2>1, <2>2, <2>5, <3>1
  <2> QED BY <2>4, <2>6
<1>6. CASE EndOfStatement
  <2>1. UNCHANGED <<conf, source, servers, services>> /\ pc = "end"
    BY <1>6 DEF EndOfStatement
  <2>2. good_parse'  BY DEF Sound
  <2>3. /\ Tok(pos) \in {";", "eof"} /\ pos' = advance_token(pos) /\ pc' = "statement"
        /\ good_parse /\ parse_ok
    BY <1>6, <2>2, Zenon DEF EndOfStatement
  <2>4. Input' = f /\ Declares(servers, services, f, pos)
    BY <1>1, <2>1, <2>3, SameInput DEF Sound, Declaring
  <2>5. CASE Tok(pos) = "eof"
    <3>1. pos' = pos /\ pos = Len(f) + 1
      BY <1>1, <2>3, <2>5, Tokens DEF advance_token, Parsing
    <3> QED BY <2>1, <2>3, <2>4, <3>1
  <2>6. CASE Tok(pos) = ";"
    <3>1. pos' = pos + 1 /\ f[pos] = ";"
      BY <1>1, <2>3, <2>6, Tokens DEF Parsing
    <3>2. \A k \in pos..((pos + 1) - 1) : f[k] \notin String
      <4>1. \A k \in pos..((pos + 1) - 1) : k = pos  BY <1>1
      <4> QED BY <3>1, <4>1, Distinct
    <3>3. Declares(servers, services, f, pos + 1)  BY <1>1, <2>4, <3>2, StillDeclares
    <3>4. StartsAt(f, pos + 1)
      <4>1. (pos + 1) - 1 = pos  BY <1>1
      <4> QED BY <3>1, <4>1 DEF StartsAt
    <3> QED BY <2>1, <2>3, <2>4, <3>1, <3>3, <3>4
  <2> QED BY <2>3, <2>5, <2>6
<1>7. CASE Resync
  BY <1>7 DEF Resync, Sound, Parsing, StepsOK, flags
<1>8. CASE Conclude
  <2>1. CASE /\ pc = "parsed" /\ pc' \in {"done", "fatal"}
             /\ UNCHANGED <<conf, source, pos, good_parse, servers, services>>
    <3>1. Input' = Input /\ Sound  BY <2>1, SameInput DEF Sound
    <3> QED BY <2>1, <3>1 DEF Declaring
  <2>2. CASE /\ source' = "default" /\ pos' = 1 /\ pc' = "begin"
             /\ servers' = <<>> /\ services' = {}
    <3>1. Input' = DefaultFile  BY <2>2 DEF Input
    <3>2. Declares(<<>>, {}, DefaultFile, 1)  BY FileAssumption, NothingDeclared
    <3> QED BY <2>2, <3>1, <3>2
  <2> QED BY <1>8, <2>1, <2>2 DEF Conclude, Emptied
<1>9. CASE UNCHANGED vars
  <2>1. Input' = Input /\ Sound  BY <1>9, SameInput DEF vars, Sound
  <2> QED BY <1>9, <2>1 DEF vars, Declaring
<1> QED BY <1>2, <1>3, <1>4, <1>5, <1>6, <1>7, <1>8, <1>9 DEF Next

(* What mach_init starts is what the file says, or it falls back: when no     *)
(* complaint was made, every command of the file is a server, in its order,   *)
(* and every name a service, once, of the server of its statement.            *)
THEOREM FileDeclared == Spec => []DeclaresTheFile
<1>1. Init => Declaring
  <2> SUFFICES ASSUME Init PROVE Declaring
    OBVIOUS
  <2>1. Parsing  BY ParsingInit
  <2>2. Declares(<<>>, {}, Input, 1)  BY <2>1, InputOK, NothingDeclared DEF Parsing
  <2> QED BY <2>2 DEF Init, Declaring
<1>2. Parsing /\ Declaring /\ [Next]_vars => Declaring'
  BY DeclaringStep
<1>3. Parsing /\ Declaring => DeclaresTheFile
  <2> SUFFICES ASSUME Parsing, Declaring, pc = "done" PROVE DeclaresTheFile
    BY DEF DeclaresTheFile
  <2> DEFINE f == Input
  <2>1. /\ f \in Seq(Token) /\ Len(f) \in Nat /\ DOMAIN f = 1..Len(f) /\ f = Input
        /\ pos = Len(f) + 1
    BY InputOK, Tokens DEF Parsing, StepsOK, TypesOK
  <2>2. Declares(servers, services, f, pos)
    BY DEF Declaring, Sound, Parsing, StepsOK
  <2> HIDE DEF f
  <2>3. CommandsTo(f, pos) = Commands(f) /\ NamesTo(f, pos) = NamesIn(f)
    <3>1. \A i \in DOMAIN f : i < pos  BY <2>1
    <3> QED BY <3>1 DEF CommandsTo, NamesTo, Commands, NamesIn
  <2> QED BY <2>1, <2>2, <2>3, Zenon DEF DeclaresTheFile, Declares
<1> QED BY <1>1, <1>2, <1>3, ParsingIsInvariant, PTL DEF Spec

------------------------------------------------------------------------------
(* The parser gets on *)

(* A step reads further, or comes nearer to the end of what it does at one    *)
(* token, or begins the default configuration, which it does once.            *)
Phase == [begin |-> 6, services |-> 5, self |-> 5, end |-> 4, resync |-> 3,
          parsed |-> 1, done |-> 0, fatal |-> 0]
Rank == IF pc # "statement" THEN Phase[pc]
        ELSE IF Tok(pos) \in {";", "eof"} THEN 2 ELSE 5
Advances == [][\/ source = "conf" /\ source' = "default"
               \/ source' = source /\ pos' > pos
               \/ source' = source /\ pos' = pos /\ Rank' < Rank]_vars

(* No step of the parser is undone by a later one, so that it ends on every   *)
(* file, right or wrong, unless it meets a stray character.                   *)
THEOREM ParserGetsOn == Spec => Advances
<1> DEFINE Gains == \/ source = "conf" /\ source' = "default"
                    \/ source' = source /\ pos' > pos
                    \/ source' = source /\ pos' = pos /\ Rank' < Rank
<1>1. ASSUME Parsing, [Next]_vars, vars' # vars PROVE Gains
  <2>1. /\ pos \in 1..(Len(Input) + 1) /\ pos \in Nat /\ TypesOK /\ Len(Input) \in Nat
    BY <1>1, InputOK DEF Parsing, TypesOK
  <2>2. /\ advance_token(pos) >= pos /\ advance_token(pos) \in Nat
        /\ Tok(pos) \notin {"eof", "stray"} => advance_token(pos) > pos
    BY <2>1, Tokens DEF advance_token
  <2>3. CASE Begin
    BY <2>1, <2>3 DEF Begin, Rank, Phase
  <2>4. CASE Statement
    <3>1. source' = source /\ pc = "statement"  BY <2>4 DEF Statement
    <3>2. CASE Wrong
      <4>3. pos' \in 1..(Len(Input) + 1) /\ pos' >= pos  BY <3>2 DEF Wrong
      <4>1. pos' \in Nat /\ pos' >= pos  BY <2>1, <4>3
      <4>2. Rank = 5 /\ Rank' = 4  BY <3>1, <3>2 DEF Wrong, Rank, Phase
      <4> QED BY <2>1, <3>1, <4>1, <4>2
    <3>3. CASE pos' \in {pos + 1, pos + 4}
      BY <2>1, <3>1, <3>3
    <3>4. CASE Tok(pos) = "eof" /\ pc' = "parsed" /\ UNCHANGED pos
      BY <3>1, <3>4 DEF Rank, Phase
    <3> QED BY <2>1, <2>4, <3>2, <3>3, <3>4, StatementSteps, Zenon
  <2>5. CASE parse_server
    <3>1. source' = source /\ pc = "statement"  BY <2>5 DEF parse_server, flags
    <3>2. CASE Wrong
      <4>3. pos' \in 1..(Len(Input) + 1) /\ pos' >= pos  BY <3>2 DEF Wrong
      <4>1. pos' \in Nat /\ pos' >= pos  BY <2>1, <4>3
      <4>2. Rank = 5 /\ Rank' = 4  BY <3>1, <3>2 DEF Wrong, Rank, Phase
      <4> QED BY <2>1, <3>1, <4>1, <4>2
    <3>3. CASE ~Wrong
      <4>1. PICK r \in DOMAIN Input : pos < r /\ (pos' = r + 1 \/ pos' = r + 2)
        BY <2>1, <2>5, <3>3, ServerSteps, Zenon
      <4>2. r \in Nat  BY <2>1, <4>1, InputOK
      <4> QED BY <2>1, <3>1, <4>1, <4>2
    <3> QED BY <3>2, <3>3
  <2>6. CASE Name
    <3>1. source' = source /\ pc \in {"services", "self"}  BY <2>6 DEF Name, flags
    <3>2. CASE pc' = "end" /\ UNCHANGED pos
      <4>1. Rank = 5
        <5>1. CASE pc = "services"  BY <5>1 DEF Rank, Phase
        <5>2. CASE pc = "self"      BY <5>2 DEF Rank, Phase
        <5> QED BY <3>1, <5>1, <5>2
      <4>2. Rank' = 4  BY <3>2 DEF Rank, Phase
      <4> QED BY <3>1, <3>2, <4>1, <4>2
    <3>3. CASE pos' = pos + 1
      BY <2>1, <3>1, <3>3
    <3> QED BY <2>1, <2>6, <3>2, <3>3, NameSteps, Zenon
  <2>7. CASE EndOfStatement
    <3>1. source' = source /\ conf' = conf /\ pc = "end" /\ Rank = 4
      BY <2>7 DEF EndOfStatement, Rank, Phase
    <3>2. CASE Tok(pos) = ";"
      BY <2>1, <2>2, <2>7, <3>1, <3>2 DEF EndOfStatement
    <3>3. CASE Tok(pos) = "eof"
      <4>1. pos' = pos /\ pc' = "statement"  BY <2>7, <3>3 DEF EndOfStatement, advance_token
      <4>2. Tok(pos)' = "eof"  BY <3>1, <3>3, <4>1, SameInput DEF Tok
      <4> QED BY <3>1, <4>1, <4>2 DEF Rank
    <3>4. CASE pos' = pos /\ pc' = "resync"
      BY <3>1, <3>4 DEF Rank, Phase
    <3> QED BY <2>7, <3>2, <3>3, <3>4 DEF EndOfStatement
  <2>8. CASE Resync
    <3>1. source' = source /\ conf' = conf /\ pc = "resync" /\ Rank = 3
      BY <2>8 DEF Resync, flags, Rank, Phase
    <3>2. CASE Tok(pos) \in {";", "eof"}
      <4>1. pos' = pos /\ pc' = "statement"  BY <2>8, <3>2 DEF Resync, ResyncAt
      <4>2. Tok(pos)' \in {";", "eof"}  BY <3>1, <3>2, <4>1, SameInput DEF Tok
      <4>3. Rank' = 2  BY <4>1, <4>2 DEF Rank
      <4> QED BY <3>1, <4>1, <4>3
    <3>3. CASE Tok(pos) = "stray"
      <4>1. UNCHANGED vars
        BY <2>8, <3>3 DEF Resync, ResyncAt, advance_token, flags, vars
      <4> QED BY <1>1, <4>1
    <3>4. CASE Tok(pos) \notin {";", "eof", "stray"}
      <4>1. pos' = advance_token(pos)  BY <2>8, <3>4 DEF Resync, ResyncAt
      <4> QED BY <2>1, <2>2, <3>1, <3>4, <4>1
    <3> QED BY <3>2, <3>3, <3>4
  <2>9. CASE Conclude
    <3>1. CASE pc' \in {"done", "fatal"} /\ UNCHANGED <<source, pos>> /\ pc = "parsed"
      BY <3>1 DEF Rank, Phase
    <3>2. CASE source = "conf" /\ source' = "default"
      BY <3>2
    <3> QED BY <2>9, <3>1, <3>2 DEF Conclude
  <2> QED BY <1>1, <2>3, <2>4, <2>5, <2>6, <2>7, <2>8, <2>9 DEF Next
<1>2. Parsing /\ [Next]_vars => [Gains]_vars
  BY <1>1
<1> QED BY <1>2, ParsingIsInvariant, PTL DEF Spec, Advances
==============================================================================
