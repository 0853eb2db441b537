----------------------------- MODULE MCServices -----------------------------
(***************************************************************************)
(* The services that share no state with one another, for TLC: a behaviour *)
(* is one of the socket servers and their clients, of the job scheduler,   *)
(* of the sessions of a database, of the codecs or of the calculations.    *)
(* The values of the constants are those of the README's table of runs.    *)
(***************************************************************************)
EXTENDS Codecs, MCJobs, DistoCacheClient, Calculations, Cibernate

CONSTANTS c1, c2, c3, p1

VARIABLE part  \* what the behaviour is one of

vars == <<part, codecVars, serverVars, messageVars, clientVars, jobVars, calculation, dbVars>>

----------------------------------------------------------------------------
(* Sockets: two threads of a process and one of another.                   *)

MCPeer == {c3, p1}
MCMethod == (c1 :> "pushBackValue") @@ (c2 :> "size") @@ (c3 :> "getFrontValue")
MCProcessOf == (c1 :> "first") @@ (c2 :> "first") @@ (c3 :> "second")
MCMessageCalls ==
  {[kind |-> "send", to |-> "queue", valid |-> TRUE, whole |-> b] : b \in BOOLEAN}
    \cup {[kind |-> "send", to |-> "nobody", valid |-> TRUE, whole |-> TRUE],
          [kind |-> "get", to |-> "queue", valid |-> TRUE, whole |-> TRUE]}
MCMethodCalls ==
  {[kind |-> "invoke", to |-> "class", valid |-> b, whole |-> TRUE] : b \in BOOLEAN}

----------------------------------------------------------------------------
(* Calculations.                                                           *)

MCOperand == {0, 1, 5, 9, 10, 11, 12, 25, 33, 90, 99, 100, 119, 205, 999, 1000, 5011, 9999}
MCDay ==
  {d \in [year : {1900, 1999, 2000, 2012, 2100}, month : 1..12, day : {1, 28, 29, 31}] :
     ValidateDate(d.day, d.month, d.year)}
MCTime == <<"hh", ":", "mi", ":", "ss">>
MCDateSpec ==
  {<<"dd", "/", "mm", "/", "yyyy", " ">> \o MCTime, <<"ddd", " ", "dd", " ", "mmm", " ", "yyyy", " ">> \o MCTime,
   <<"yyyy", "-", "mm", "-", "dd", " ">> \o MCTime, <<"yyyy", "/", "mm", "/", "dd">>}

----------------------------------------------------------------------------
(* The database: a session within a transaction, and another that makes    *)
(* one call of any kind, on one read connection or on two.                 *)

MCColumn(column, type) == [name |-> column, column |-> column, type |-> type]
MCTable == <<
  [class |-> "User", one |-> "", many |-> FALSE,
   cols |-> <<MCColumn("age", "int"), MCColumn("name", "string"), MCColumn("score", "double")>>],
  [class |-> "Note", one |-> "User", many |-> FALSE,
   cols |-> <<MCColumn("age", "int"), MCColumn("born", "Date"), MCColumn("name", "string"),
              MCColumn("score", "double")>>],
  [class |-> "Team", one |-> "", many |-> TRUE,
   cols |-> <<MCColumn("age", "int"), MCColumn("born", "long"), MCColumn("name", "string"),
              MCColumn("score", "double"), MCColumn("wins", "long long")>>]>>
MCRowOf == ("User" :> <<30, 23, 4>>) @@ ("Note" :> <<30, 5, 24, 4>>) @@ ("Team" :> <<1, 5, 30, 4, 2>>)
MCTransaction == {<<"start">>, <<"commit">>, <<"rollback">>, <<"write">>}
MCProgram ==
  ("a" :> MCTransaction) @@
  ("b" :> MCTransaction \cup {<<"select">>, <<"empty">>}
            \cup {<<op, class>> : op \in {"insert", "read"}, class \in {"User", "Note", "Team"}}
            \cup {<<"procedure", modes>> : modes \in {<<"in">>, <<"in", "out">>, <<"out", "in">>}})
MCMaxStatements == ("a" :> 3) @@ ("b" :> 1)

----------------------------------------------------------------------------
(* The codecs: the classes and the values they are checked with, which are *)
(* every primitive type, containers of them and of containers, and objects *)
(* with members of each kind; texts with each character that means         *)
(* something to a format.                                                  *)

Member(name, type, ptr, public, methods) ==
  [name |-> name, type |-> type, ptr |-> ptr, public |-> public, methods |-> methods]
Field(name, type, ptr) == Member(name, type, ptr, TRUE, {})
Private(name, type, methods) == Member(name, type, FALSE, FALSE, methods)
Unordered(fields) == [ordered |-> FALSE, fields |-> fields]

MCClass ==
  [Bean |-> Unordered(<<Private("id", <<"int">>, {"get", "set"}),
                        Private("log", <<"vector", "int">>, {"get"}),
                        Member("next", <<"Key">>, TRUE, FALSE, {"get", "set"}),
                        Private("seen", <<"vector", "int">>, {"get"})>>),
   Point |-> Unordered(<<Field("x", <<"int">>, FALSE), Field("tags", <<"vector", "string">>, FALSE)>>),
   Key |-> [ordered |-> TRUE,
            fields |-> <<Field("name", <<"string">>, FALSE), Field("n", <<"short">>, FALSE)>>],
   Link |-> Unordered(<<Field("n", <<"int">>, FALSE), Field("next", <<"Key">>, TRUE)>>),
   Chain |-> Unordered(<<Field("all", <<"list", "int">>, TRUE), Field("ok", <<"bool">>, FALSE)>>),
   Event |-> Unordered(<<Field("at", <<"Date">>, FALSE), Field("n", <<"int">>, FALSE)>>),
   Blob |-> Unordered(<<Field("data", <<"BinaryData">>, FALSE), Field("n", <<"int">>, FALSE)>>),
   Nest |-> Unordered(<<Field("rows", <<"vector", "vector", "int">>, FALSE),
                        Field("p", <<"Point">>, FALSE)>>),
   Text |-> Unordered(<<Field("c", <<"char">>, FALSE), Field("f", <<"long double">>, FALSE),
                        Field("l", <<"long long">>, FALSE)>>)]

Primitives == J!Primitive \cup {"Date", "BinaryData"}
Containers == J!Container

\* The last is the longest text but one that AMEF gives a length of one byte.
Strings ==
  {<<>>, <<"a">>, <<" ">>, <<"a", " ">>, <<" ", "a">>, <<"a", " ", "b">>, <<"<">>, <<">">>,
   <<"/>">>, <<"</">>, <<"<", "a", ">", "/>">>, <<",">>, <<"]">>, <<"[">>, <<"{">>, <<"}">>,
   <<"\\">>, <<"\"">>, <<"a", ":", "b">>, [i \in 1..Base |-> "a"]}

One(sign) == Leaf(<<sign>>)
Ints == {Node(<<>>), Node(<<One("1")>>), Node(<<One("1"), One("2")>>)}
PointWith(s) == Node(<<One("1"), Node(<<One("a"), Leaf(s)>>)>>)
KeyWith(s) == Node(<<Leaf(s), One("2")>>)

ValuesOf(type) ==
  CASE type \in {"int", "short", "long", "long long"} ->
         {One("7"), Leaf(<<"-", "1">>), Leaf(<<"-", "2">>)}
    [] type \in {"unsigned int", "unsigned short", "unsigned long", "unsigned long long"} -> {One("7")}
    [] type \in {"float", "double", "long double"} -> {Leaf(<<"2", ".", "0">>)}
    [] type = "bool" -> {One("true"), One("false")}
    [] type \in {"char", "unsigned char", "BinaryData"} -> {One("a")}
    [] type = "Date" -> {One("day")}
    [] OTHER -> {Leaf(s) : s \in Strings}

Sample(type, value) == [type |-> type, value |-> value]

ContainerSamples ==
  UNION {{Sample(<<c, type>>, Node(<<v>>)) : v \in ValuesOf(type)} : c \in Containers, type \in Primitives}
    \cup {Sample(<<c, type>>, Node(<<>>)) : c \in Containers, type \in {"int", "string", "long long"}}
    \cup {Sample(<<c, "int">>, v) : c \in Containers, v \in Ints}
    \cup {Sample(<<c, d, "int">>, v) : c \in Containers, d \in Containers,
            v \in {Node(<<>>), Node(<<Node(<<>>)>>)} \cup {Node(<<w>>) : w \in Ints}
                    \cup {Node(<<w, Node(<<One("1"), One("7")>>)>>) : w \in Ints \ {Node(<<>>)}}}
    \cup {Sample(<<c, class>>, v) : c \in Containers, class \in {"Point", "Key"}, v \in {Node(<<>>)}}
    \cup {Sample(<<c, "Point">>, v) : c \in Containers,
            v \in {Node(<<PointWith(<<"b">>)>>), Node(<<PointWith(<<"b">>), PointWith(<<"c">>)>>)}}
    \cup {Sample(<<c, "Key">>, v) : c \in Containers,
            v \in {Node(<<KeyWith(<<"b">>)>>), Node(<<KeyWith(<<"b">>), KeyWith(<<"c">>)>>)}}

ObjectSamples ==
  {Sample(<<"Point">>, PointWith(s)) : s \in Strings} \cup {Sample(<<"Key">>, KeyWith(s)) : s \in Strings}
    \cup {Sample(<<"Bean">>, Node(<<One("1"), v, n, w>>)) :
            v, w \in {Node(<<>>), Node(<<One("2")>>)}, n \in {Null, KeyWith(<<"b">>)}}
    \cup {Sample(<<"Link">>, Node(<<One("1"), n>>)) : n \in {Null, KeyWith(<<"b">>)}}
    \cup {Sample(<<"Chain">>, Node(<<v, One("true")>>)) : v \in {Null, Node(<<>>), Node(<<One("1")>>)}}
    \cup {Sample(<<"Event">>, Node(<<One("day"), One("1")>>)),
          Sample(<<"Blob">>, Node(<<One("a"), One("1")>>)),
          Sample(<<"Text">>, Node(<<One("a"), Leaf(<<"2", ".", "0">>), One("1")>>)),
          Sample(<<"Nest">>, Node(<<Node(<<Node(<<One("1")>>), Node(<<One("1"), One("2")>>)>>),
                                    PointWith(<<"b">>)>>))}

MCSamples ==
  UNION {{Sample(<<type>>, v) : v \in ValuesOf(type)} : type \in Primitives}
    \cup ContainerSamples \cup ObjectSamples

----------------------------------------------------------------------------

Init ==
  /\ part \in {"sockets", "jobs", "database", "codecs", "calculations"}
  /\ SocketInit /\ (part # "sockets" => service = "cache")
  /\ JobInit /\ (part # "jobs" => configs = [j \in Job |-> ConfigOf(Every, Every)])
  /\ DbInit /\ (part # "database" => reads = 1)
  /\ IF part = "codecs" THEN CodecInit ELSE CodecIdle
  /\ CalculationInit

\* What a step of the sockets leaves alone, and those of a thread of the server and
\* of the program at the other end.
Rest == <<part, codecVars, jobVars, calculation, dbVars>>

ServerLoop == part = "sockets" /\ Loop /\ UNCHANGED <<Rest, messageVars, clientVars>>

ServerThread(t) ==
  /\ part = "sockets"
  /\ \/ TakeDescriptor(t) /\ UNCHANGED <<messageVars, clientVars>>
     \/ TextStep(t) /\ UNCHANGED clientVars
     \/ SessionStep(t)
  /\ UNCHANGED Rest

ClientOf(t) ==
  part = "sockets" /\ (ClientSends(t) \/ ClientReads(t)) /\ UNCHANGED <<Rest, clientVars>>

Next ==
  \/ part = "sockets" /\ SocketNext /\ UNCHANGED Rest
  \/ /\ part # "sockets" /\ UNCHANGED <<part, serverVars, messageVars, clientVars>>
     /\ \/ part = "jobs" /\ JobNext /\ UNCHANGED <<codecVars, calculation, dbVars>>
        \/ part = "database" /\ DbNext /\ UNCHANGED <<codecVars, calculation, jobVars>>
        \/ part = "codecs" /\ CodecNext /\ UNCHANGED <<dbVars, calculation, jobVars>>
        \/ part = "calculations" /\ CalculationNext /\ UNCHANGED <<codecVars, dbVars, jobVars>>

\* The loop of the server, each of its threads and each client are scheduled; nothing
\* else has to happen.
Fairness ==
  /\ WF_vars(ServerLoop)
  /\ \A t \in Peer : WF_vars(ServerThread(t)) /\ WF_vars(ClientOf(t))
  /\ \A c \in Caller : WF_vars(part = "sockets" /\ CallerStep(c) /\ UNCHANGED Rest)

Spec == Init /\ [][Next]_vars /\ Fairness
=============================================================================
