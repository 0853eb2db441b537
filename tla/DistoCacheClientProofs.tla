----------------------- MODULE DistoCacheClientProofs -----------------------
(***************************************************************************)
(* ToldIsStored and AnswersMatch, for any number of connections, threads,  *)
(* callers, pooled connections and descriptors.                            *)
(***************************************************************************)
EXTENDS DistoCacheClient, FiniteSetTheorems, SequenceTheorems, WellFoundedInduction, TLAPS

TypeInv ==
  /\ service \in {"messages", "methods", "cache"}
  /\ table \in [0 .. MaxFd -> Peer \cup {Listener, NoPeer}]
  /\ backlog \in Seq(Peer)
  /\ DOMAIN conn = Peer /\ \A p \in Peer : DOMAIN conn[p] = {"in", "out", "client"}
  /\ DOMAIN thread = Peer /\ \A t \in Peer : DOMAIN thread[t] = {"pc", "fd", "hold", "got"}
  /\ DOMAIN call = Peer /\ \A p \in Peer : DOMAIN call[p] = {"text", "pc", "told"}
  /\ files \in [Destination -> Seq(Peer)]
  /\ DOMAIN caller = Caller
  /\ \A c \in Caller : DOMAIN caller[c] = {"pc", "conn", "got", "result"}
  /\ DOMAIN lock = Process \X (Pool \cup Caller)

----------------------------------------------------------------------------
(* The phases of the threads and of the clients.                           *)

TextPcs == {"recv", "got", "answer", "close"}
SessionPcs == {"length", "query", "body", "asked", "closing", "closing again"}
InUse == {"send", "head", "body", "unlock"}

\* What belongs to one service does not happen in another.
PhaseInv ==
  /\ \A t \in Peer : thread[t].pc \in TextPcs => service # "cache"
  /\ \A t \in Peer : thread[t].pc \in SessionPcs => service = "cache"
  /\ \A t \in Peer : thread[t].pc \in {"recv", "length", "body"} => thread[t].hold \in Peer
  /\ service # "cache" =>
       watched = {} /\ \A c \in Caller : caller[c].pc = "idle" /\ caller[c].result = "none"
  /\ service = "cache" => \A p \in Peer : call[p].pc = "new" /\ call[p].told = "nothing"
  /\ service # "messages" => files = [d \in Destination |-> <<>>]

\* Whoever is past its first step has connected.
ConnectedInv ==
  /\ \A p \in Peer : call[p].pc # "new" => conn[p].client # "new"
  /\ \A c \in Caller \cap OwnsConnection : caller[c].pc # "idle" => conn[c].client # "new"
  /\ service = "cache" => \A p \in Pool : conn[p].client # "new"

----------------------------------------------------------------------------
(* The server, until a thread works on the descriptor of another.          *)

\* A connection waits, has one descriptor, or neither; the loop starts one thread for
\* it, after which it no longer watches the descriptor.
DescriptorInv ==
  ~crossed =>
  /\ table[0] = Listener
  /\ \A f, g \in 0 .. MaxFd : table[f] \in Peer /\ table[f] = table[g] => f = g
  /\ \A i, j \in DOMAIN backlog : backlog[i] = backlog[j] => i = j
  /\ \A i \in DOMAIN backlog :
       /\ conn[backlog[i]].client # "new" /\ thread[backlog[i]].pc = "none"
       /\ \A f \in 0 .. MaxFd : table[f] # backlog[i]
  /\ \A f \in 0 .. MaxFd : table[f] \in Peer => conn[table[f]].client # "new"
  /\ \A f \in watched : f \in 0 .. MaxFd /\ table[f] \in Peer /\ thread[table[f]].pc = "none"
  /\ \A p \in Peer : conn[p].client = "new" =>
       thread[p].pc = "none" /\ conn[p].in = <<>> /\ conn[p].out = <<>>

\* A thread that has taken its descriptor works on its own connection.
Working == {"taken", "length", "query", "body", "asked", "recv", "got", "answer"}
OwnInv ==
  ~crossed => \A t \in Peer :
    /\ thread[t].pc \in Working =>
         thread[t].fd \in 0 .. MaxFd /\ table[thread[t].fd] = t
    /\ thread[t].pc \in {"length", "body", "recv"} => thread[t].hold = t

ServerInv == DescriptorInv /\ OwnInv

----------------------------------------------------------------------------
(* The messages.                                                           *)

Holds(t, p) == thread[t].pc = "got" /\ thread[t].got[2] = p
InFile(p) == \E d \in Destination : \E i \in DOMAIN files[d] : files[d][i] = p
WasSent(p) == call[p].pc \notin {"new", "connected"}

\* A text that is read whole is on its connection, with one thread, or in a file.
TextInv(p) ==
  /\ WasSent(p) \/ (conn[p].in = <<>> /\ ~InFile(p))
  /\ call[p].pc # "new" => call[p].text \in MessageCalls
  /\ conn[p].in = <<>> \/ conn[p].in = <<call[p].text>>
  /\ InFile(p) => call[p].text.whole
GotInv(t) ==
  thread[t].pc \in {"got", "answer"} =>
    LET q == thread[t].got[2] IN
      q \in Peer /\ thread[t].got[1] = call[q].text /\ WasSent(q) /\ call[q].text.kind = "send"
PlaceInv(p) ==
  WasSent(p) /\ call[p].text.whole =>
    /\ conn[p].in # <<>> \/ InFile(p) => \A t \in Peer : ~Holds(t, p)
    /\ InFile(p) => conn[p].in = <<>>
    /\ \A t, u \in Peer : Holds(t, p) /\ Holds(u, p) => t = u
OnceInv ==
  service = "messages" => \A p \in Peer : TextInv(p) /\ GotInv(p) /\ PlaceInv(p)

NoneTwice ==
  \A d \in Destination : \A i, j \in DOMAIN files[d] : files[d][i] = files[d][j] => i = j

\* What the answer says of a text.
Promised(p) ==
  /\ call[p].text.kind = "send"
  /\ call[p].text.valid /\ call[p].text.whole /\ call[p].text.to \in Destination =>
       \E i \in DOMAIN files[call[p].text.to] : files[call[p].text.to][i] = p

PromiseInv ==
  service = "messages" /\ ~crossed => \A p \in Peer :
    /\ call[p].pc = "new" => call[p].told = "nothing"
    /\ thread[p].pc \in {"got", "answer"} => thread[p].got[2] = p
    /\ thread[p].pc = "answer" \/ conn[p].out # <<>> \/ call[p].told = "Received Message----"
         => Promised(p)

MessageInv == OnceInv /\ NoneTwice /\ PromiseInv

----------------------------------------------------------------------------
(* The cache.                                                              *)

\* Whoever uses a connection has its lock.
LockInv ==
  \A c \in Caller : caller[c].pc # "idle" =>
    /\ On(c) \in Peer
    /\ IF c \in OwnsConnection THEN On(c) = c ELSE On(c) \in Pool
    /\ caller[c].pc \in InUse => lock[LockOf(c)] = c

\* The connections a caller may still use.
Serving(p) ==
  \/ p \in Pool /\ \E c \in Caller \ OwnsConnection : caller[c].pc # "done"
  \/ p \in OwnsConnection /\ caller[p].pc \notin {"idle", "done"}

Using(c, p) == On(c) = p /\ caller[c].pc \in {"head", "body"}

HeadOf(c) == [part |-> "head", of |-> c, is |-> CommandOf[Method[c]]]
BodyOf(c) == [part |-> "body", of |-> c, is |-> CommandOf[Method[c]]]

\* The thread of a connection waits for a query, or works on the one of c.
AtRest(p) ==
  conn[p].in = <<>> /\ thread[p].pc \in {"none", "new", "taken", "length"}
Asked(p, c) ==
  \/ conn[p].in = <<HeadOf(c), BodyOf(c)>> /\ thread[p].pc \in {"none", "new", "taken", "length"}
  \/ conn[p].in = <<BodyOf(c)>> /\ thread[p].pc \in {"query", "body"}
  \/ conn[p].in = <<>> /\ thread[p].pc = "asked" /\ thread[p].got = BodyOf(c)

\* What is on a connection is the query or the answer of the caller that uses it.
InPhase(c, p) ==
  IF caller[c].pc = "head"
  THEN \/ conn[p].out = <<>> /\ (dead \/ Asked(p, c))
       \/ conn[p].out = <<HeadOf(c), BodyOf(c)>> /\ (dead \/ AtRest(p))
  ELSE caller[c].got = c /\ conn[p].out = <<BodyOf(c)>> /\ (dead \/ AtRest(p))
Quiet(p) == conn[p].out = <<>> /\ (dead \/ AtRest(p))
Stream(p) ==
  /\ \A c \in Caller : Using(c, p) => InPhase(c, p)
  /\ (\A c \in Caller : ~Using(c, p)) => Quiet(p)

Present(p) ==
  (\E i \in DOMAIN backlog : backlog[i] = p) \/ (\E f \in 0 .. MaxFd : table[f] = p)

Good(p) == conn[p].client = "open" /\ (dead \/ Present(p)) /\ Stream(p)

StreamInv ==
  service = "cache" /\ ~crossed => \A p \in Peer \ cut : Serving(p) => Good(p)

ResultInv ==
  \A c \in Caller : caller[c].result \in {"other", "garbage"} =>
    caller[c].pc # "idle" /\ (crossed \/ On(c) \in cut)

SocketInv ==
  TypeInv /\ PhaseInv /\ ConnectedInv /\ LockInv /\ ServerInv /\ MessageInv
CacheInv == StreamInv /\ ResultInv

LEMMA FunctionIsSeq ==
  ASSUME NEW S, NEW n \in Nat, NEW f \in [1 .. n -> S]
  PROVE  f \in Seq(S)
  BY SeqDef

LEMMA InitType == SocketInit => TypeInv
<1> SUFFICES ASSUME SocketInit PROVE TypeInv
  OBVIOUS
<1>1. PICK waiting :
        /\ waiting \in IF service = "cache" THEN Bijection(1 .. Cardinality(Pool), Pool) ELSE {<<>>}
        /\ ServerInit(waiting)
  BY DEF SocketInit
<1>2. waiting \in Seq(Peer)
  <2>1. CASE service = "cache"
    <3>1. waiting \in [1 .. Cardinality(Pool) -> Pool] /\ Cardinality(Pool) \in Nat /\ Pool \subseteq Peer
      BY <1>1, <2>1, ClientAssumption, FS_CardinalityType DEF Bijection, Injection
    <3>2. waiting \in [1 .. Cardinality(Pool) -> Peer]
      BY <3>1
    <3>3. \A n \in Nat : \A f \in [1 .. n -> Peer] : f \in Seq(Peer)
      BY FunctionIsSeq
    <3>4. PICK n \in Nat : n = Cardinality(Pool)
      BY <3>1
    <3>. QED BY <3>2, <3>3, <3>4
  <2>2. CASE service # "cache"
    <3>1. waiting = <<>>
      BY <1>1, <2>2 DEF Bijection
    <3>. QED BY <3>1
  <2>. QED BY <2>1, <2>2
<1>3. /\ table \in [0 .. MaxFd -> Peer \cup {Listener, NoPeer}] /\ backlog \in Seq(Peer)
      /\ DOMAIN conn = Peer /\ \A p \in Peer : DOMAIN conn[p] = {"in", "out", "client"}
  BY <1>1, <1>2 DEF ServerInit, Unused
<1>4. DOMAIN thread = Peer /\ \A t \in Peer : DOMAIN thread[t] = {"pc", "fd", "hold", "got"}
  BY <1>1 DEF ServerInit, NoThread
<1>5. /\ DOMAIN call = Peer /\ \A p \in Peer : DOMAIN call[p] = {"text", "pc", "told"}
      /\ files \in [Destination -> Seq(Peer)]
  BY DEF SocketInit, MessageInit, NoCall
<1>6. /\ DOMAIN caller = Caller
      /\ \A c \in Caller : DOMAIN caller[c] = {"pc", "conn", "got", "result"}
      /\ DOMAIN lock = Process \X (Pool \cup Caller)
  BY DEF SocketInit, ClientInit
<1>. QED BY <1>3, <1>4, <1>5, <1>6 DEF TypeInv, SocketInit

LEMMA LowestFree == TypeInv /\ Free # {} => Lowest(Free) \in Free
<1> SUFFICES ASSUME TypeInv, Free # {} PROVE Lowest(Free) \in Free
  OBVIOUS
<1>1. Free \subseteq Nat
  BY ServerAssumption DEF Free, TypeInv
<1>2. \E x \in Free : \A y \in Free : x <= y
  <2>1. PICK x \in Free : \A y \in Free : ~(<<y, x>> \in OpToRel(<, Nat))
    BY <1>1, NatLessThanWellFounded, WFMin
  <2>2. \A y \in Free : x <= y
    <3>1. SUFFICES ASSUME NEW y \in Free PROVE x <= y
      OBVIOUS
    <3>2. x \in Nat /\ y \in Nat /\ <<y, x>> \in Nat \X Nat
      BY <1>1
    <3>3. ~(y < x)
      BY <2>1, <3>2 DEF OpToRel
    <3>. QED BY <3>2, <3>3
  <2>. QED BY <2>2
<1>. QED BY <1>2 DEF Lowest

----------------------------------------------------------------------------
(* What each step changes, field by field.                                 *)

OthersT(t) == \A u \in Peer : u # t => thread'[u] = thread[u]
OthersC(p) == \A q \in Peer : q # p => conn'[q] = conn[q]
OthersP(p) == \A q \in Peer : q # p => call'[q] = call[q]
OthersU(c) == \A d \in Caller : d # c => caller'[d] = caller[d]

\* Of a thread.
GoesOn(t, pc) ==
  /\ OthersT(t) /\ thread'[t].pc = pc
  /\ thread'[t].fd = thread[t].fd /\ thread'[t].hold = thread[t].hold /\ thread'[t].got = thread[t].got
Enters(t, pc) ==
  /\ table[thread[t].fd] \in Peer /\ thread[t].fd \in 0 .. MaxFd
  /\ OthersT(t) /\ thread'[t].pc = pc
  /\ thread'[t].fd = thread[t].fd /\ thread'[t].hold = table[thread[t].fd] /\ thread'[t].got = thread[t].got
Leaves(t, pc, got) ==
  /\ OthersT(t) /\ thread'[t].pc = pc
  /\ thread'[t].fd = thread[t].fd /\ thread'[t].got = got

\* The connection p after the step.
Conn(p, in, out, client) ==
  OthersC(p) /\ conn'[p].in = in /\ conn'[p].out = out /\ conn'[p].client = client

LoopVars == <<service, dead, crossed, conn, messageVars, clientVars>>

\* The next connection gets the descriptor f.
Accepts(f, p) ==
  /\ backlog # <<>> /\ p = Head(backlog) /\ backlog' = Tail(backlog)
  /\ table[f] = NoPeer /\ \A g \in 0 .. MaxFd : table'[g] = IF g = f THEN p ELSE table[g]

Accepting ==
  /\ service # "cache" /\ UNCHANGED LoopVars /\ UNCHANGED watched
  /\ \/ UNCHANGED <<table, backlog, thread>>
     \/ \E f \in 0 .. MaxFd, p \in Peer : Accepts(f, p) /\ GoesOn(p, "new")

LEMMA AcceptEffect ==
  ASSUME TypeInv, Accept, UNCHANGED <<messageVars, clientVars>>
  PROVE  Accepting
<1> USE DEF Accepting
<1>1. service # "cache" /\ UNCHANGED LoopVars /\ UNCHANGED watched
  BY DEF Accept, LoopVars
<1>2. CASE Free = {}
  BY <1>1, <1>2 DEF Accept
<1>3. CASE Free # {}
  <2>1. PICK f : f = Lowest(Free)
    OBVIOUS
  <2>2. PICK p : p = Head(backlog)
    OBVIOUS
  <2>3. f \in 0 .. MaxFd /\ table[f] = NoPeer
    BY <1>3, <2>1, LowestFree DEF Free, TypeInv
  <2>4. p \in Peer /\ backlog # <<>>
    BY <2>2 DEF Accept, TypeInv
  <2>5. /\ table' = [table EXCEPT ![f] = p] /\ backlog' = Tail(backlog)
        /\ thread' = [thread EXCEPT ![p].pc = "new"]
    BY <1>3, <2>1, <2>2 DEF Accept
  <2>6. GoesOn(p, "new")
    BY <2>4, <2>5 DEF GoesOn, OthersT, TypeInv
  <2>7. Accepts(f, p)
    BY <2>2, <2>3, <2>4, <2>5 DEF Accepts, TypeInv
  <2>. QED BY <1>1, <2>3, <2>4, <2>6, <2>7
<1>. QED BY <1>2, <1>3

AcceptingWatched ==
  /\ service = "cache" /\ UNCHANGED LoopVars /\ UNCHANGED thread
  /\ \/ UNCHANGED <<table, backlog, watched>>
     \/ \E f \in 0 .. MaxFd, p \in Peer : Accepts(f, p) /\ watched' = watched \cup {f}

LEMMA AcceptWatchedEffect ==
  ASSUME TypeInv, AcceptWatched, UNCHANGED <<messageVars, clientVars>>
  PROVE  AcceptingWatched
<1> USE DEF AcceptingWatched
<1>1. service = "cache" /\ UNCHANGED LoopVars /\ UNCHANGED thread
  BY DEF AcceptWatched, LoopVars
<1>2. CASE Free = {}
  BY <1>1, <1>2 DEF AcceptWatched
<1>3. CASE Free # {}
  <2>1. PICK f : f = Lowest(Free)
    OBVIOUS
  <2>2. PICK p : p = Head(backlog)
    OBVIOUS
  <2>3. f \in 0 .. MaxFd /\ table[f] = NoPeer
    BY <1>3, <2>1, LowestFree DEF Free, TypeInv
  <2>4. p \in Peer /\ backlog # <<>>
    BY <2>2 DEF AcceptWatched, TypeInv
  <2>5. /\ table' = [table EXCEPT ![f] = p] /\ backlog' = Tail(backlog)
        /\ watched' = watched \cup {f}
    BY <1>3, <2>1, <2>2 DEF AcceptWatched
  <2>6. Accepts(f, p)
    BY <2>2, <2>3, <2>4, <2>5 DEF Accepts, TypeInv
  <2>. QED BY <1>1, <2>3, <2>4, <2>5, <2>6
<1>. QED BY <1>2, <1>3

HandingOver(f, p) ==
  /\ UNCHANGED LoopVars /\ UNCHANGED backlog
  /\ f \in watched /\ watched' = watched \ {f}
  /\ \/ /\ conn[p].in = <<>> /\ conn[p].client = "shut" /\ UNCHANGED thread
        /\ \A g \in 0 .. MaxFd : table'[g] = IF g = f THEN NoPeer ELSE table[g]
     \/ UNCHANGED table /\ p \in Peer /\ GoesOn(p, "new")
     \/ UNCHANGED table /\ p \notin Peer /\ \A u \in Peer : thread'[u] = thread[u]

LEMMA HandOverEffect ==
  ASSUME TypeInv, NEW f \in 0 .. MaxFd, HandOver(f), UNCHANGED <<messageVars, clientVars>>,
         NEW p, p = table[f]
  PROVE  HandingOver(f, p)
<1> USE DEF HandingOver
<1>1. UNCHANGED LoopVars /\ UNCHANGED backlog /\ f \in watched /\ watched' = watched \ {f}
  BY DEF HandOver, LoopVars
<1>2. CASE conn[p].in = <<>>
  BY <1>1, <1>2 DEF HandOver, TypeInv
<1>3. CASE conn[p].in # <<>>
  <2>1. UNCHANGED table /\ thread' = [thread EXCEPT ![p].pc = "new"]
    BY <1>3 DEF HandOver
  <2>2. CASE p \in Peer
    BY <1>1, <2>1, <2>2 DEF GoesOn, OthersT, TypeInv
  <2>3. CASE p \notin Peer
    BY <1>1, <2>1, <2>3 DEF TypeInv
  <2>. QED BY <2>2, <2>3
<1>. QED BY <1>2, <1>3

Taking(t) ==
  /\ UNCHANGED <<service, table, backlog, watched, conn, dead, messageVars, clientVars>>
  /\ thread[t].pc = "new" /\ OthersT(t)
  /\ thread'[t].pc = "taken" /\ thread'[t].fd = slot /\ thread'[t].got = thread[t].got
  /\ ~crossed' => ~crossed /\ slot \in 0 .. MaxFd /\ table[slot] = t

LEMMA TakeEffect ==
  ASSUME TypeInv, NEW t \in Peer, TakeDescriptor(t), UNCHANGED <<messageVars, clientVars>>
  PROVE  Taking(t)
<1> USE DEF Taking
<1>1. thread' = [thread EXCEPT ![t].pc = "taken", ![t].fd = slot]
  BY DEF TakeDescriptor
<1>2. /\ OthersT(t) /\ thread'[t].pc = "taken" /\ thread'[t].fd = slot
      /\ thread'[t].got = thread[t].got
  BY <1>1 DEF OthersT, TypeInv
<1>3. ~crossed' => ~crossed /\ slot \in 0 .. MaxFd /\ table[slot] = t
  BY ServerAssumption DEF TakeDescriptor, At, TypeInv
<1>. QED BY <1>2, <1>3 DEF TakeDescriptor

ServerOnly == <<service, table, backlog, watched, dead, crossed, files, clientVars>>

Connecting(p) ==
  /\ service # "cache" /\ call[p].pc = "new" /\ conn[p].client = "new"
  /\ UNCHANGED <<service, table, watched, dead, crossed, thread, files, clientVars>>
  /\ backlog' = Append(backlog, p) /\ Conn(p, conn[p].in, conn[p].out, "open")
  /\ OthersP(p) /\ call'[p].pc = "connected" /\ call'[p].told = call[p].told
  /\ service = "messages" => call'[p].text \in MessageCalls

LEMMA ClientConnectsEffect ==
  ASSUME TypeInv, NEW p \in Peer, ClientConnects(p), UNCHANGED clientVars
  PROVE  Connecting(p)
<1> USE DEF Connecting
<1>1. /\ service # "cache" /\ call[p].pc = "new" /\ conn[p].client = "new"
      /\ UNCHANGED <<service, table, watched, dead, crossed, thread, files, clientVars>>
      /\ backlog' = Append(backlog, p) /\ conn' = [conn EXCEPT ![p].client = "open"]
  BY DEF ClientConnects, Connect
<1>2. PICK text \in Texts : call' = [call EXCEPT ![p].text = text, ![p].pc = "connected"]
  BY DEF ClientConnects
<1>3. /\ OthersP(p) /\ call'[p].pc = "connected" /\ call'[p].told = call[p].told
      /\ call'[p].text = text
  BY <1>2 DEF OthersP, TypeInv
<1>4. Conn(p, conn[p].in, conn[p].out, "open")
  BY <1>1 DEF Conn, OthersC, TypeInv
<1>. QED BY <1>1, <1>3, <1>4 DEF Texts

Sending(p) ==
  /\ call[p].pc = "connected" /\ UNCHANGED ServerOnly /\ UNCHANGED thread
  /\ Conn(p, <<call[p].text>>, conn[p].out, conn[p].client)
  /\ OthersP(p) /\ call'[p].pc = "waiting" /\ call'[p].told = call[p].told
  /\ call'[p].text = call[p].text

LEMMA ClientSendsEffect ==
  ASSUME TypeInv, NEW p \in Peer, ClientSends(p), UNCHANGED clientVars
  PROVE  Sending(p)
<1> USE DEF Sending
<1>1. /\ call[p].pc = "connected" /\ UNCHANGED ServerOnly /\ UNCHANGED thread
      /\ conn' = [conn EXCEPT ![p].in = <<call[p].text>>]
      /\ call' = [call EXCEPT ![p].pc = "waiting"]
  BY DEF ClientSends, ServerOnly
<1>2. Conn(p, <<call[p].text>>, conn[p].out, conn[p].client)
  BY <1>1 DEF Conn, OthersC, TypeInv
<1>3. /\ OthersP(p) /\ call'[p].pc = "waiting" /\ call'[p].told = call[p].told
      /\ call'[p].text = call[p].text
  BY <1>1 DEF OthersP, TypeInv
<1>. QED BY <1>1, <1>2, <1>3

Reading(p) ==
  /\ call[p].pc = "waiting" /\ UNCHANGED ServerOnly /\ UNCHANGED thread
  /\ Conn(p, conn[p].in, conn[p].out, "shut")
  /\ OthersP(p) /\ call'[p].pc = "done" /\ call'[p].text = call[p].text
  /\ call'[p].told = "Received Message----" => conn[p].out # <<>>

LEMMA ClientReadsEffect ==
  ASSUME TypeInv, NEW p \in Peer, ClientReads(p), UNCHANGED clientVars
  PROVE  Reading(p)
<1> USE DEF Reading
<1>1. /\ call[p].pc = "waiting" /\ UNCHANGED ServerOnly /\ UNCHANGED thread
      /\ conn' = [conn EXCEPT ![p].client = "shut"]
  BY DEF ClientReads, ServerOnly
<1>2. PICK told \in {"nothing", "reset"} \cup {conn[p].out[i] : i \in DOMAIN conn[p].out} :
        call' = [call EXCEPT ![p].pc = "done", ![p].told = told]
  BY DEF ClientReads
<1>3. Conn(p, conn[p].in, conn[p].out, "shut")
  BY <1>1 DEF Conn, OthersC, TypeInv
<1>4. /\ OthersP(p) /\ call'[p].pc = "done" /\ call'[p].told = told
      /\ call'[p].text = call[p].text
  BY <1>2 DEF OthersP, TypeInv
<1>5. told = "Received Message----" => conn[p].out # <<>>
  <2>1. DOMAIN <<>> = {}
    OBVIOUS
  <2>. QED BY <1>2, <2>1
<1>. QED BY <1>1, <1>3, <1>4, <1>5

\* Of the steps of a thread.
ServiceVars == <<service, table, backlog, watched, crossed, files, call, clientVars>>

\* An end of the process, and the start of a recv().
Ends == UNCHANGED ServiceVars /\ UNCHANGED <<conn, thread>> /\ dead'
Waits(t, pc) == UNCHANGED ServiceVars /\ UNCHANGED <<conn, dead>> /\ Enters(t, pc)

LEMMA EnterEffect ==
  ASSUME TypeInv, NEW t \in Peer, NEW pc, EnterRecv(t, pc), UNCHANGED <<messageVars, clientVars>>
  PROVE  Waits(t, pc)
<1>1. At(thread[t].fd) = table[thread[t].fd] /\ table[thread[t].fd] \in Peer /\ thread[t].fd \in 0 .. MaxFd
  BY ServerAssumption DEF EnterRecv, At, TypeInv
<1>2. thread' = [thread EXCEPT ![t].hold = table[thread[t].fd], ![t].pc = pc]
  BY <1>1 DEF EnterRecv
<1>3. Enters(t, pc)
  BY <1>1, <1>2 DEF Enters, OthersT, TypeInv
<1>. QED BY <1>3 DEF EnterRecv, Waits, ServiceVars, messageVars

LEMMA TerminateEffect ==
  ASSUME Terminate, UNCHANGED <<messageVars, clientVars>>
  PROVE  Ends
  BY DEF Terminate, Ends, ServiceVars, messageVars

GettingEnd(t, pc) ==
  /\ UNCHANGED ServiceVars /\ UNCHANGED <<conn, dead>>
  /\ conn[thread[t].hold].client = "shut" /\ Leaves(t, pc, thread[t].got)

LEMMA ReceivedEndEffect ==
  ASSUME TypeInv, NEW t \in Peer, NEW pc, ReceivedEnd(t, pc), UNCHANGED <<messageVars, clientVars>>
  PROVE  GettingEnd(t, pc)
<1> USE DEF GettingEnd
<1>1. thread' = [thread EXCEPT ![t].hold = NoPeer, ![t].pc = pc]
  BY DEF ReceivedEnd
<1>2. Leaves(t, pc, thread[t].got)
  BY <1>1 DEF Leaves, OthersT, TypeInv
<1>. QED BY <1>2 DEF ReceivedEnd, ServiceVars, messageVars

Getting(t, pc, got, rest, p) ==
  /\ UNCHANGED ServiceVars /\ UNCHANGED dead
  /\ conn[p].in # <<>> /\ Conn(p, rest, conn[p].out, conn[p].client) /\ Leaves(t, pc, got)

LEMMA ReceivedEffect ==
  ASSUME TypeInv, NEW t \in Peer, NEW pc, NEW got, NEW rest, NEW p \in Peer, thread[t].hold = p,
         Received(t, pc, got, rest), UNCHANGED <<messageVars, clientVars>>
  PROVE  Getting(t, pc, got, rest, p)
<1> USE DEF Getting
<1>1. /\ thread' = [thread EXCEPT ![t].hold = NoPeer, ![t].pc = pc, ![t].got = got]
      /\ conn' = [conn EXCEPT ![p].in = rest] /\ conn[p].in # <<>>
  BY DEF Received
<1>2. Leaves(t, pc, got)
  BY <1>1 DEF Leaves, OthersT, TypeInv
<1>3. Conn(p, rest, conn[p].out, conn[p].client)
  BY <1>1 DEF Conn, OthersC, TypeInv
<1>. QED BY <1>1, <1>2, <1>3 DEF Received, ServiceVars, messageVars

\* close() by t.
Closes(t, pc) ==
  /\ UNCHANGED <<service, backlog, dead, files, call, clientVars, conn>> /\ GoesOn(t, pc)
  /\ watched' = watched \ {thread[t].fd}
  /\ \A f \in 0 .. MaxFd : table'[f] = IF f = thread[t].fd THEN NoPeer ELSE table[f]
  /\ crossed => crossed'
  /\ ~crossed' /\ thread[t].fd \in 0 .. MaxFd => table[thread[t].fd] \in {t, NoPeer}

LEMMA CloseEffect ==
  ASSUME TypeInv, NEW t \in Peer, NEW pc, Close(t, pc), UNCHANGED <<messageVars, clientVars>>
  PROVE  Closes(t, pc)
<1>1. thread' = [thread EXCEPT ![t].pc = pc]
  BY DEF Close
<1>2. GoesOn(t, pc)
  BY <1>1 DEF GoesOn, OthersT, TypeInv
<1>3. \A f \in 0 .. MaxFd : table'[f] = IF f = thread[t].fd THEN NoPeer ELSE table[f]
  BY DEF Close, TypeInv
<1>4. /\ crossed => crossed'
      /\ ~crossed' /\ thread[t].fd \in 0 .. MaxFd => table[thread[t].fd] \in {t, NoPeer}
  BY DEF Close, At, TypeInv
<1>. QED BY <1>2, <1>3, <1>4 DEF Close, Closes, messageVars

ReceivingText(t) ==
  /\ service # "cache" /\ thread[t].pc = "taken"
  /\ Waits(t, "recv") \/ Ends

LEMMA ReceiveTextEffect ==
  ASSUME TypeInv, NEW t \in Peer, ReceiveText(t), UNCHANGED clientVars
  PROVE  ReceivingText(t)
<1> USE DEF ReceivingText
<1>1. UNCHANGED messageVars /\ service # "cache" /\ thread[t].pc = "taken"
  BY DEF ReceiveText
<1>2. EnterRecv(t, "recv") \/ Terminate
  BY DEF ReceiveText
<1>. QED BY <1>1, <1>2, EnterEffect, TerminateEffect

GettingText(t, p) ==
  /\ thread[t].pc = "recv" /\ p \in Peer /\ UNCHANGED ServiceVars /\ UNCHANGED dead
  /\ \/ UNCHANGED conn /\ Leaves(t, "close", thread[t].got)
     \/ \E i \in DOMAIN conn[p].in : LET text == conn[p].in[i] IN
          /\ conn[p].in # <<>>
          /\ Conn(p, IF text.whole THEN <<>> ELSE <<text>>, conn[p].out, conn[p].client)
          /\ \/ Leaves(t, "close", <<text, p>>)
             \/ text.kind \in {"send", "invoke"} /\ Leaves(t, "got", <<text, p>>)

LEMMA TextReceivedEffect ==
  ASSUME TypeInv, PhaseInv, NEW t \in Peer, TextReceived(t), UNCHANGED clientVars,
         NEW p, p = thread[t].hold
  PROVE  GettingText(t, p)
<1> USE DEF GettingText
<1>1. thread[t].pc = "recv" /\ p \in Peer /\ UNCHANGED messageVars
  BY DEF TextReceived, PhaseInv
<1>2. CASE ReceivedEnd(t, "close")
  BY <1>1, <1>2, ReceivedEndEffect DEF GettingEnd
<1>3. ASSUME NEW i \in DOMAIN conn[p].in, NEW text, text = conn[p].in[i],
             Received(t, IF Cut(text).kind = "" THEN "close" ELSE "got", <<text, p>>,
                      IF text.whole THEN <<>> ELSE <<text>>)
      PROVE  /\ UNCHANGED ServiceVars /\ UNCHANGED dead
             /\ conn[p].in # <<>>
             /\ Conn(p, IF text.whole THEN <<>> ELSE <<text>>, conn[p].out, conn[p].client)
             /\ \/ Leaves(t, "close", <<text, p>>)
                \/ text.kind \in {"send", "invoke"} /\ Leaves(t, "got", <<text, p>>)
  <2> DEFINE rest == IF text.whole THEN <<>> ELSE <<text>>
             pc == IF Cut(text).kind = "" THEN "close" ELSE "got"
  <2>1. Received(t, pc, <<text, p>>, rest)
    BY <1>3
  <2> HIDE DEF rest, pc
  <2>2. /\ UNCHANGED ServiceVars /\ UNCHANGED dead
        /\ conn[p].in # <<>> /\ Conn(p, rest, conn[p].out, conn[p].client) /\ Leaves(t, pc, <<text, p>>)
    BY <1>1, <2>1, ReceivedEffect DEF Getting
  <2>3. CASE text.kind \in {"send", "invoke"}
    BY <2>2, <2>3 DEF rest, pc
  <2>4. CASE text.kind \notin {"send", "invoke"}
    <3>1. pc = "close"
      BY <2>4 DEF pc, Cut
    <3>. QED BY <2>2, <3>1 DEF rest
  <2>. QED BY <2>3, <2>4
<1>. QED BY <1>1, <1>2, <1>3 DEF TextReceived

Writing(t) ==
  /\ service = "messages" /\ thread[t].pc = "got" /\ GoesOn(t, "answer")
  /\ UNCHANGED <<service, table, backlog, watched, crossed, conn, dead, call, clientVars>>
  /\ files' = Stored(thread[t].got[1], thread[t].got[2])

LEMMA WriteMessageEffect ==
  ASSUME TypeInv, NEW t \in Peer, WriteMessage(t), UNCHANGED clientVars
  PROVE  Writing(t)
<1> USE DEF Writing
<1>1. /\ service = "messages" /\ thread[t].pc = "got"
      /\ UNCHANGED <<service, table, backlog, watched, crossed, conn, dead, call, clientVars>>
      /\ files' = Stored(thread[t].got[1], thread[t].got[2])
      /\ thread' = [thread EXCEPT ![t].pc = "answer"]
  BY DEF WriteMessage
<1>. QED BY <1>1 DEF GoesOn, OthersT, TypeInv

Invoking(t) ==
  /\ service = "methods" /\ thread[t].pc = "got" /\ GoesOn(t, "answer")
  /\ UNCHANGED ServiceVars /\ UNCHANGED <<conn, dead>>

LEMMA InvokeMethodEffect ==
  ASSUME TypeInv, NEW t \in Peer, InvokeMethod(t), UNCHANGED clientVars
  PROVE  Invoking(t)
<1> USE DEF Invoking
<1>1. /\ service = "methods" /\ thread[t].pc = "got"
      /\ UNCHANGED ServiceVars /\ UNCHANGED <<conn, dead>>
      /\ thread' = [thread EXCEPT ![t].pc = "answer"]
  BY DEF InvokeMethod, ServiceVars, messageVars
<1>. QED BY <1>1 DEF GoesOn, OthersT, TypeInv

AnsweringText(t) ==
  /\ thread[t].pc = "answer" /\ GoesOn(t, "close")
  /\ UNCHANGED ServiceVars /\ UNCHANGED dead
  /\ \/ UNCHANGED conn
     \/ \E p \in Peer : \E out :
          /\ conn[p].client = "open" /\ Conn(p, conn[p].in, out, "open")
          /\ thread[t].fd \in 0 .. MaxFd /\ table[thread[t].fd] = p

LEMMA AnswerTextEffect ==
  ASSUME TypeInv, NEW t \in Peer, AnswerText(t), UNCHANGED clientVars
  PROVE  AnsweringText(t)
<1> USE DEF AnsweringText
<1>1. /\ thread[t].pc = "answer" /\ UNCHANGED ServiceVars /\ UNCHANGED dead
      /\ thread' = [thread EXCEPT ![t].pc = "close"]
  BY DEF AnswerText, ServiceVars, messageVars
<1>2. GoesOn(t, "close")
  BY <1>1 DEF GoesOn, OthersT, TypeInv
<1>3. PICK p : p = At(thread[t].fd)
  OBVIOUS
<1>4. CASE p \in Peer /\ conn[p].client = "open"
  <2>1. PICK out : out = Append(conn[p].out, Reply(thread[t].got[1]))
    OBVIOUS
  <2>2. conn' = [conn EXCEPT ![p].out = out]
    BY <1>3, <1>4, <2>1 DEF AnswerText, SendTo
  <2>3. Conn(p, conn[p].in, out, "open")
    BY <1>4, <2>2 DEF Conn, OthersC, TypeInv
  <2>4. thread[t].fd \in 0 .. MaxFd /\ table[thread[t].fd] = p
    BY <1>3, <1>4, ServerAssumption DEF At, TypeInv
  <2>. QED BY <1>1, <1>2, <1>4, <2>3, <2>4
<1>5. CASE ~(p \in Peer /\ conn[p].client = "open")
  BY <1>1, <1>2, <1>3, <1>5 DEF AnswerText, SendTo
<1>. QED BY <1>4, <1>5

ClosingText(t) ==
  thread[t].pc = "close" /\ Closes(t, "done")

LEMMA CloseTextEffect ==
  ASSUME TypeInv, NEW t \in Peer, CloseText(t), UNCHANGED clientVars
  PROVE  ClosingText(t)
  BY CloseEffect DEF CloseText, ClosingText

Failing(t) ==
  \/ UNCHANGED ServiceVars /\ UNCHANGED <<conn, dead>> /\ Leaves(t, "closing", thread[t].got)
  \/ Ends

LEMMA NoLengthEffect ==
  ASSUME TypeInv, NEW t \in Peer, NoLength(t), UNCHANGED <<messageVars, clientVars>>
  PROVE  Failing(t)
<1> USE DEF Failing
<1>1. CASE Terminate
  BY <1>1, TerminateEffect
<1>2. CASE ~Terminate
  <2>1. /\ thread' = [thread EXCEPT ![t].pc = "closing", ![t].hold = NoPeer]
        /\ UNCHANGED <<service, table, slot, backlog, watched, conn, dead, crossed>>
    BY <1>2 DEF NoLength
  <2>2. Leaves(t, "closing", thread[t].got)
    BY <2>1 DEF Leaves, OthersT, TypeInv
  <2>. QED BY <2>1, <2>2 DEF ServiceVars, messageVars
<1>. QED BY <1>1, <1>2

ReceivingLength(t) ==
  /\ service = "cache" /\ thread[t].pc = "taken" /\ ~dead
  /\ \/ Waits(t, "length")
     \/ Ends
     \/ /\ ~(thread[t].fd \in 0 .. MaxFd /\ table[thread[t].fd] = t)
        /\ UNCHANGED ServiceVars /\ UNCHANGED <<conn, dead>> /\ Leaves(t, "closing", thread[t].got)

LEMMA ReceiveLengthEffect ==
  ASSUME TypeInv, NEW t \in Peer, ReceiveLength(t)
  PROVE  ReceivingLength(t)
<1> USE DEF ReceivingLength
<1>1. service = "cache" /\ thread[t].pc = "taken" /\ ~dead /\ UNCHANGED <<messageVars, clientVars>>
  BY DEF ReceiveLength
<1>2. CASE At(thread[t].fd) \in Peer
  BY <1>1, <1>2, EnterEffect DEF ReceiveLength
<1>3. CASE At(thread[t].fd) \notin Peer
  <2>1. NoLength(t)
    BY <1>3 DEF ReceiveLength
  <2>2. ~(thread[t].fd \in 0 .. MaxFd /\ table[thread[t].fd] = t)
    BY <1>3 DEF At, TypeInv
  <2>. QED BY <1>1, <2>1, <2>2, NoLengthEffect DEF Failing
<1>. QED BY <1>2, <1>3

GettingLength(t, p) ==
  /\ thread[t].pc = "length" /\ ~dead
  /\ \/ /\ conn[p].client \in {"shut", "reset"} /\ UNCHANGED ServiceVars /\ UNCHANGED <<conn, dead>>
        /\ Leaves(t, "closing", thread[t].got)
     \/ conn[p].client = "reset" /\ Ends
     \/ /\ UNCHANGED ServiceVars /\ UNCHANGED dead
        /\ conn[p].in # <<>> /\ Conn(p, Tail(conn[p].in), conn[p].out, conn[p].client)
        /\ \/ Leaves(t, "query", Head(conn[p].in))
           \/ Head(conn[p].in).part # "head" /\ Leaves(t, "closing", Head(conn[p].in))

LEMMA LengthReceivedEffect ==
  ASSUME TypeInv, NEW t \in Peer, LengthReceived(t), NEW p \in Peer, p = thread[t].hold
  PROVE  GettingLength(t, p)
<1> USE DEF GettingLength
<1>1. thread[t].pc = "length" /\ ~dead /\ UNCHANGED <<messageVars, clientVars>>
  BY DEF LengthReceived
<1>2. CASE ReceivedEnd(t, "closing")
  BY <1>1, <1>2, ReceivedEndEffect DEF GettingEnd
<1>3. CASE conn[p].client = "reset" /\ NoLength(t)
  BY <1>1, <1>3, NoLengthEffect DEF Failing
<1>4. ASSUME NEW next \in {"query", "closing"}, next = "closing" => Head(conn[p].in).part # "head",
             Received(t, next, Head(conn[p].in), Tail(conn[p].in))
      PROVE  /\ UNCHANGED ServiceVars /\ UNCHANGED dead
             /\ conn[p].in # <<>> /\ Conn(p, Tail(conn[p].in), conn[p].out, conn[p].client)
             /\ \/ Leaves(t, "query", Head(conn[p].in))
                \/ Head(conn[p].in).part # "head" /\ Leaves(t, "closing", Head(conn[p].in))
  <2>1. /\ UNCHANGED ServiceVars /\ UNCHANGED dead
        /\ conn[p].in # <<>> /\ Conn(p, Tail(conn[p].in), conn[p].out, conn[p].client)
        /\ Leaves(t, next, Head(conn[p].in))
    BY <1>1, <1>4, ReceivedEffect DEF Getting
  <2>. QED BY <1>4, <2>1
<1>. QED BY <1>1, <1>2, <1>3, <1>4 DEF LengthReceived

ReceivingQuery(t) ==
  thread[t].pc = "query" /\ ~dead /\ Waits(t, "body")

LEMMA ReceiveQueryEffect ==
  ASSUME TypeInv, NEW t \in Peer, ReceiveQuery(t)
  PROVE  ReceivingQuery(t)
  BY EnterEffect DEF ReceiveQuery, ReceivingQuery

GettingQuery(t, p) ==
  /\ thread[t].pc = "body" /\ ~dead /\ UNCHANGED ServiceVars /\ UNCHANGED dead
  /\ \/ conn[p].client = "shut" /\ UNCHANGED conn /\ Leaves(t, "closing", thread[t].got)
     \/ /\ conn[p].in # <<>> /\ Conn(p, Tail(conn[p].in), conn[p].out, conn[p].client)
        /\ Leaves(t, "asked", Head(conn[p].in))

LEMMA QueryReceivedEffect ==
  ASSUME TypeInv, NEW t \in Peer, QueryReceived(t), NEW p \in Peer, p = thread[t].hold
  PROVE  GettingQuery(t, p)
<1> USE DEF GettingQuery
<1>1. thread[t].pc = "body" /\ ~dead /\ UNCHANGED <<messageVars, clientVars>>
  BY DEF QueryReceived
<1>2. CASE ReceivedEnd(t, "closing")
  BY <1>1, <1>2, ReceivedEndEffect DEF GettingEnd
<1>3. CASE Received(t, "asked", Head(conn[p].in), Tail(conn[p].in))
  BY <1>1, <1>3, ReceivedEffect DEF Getting
<1>. QED BY <1>1, <1>2, <1>3 DEF QueryReceived

AnsweringQuery(t) ==
  /\ thread[t].pc = "asked" /\ ~dead
  /\ \/ \E p \in Peer :
          /\ thread[t].fd \in 0 .. MaxFd /\ table[thread[t].fd] = p
          /\ UNCHANGED ServiceVars /\ UNCHANGED dead /\ GoesOn(t, "taken")
          /\ \/ conn[p].client # "open" /\ UNCHANGED conn
             \/ conn[p].client = "open" /\ Conn(p, conn[p].in,
                  conn[p].out \o Pieces(thread[t].got.of, thread[t].got.is), "open")
     \/ Ends

LEMMA AnswerQueryEffect ==
  ASSUME TypeInv, NEW t \in Peer, AnswerQuery(t)
  PROVE  AnsweringQuery(t)
<1> USE DEF AnsweringQuery
<1>1. thread[t].pc = "asked" /\ ~dead /\ UNCHANGED <<messageVars, clientVars>>
  BY DEF AnswerQuery
<1>2. CASE ~Reaches(At(thread[t].fd))
  BY <1>1, <1>2, TerminateEffect DEF AnswerQuery
<1>3. CASE Reaches(At(thread[t].fd))
  <2>1. PICK p : p = At(thread[t].fd)
    OBVIOUS
  <2>2. p \in Peer
    BY <1>3, <2>1 DEF Reaches
  <2>3. thread[t].fd \in 0 .. MaxFd /\ table[thread[t].fd] = p
    BY <2>1, <2>2, ServerAssumption DEF At, TypeInv
  <2>4. /\ thread' = [thread EXCEPT ![t].pc = "taken"] /\ conn' = Sent(p, thread[t].got)
        /\ UNCHANGED <<service, table, slot, backlog, watched, dead, crossed>>
    BY <1>3, <2>1 DEF AnswerQuery
  <2>5. GoesOn(t, "taken")
    BY <2>4 DEF GoesOn, OthersT, TypeInv
  <2>6. UNCHANGED ServiceVars
    BY <1>1, <2>4 DEF ServiceVars, messageVars
  <2>7. PICK out : out = conn[p].out \o Pieces(thread[t].got.of, thread[t].got.is)
    OBVIOUS
  <2>8. CASE conn[p].client = "open"
    <3>1. conn' = [conn EXCEPT ![p].out = out]
      BY <2>4, <2>7, <2>8 DEF Sent
    <3>2. Conn(p, conn[p].in, out, "open")
      BY <2>2, <2>8, <3>1 DEF Conn, OthersC, TypeInv
    <3>. QED BY <1>1, <2>2, <2>3, <2>4, <2>5, <2>6, <2>7, <2>8, <3>2
  <2>9. CASE conn[p].client # "open"
    BY <1>1, <2>2, <2>3, <2>4, <2>5, <2>6, <2>9 DEF Sent
  <2>. QED BY <2>8, <2>9
<1>. QED BY <1>2, <1>3

ClosingSession(t) ==
  \/ thread[t].pc = "closing" /\ Closes(t, "closing again")
  \/ thread[t].pc = "closing again" /\ Closes(t, "done")

LEMMA CloseSessionEffect ==
  ASSUME TypeInv, NEW t \in Peer, CloseSession(t)
  PROVE  ClosingSession(t)
<1> USE DEF ClosingSession
<1>1. PICK c \in {<<"closing", "closing again">>, <<"closing again", "done">>} :
        thread[t].pc = c[1] /\ Close(t, c[2])
  BY DEF CloseSession
<1>2. PICK pc : pc = c[2]
  OBVIOUS
<1>3. /\ \/ thread[t].pc = "closing" /\ pc = "closing again"
         \/ thread[t].pc = "closing again" /\ pc = "done"
      /\ Close(t, pc)
  <2>1. CASE c = <<"closing", "closing again">>
    BY <1>1, <1>2, <2>1
  <2>2. CASE c = <<"closing again", "done">>
    BY <1>1, <1>2, <2>2
  <2>. QED BY <1>1, <2>1, <2>2
<1>4. Closes(t, pc)
  BY <1>3, CloseEffect DEF CloseSession
<1>. QED BY <1>3, <1>4

\* Of the steps of a caller.
Behind == <<serverSide, messageVars>>
Moves(c, pc) ==
  /\ OthersU(c) /\ caller'[c].pc = pc /\ caller'[c].conn = caller[c].conn
  /\ caller'[c].got = caller[c].got
Same(c) == caller'[c].result = caller[c].result

TakingPooled(c) ==
  /\ service = "cache" /\ caller[c].pc = "idle" /\ c \notin OwnsConnection
  /\ UNCHANGED <<Behind, backlog, conn, lock, cut>>
  /\ OthersU(c) /\ caller'[c].pc = "lock" /\ caller'[c].conn \in Pool /\ Same(c)

LEMMA GetPooledEffect ==
  ASSUME TypeInv, NEW c \in Caller, GetPooledConnection(c)
  PROVE  TakingPooled(c)
<1> USE DEF TakingPooled
<1>1. /\ service = "cache" /\ caller[c].pc = "idle" /\ c \notin OwnsConnection
      /\ UNCHANGED <<Behind, backlog, conn, lock, cut>>
  BY DEF GetPooledConnection, serverVars, Behind, serverSide
<1>2. PICK p \in Pool : caller' = [caller EXCEPT ![c].pc = "lock", ![c].conn = p]
  BY DEF GetPooledConnection
<1>3. OthersU(c) /\ caller'[c].pc = "lock" /\ caller'[c].conn = p /\ Same(c)
  BY <1>2 DEF OthersU, Same, TypeInv
<1>. QED BY <1>1, <1>3

Opening(c) ==
  /\ service = "cache" /\ caller[c].pc = "idle" /\ c \in OwnsConnection /\ c \in Peer
  /\ conn[c].client = "new" /\ backlog' = Append(backlog, c)
  /\ UNCHANGED <<service, table, slot, watched, thread, dead, crossed, messageVars, lock, cut>>
  /\ Conn(c, conn[c].in, conn[c].out, "open")
  /\ OthersU(c) /\ caller'[c].pc = "lock" /\ caller'[c].conn = c /\ Same(c)

LEMMA GetOwnEffect ==
  ASSUME TypeInv, NEW c \in Caller, GetOwnConnection(c)
  PROVE  Opening(c)
<1> USE DEF Opening
<1>1. /\ service = "cache" /\ caller[c].pc = "idle" /\ c \in OwnsConnection /\ c \in Peer
      /\ conn[c].client = "new" /\ backlog' = Append(backlog, c)
      /\ UNCHANGED <<service, table, slot, watched, thread, dead, crossed, messageVars, lock, cut>>
      /\ conn' = [conn EXCEPT ![c].client = "open"]
      /\ caller' = [caller EXCEPT ![c].pc = "lock", ![c].conn = c]
  BY ClientAssumption DEF GetOwnConnection, Connect
<1>2. Conn(c, conn[c].in, conn[c].out, "open")
  BY <1>1 DEF Conn, OthersC, TypeInv
<1>3. OthersU(c) /\ caller'[c].pc = "lock" /\ caller'[c].conn = c /\ Same(c)
  BY <1>1 DEF OthersU, Same, TypeInv
<1>. QED BY <1>1, <1>2, <1>3

LEMMA StepEffect ==
  ASSUME TypeInv, NEW c \in Caller, NEW pc, Step(c, pc)
  PROVE  Moves(c, pc) /\ Same(c)
  BY DEF Step, Moves, Same, OthersU, TypeInv

LEMMA ThrowEffect ==
  ASSUME TypeInv, NEW c \in Caller, Throw(c)
  PROVE  Moves(c, "release") /\ caller'[c].result = "thrown"
  BY DEF Throw, Moves, OthersU, TypeInv

Locking(c) ==
  /\ caller[c].pc = "lock" /\ lock[LockOf(c)] = NoOne /\ Moves(c, "send") /\ Same(c)
  /\ UNCHANGED <<Behind, backlog, conn, cut>>
  /\ lock' = [lock EXCEPT ![LockOf(c)] = c]

LEMMA LockEffect ==
  ASSUME TypeInv, NEW c \in Caller, LockConnection(c)
  PROVE  Locking(c)
  BY StepEffect DEF LockConnection, serverVars, serverSide, Behind, Locking

Asking(c) ==
  /\ caller[c].pc = "send" /\ UNCHANGED <<Behind, backlog, lock, cut>>
  /\ \/ /\ Kept(On(c)) /\ Moves(c, "head") /\ Same(c)
        /\ Conn(On(c), conn[On(c)].in \o Pieces(c, CommandOf[Method[c]]), conn[On(c)].out,
                conn[On(c)].client)
     \/ ~Kept(On(c)) /\ Moves(c, "head") /\ Same(c) /\ UNCHANGED conn
     \/ ~Kept(On(c)) /\ Moves(c, "release") /\ caller'[c].result = "thrown" /\ UNCHANGED conn

LEMMA SendQueryEffect ==
  ASSUME TypeInv, NEW c \in Caller, SendQuery(c), On(c) \in Peer
  PROVE  Asking(c)
<1> USE DEF Asking
<1>1. caller[c].pc = "send" /\ UNCHANGED <<Behind, backlog, lock, cut>>
  BY DEF SendQuery, serverSide, Behind
<1>2. CASE Kept(On(c))
  <2>1. PICK in : in = conn[On(c)].in \o Pieces(c, CommandOf[Method[c]])
    OBVIOUS
  <2>2. conn' = [conn EXCEPT ![On(c)].in = in] /\ Step(c, "head")
    BY <1>2, <2>1 DEF SendQuery
  <2>3. Conn(On(c), in, conn[On(c)].out, conn[On(c)].client)
    BY <2>2 DEF Conn, OthersC, TypeInv
  <2>. QED BY <1>1, <1>2, <2>1, <2>2, <2>3, StepEffect
<1>3. CASE ~Kept(On(c))
  <2>1. UNCHANGED conn /\ (Step(c, "head") \/ Throw(c))
    BY <1>3 DEF SendQuery
  <2>. QED BY <1>1, <1>3, <2>1, StepEffect, ThrowEffect
<1>. QED BY <1>2, <1>3

ReadingLength(c, out) ==
  /\ caller[c].pc = "head" /\ out # <<>> /\ UNCHANGED <<Behind, backlog, lock, cut>>
  /\ OthersC(On(c)) /\ conn'[On(c)].in = conn[On(c)].in
  /\ conn'[On(c)].client = conn[On(c)].client
  /\ OthersU(c) /\ caller'[c].conn = caller[c].conn
  /\ \/ /\ caller'[c].pc = "body" /\ caller'[c].got = Head(out).of /\ Same(c)
        /\ conn'[On(c)].out = Tail(out)
     \/ /\ Head(out).part # "head" /\ caller'[c].pc \in {"release", "unlock", "body"}
        /\ Same(c) \/ caller'[c].result \in {"thrown", "garbage"}

LEMMA ReadLengthEffect ==
  ASSUME TypeInv, NEW c \in Caller, ReadLength(c), On(c) \in Peer,
         NEW out, out = conn[On(c)].out
  PROVE  ReadingLength(c, out)
<1> USE DEF ReadingLength
<1>1. caller[c].pc = "head" /\ out # <<>> /\ UNCHANGED <<Behind, backlog, lock, cut>>
  BY DEF ReadLength, serverSide, Behind
<1>2. /\ OthersC(On(c)) /\ conn'[On(c)].in = conn[On(c)].in
      /\ conn'[On(c)].client = conn[On(c)].client
  <2>1. \/ conn' = conn
        \/ conn' = [conn EXCEPT ![On(c)].out = Tail(@)]
        \/ conn' = [conn EXCEPT ![On(c)].out = <<>>]
    BY DEF ReadLength, Takes
  <2>. QED BY <2>1 DEF OthersC, TypeInv
<1>3. CASE Head(out).part = "head"
  <2>1. /\ caller' = [caller EXCEPT ![c].pc = "body", ![c].got = Head(out).of]
        /\ conn' = [conn EXCEPT ![On(c)].out = Tail(out)]
    BY <1>3 DEF ReadLength, Takes
  <2>. QED BY <1>1, <1>2, <2>1 DEF OthersU, Same, TypeInv
<1>4. CASE Head(out).part # "head"
  <2>1. \/ Throw(c)
        \/ caller' = [caller EXCEPT ![c].pc = "unlock", ![c].result = "garbage"]
        \/ caller' = [caller EXCEPT ![c].pc = "body", ![c].got = NoOne]
    BY <1>4 DEF ReadLength
  <2>2. /\ OthersU(c) /\ caller'[c].conn = caller[c].conn
        /\ caller'[c].pc \in {"release", "unlock", "body"}
        /\ Same(c) \/ caller'[c].result \in {"thrown", "garbage"}
    <3>1. CASE Throw(c)
      BY <3>1, ThrowEffect DEF Moves
    <3>2. CASE caller' = [caller EXCEPT ![c].pc = "unlock", ![c].result = "garbage"]
      BY <3>2 DEF OthersU, TypeInv
    <3>3. CASE caller' = [caller EXCEPT ![c].pc = "body", ![c].got = NoOne]
      BY <3>3 DEF OthersU, Same, TypeInv
    <3>. QED BY <2>1, <3>1, <3>2, <3>3
  <2>. QED BY <1>1, <1>2, <1>4, <2>2
<1>. QED BY <1>3, <1>4

ReadingEnd(c) ==
  /\ caller[c].pc = "head" /\ conn[On(c)].out = <<>> /\ ~Kept(On(c))
  /\ UNCHANGED <<Behind, backlog, conn, lock, cut>>
  /\ Moves(c, "unlock") /\ caller'[c].result = "empty"

LEMMA ReadLengthAtEndEffect ==
  ASSUME TypeInv, NEW c \in Caller, ReadLengthAtEnd(c)
  PROVE  ReadingEnd(c)
<1> USE DEF ReadingEnd
<1>1. /\ caller[c].pc = "head" /\ conn[On(c)].out = <<>> /\ ~Kept(On(c))
      /\ UNCHANGED <<Behind, backlog, conn, lock, cut>>
      /\ caller' = [caller EXCEPT ![c].pc = "unlock", ![c].result = "empty"]
  BY DEF ReadLengthAtEnd, serverVars, serverSide, Behind
<1>2. Moves(c, "unlock") /\ caller'[c].result = "empty"
  BY <1>1 DEF Moves, OthersU, TypeInv
<1>. QED BY <1>1, <1>2

\* Of an answer that is there.
ReadingAnswer(c, out) ==
  /\ caller[c].pc = "body" /\ UNCHANGED <<Behind, backlog, lock>> /\ Moves(c, "unlock")
  /\ OthersC(On(c)) /\ conn'[On(c)].in = conn[On(c)].in
  /\ conn'[On(c)].client = conn[On(c)].client
  /\ \/ /\ UNCHANGED cut
        /\ out # <<>> => conn'[On(c)].out = Tail(out)
        /\ out # <<>> /\ Head(out).part = "body" /\ Head(out).of = c /\ caller[c].got = c
             => caller'[c].result = "own"
     \/ caller'[c].result = "part" /\ cut' = cut \cup {On(c)}

LEMMA ReadAnswerEffect ==
  ASSUME TypeInv, NEW c \in Caller, ReadAnswer(c), On(c) \in Peer,
         NEW out, out = conn[On(c)].out
  PROVE  ReadingAnswer(c, out)
<1> USE DEF ReadingAnswer
<1>1. caller[c].pc = "body" /\ UNCHANGED <<Behind, backlog, lock>>
  BY DEF ReadAnswer, serverSide, Behind
<1>2. PICK whole \in BOOLEAN :
        /\ whole = (out # <<>> /\ Head(out).part = "body" /\ Head(out).of = caller[c].got)
        /\ \/ /\ caller' = [caller EXCEPT ![c].pc = "unlock", ![c].result =
                            IF ~whole THEN "garbage" ELSE IF caller[c].got = c THEN "own" ELSE "other"]
              /\ conn' = [conn EXCEPT ![On(c)].out = IF @ = <<>> THEN @ ELSE Tail(@)]
              /\ UNCHANGED cut
           \/ /\ caller' = [caller EXCEPT ![c].pc = "unlock", ![c].result = "part"]
              /\ conn' = [conn EXCEPT ![On(c)].out[1].part = "rest"]
              /\ cut' = cut \cup {On(c)}
  BY DEF ReadAnswer
<1>3. PICK result :
        /\ caller' = [caller EXCEPT ![c].pc = "unlock", ![c].result = result]
        /\ \/ /\ UNCHANGED cut /\ conn' = [conn EXCEPT ![On(c)].out = IF @ = <<>> THEN @ ELSE Tail(@)]
              /\ whole /\ caller[c].got = c => result = "own"
           \/ /\ result = "part" /\ cut' = cut \cup {On(c)}
              /\ conn' = [conn EXCEPT ![On(c)].out[1].part = "rest"]
  BY <1>2
<1>4. Moves(c, "unlock") /\ caller'[c].result = result
  BY <1>3 DEF Moves, OthersU, TypeInv
<1>5. CASE /\ UNCHANGED cut /\ conn' = [conn EXCEPT ![On(c)].out = IF @ = <<>> THEN @ ELSE Tail(@)]
           /\ whole /\ caller[c].got = c => result = "own"
  <2>1. /\ OthersC(On(c)) /\ conn'[On(c)].in = conn[On(c)].in
        /\ conn'[On(c)].client = conn[On(c)].client
        /\ out # <<>> => conn'[On(c)].out = Tail(out)
    BY <1>5 DEF OthersC, TypeInv
  <2>. QED BY <1>1, <1>2, <1>4, <1>5, <2>1
<1>6. CASE /\ result = "part" /\ cut' = cut \cup {On(c)}
           /\ conn' = [conn EXCEPT ![On(c)].out[1].part = "rest"]
  <2>1. /\ OthersC(On(c)) /\ conn'[On(c)].in = conn[On(c)].in
        /\ conn'[On(c)].client = conn[On(c)].client
    BY <1>6 DEF OthersC, TypeInv
  <2>. QED BY <1>1, <1>4, <1>6, <2>1
<1>. QED BY <1>3, <1>5, <1>6

Unlocking(c) ==
  /\ caller[c].pc = "unlock" /\ Moves(c, "release") /\ Same(c)
  /\ UNCHANGED <<Behind, backlog, conn, cut>>
  /\ lock' = [lock EXCEPT ![LockOf(c)] = NoOne]

LEMMA UnlockEffect ==
  ASSUME TypeInv, NEW c \in Caller, UnlockConnection(c)
  PROVE  Unlocking(c)
  BY StepEffect DEF UnlockConnection, serverVars, serverSide, Behind, Unlocking

Releasing(c) ==
  /\ caller[c].pc = "release" /\ Moves(c, "done") /\ Same(c)
  /\ UNCHANGED <<Behind, backlog, conn, lock, cut>>

LEMMA ReleaseEffect ==
  ASSUME TypeInv, NEW c \in Caller, ReleaseConnection(c)
  PROVE  Releasing(c)
  BY StepEffect DEF ReleaseConnection, serverVars, serverSide, Behind, Releasing

Deleting(c) ==
  /\ caller[c].pc = "release" /\ Moves(c, "done") /\ Same(c) /\ c \in OwnsConnection
  /\ UNCHANGED <<Behind, backlog, lock, cut>>
  /\ \E end \in {"shut", "reset"} : Conn(c, conn[c].in, conn[c].out, end)

LEMMA DeleteEffect ==
  ASSUME TypeInv, NEW c \in Caller, DeleteConnection(c)
  PROVE  Deleting(c)
<1> USE DEF Deleting
<1>1. PICK end \in {"shut", "reset"} : conn' = [conn EXCEPT ![c].client = end]
  BY DEF DeleteConnection
<1>2. c \in OwnsConnection /\ c \in Peer
  BY ClientAssumption DEF DeleteConnection
<1>3. Conn(c, conn[c].in, conn[c].out, end)
  BY <1>1, <1>2 DEF Conn, OthersC, TypeInv
<1>. QED BY <1>2, <1>3, StepEffect DEF DeleteConnection, serverSide, Behind

Dying(c) ==
  /\ c \in Killable /\ caller[c].pc \in {"head", "body"} /\ Moves(c, "done")
  /\ caller'[c].result = "killed" /\ UNCHANGED <<Behind, backlog, cut>>
  /\ \/ c \notin OwnsConnection /\ UNCHANGED conn
     \/ c \in OwnsConnection /\ \E end \in {"shut", "reset"} : Conn(c, conn[c].in, conn[c].out, end)
  /\ lock' = [l \in DOMAIN lock |-> IF lock[l] = c THEN NoOne ELSE lock[l]]

LEMMA KilledEffect ==
  ASSUME TypeInv, NEW c \in Caller, CallerKilled(c)
  PROVE  Dying(c)
<1> USE DEF Dying
<1>1. /\ c \in Killable /\ caller[c].pc \in {"head", "body"} /\ UNCHANGED <<Behind, backlog, cut>>
      /\ lock' = [l \in DOMAIN lock |-> IF lock[l] = c THEN NoOne ELSE lock[l]]
      /\ caller' = [caller EXCEPT ![c].pc = "done", ![c].result = "killed"]
  BY DEF CallerKilled, serverSide, Behind
<1>2. Moves(c, "done") /\ caller'[c].result = "killed"
  BY <1>1 DEF Moves, OthersU, TypeInv
<1>3. CASE c \notin OwnsConnection
  BY <1>1, <1>2, <1>3 DEF CallerKilled
<1>4. CASE c \in OwnsConnection
  <2>1. PICK end \in {"shut", "reset"} : conn' = [conn EXCEPT ![c].client = end]
    BY <1>4 DEF CallerKilled
  <2>2. Conn(c, conn[c].in, conn[c].out, end)
    BY <1>4, <2>1, ClientAssumption DEF Conn, OthersC, TypeInv
  <2>. QED BY <1>1, <1>2, <1>4, <2>2
<1>. QED BY <1>3, <1>4

LEMMA NextType == TypeInv /\ OnceInv /\ SocketNext => TypeInv'
<1> SUFFICES ASSUME TypeInv, OnceInv, SocketNext PROVE TypeInv'
  OBVIOUS
<1> USE DEF TypeInv
<1>1. CASE Loop /\ UNCHANGED <<messageVars, clientVars>>
  <2>1. Free # {} => Lowest(Free) \in 0 .. MaxFd
    BY LowestFree DEF Free
  <2>2. backlog # <<>> => Head(backlog) \in Peer /\ Tail(backlog) \in Seq(Peer)
    OBVIOUS
  <2>3. CASE Accept
    BY <1>1, <2>1, <2>2, <2>3 DEF Accept, messageVars, clientVars
  <2>4. CASE AcceptWatched
    BY <1>1, <2>1, <2>2, <2>4 DEF AcceptWatched, messageVars, clientVars
  <2>5. CASE \E fd \in 0 .. MaxFd : HandOver(fd)
    BY ZenonT(60), <1>1, <2>5 DEF HandOver, messageVars, clientVars
  <2>. QED BY <1>1, <2>3, <2>4, <2>5 DEF Loop
<1>2. CASE \E t \in Peer : TakeDescriptor(t) /\ UNCHANGED <<messageVars, clientVars>>
  BY <1>2 DEF TakeDescriptor, messageVars, clientVars
<1>3. ASSUME NEW p \in Peer, ClientStep(p), UNCHANGED clientVars PROVE TypeInv'
  <2>1. CASE ClientConnects(p)
    BY <1>3, <2>1 DEF ClientConnects, Connect, clientVars
  <2>2. CASE ClientSends(p)
    BY <1>3, <2>2 DEF ClientSends, clientVars
  <2>3. CASE ClientReads(p)
    BY <1>3, <2>3 DEF ClientReads, clientVars
  <2>. QED BY <1>3, <2>1, <2>2, <2>3 DEF ClientStep
<1>4. ASSUME NEW t \in Peer, TextStep(t), UNCHANGED clientVars PROVE TypeInv'
  <2>1. CASE ReceiveText(t)
    BY <1>4, <2>1 DEF ReceiveText, EnterRecv, Terminate, clientVars, messageVars
  <2>2. CASE TextReceived(t)
    BY <1>4, <2>2 DEF TextReceived, ReceivedEnd, Received, clientVars, messageVars
  <2>3. CASE WriteMessage(t)
    <3>1. thread[t].got[2] \in Peer
      BY <2>3 DEF WriteMessage, OnceInv, GotInv
    <3>2. files' \in [Destination -> Seq(Peer)]
      BY <2>3, <3>1 DEF WriteMessage, Stored
    <3>. QED BY <1>4, <2>3, <3>2 DEF WriteMessage, clientVars
  <2>4. CASE InvokeMethod(t)
    BY <1>4, <2>4 DEF InvokeMethod, clientVars, messageVars
  <2>5. CASE AnswerText(t)
    BY <1>4, <2>5 DEF AnswerText, SendTo, clientVars, messageVars
  <2>6. CASE CloseText(t)
    BY <1>4, <2>6 DEF CloseText, Close, clientVars, messageVars
  <2>. QED BY <1>4, <2>1, <2>2, <2>3, <2>4, <2>5, <2>6 DEF TextStep
<1>5. ASSUME NEW c \in Caller, CallerStep(c) \/ CallerKilled(c) PROVE TypeInv'
  <2> USE DEF Step, Throw, serverVars, serverSide, messageVars
  <2>1. CASE GetPooledConnection(c)
    BY <2>1 DEF GetPooledConnection
  <2>2. CASE GetOwnConnection(c)
    BY <2>2, ClientAssumption DEF GetOwnConnection, Connect
  <2>3. CASE LockConnection(c)
    BY <2>3 DEF LockConnection
  <2>4. CASE SendQuery(c)
    BY ZenonT(60), <2>4 DEF SendQuery
  <2>5. CASE ReadLength(c)
    <3>1. UNCHANGED <<serverSide, messageVars, lock>> /\ DOMAIN caller' = Caller /\ DOMAIN conn' = Peer
      BY <2>5 DEF ReadLength, Takes
    <3>2. \A d \in Caller : DOMAIN caller'[d] = DOMAIN caller[d]
      BY <2>5 DEF ReadLength, Takes
    <3>3. \A p \in Peer : DOMAIN conn'[p] = DOMAIN conn[p]
      <4>1. \/ conn' = conn
            \/ conn' = [conn EXCEPT ![On(c)].out = Tail(@)]
            \/ conn' = [conn EXCEPT ![On(c)].out = <<>>]
        BY <2>5 DEF ReadLength, Takes
      <4>. QED BY <4>1
    <3>. QED BY <3>1, <3>2, <3>3
  <2>6. CASE ReadLengthAtEnd(c)
    BY <2>6 DEF ReadLengthAtEnd
  <2>7. CASE ReadAnswer(c)
    BY <2>7 DEF ReadAnswer
  <2>8. CASE UnlockConnection(c)
    BY <2>8 DEF UnlockConnection
  <2>9. CASE ReleaseConnection(c)
    BY <2>9 DEF ReleaseConnection
  <2>10. CASE DeleteConnection(c)
    BY <2>10 DEF DeleteConnection
  <2>11. CASE CallerKilled(c)
    BY <2>11 DEF CallerKilled
  <2>. QED
    BY <1>5, <2>1, <2>2, <2>3, <2>4, <2>5, <2>6, <2>7, <2>8, <2>9, <2>10, <2>11 DEF
         CallerStep
<1>6. ASSUME NEW t \in Peer, SessionStep(t) PROVE TypeInv'
  <2> USE DEF messageVars, clientVars
  <2>1. CASE ReceiveLength(t)
    BY <2>1 DEF ReceiveLength, EnterRecv, NoLength, Terminate
  <2>2. CASE LengthReceived(t)
    BY <2>2 DEF LengthReceived, ReceivedEnd, Received, NoLength, Terminate
  <2>3. CASE ReceiveQuery(t)
    BY <2>3 DEF ReceiveQuery, EnterRecv
  <2>4. CASE QueryReceived(t)
    BY <2>4 DEF QueryReceived, ReceivedEnd, Received
  <2>5. CASE AnswerQuery(t)
    BY ZenonT(60), <2>5 DEF AnswerQuery, Sent, Terminate
  <2>6. CASE CloseSession(t)
    BY <2>6 DEF CloseSession, Close
  <2>. QED BY <1>6, <2>1, <2>2, <2>3, <2>4, <2>5, <2>6 DEF SessionStep
<1>. QED BY <1>1, <1>2, <1>3, <1>4, <1>5, <1>6 DEF SocketNext, MessageNext, ClientNext

LEMMA OnPeer ==
  ASSUME PhaseInv, LockInv, NEW c \in Caller, caller[c].pc # "idle"
  PROVE  On(c) \in Peer /\ service = "cache"
  BY DEF PhaseInv, LockInv

LEMMA NextPhase ==
  ASSUME TypeInv, PhaseInv, LockInv, SocketNext
  PROVE  PhaseInv'
<1>1. ASSUME Loop, UNCHANGED <<messageVars, clientVars>> PROVE PhaseInv'
  <2>1. CASE Accept
    <3>1. Accepting
      BY <1>1, <2>1, AcceptEffect
    <3>. QED
      BY <3>1 DEF Accepting, LoopVars, GoesOn, OthersT, Accepts, messageVars,
           clientVars, PhaseInv, TextPcs, SessionPcs
  <2>2. CASE AcceptWatched
    <3>1. AcceptingWatched
      BY <1>1, <2>2, AcceptWatchedEffect
    <3>. QED
      BY <3>1 DEF AcceptingWatched, LoopVars, Accepts, messageVars, clientVars,
           PhaseInv, TextPcs, SessionPcs
  <2>3. ASSUME NEW f \in 0 .. MaxFd, HandOver(f) PROVE PhaseInv'
    <3>0. PICK p : p = table[f]
      OBVIOUS
    <3>1. HandingOver(f, p)
      BY <1>1, <2>3, <3>0, HandOverEffect
    <3>. QED
      BY <3>0, <3>1 DEF HandingOver, LoopVars, GoesOn, OthersT, messageVars, clientVars,
           PhaseInv, TextPcs, SessionPcs
  <2>. QED BY <1>1, <2>1, <2>2, <2>3 DEF Loop
<1>2. ASSUME NEW t \in Peer, TakeDescriptor(t), UNCHANGED <<messageVars, clientVars>> PROVE PhaseInv'
  <2>1. Taking(t)
    BY <1>2, TakeEffect
  <2>. QED
    BY <2>1 DEF Taking, OthersT, messageVars, clientVars, PhaseInv, TextPcs, SessionPcs
<1>3. ASSUME NEW p \in Peer, ClientStep(p), UNCHANGED clientVars PROVE PhaseInv'
  <2>1. CASE ClientConnects(p)
    <3>1. Connecting(p)
      BY <1>3, <2>1, ClientConnectsEffect
    <3>. QED
      BY <3>1 DEF Connecting, Conn, OthersC, OthersP, clientVars, PhaseInv, TextPcs,
           SessionPcs
  <2>2. CASE ClientSends(p)
    <3>1. Sending(p)
      BY <1>3, <2>2, ClientSendsEffect
    <3>. QED
      BY <3>1 DEF Sending, ServerOnly, Conn, OthersC, OthersP, clientVars, PhaseInv,
           TextPcs, SessionPcs
  <2>3. CASE ClientReads(p)
    <3>1. Reading(p)
      BY <1>3, <2>3, ClientReadsEffect
    <3>. QED
      BY <3>1 DEF Reading, ServerOnly, Conn, OthersC, OthersP, clientVars, PhaseInv,
           TextPcs, SessionPcs
  <2>. QED BY <1>3, <2>1, <2>2, <2>3 DEF ClientStep
<1>4. ASSUME NEW t \in Peer, TextStep(t), UNCHANGED clientVars PROVE PhaseInv'
  <2>1. CASE ReceiveText(t)
    <3>1. ReceivingText(t)
      BY <1>4, <2>1, ReceiveTextEffect
    <3>. QED
      BY <3>1 DEF ReceivingText, Waits, Ends, ServiceVars, Enters, OthersT, clientVars,
           PhaseInv, TextPcs, SessionPcs
  <2>2. CASE TextReceived(t)
    <3>0. PICK p : p = thread[t].hold
      OBVIOUS
    <3>1. GettingText(t, p)
      BY <1>4, <2>2, <3>0, TextReceivedEffect
    <3>. QED
      BY ZenonT(60), <3>0, <3>1 DEF GettingText, ServiceVars, Leaves, OthersT, Conn, OthersC,
           clientVars, PhaseInv, TextPcs, SessionPcs
  <2>3. CASE WriteMessage(t)
    <3>1. Writing(t)
      BY <1>4, <2>3, WriteMessageEffect
    <3>. QED
      BY <3>1 DEF Writing, GoesOn, OthersT, clientVars, PhaseInv, TextPcs, SessionPcs
  <2>4. CASE InvokeMethod(t)
    <3>1. Invoking(t)
      BY <1>4, <2>4, InvokeMethodEffect
    <3>. QED
      BY <3>1 DEF Invoking, ServiceVars, GoesOn, OthersT, clientVars, PhaseInv, TextPcs,
           SessionPcs
  <2>5. CASE AnswerText(t)
    <3>1. AnsweringText(t)
      BY <1>4, <2>5, AnswerTextEffect
    <3>. QED
      BY <3>1 DEF AnsweringText, ServiceVars, GoesOn, OthersT, Conn, OthersC,
           clientVars, PhaseInv, TextPcs, SessionPcs
  <2>6. CASE CloseText(t)
    <3>1. ClosingText(t)
      BY <1>4, <2>6, CloseTextEffect
    <3>. QED
      BY <3>1 DEF ClosingText, Closes, GoesOn, OthersT, clientVars, PhaseInv, TextPcs,
           SessionPcs
  <2>. QED BY <1>4, <2>1, <2>2, <2>3, <2>4, <2>5, <2>6 DEF TextStep
<1>5. ASSUME NEW c \in Caller, CallerStep(c) \/ CallerKilled(c) PROVE PhaseInv'
  <2>1. CASE GetPooledConnection(c)
    <3>1. TakingPooled(c)
      BY <1>5, <2>1, GetPooledEffect
    <3>. QED
      BY <3>1 DEF TakingPooled, OthersU, Same, Behind, serverSide, messageVars,
           PhaseInv, TextPcs, SessionPcs
  <2>2. CASE GetOwnConnection(c)
    <3>1. Opening(c)
      BY <1>5, <2>2, GetOwnEffect
    <3>. QED
      BY <3>1 DEF Opening, Conn, OthersC, OthersU, Same, Behind, serverSide,
           messageVars, PhaseInv, TextPcs, SessionPcs
  <2>3. CASE LockConnection(c)
    <3>1. Locking(c)
      BY <1>5, <2>3, LockEffect
    <3>. QED
      BY <3>1 DEF Locking, Moves, OthersU, Same, Behind, serverSide, messageVars,
           PhaseInv, TextPcs, SessionPcs
  <2>4. CASE SendQuery(c)
    <3>1. Asking(c)
      BY <1>5, <2>4, SendQueryEffect, OnPeer DEF SendQuery
    <3>. QED
      BY <3>1 DEF Asking, Moves, OthersU, Same, Conn, OthersC, Behind, serverSide,
           messageVars, PhaseInv, TextPcs, SessionPcs
  <2>5. CASE ReadLength(c)
    <3>0. PICK out : out = conn[On(c)].out
      OBVIOUS
    <3>1. ReadingLength(c, out)
      BY <1>5, <2>5, <3>0, ReadLengthEffect, OnPeer DEF ReadLength
    <3>. QED
      BY <3>0, <3>1 DEF ReadingLength, OthersC, OthersU, Same, Behind, serverSide,
           messageVars, PhaseInv, TextPcs, SessionPcs
  <2>6. CASE ReadLengthAtEnd(c)
    <3>1. ReadingEnd(c)
      BY <1>5, <2>6, ReadLengthAtEndEffect
    <3>. QED
      BY <3>1 DEF ReadingEnd, Moves, OthersU, Behind, serverSide, messageVars, PhaseInv,
           TextPcs, SessionPcs
  <2>7. CASE ReadAnswer(c)
    <3>0. PICK out : out = conn[On(c)].out
      OBVIOUS
    <3>1. ReadingAnswer(c, out)
      BY <1>5, <2>7, <3>0, ReadAnswerEffect, OnPeer DEF ReadAnswer
    <3>. QED
      BY <3>0, <3>1 DEF ReadingAnswer, Moves, OthersU, OthersC, Behind, serverSide,
           messageVars, PhaseInv, TextPcs, SessionPcs
  <2>8. CASE UnlockConnection(c)
    <3>1. Unlocking(c)
      BY <1>5, <2>8, UnlockEffect
    <3>. QED
      BY <3>1 DEF Unlocking, Moves, OthersU, Same, Behind, serverSide, messageVars,
           PhaseInv, TextPcs, SessionPcs
  <2>9. CASE ReleaseConnection(c)
    <3>1. Releasing(c)
      BY <1>5, <2>9, ReleaseEffect
    <3>. QED
      BY <3>1 DEF Releasing, Moves, OthersU, Same, Behind, serverSide, messageVars,
           PhaseInv, TextPcs, SessionPcs
  <2>10. CASE DeleteConnection(c)
    <3>1. Deleting(c)
      BY <1>5, <2>10, DeleteEffect
    <3>. QED
      BY <3>1 DEF Deleting, Moves, OthersU, Same, Conn, OthersC, Behind, serverSide,
           messageVars, PhaseInv, TextPcs, SessionPcs
  <2>11. CASE CallerKilled(c)
    <3>1. Dying(c)
      BY <1>5, <2>11, KilledEffect
    <3>. QED
      BY <3>1 DEF Dying, Moves, OthersU, Conn, OthersC, Behind, serverSide, messageVars,
           PhaseInv, TextPcs, SessionPcs
  <2>. QED
    BY <1>5, <2>1, <2>2, <2>3, <2>4, <2>5, <2>6, <2>7, <2>8, <2>9, <2>10, <2>11 DEF
         CallerStep
<1>6. ASSUME NEW t \in Peer, SessionStep(t) PROVE PhaseInv'
  <2>1. CASE ReceiveLength(t)
    <3>1. ReceivingLength(t)
      BY <1>6, <2>1, ReceiveLengthEffect
    <3>2. /\ service = "cache" /\ UNCHANGED <<service, files, call, caller>>
        /\ \A u \in Peer : u # t => thread'[u] = thread[u]
      BY <3>1 DEF ReceivingLength, Waits, Ends, ServiceVars, Enters, Leaves, OthersT,
           messageVars, clientVars, PhaseInv, SessionPcs
    <3>3. \/ thread'[t] = thread[t]
        \/ /\ thread'[t].pc \in SessionPcs \cup {"done"}
           /\ thread'[t].pc \in {"length", "body"} => thread'[t].hold \in Peer
      BY <3>1 DEF ReceivingLength, Waits, Ends, ServiceVars, Enters, Leaves, OthersT,
           SessionPcs
    <3>. QED BY <3>2, <3>3 DEF PhaseInv, TextPcs, SessionPcs
  <2>2. CASE LengthReceived(t)
    <3>0. PICK p : p = thread[t].hold
      OBVIOUS
    <3>1. GettingLength(t, p)
      BY <1>6, <2>2, <3>0, LengthReceivedEffect DEF LengthReceived, PhaseInv
    <3>2. /\ service = "cache" /\ UNCHANGED <<service, files, call, caller>>
        /\ \A u \in Peer : u # t => thread'[u] = thread[u]
      BY <3>0, <3>1 DEF GettingLength, Ends, ServiceVars, Leaves, OthersT, Conn,
           OthersC, messageVars, clientVars, PhaseInv, SessionPcs
    <3>3. \/ thread'[t] = thread[t]
        \/ /\ thread'[t].pc \in SessionPcs \cup {"done"}
           /\ thread'[t].pc \in {"length", "body"} => thread'[t].hold \in Peer
      BY <3>0, <3>1 DEF GettingLength, Ends, ServiceVars, Leaves, OthersT, Conn,
           OthersC, SessionPcs
    <3>. QED BY <3>2, <3>3 DEF PhaseInv, TextPcs, SessionPcs
  <2>3. CASE ReceiveQuery(t)
    <3>1. ReceivingQuery(t)
      BY <1>6, <2>3, ReceiveQueryEffect
    <3>. QED
      BY ZenonT(60), <3>1 DEF ReceivingQuery, Waits, ServiceVars, Enters, OthersT, messageVars,
           clientVars, PhaseInv, TextPcs, SessionPcs
  <2>4. CASE QueryReceived(t)
    <3>0. PICK p : p = thread[t].hold
      OBVIOUS
    <3>1. GettingQuery(t, p)
      BY <1>6, <2>4, <3>0, QueryReceivedEffect DEF QueryReceived, PhaseInv
    <3>. QED
      BY <3>0, <3>1 DEF GettingQuery, ServiceVars, Leaves, OthersT, Conn, OthersC,
           messageVars, clientVars, PhaseInv, TextPcs, SessionPcs
  <2>5. CASE AnswerQuery(t)
    <3>1. AnsweringQuery(t)
      BY <1>6, <2>5, AnswerQueryEffect
    <3>. QED
      BY ZenonT(60), <3>1 DEF AnsweringQuery, ServiceVars, GoesOn, OthersT, Conn, OthersC, Ends,
           messageVars, clientVars, PhaseInv, TextPcs, SessionPcs
  <2>6. CASE CloseSession(t)
    <3>1. ClosingSession(t)
      BY <1>6, <2>6, CloseSessionEffect
    <3>2. /\ service = "cache" /\ UNCHANGED <<service, files, call, caller>>
        /\ \A u \in Peer : u # t => thread'[u] = thread[u]
      BY <3>1 DEF ClosingSession, Closes, GoesOn, OthersT, messageVars, clientVars,
           PhaseInv, SessionPcs
    <3>3. \/ thread'[t] = thread[t]
        \/ /\ thread'[t].pc \in SessionPcs \cup {"done"}
           /\ thread'[t].pc \in {"length", "body"} => thread'[t].hold \in Peer
      BY <3>1 DEF ClosingSession, Closes, GoesOn, OthersT, SessionPcs
    <3>. QED BY <3>2, <3>3 DEF PhaseInv, TextPcs, SessionPcs
  <2>. QED BY <1>6, <2>1, <2>2, <2>3, <2>4, <2>5, <2>6 DEF SessionStep
<1>. QED BY <1>1, <1>2, <1>3, <1>4, <1>5, <1>6 DEF SocketNext, MessageNext, ClientNext

LEMMA NextLock ==
  ASSUME TypeInv, PhaseInv, LockInv, SocketNext
  PROVE  LockInv'
<1>1. ASSUME Loop, UNCHANGED <<messageVars, clientVars>> PROVE LockInv'
  <2>1. CASE Accept
    <3>1. Accepting
      BY <1>1, <2>1, AcceptEffect
    <3>. QED
      BY <3>1 DEF Accepting, LoopVars, GoesOn, OthersT, Accepts, messageVars,
           clientVars, LockInv, On, LockOf, InUse
  <2>2. CASE AcceptWatched
    <3>1. AcceptingWatched
      BY <1>1, <2>2, AcceptWatchedEffect
    <3>. QED
      BY <3>1 DEF AcceptingWatched, LoopVars, Accepts, messageVars, clientVars, LockInv,
           On, LockOf, InUse
  <2>3. ASSUME NEW f \in 0 .. MaxFd, HandOver(f) PROVE LockInv'
    <3>0. PICK p : p = table[f]
      OBVIOUS
    <3>1. HandingOver(f, p)
      BY <1>1, <2>3, <3>0, HandOverEffect
    <3>. QED
      BY <3>0, <3>1 DEF HandingOver, LoopVars, GoesOn, OthersT, messageVars, clientVars,
           LockInv, On, LockOf, InUse
  <2>. QED BY <1>1, <2>1, <2>2, <2>3 DEF Loop
<1>2. ASSUME NEW t \in Peer, TakeDescriptor(t), UNCHANGED <<messageVars, clientVars>> PROVE LockInv'
  <2>1. Taking(t)
    BY <1>2, TakeEffect
  <2>. QED
    BY <2>1 DEF Taking, OthersT, messageVars, clientVars, LockInv, On, LockOf, InUse
<1>3. ASSUME NEW p \in Peer, ClientStep(p), UNCHANGED clientVars PROVE LockInv'
  <2>1. CASE ClientConnects(p)
    <3>1. Connecting(p)
      BY <1>3, <2>1, ClientConnectsEffect
    <3>. QED
      BY <3>1 DEF Connecting, Conn, OthersC, OthersP, clientVars, LockInv, On, LockOf,
           InUse
  <2>2. CASE ClientSends(p)
    <3>1. Sending(p)
      BY <1>3, <2>2, ClientSendsEffect
    <3>. QED
      BY <3>1 DEF Sending, ServerOnly, Conn, OthersC, OthersP, clientVars, LockInv, On,
           LockOf, InUse
  <2>3. CASE ClientReads(p)
    <3>1. Reading(p)
      BY <1>3, <2>3, ClientReadsEffect
    <3>. QED
      BY <3>1 DEF Reading, ServerOnly, Conn, OthersC, OthersP, clientVars, LockInv, On,
           LockOf, InUse
  <2>. QED BY <1>3, <2>1, <2>2, <2>3 DEF ClientStep
<1>4. ASSUME NEW t \in Peer, TextStep(t), UNCHANGED clientVars PROVE LockInv'
  <2>1. CASE ReceiveText(t)
    <3>1. ReceivingText(t)
      BY <1>4, <2>1, ReceiveTextEffect
    <3>. QED
      BY <3>1 DEF ReceivingText, Waits, Ends, ServiceVars, Enters, OthersT, clientVars,
           LockInv, On, LockOf, InUse
  <2>2. CASE TextReceived(t)
    <3>0. PICK p : p = thread[t].hold
      OBVIOUS
    <3>1. GettingText(t, p)
      BY <1>4, <2>2, <3>0, TextReceivedEffect
    <3>. QED
      BY <3>0, <3>1 DEF GettingText, ServiceVars, Leaves, OthersT, Conn, OthersC,
           clientVars, LockInv, On, LockOf, InUse
  <2>3. CASE WriteMessage(t)
    <3>1. Writing(t)
      BY <1>4, <2>3, WriteMessageEffect
    <3>. QED
      BY <3>1 DEF Writing, GoesOn, OthersT, clientVars, LockInv, On, LockOf, InUse
  <2>4. CASE InvokeMethod(t)
    <3>1. Invoking(t)
      BY <1>4, <2>4, InvokeMethodEffect
    <3>. QED
      BY <3>1 DEF Invoking, ServiceVars, GoesOn, OthersT, clientVars, LockInv, On,
           LockOf, InUse
  <2>5. CASE AnswerText(t)
    <3>1. AnsweringText(t)
      BY <1>4, <2>5, AnswerTextEffect
    <3>. QED
      BY <3>1 DEF AnsweringText, ServiceVars, GoesOn, OthersT, Conn, OthersC,
           clientVars, LockInv, On, LockOf, InUse
  <2>6. CASE CloseText(t)
    <3>1. ClosingText(t)
      BY <1>4, <2>6, CloseTextEffect
    <3>. QED
      BY <3>1 DEF ClosingText, Closes, GoesOn, OthersT, clientVars, LockInv, On, LockOf,
           InUse
  <2>. QED BY <1>4, <2>1, <2>2, <2>3, <2>4, <2>5, <2>6 DEF TextStep
<1>5. ASSUME NEW c \in Caller, CallerStep(c) \/ CallerKilled(c) PROVE LockInv'
  <2>1. CASE GetPooledConnection(c)
    <3>1. TakingPooled(c)
      BY <1>5, <2>1, GetPooledEffect
    <3>. QED
      BY <3>1, ClientAssumption DEF TakingPooled, OthersU, Same, Behind, serverSide,
           messageVars, LockInv, On, LockOf, InUse
  <2>2. CASE GetOwnConnection(c)
    <3>1. Opening(c)
      BY <1>5, <2>2, GetOwnEffect
    <3>. QED
      BY <3>1, ClientAssumption DEF Opening, Conn, OthersC, OthersU, Same, Behind,
           serverSide, messageVars, LockInv, On, LockOf, InUse
  <2>3. CASE LockConnection(c)
    <3>1. Locking(c)
      BY <1>5, <2>3, LockEffect
    <3>2. LockOf(c) \in DOMAIN lock /\ ProcessOf[c] \in Process
      BY <3>1, ClientAssumption DEF Locking, LockInv, LockOf, TypeInv
    <3>3. \A d \in Caller : d # c => caller'[d] = caller[d]
      BY <3>1 DEF Locking, Moves, OthersU
    <3>4. lock'[LockOf(c)] = c /\ \A l \in DOMAIN lock : l # LockOf(c) => lock'[l] = lock[l]
      BY <3>1, <3>2 DEF Locking
    <3>5. \A d \in Caller : d # c /\ caller[d].pc \in InUse => lock[LockOf(d)] = d /\ LockOf(d) \in DOMAIN lock
      BY ClientAssumption DEF LockInv, LockOf, InUse, TypeInv
    <3>6. \A d \in Caller : d # c /\ caller[d].pc \in InUse => LockOf(d) # LockOf(c)
      BY <3>1, <3>5, ClientAssumption DEF Locking, LockInv, InUse
    <3>7. caller[c].pc # "idle" /\ caller'[c].conn = caller[c].conn /\ caller'[c].pc = "send"
      BY <3>1 DEF Locking, Moves
    <3>. QED BY <3>3, <3>4, <3>5, <3>6, <3>7 DEF LockInv, On, LockOf, InUse
  <2>4. CASE SendQuery(c)
    <3>1. Asking(c)
      BY <1>5, <2>4, SendQueryEffect, OnPeer DEF SendQuery
    <3>. QED
      BY <3>1 DEF Asking, Moves, OthersU, Same, Conn, OthersC, Behind, serverSide,
           messageVars, LockInv, On, LockOf, InUse
  <2>5. CASE ReadLength(c)
    <3>0. PICK out : out = conn[On(c)].out
      OBVIOUS
    <3>1. ReadingLength(c, out)
      BY <1>5, <2>5, <3>0, ReadLengthEffect, OnPeer DEF ReadLength
    <3>. QED
      BY <3>0, <3>1 DEF ReadingLength, OthersC, OthersU, Same, Behind, serverSide,
           messageVars, LockInv, On, LockOf, InUse
  <2>6. CASE ReadLengthAtEnd(c)
    <3>1. ReadingEnd(c)
      BY <1>5, <2>6, ReadLengthAtEndEffect
    <3>. QED
      BY <3>1 DEF ReadingEnd, Moves, OthersU, Behind, serverSide, messageVars, LockInv,
           On, LockOf, InUse
  <2>7. CASE ReadAnswer(c)
    <3>0. PICK out : out = conn[On(c)].out
      OBVIOUS
    <3>1. ReadingAnswer(c, out)
      BY <1>5, <2>7, <3>0, ReadAnswerEffect, OnPeer DEF ReadAnswer
    <3>. QED
      BY <3>0, <3>1 DEF ReadingAnswer, Moves, OthersU, OthersC, Behind, serverSide,
           messageVars, LockInv, On, LockOf, InUse
  <2>8. CASE UnlockConnection(c)
    <3>1. Unlocking(c)
      BY <1>5, <2>8, UnlockEffect
    <3>2. LockOf(c) \in DOMAIN lock /\ ProcessOf[c] \in Process
      BY <3>1, ClientAssumption DEF Unlocking, LockInv, LockOf, TypeInv
    <3>3. \A d \in Caller : d # c => caller'[d] = caller[d]
      BY <3>1 DEF Unlocking, Moves, OthersU
    <3>4. lock'[LockOf(c)] = NoOne /\ \A l \in DOMAIN lock : l # LockOf(c) => lock'[l] = lock[l]
      BY <3>1, <3>2 DEF Unlocking
    <3>5. \A d \in Caller : d # c /\ caller[d].pc \in InUse => lock[LockOf(d)] = d /\ LockOf(d) \in DOMAIN lock
      BY ClientAssumption DEF LockInv, LockOf, InUse, TypeInv
    <3>6. \A d \in Caller : d # c /\ caller[d].pc \in InUse => LockOf(d) # LockOf(c)
      BY <3>1, <3>5, ClientAssumption DEF Unlocking, LockInv, InUse
    <3>7. caller[c].pc # "idle" /\ caller'[c].conn = caller[c].conn /\ caller'[c].pc = "release"
      BY <3>1 DEF Unlocking, Moves
    <3>. QED BY <3>3, <3>4, <3>5, <3>6, <3>7 DEF LockInv, On, LockOf, InUse
  <2>9. CASE ReleaseConnection(c)
    <3>1. Releasing(c)
      BY <1>5, <2>9, ReleaseEffect
    <3>. QED
      BY <3>1 DEF Releasing, Moves, OthersU, Same, Behind, serverSide, messageVars,
           LockInv, On, LockOf, InUse
  <2>10. CASE DeleteConnection(c)
    <3>1. Deleting(c)
      BY <1>5, <2>10, DeleteEffect
    <3>. QED
      BY <3>1, ClientAssumption DEF Deleting, Moves, OthersU, Same, Conn, OthersC,
           Behind, serverSide, messageVars, LockInv, On, LockOf, InUse
  <2>11. CASE CallerKilled(c)
    <3>1. Dying(c)
      BY <1>5, <2>11, KilledEffect
    <3>2. /\ \A d \in Caller : d # c => caller'[d] = caller[d]
        /\ caller[c].pc # "idle" /\ caller'[c].conn = caller[c].conn /\ caller'[c].pc = "done"
      BY <3>1 DEF Dying, Moves, OthersU
    <3>3. \A d \in Caller : d # c /\ caller[d].pc \in InUse => lock[LockOf(d)] = d /\ LockOf(d) \in DOMAIN lock
      BY ClientAssumption DEF LockInv, LockOf, InUse, TypeInv
    <3>4. \A d \in Caller : d # c /\ caller[d].pc \in InUse => lock'[LockOf(d)] = d
      BY <3>1, <3>3 DEF Dying
    <3>. QED BY <3>2, <3>4 DEF LockInv, On, LockOf, InUse
  <2>. QED
    BY <1>5, <2>1, <2>2, <2>3, <2>4, <2>5, <2>6, <2>7, <2>8, <2>9, <2>10, <2>11 DEF
         CallerStep
<1>6. ASSUME NEW t \in Peer, SessionStep(t) PROVE LockInv'
  <2>1. CASE ReceiveLength(t)
    <3>1. ReceivingLength(t)
      BY <1>6, <2>1, ReceiveLengthEffect
    <3>. QED
      BY <3>1 DEF ReceivingLength, Waits, Ends, ServiceVars, Enters, Leaves, OthersT,
           messageVars, clientVars, LockInv, On, LockOf, InUse
  <2>2. CASE LengthReceived(t)
    <3>0. PICK p : p = thread[t].hold
      OBVIOUS
    <3>1. GettingLength(t, p)
      BY <1>6, <2>2, <3>0, LengthReceivedEffect DEF LengthReceived, PhaseInv
    <3>. QED
      BY <3>0, <3>1 DEF GettingLength, Ends, ServiceVars, Leaves, OthersT, Conn,
           OthersC, messageVars, clientVars, LockInv, On, LockOf, InUse
  <2>3. CASE ReceiveQuery(t)
    <3>1. ReceivingQuery(t)
      BY <1>6, <2>3, ReceiveQueryEffect
    <3>. QED
      BY <3>1 DEF ReceivingQuery, Waits, ServiceVars, Enters, OthersT, messageVars,
           clientVars, LockInv, On, LockOf, InUse
  <2>4. CASE QueryReceived(t)
    <3>0. PICK p : p = thread[t].hold
      OBVIOUS
    <3>1. GettingQuery(t, p)
      BY <1>6, <2>4, <3>0, QueryReceivedEffect DEF QueryReceived, PhaseInv
    <3>. QED
      BY <3>0, <3>1 DEF GettingQuery, ServiceVars, Leaves, OthersT, Conn, OthersC,
           messageVars, clientVars, LockInv, On, LockOf, InUse
  <2>5. CASE AnswerQuery(t)
    <3>1. AnsweringQuery(t)
      BY <1>6, <2>5, AnswerQueryEffect
    <3>. QED
      BY <3>1 DEF AnsweringQuery, ServiceVars, GoesOn, OthersT, Conn, OthersC, Ends,
           messageVars, clientVars, LockInv, On, LockOf, InUse
  <2>6. CASE CloseSession(t)
    <3>1. ClosingSession(t)
      BY <1>6, <2>6, CloseSessionEffect
    <3>. QED
      BY <3>1 DEF ClosingSession, Closes, GoesOn, OthersT, messageVars, clientVars,
           LockInv, On, LockOf, InUse
  <2>. QED BY <1>6, <2>1, <2>2, <2>3, <2>4, <2>5, <2>6 DEF SessionStep
<1>. QED BY <1>1, <1>2, <1>3, <1>4, <1>5, <1>6 DEF SocketNext, MessageNext, ClientNext

\* A connection stays connected.
LEMMA ConnectedFrame ==
  ASSUME ConnectedInv, UNCHANGED service,
         \A p \in Peer : call'[p].pc # "new" => call[p].pc # "new" \/ conn'[p].client # "new",
         \A c \in Caller : caller'[c].pc # "idle" => caller[c].pc # "idle",
         \A p \in Peer : conn'[p].client = "new" => conn[p].client = "new"
  PROVE  ConnectedInv'
  BY ClientAssumption DEF ConnectedInv

LEMMA NextConnected ==
  ASSUME TypeInv, PhaseInv, LockInv, ConnectedInv, SocketNext
  PROVE  ConnectedInv'
<1>1. ASSUME Loop, UNCHANGED <<messageVars, clientVars>> PROVE ConnectedInv'
  <2>1. CASE Accept
    <3>1. Accepting
      BY <1>1, <2>1, AcceptEffect
    <3>2. UNCHANGED <<service, call, caller>>
      BY <3>1 DEF Accepting, LoopVars, GoesOn, OthersT, Accepts, ServiceVars,
           messageVars, clientVars
    <3>3. \A p \in Peer : conn'[p].client = "new" => conn[p].client = "new"
      BY <3>1 DEF Accepting, LoopVars, GoesOn, OthersT, Accepts, LoopVars
    <3>. QED BY <3>2, <3>3, ConnectedFrame
  <2>2. CASE AcceptWatched
    <3>1. AcceptingWatched
      BY <1>1, <2>2, AcceptWatchedEffect
    <3>2. UNCHANGED <<service, call, caller>>
      BY <3>1 DEF AcceptingWatched, LoopVars, Accepts, ServiceVars, messageVars,
           clientVars
    <3>3. \A p \in Peer : conn'[p].client = "new" => conn[p].client = "new"
      BY <3>1 DEF AcceptingWatched, LoopVars, Accepts, LoopVars
    <3>. QED BY <3>2, <3>3, ConnectedFrame
  <2>3. ASSUME NEW f \in 0 .. MaxFd, HandOver(f) PROVE ConnectedInv'
    <3>0. PICK p : p = table[f]
      OBVIOUS
    <3>1. HandingOver(f, p)
      BY <1>1, <2>3, <3>0, HandOverEffect
    <3>2. UNCHANGED <<service, call, caller>>
      BY <3>0, <3>1 DEF HandingOver, LoopVars, GoesOn, OthersT, ServiceVars,
           messageVars, clientVars
    <3>3. \A q \in Peer : conn'[q].client = "new" => conn[q].client = "new"
      BY <3>0, <3>1 DEF HandingOver, LoopVars, GoesOn, OthersT, LoopVars
    <3>. QED BY <3>2, <3>3, ConnectedFrame
  <2>. QED BY <1>1, <2>1, <2>2, <2>3 DEF Loop
<1>2. ASSUME NEW t \in Peer, TakeDescriptor(t), UNCHANGED <<messageVars, clientVars>> PROVE ConnectedInv'
  <2>1. Taking(t)
    BY <1>2, TakeEffect
  <2>2. UNCHANGED <<service, call, caller>>
    BY <2>1 DEF Taking, OthersT, LoopVars, ServiceVars, messageVars, clientVars
  <2>3. \A p \in Peer : conn'[p].client = "new" => conn[p].client = "new"
    BY <2>1 DEF Taking, OthersT, LoopVars
  <2>. QED BY <2>2, <2>3, ConnectedFrame
<1>3. ASSUME NEW p \in Peer, ClientStep(p), UNCHANGED clientVars PROVE ConnectedInv'
  <2>1. CASE ClientConnects(p)
    <3>1. Connecting(p)
      BY <1>3, <2>1, ClientConnectsEffect
    <3>2. \A q \in Peer : conn'[q].client = "new" => conn[q].client = "new"
      BY <3>1 DEF Connecting, Conn, OthersC
    <3>3. \A q \in Peer : call'[q].pc # "new" => call[q].pc # "new" \/ conn'[q].client # "new"
      BY <3>1 DEF Connecting, Conn, OthersP
    <3>4. UNCHANGED <<service, caller>>
      BY <3>1 DEF Connecting, ServerOnly, clientVars
    <3>. QED BY <3>2, <3>3, <3>4, ConnectedFrame
  <2>2. CASE ClientSends(p)
    <3>1. Sending(p)
      BY <1>3, <2>2, ClientSendsEffect
    <3>2. \A q \in Peer : conn'[q].client = "new" => conn[q].client = "new"
      BY <3>1 DEF Sending, Conn, OthersC
    <3>3. \A q \in Peer : call'[q].pc # "new" => call[q].pc # "new" \/ conn'[q].client # "new"
      BY <3>1 DEF Sending, Conn, OthersP
    <3>4. UNCHANGED <<service, caller>>
      BY <3>1 DEF Sending, ServerOnly, clientVars
    <3>. QED BY <3>2, <3>3, <3>4, ConnectedFrame
  <2>3. CASE ClientReads(p)
    <3>1. Reading(p)
      BY <1>3, <2>3, ClientReadsEffect
    <3>2. \A q \in Peer : conn'[q].client = "new" => conn[q].client = "new"
      BY <3>1 DEF Reading, Conn, OthersC
    <3>3. \A q \in Peer : call'[q].pc # "new" => call[q].pc # "new" \/ conn'[q].client # "new"
      BY <3>1 DEF Reading, Conn, OthersP
    <3>4. UNCHANGED <<service, caller>>
      BY <3>1 DEF Reading, ServerOnly, clientVars
    <3>. QED BY <3>2, <3>3, <3>4, ConnectedFrame
  <2>. QED BY <1>3, <2>1, <2>2, <2>3 DEF ClientStep
<1>4. ASSUME NEW t \in Peer, TextStep(t), UNCHANGED clientVars PROVE ConnectedInv'
  <2>1. CASE ReceiveText(t)
    <3>1. ReceivingText(t)
      BY <1>4, <2>1, ReceiveTextEffect
    <3>2. UNCHANGED <<service, call, caller>>
      BY <3>1 DEF ReceivingText, Waits, Ends, ServiceVars, Enters, OthersT, LoopVars,
           messageVars, clientVars
    <3>3. \A p \in Peer : conn'[p].client = "new" => conn[p].client = "new"
      BY <3>1 DEF ReceivingText, Waits, Ends, ServiceVars, Enters, OthersT, LoopVars
    <3>. QED BY <3>2, <3>3, ConnectedFrame
  <2>2. CASE TextReceived(t)
    <3>0. PICK p : p = thread[t].hold
      OBVIOUS
    <3>1. GettingText(t, p)
      BY <1>4, <2>2, <3>0, TextReceivedEffect
    <3>2. UNCHANGED <<service, call, caller>>
      BY <3>0, <3>1 DEF GettingText, ServiceVars, Leaves, OthersT, Conn, OthersC,
           LoopVars, messageVars, clientVars
    <3>3. \A q \in Peer : conn'[q].client = "new" => conn[q].client = "new"
      BY <3>0, <3>1 DEF GettingText, ServiceVars, Leaves, OthersT, Conn, OthersC,
           LoopVars
    <3>. QED BY <3>2, <3>3, ConnectedFrame
  <2>3. CASE WriteMessage(t)
    <3>1. Writing(t)
      BY <1>4, <2>3, WriteMessageEffect
    <3>2. UNCHANGED <<service, call, caller>>
      BY <3>1 DEF Writing, GoesOn, OthersT, LoopVars, ServiceVars, messageVars,
           clientVars
    <3>3. \A p \in Peer : conn'[p].client = "new" => conn[p].client = "new"
      BY <3>1 DEF Writing, GoesOn, OthersT, LoopVars
    <3>. QED BY <3>2, <3>3, ConnectedFrame
  <2>4. CASE InvokeMethod(t)
    <3>1. Invoking(t)
      BY <1>4, <2>4, InvokeMethodEffect
    <3>2. UNCHANGED <<service, call, caller>>
      BY <3>1 DEF Invoking, ServiceVars, GoesOn, OthersT, LoopVars, messageVars,
           clientVars
    <3>3. \A p \in Peer : conn'[p].client = "new" => conn[p].client = "new"
      BY <3>1 DEF Invoking, ServiceVars, GoesOn, OthersT, LoopVars
    <3>. QED BY <3>2, <3>3, ConnectedFrame
  <2>5. CASE AnswerText(t)
    <3>1. AnsweringText(t)
      BY <1>4, <2>5, AnswerTextEffect
    <3>2. UNCHANGED <<service, call, caller>>
      BY <3>1 DEF AnsweringText, ServiceVars, GoesOn, OthersT, Conn, OthersC, LoopVars,
           messageVars, clientVars
    <3>3. \A p \in Peer : conn'[p].client = "new" => conn[p].client = "new"
      BY <3>1 DEF AnsweringText, ServiceVars, GoesOn, OthersT, Conn, OthersC, LoopVars
    <3>. QED BY <3>2, <3>3, ConnectedFrame
  <2>6. CASE CloseText(t)
    <3>1. ClosingText(t)
      BY <1>4, <2>6, CloseTextEffect
    <3>2. UNCHANGED <<service, call, caller>>
      BY <3>1 DEF ClosingText, Closes, GoesOn, OthersT, LoopVars, ServiceVars,
           messageVars, clientVars
    <3>3. \A p \in Peer : conn'[p].client = "new" => conn[p].client = "new"
      BY <3>1 DEF ClosingText, Closes, GoesOn, OthersT, LoopVars
    <3>. QED BY <3>2, <3>3, ConnectedFrame
  <2>. QED BY <1>4, <2>1, <2>2, <2>3, <2>4, <2>5, <2>6 DEF TextStep
<1>5. ASSUME NEW c \in Caller, CallerStep(c) \/ CallerKilled(c) PROVE ConnectedInv'
  <2>1. CASE GetPooledConnection(c)
    <3>1. TakingPooled(c)
      BY <1>5, <2>1, GetPooledEffect
    <3>. QED
      BY <3>1, ClientAssumption DEF TakingPooled, OthersU, Same, Behind, serverSide,
           messageVars, ConnectedInv
  <2>2. CASE GetOwnConnection(c)
    <3>1. Opening(c)
      BY <1>5, <2>2, GetOwnEffect
    <3>. QED
      BY <3>1, ClientAssumption DEF Opening, Conn, OthersC, OthersU, Same, Behind,
           serverSide, messageVars, ConnectedInv
  <2>3. CASE LockConnection(c)
    <3>1. Locking(c)
      BY <1>5, <2>3, LockEffect
    <3>. QED
      BY <3>1, ClientAssumption DEF Locking, Moves, OthersU, Same, Behind, serverSide,
           messageVars, ConnectedInv
  <2>4. CASE SendQuery(c)
    <3>1. Asking(c)
      BY <1>5, <2>4, SendQueryEffect, OnPeer DEF SendQuery
    <3>2. UNCHANGED <<service, call>>
      BY <3>1 DEF Asking, Behind, serverSide, messageVars
    <3>3. \A p \in Peer : conn'[p].client = "new" => conn[p].client = "new"
      BY <3>1 DEF Asking, Conn, OthersC
    <3>4. \A d \in Caller : caller'[d].pc # "idle" => caller[d].pc # "idle"
      BY <3>1 DEF Asking, Moves, OthersU
    <3>. QED BY <3>2, <3>3, <3>4, ConnectedFrame
  <2>5. CASE ReadLength(c)
    <3>0. PICK out : out = conn[On(c)].out
      OBVIOUS
    <3>1. ReadingLength(c, out)
      BY <1>5, <2>5, <3>0, ReadLengthEffect, OnPeer DEF ReadLength
    <3>. QED
      BY <3>0, <3>1, ClientAssumption DEF ReadingLength, OthersC, OthersU, Same, Behind,
           serverSide, messageVars, ConnectedInv
  <2>6. CASE ReadLengthAtEnd(c)
    <3>1. ReadingEnd(c)
      BY <1>5, <2>6, ReadLengthAtEndEffect
    <3>. QED
      BY <3>1, ClientAssumption DEF ReadingEnd, Moves, OthersU, Behind, serverSide,
           messageVars, ConnectedInv
  <2>7. CASE ReadAnswer(c)
    <3>0. PICK out : out = conn[On(c)].out
      OBVIOUS
    <3>1. ReadingAnswer(c, out)
      BY <1>5, <2>7, <3>0, ReadAnswerEffect, OnPeer DEF ReadAnswer
    <3>. QED
      BY <3>0, <3>1, ClientAssumption DEF ReadingAnswer, Moves, OthersU, OthersC,
           Behind, serverSide, messageVars, ConnectedInv
  <2>8. CASE UnlockConnection(c)
    <3>1. Unlocking(c)
      BY <1>5, <2>8, UnlockEffect
    <3>. QED
      BY <3>1, ClientAssumption DEF Unlocking, Moves, OthersU, Same, Behind, serverSide,
           messageVars, ConnectedInv
  <2>9. CASE ReleaseConnection(c)
    <3>1. Releasing(c)
      BY <1>5, <2>9, ReleaseEffect
    <3>. QED
      BY <3>1, ClientAssumption DEF Releasing, Moves, OthersU, Same, Behind, serverSide,
           messageVars, ConnectedInv
  <2>10. CASE DeleteConnection(c)
    <3>1. Deleting(c)
      BY <1>5, <2>10, DeleteEffect
    <3>. QED
      BY <3>1, ClientAssumption DEF Deleting, Moves, OthersU, Same, Conn, OthersC,
           Behind, serverSide, messageVars, ConnectedInv
  <2>11. CASE CallerKilled(c)
    <3>1. Dying(c)
      BY <1>5, <2>11, KilledEffect
    <3>. QED
      BY <3>1, ClientAssumption DEF Dying, Moves, OthersU, Conn, OthersC, Behind,
           serverSide, messageVars, ConnectedInv
  <2>. QED
    BY <1>5, <2>1, <2>2, <2>3, <2>4, <2>5, <2>6, <2>7, <2>8, <2>9, <2>10, <2>11 DEF
         CallerStep
<1>6. ASSUME NEW t \in Peer, SessionStep(t) PROVE ConnectedInv'
  <2>1. CASE ReceiveLength(t)
    <3>1. ReceivingLength(t)
      BY <1>6, <2>1, ReceiveLengthEffect
    <3>2. UNCHANGED <<service, call, caller>>
      BY <3>1 DEF ReceivingLength, Waits, Ends, ServiceVars, Enters, Leaves, OthersT,
           LoopVars, messageVars, clientVars
    <3>3. \A p \in Peer : conn'[p].client = "new" => conn[p].client = "new"
      BY <3>1 DEF ReceivingLength, Waits, Ends, ServiceVars, Enters, Leaves, OthersT,
           LoopVars
    <3>. QED BY <3>2, <3>3, ConnectedFrame
  <2>2. CASE LengthReceived(t)
    <3>0. PICK p : p = thread[t].hold
      OBVIOUS
    <3>1. GettingLength(t, p)
      BY <1>6, <2>2, <3>0, LengthReceivedEffect DEF LengthReceived, PhaseInv
    <3>2. UNCHANGED <<service, call, caller>>
      BY <3>0, <3>1 DEF GettingLength, Ends, ServiceVars, Leaves, OthersT, Conn,
           OthersC, LoopVars, messageVars, clientVars
    <3>3. \A q \in Peer : conn'[q].client = "new" => conn[q].client = "new"
      BY <3>0, <3>1 DEF GettingLength, Ends, ServiceVars, Leaves, OthersT, Conn,
           OthersC, LoopVars
    <3>. QED BY <3>2, <3>3, ConnectedFrame
  <2>3. CASE ReceiveQuery(t)
    <3>1. ReceivingQuery(t)
      BY <1>6, <2>3, ReceiveQueryEffect
    <3>2. UNCHANGED <<service, call, caller>>
      BY <3>1 DEF ReceivingQuery, Waits, ServiceVars, Enters, OthersT, LoopVars,
           messageVars, clientVars
    <3>3. \A p \in Peer : conn'[p].client = "new" => conn[p].client = "new"
      BY <3>1 DEF ReceivingQuery, Waits, ServiceVars, Enters, OthersT, LoopVars
    <3>. QED BY <3>2, <3>3, ConnectedFrame
  <2>4. CASE QueryReceived(t)
    <3>0. PICK p : p = thread[t].hold
      OBVIOUS
    <3>1. GettingQuery(t, p)
      BY <1>6, <2>4, <3>0, QueryReceivedEffect DEF QueryReceived, PhaseInv
    <3>2. UNCHANGED <<service, call, caller>>
      BY <3>0, <3>1 DEF GettingQuery, ServiceVars, Leaves, OthersT, Conn, OthersC,
           LoopVars, messageVars, clientVars
    <3>3. \A q \in Peer : conn'[q].client = "new" => conn[q].client = "new"
      BY <3>0, <3>1 DEF GettingQuery, ServiceVars, Leaves, OthersT, Conn, OthersC,
           LoopVars
    <3>. QED BY <3>2, <3>3, ConnectedFrame
  <2>5. CASE AnswerQuery(t)
    <3>1. AnsweringQuery(t)
      BY <1>6, <2>5, AnswerQueryEffect
    <3>2. UNCHANGED <<service, call, caller>>
      BY <3>1 DEF AnsweringQuery, ServiceVars, GoesOn, OthersT, Conn, OthersC, Ends,
           LoopVars, messageVars, clientVars
    <3>3. \A p \in Peer : conn'[p].client = "new" => conn[p].client = "new"
      BY <3>1 DEF AnsweringQuery, ServiceVars, GoesOn, OthersT, Conn, OthersC, Ends,
           LoopVars
    <3>. QED BY <3>2, <3>3, ConnectedFrame
  <2>6. CASE CloseSession(t)
    <3>1. ClosingSession(t)
      BY <1>6, <2>6, CloseSessionEffect
    <3>2. UNCHANGED <<service, call, caller>>
      BY <3>1 DEF ClosingSession, Closes, GoesOn, OthersT, LoopVars, ServiceVars,
           messageVars, clientVars
    <3>3. \A p \in Peer : conn'[p].client = "new" => conn[p].client = "new"
      BY <3>1 DEF ClosingSession, Closes, GoesOn, OthersT, LoopVars
    <3>. QED BY <3>2, <3>3, ConnectedFrame
  <2>. QED BY <1>6, <2>1, <2>2, <2>3, <2>4, <2>5, <2>6 DEF SessionStep
<1>. QED BY <1>1, <1>2, <1>3, <1>4, <1>5, <1>6 DEF SocketNext, MessageNext, ClientNext

LEMMA OnConnected ==
  ASSUME PhaseInv, LockInv, ConnectedInv, NEW c \in Caller, caller[c].pc # "idle"
  PROVE  conn[On(c)].client # "new"
  BY DEF PhaseInv, LockInv, ConnectedInv

LEMMA DescriptorFrame ==
  ASSUME TypeInv, DescriptorInv, crossed => crossed', UNCHANGED <<table, backlog, watched>>,
         \A u \in Peer : thread'[u].pc = "none" <=> thread[u].pc = "none",
         \A q \in Peer : conn'[q].client = "new" =>
           conn[q].client = "new" /\ conn'[q].in = conn[q].in /\ conn'[q].out = conn[q].out
  PROVE  DescriptorInv'
<1> SUFFICES ASSUME ~crossed' PROVE DescriptorInv'
  BY DEF DescriptorInv
<1>1. DescriptorInv /\ ~crossed
  OBVIOUS
<1>2. \A i \in DOMAIN backlog : backlog[i] \in Peer
  BY DEF TypeInv
<1>3. \A i \in DOMAIN backlog :
       /\ conn'[backlog[i]].client # "new" /\ thread'[backlog[i]].pc = "none"
       /\ \A f \in 0 .. MaxFd : table[f] # backlog[i]
  BY <1>1, <1>2 DEF DescriptorInv
<1>4. \A f \in 0 .. MaxFd : table[f] \in Peer => conn'[table[f]].client # "new"
  BY <1>1 DEF DescriptorInv
<1>5. \A f \in watched : f \in 0 .. MaxFd /\ table[f] \in Peer /\ thread'[table[f]].pc = "none"
  BY <1>1 DEF DescriptorInv
<1>6. \A p \in Peer : conn'[p].client = "new" =>
       thread'[p].pc = "none" /\ conn'[p].in = <<>> /\ conn'[p].out = <<>>
  BY <1>1 DEF DescriptorInv
<1>. QED BY <1>1, <1>3, <1>4, <1>5, <1>6 DEF DescriptorInv

LEMMA NextInQueue ==
  ASSUME NEW b \in Seq(Peer), b # <<>>
  PROVE  /\ 1 \in DOMAIN b /\ Head(b) = b[1] /\ DOMAIN b = 1 .. Len(b)
         /\ \A i \in DOMAIN Tail(b) : i \in Nat /\ i + 1 \in DOMAIN b /\ Tail(b)[i] = b[i + 1] /\ i + 1 # 1
<1>1. b \in Seq(Peer) /\ Len(b) \in Nat /\ Len(b) >= 1 /\ DOMAIN b = 1 .. Len(b) /\ Head(b) = b[1]
  BY EmptySeq, HeadTailProperties
<1>2. /\ Tail(b) \in Seq(Peer) /\ Len(Tail(b)) = Len(b) - 1
      /\ \A i \in 1 .. Len(Tail(b)) : Tail(b)[i] = b[i + 1]
  BY HeadTailProperties
<1>3. DOMAIN Tail(b) = 1 .. Len(b) - 1
  BY <1>1, <1>2
<1>. QED BY <1>1, <1>2, <1>3

\* The server accepts p, with the descriptor f.
LEMMA AcceptDescriptor ==
  ASSUME TypeInv, DescriptorInv, ~crossed, NEW f \in 0 .. MaxFd, NEW p \in Peer, Accepts(f, p),
         UNCHANGED conn, \A u \in Peer : thread'[u].pc = thread[u].pc \/ (u = p /\ thread'[u].pc = "new"),
         \/ watched = {} /\ watched' = {}
         \/ watched' = watched \cup {f} /\ UNCHANGED thread
  PROVE  DescriptorInv'
<1>1. /\ backlog # <<>> /\ p = Head(backlog) /\ backlog' = Tail(backlog) /\ backlog \in Seq(Peer)
      /\ table[f] = NoPeer /\ \A g \in 0 .. MaxFd : table'[g] = IF g = f THEN p ELSE table[g]
  BY DEF Accepts, TypeInv
<1>2. /\ 1 \in DOMAIN backlog /\ p = backlog[1]
      /\ \A i \in DOMAIN backlog' :
           i \in Nat /\ i + 1 \in DOMAIN backlog /\ backlog'[i] = backlog[i + 1] /\ i + 1 # 1
  BY <1>1, NextInQueue
<1>3. /\ conn[p].client # "new" /\ thread[p].pc = "none"
      /\ \A g \in 0 .. MaxFd : table[g] # p
  BY <1>2 DEF DescriptorInv
<1>4. \A i \in DOMAIN backlog' : backlog'[i] # p /\ backlog'[i] \in Peer
  BY <1>1, <1>2 DEF DescriptorInv
<1>5. table'[0] = Listener
  BY <1>1, ServerAssumption DEF DescriptorInv
<1>6. \A g, h \in 0 .. MaxFd : table'[g] \in Peer /\ table'[g] = table'[h] => g = h
  BY <1>1, <1>3 DEF DescriptorInv
<1>7. \A i, j \in DOMAIN backlog' : backlog'[i] = backlog'[j] => i = j
  <2> SUFFICES ASSUME NEW i \in DOMAIN backlog', NEW j \in DOMAIN backlog', backlog'[i] = backlog'[j]
               PROVE  i = j
    OBVIOUS
  <2>1. i + 1 = j + 1
    BY <1>2 DEF DescriptorInv
  <2>. QED BY <1>2, <2>1
<1>8. ASSUME NEW i \in DOMAIN backlog'
      PROVE  /\ conn[backlog'[i]].client # "new" /\ thread'[backlog'[i]].pc = "none"
             /\ \A g \in 0 .. MaxFd : table'[g] # backlog'[i]
  <2>1. PICK q \in Peer : q = backlog'[i] /\ q # p
    BY <1>4
  <2>2. i + 1 \in DOMAIN backlog /\ q = backlog[i + 1]
    BY <1>2, <2>1
  <2>3. conn[q].client # "new" /\ thread[q].pc = "none" /\ \A g \in 0 .. MaxFd : table[g] # q
    BY <2>2 DEF DescriptorInv
  <2>. QED BY <1>1, <2>1, <2>3
<1>9. \A g \in 0 .. MaxFd : table'[g] \in Peer => conn[table'[g]].client # "new"
  BY <1>1, <1>3 DEF DescriptorInv
<1>10. \A g \in watched' : g \in 0 .. MaxFd /\ table'[g] \in Peer /\ thread'[table'[g]].pc = "none"
  BY <1>1, <1>3 DEF DescriptorInv
<1>11. \A q \in Peer : conn[q].client = "new" =>
         thread'[q].pc = "none" /\ conn[q].in = <<>> /\ conn[q].out = <<>>
  BY <1>3 DEF DescriptorInv
<1>. QED BY <1>5, <1>6, <1>7, <1>8, <1>9, <1>10, <1>11 DEF DescriptorInv

\* p connects.
LEMMA ConnectDescriptor ==
  ASSUME TypeInv, DescriptorInv, ~crossed, NEW p \in Peer, conn[p].client = "new",
         backlog' = Append(backlog, p), UNCHANGED <<table, watched, thread>>,
         Conn(p, conn[p].in, conn[p].out, "open")
  PROVE  DescriptorInv'
<1>1. /\ \A q \in Peer : q # p => conn'[q] = conn[q]
      /\ conn'[p].client = "open"
  BY DEF Conn, OthersC
<1>2. thread[p].pc = "none"
  BY DEF DescriptorInv
<1>3. /\ backlog \in Seq(Peer) /\ DOMAIN backlog = 1 .. Len(backlog) /\ Len(backlog) \in Nat
      /\ DOMAIN backlog' = 1 .. Len(backlog) + 1 /\ backlog'[Len(backlog) + 1] = p
      /\ \A i \in DOMAIN backlog : backlog'[i] = backlog[i] /\ backlog[i] \in Peer
  BY DEF TypeInv
<1>4. \A i \in DOMAIN backlog' : i = Len(backlog) + 1 \/ i \in DOMAIN backlog
  BY <1>3
<1>5. \A i \in DOMAIN backlog : backlog[i] # p
  BY DEF DescriptorInv
<1>6. \A f \in 0 .. MaxFd : table[f] # p
  BY DEF DescriptorInv
<1>7. \A i, j \in DOMAIN backlog' : backlog'[i] = backlog'[j] => i = j
  BY <1>3, <1>4, <1>5 DEF DescriptorInv
<1>8. \A i \in DOMAIN backlog' :
       /\ conn'[backlog'[i]].client # "new" /\ thread[backlog'[i]].pc = "none"
       /\ \A f \in 0 .. MaxFd : table[f] # backlog'[i]
  BY <1>1, <1>2, <1>3, <1>4, <1>5, <1>6 DEF DescriptorInv
<1>9. \A f \in 0 .. MaxFd : table[f] \in Peer => conn'[table[f]].client # "new"
  BY <1>1 DEF DescriptorInv
<1>10. \A q \in Peer : conn'[q].client = "new" =>
         thread[q].pc = "none" /\ conn'[q].in = <<>> /\ conn'[q].out = <<>>
  BY <1>1 DEF DescriptorInv
<1>. QED BY <1>7, <1>8, <1>9, <1>10 DEF DescriptorInv

\* t closes its descriptor.
LEMMA CloseDescriptor ==
  ASSUME TypeInv, DescriptorInv, NEW t \in Peer, NEW pc, pc # "none", thread[t].pc # "none", Closes(t, pc)
  PROVE  DescriptorInv'
<1> SUFFICES ASSUME ~crossed' PROVE DescriptorInv'
  BY DEF DescriptorInv
<1>1. /\ ~crossed /\ UNCHANGED <<backlog, conn>>
      /\ watched' = watched \ {thread[t].fd}
      /\ \A f \in 0 .. MaxFd : table'[f] = IF f = thread[t].fd THEN NoPeer ELSE table[f]
      /\ thread[t].fd \in 0 .. MaxFd => table[thread[t].fd] \in {t, NoPeer}
  BY DEF Closes
<1>2. \A u \in Peer : thread'[u].pc = "none" <=> thread[u].pc = "none"
  BY DEF Closes, GoesOn, OthersT
<1>3. thread[t].fd # 0 \/ 0 \notin 0 .. MaxFd
  BY <1>1, ServerAssumption DEF DescriptorInv
<1>4. table'[0] = Listener
  BY <1>1, <1>3, ServerAssumption DEF DescriptorInv
<1>5. \A f, g \in 0 .. MaxFd : table'[f] \in Peer /\ table'[f] = table'[g] => f = g
  BY <1>1, ServerAssumption DEF DescriptorInv
<1>6. \A i \in DOMAIN backlog :
       /\ conn[backlog[i]].client # "new" /\ thread'[backlog[i]].pc = "none"
       /\ \A f \in 0 .. MaxFd : table'[f] # backlog[i]
  <2>1. \A i \in DOMAIN backlog : backlog[i] \in Peer
    BY DEF TypeInv
  <2>. QED BY <1>1, <1>2, <2>1, ServerAssumption DEF DescriptorInv
<1>7. \A f \in 0 .. MaxFd : table'[f] \in Peer => conn[table'[f]].client # "new"
  BY <1>1, ServerAssumption DEF DescriptorInv
<1>8. \A f \in watched' : f \in 0 .. MaxFd /\ table'[f] \in Peer /\ thread'[table'[f]].pc = "none"
  BY <1>1, <1>2 DEF DescriptorInv
<1>9. \A p \in Peer : conn[p].client = "new" =>
       thread'[p].pc = "none" /\ conn[p].in = <<>> /\ conn[p].out = <<>>
  BY <1>1, <1>2 DEF DescriptorInv
<1>. QED BY <1>1, <1>4, <1>5, <1>6, <1>7, <1>8, <1>9 DEF DescriptorInv

\* The loop hands over the descriptor f of p.
LEMMA HandDescriptor ==
  ASSUME TypeInv, DescriptorInv, ~crossed, NEW f \in 0 .. MaxFd, NEW p, p = table[f], HandingOver(f, p)
  PROVE  DescriptorInv'
<1>1. p \in Peer /\ thread[p].pc = "none" /\ conn[p].client # "new"
  BY DEF HandingOver, DescriptorInv
<1>2. UNCHANGED <<backlog, conn>> /\ watched' = watched \ {f}
  BY DEF HandingOver, LoopVars
<1>3. \/ /\ UNCHANGED thread
         /\ \A g \in 0 .. MaxFd : table'[g] = IF g = f THEN NoPeer ELSE table[g]
      \/ UNCHANGED table /\ \A u \in Peer : u # p => thread'[u] = thread[u]
  BY <1>1 DEF HandingOver, GoesOn, OthersT
<1>4. f # 0 \/ 0 \notin 0 .. MaxFd
  BY <1>1, ServerAssumption DEF DescriptorInv
<1>5. table'[0] = Listener
  BY <1>3, <1>4, ServerAssumption DEF DescriptorInv
<1>6. \A g, h \in 0 .. MaxFd : table'[g] \in Peer /\ table'[g] = table'[h] => g = h
  BY <1>3, ServerAssumption DEF DescriptorInv
<1>7. \A i \in DOMAIN backlog : backlog[i] \in Peer /\ backlog[i] # p
  BY DEF DescriptorInv, TypeInv
<1>8. \A i \in DOMAIN backlog :
       /\ conn[backlog[i]].client # "new" /\ thread'[backlog[i]].pc = "none"
       /\ \A g \in 0 .. MaxFd : table'[g] # backlog[i]
  BY <1>3, <1>7, ServerAssumption DEF DescriptorInv
<1>9. \A g \in 0 .. MaxFd : table'[g] \in Peer => conn[table'[g]].client # "new"
  BY <1>3, ServerAssumption DEF DescriptorInv
<1>10. \A g \in watched' : g \in 0 .. MaxFd /\ table'[g] \in Peer /\ thread'[table'[g]].pc = "none"
  <2> SUFFICES ASSUME NEW g \in watched'
               PROVE  g \in 0 .. MaxFd /\ table'[g] \in Peer /\ thread'[table'[g]].pc = "none"
    OBVIOUS
  <2>1. g # f /\ g \in 0 .. MaxFd /\ table[g] \in Peer /\ thread[table[g]].pc = "none" /\ table[g] # p
    BY <1>1, <1>2 DEF DescriptorInv
  <2>. QED BY <1>3, <2>1
<1>11. \A q \in Peer : conn[q].client = "new" =>
         thread'[q].pc = "none" /\ conn[q].in = <<>> /\ conn[q].out = <<>>
  BY <1>1, <1>3 DEF DescriptorInv
<1>. QED BY <1>2, <1>5, <1>6, <1>8, <1>9, <1>10, <1>11 DEF DescriptorInv

LEMMA NextDescriptor ==
  ASSUME TypeInv, PhaseInv, LockInv, ConnectedInv, DescriptorInv, SocketNext
  PROVE  DescriptorInv'
<1> SUFFICES ASSUME ~crossed' PROVE DescriptorInv'
  BY DEF DescriptorInv
<1>1. ASSUME Loop, UNCHANGED <<messageVars, clientVars>> PROVE DescriptorInv'
  <2>1. CASE Accept
    <3>1. Accepting
      BY <1>1, <2>1, AcceptEffect
    <3>2. CASE UNCHANGED <<table, backlog, thread>>
      BY <3>1, <3>2, DescriptorFrame DEF Accepting, LoopVars
    <3>3. ASSUME NEW f \in 0 .. MaxFd, NEW p \in Peer, Accepts(f, p), GoesOn(p, "new") PROVE DescriptorInv'
      <4>1. UNCHANGED <<conn, crossed>> /\ watched = {} /\ watched' = {}
        BY <3>1 DEF Accepting, LoopVars, PhaseInv
      <4>2. \A u \in Peer : thread'[u].pc = thread[u].pc \/ (u = p /\ thread'[u].pc = "new")
        BY <3>3 DEF GoesOn, OthersT
      <4>. QED BY <3>3, <4>1, <4>2, AcceptDescriptor
    <3>. QED BY <3>1, <3>2, <3>3 DEF Accepting
  <2>2. CASE AcceptWatched
    <3>1. AcceptingWatched
      BY <1>1, <2>2, AcceptWatchedEffect
    <3>2. CASE UNCHANGED <<table, backlog, watched>>
      BY <3>1, <3>2, DescriptorFrame DEF AcceptingWatched, LoopVars
    <3>3. ASSUME NEW f \in 0 .. MaxFd, NEW p \in Peer, Accepts(f, p), watched' = watched \cup {f} PROVE DescriptorInv'
      <4>1. UNCHANGED <<conn, crossed, thread>>
        BY <3>1 DEF AcceptingWatched, LoopVars
      <4>. QED BY <3>3, <4>1, AcceptDescriptor
    <3>. QED BY <3>1, <3>2, <3>3 DEF AcceptingWatched
  <2>3. ASSUME NEW f \in 0 .. MaxFd, HandOver(f) PROVE DescriptorInv'
    <3>0. PICK p : p = table[f]
      OBVIOUS
    <3>1. HandingOver(f, p)
      BY <1>1, <2>3, <3>0, HandOverEffect
    <3>2. ~crossed
      BY <3>1 DEF HandingOver, LoopVars
    <3>. QED BY <3>0, <3>1, <3>2, HandDescriptor
  <2>. QED BY <1>1, <2>1, <2>2, <2>3 DEF Loop
<1>2. ASSUME NEW t \in Peer, TakeDescriptor(t), UNCHANGED <<messageVars, clientVars>> PROVE DescriptorInv'
  <2>1. Taking(t)
    BY <1>2, TakeEffect
  <2>2. ~crossed /\ UNCHANGED <<table, backlog, watched>>
    BY <2>1 DEF Taking, messageVars, clientVars
  <2>3. \A u \in Peer : thread'[u].pc = "none" <=> thread[u].pc = "none"
    BY <2>1 DEF Taking, messageVars, clientVars, OthersT
  <2>4. \A q \in Peer : conn'[q].client = "new" =>
         conn[q].client = "new" /\ conn'[q].in = conn[q].in /\ conn'[q].out = conn[q].out
    BY <2>1 DEF Taking, messageVars, clientVars
  <2>. QED BY <2>2, <2>3, <2>4, DescriptorFrame
<1>3. ASSUME NEW p \in Peer, ClientStep(p), UNCHANGED clientVars PROVE DescriptorInv'
  <2>1. CASE ClientConnects(p)
    <3>1. Connecting(p)
      BY <1>3, <2>1, ClientConnectsEffect
    <3>2. ~crossed
      BY <3>1 DEF Connecting
    <3>. QED BY <3>1, <3>2, ConnectDescriptor DEF Connecting
  <2>2. CASE ClientSends(p)
    <3>1. Sending(p)
      BY <1>3, <2>2, ClientSendsEffect
    <3>5. conn[p].client # "new"
      BY <3>1 DEF Sending, ConnectedInv
    <3>2. ~crossed /\ UNCHANGED <<table, backlog, watched>>
      BY <3>1 DEF Sending, ServerOnly, clientVars
    <3>3. \A u \in Peer : thread'[u].pc = "none" <=> thread[u].pc = "none"
      BY <3>1 DEF Sending, ServerOnly, clientVars
    <3>4. \A q \in Peer : conn'[q].client = "new" =>
           conn[q].client = "new" /\ conn'[q].in = conn[q].in /\ conn'[q].out = conn[q].out
      BY <3>1, <3>5 DEF Sending, ServerOnly, Conn, clientVars, OthersC
    <3>. QED BY <3>2, <3>3, <3>4, DescriptorFrame
  <2>3. CASE ClientReads(p)
    <3>1. Reading(p)
      BY <1>3, <2>3, ClientReadsEffect
    <3>2. ~crossed /\ UNCHANGED <<table, backlog, watched>>
      BY <3>1 DEF Reading, ServerOnly, clientVars
    <3>3. \A u \in Peer : thread'[u].pc = "none" <=> thread[u].pc = "none"
      BY <3>1 DEF Reading, ServerOnly, clientVars
    <3>4. \A q \in Peer : conn'[q].client = "new" =>
           conn[q].client = "new" /\ conn'[q].in = conn[q].in /\ conn'[q].out = conn[q].out
      BY <3>1 DEF Reading, ServerOnly, Conn, clientVars, OthersC
    <3>. QED BY <3>2, <3>3, <3>4, DescriptorFrame
  <2>. QED BY <1>3, <2>1, <2>2, <2>3 DEF ClientStep
<1>4. ASSUME NEW t \in Peer, TextStep(t), UNCHANGED clientVars PROVE DescriptorInv'
  <2>1. CASE ReceiveText(t)
    <3>1. ReceivingText(t)
      BY <1>4, <2>1, ReceiveTextEffect
    <3>2. ~crossed /\ UNCHANGED <<table, backlog, watched>>
      BY <3>1 DEF ReceivingText, Waits, Ends, ServiceVars, clientVars
    <3>3. \A u \in Peer : thread'[u].pc = "none" <=> thread[u].pc = "none"
      BY <3>1 DEF ReceivingText, Waits, Ends, ServiceVars, Enters, clientVars, OthersT
    <3>4. \A q \in Peer : conn'[q].client = "new" =>
           conn[q].client = "new" /\ conn'[q].in = conn[q].in /\ conn'[q].out = conn[q].out
      BY <3>1 DEF ReceivingText, Waits, Ends, ServiceVars, clientVars
    <3>. QED BY <3>2, <3>3, <3>4, DescriptorFrame
  <2>2. CASE TextReceived(t)
    <3>0. PICK p : p = thread[t].hold
      OBVIOUS
    <3>1. GettingText(t, p)
      BY <1>4, <2>2, <3>0, TextReceivedEffect
    <3>2. ~crossed /\ UNCHANGED <<table, backlog, watched>>
      BY <3>0, <3>1 DEF GettingText, ServiceVars, clientVars
    <3>5. conn[p].client = "new" => conn[p].in = <<>>
      BY <3>0, <3>1, <3>2 DEF GettingText, PhaseInv, DescriptorInv
    <3>3. \A u \in Peer : thread'[u].pc = "none" <=> thread[u].pc = "none"
      BY <3>0, <3>1 DEF GettingText, ServiceVars, Leaves, clientVars, OthersT
    <3>4. \A q \in Peer : conn'[q].client = "new" =>
           conn[q].client = "new" /\ conn'[q].in = conn[q].in /\ conn'[q].out = conn[q].out
      BY <3>0, <3>1, <3>5 DEF GettingText, ServiceVars, Conn, clientVars, OthersC
    <3>. QED BY <3>2, <3>3, <3>4, DescriptorFrame
  <2>3. CASE WriteMessage(t)
    <3>1. Writing(t)
      BY <1>4, <2>3, WriteMessageEffect
    <3>2. ~crossed /\ UNCHANGED <<table, backlog, watched>>
      BY <3>1 DEF Writing, clientVars
    <3>3. \A u \in Peer : thread'[u].pc = "none" <=> thread[u].pc = "none"
      BY <3>1 DEF Writing, GoesOn, clientVars, OthersT
    <3>4. \A q \in Peer : conn'[q].client = "new" =>
           conn[q].client = "new" /\ conn'[q].in = conn[q].in /\ conn'[q].out = conn[q].out
      BY <3>1 DEF Writing, clientVars
    <3>. QED BY <3>2, <3>3, <3>4, DescriptorFrame
  <2>4. CASE InvokeMethod(t)
    <3>1. Invoking(t)
      BY <1>4, <2>4, InvokeMethodEffect
    <3>2. ~crossed /\ UNCHANGED <<table, backlog, watched>>
      BY <3>1 DEF Invoking, ServiceVars, clientVars
    <3>3. \A u \in Peer : thread'[u].pc = "none" <=> thread[u].pc = "none"
      BY <3>1 DEF Invoking, GoesOn, ServiceVars, OthersT, clientVars
    <3>4. \A q \in Peer : conn'[q].client = "new" =>
           conn[q].client = "new" /\ conn'[q].in = conn[q].in /\ conn'[q].out = conn[q].out
      BY <3>1 DEF Invoking, ServiceVars, clientVars
    <3>. QED BY <3>2, <3>3, <3>4, DescriptorFrame
  <2>5. CASE AnswerText(t)
    <3>1. AnsweringText(t)
      BY <1>4, <2>5, AnswerTextEffect
    <3>2. ~crossed /\ UNCHANGED <<table, backlog, watched>>
      BY <3>1 DEF AnsweringText, ServiceVars, clientVars
    <3>3. \A u \in Peer : thread'[u].pc = "none" <=> thread[u].pc = "none"
      BY <3>1 DEF AnsweringText, GoesOn, ServiceVars, OthersT, clientVars
    <3>4. \A q \in Peer : conn'[q].client = "new" =>
           conn[q].client = "new" /\ conn'[q].in = conn[q].in /\ conn'[q].out = conn[q].out
      BY <3>1 DEF AnsweringText, ServiceVars, Conn, clientVars, OthersC
    <3>. QED BY <3>2, <3>3, <3>4, DescriptorFrame
  <2>6. CASE CloseText(t)
    <3>1. ClosingText(t)
      BY <1>4, <2>6, CloseTextEffect
    <3>. QED BY <3>1, CloseDescriptor DEF ClosingText
  <2>. QED BY <1>4, <2>1, <2>2, <2>3, <2>4, <2>5, <2>6 DEF TextStep
<1>5. ASSUME NEW c \in Caller, CallerStep(c) \/ CallerKilled(c) PROVE DescriptorInv'
  <2>1. CASE GetPooledConnection(c)
    <3>1. TakingPooled(c)
      BY <1>5, <2>1, GetPooledEffect
    <3>2. ~crossed /\ UNCHANGED <<table, backlog, watched>>
      BY <3>1 DEF TakingPooled, Behind, serverSide, messageVars
    <3>3. \A u \in Peer : thread'[u].pc = "none" <=> thread[u].pc = "none"
      BY <3>1 DEF TakingPooled, Behind, serverSide, messageVars
    <3>4. \A q \in Peer : conn'[q].client = "new" =>
           conn[q].client = "new" /\ conn'[q].in = conn[q].in /\ conn'[q].out = conn[q].out
      BY <3>1 DEF TakingPooled, Behind, serverSide, messageVars
    <3>. QED BY <3>2, <3>3, <3>4, DescriptorFrame
  <2>2. CASE GetOwnConnection(c)
    <3>1. Opening(c)
      BY <1>5, <2>2, GetOwnEffect
    <3>2. ~crossed
      BY <3>1 DEF Opening
    <3>. QED BY <3>1, <3>2, ConnectDescriptor DEF Opening
  <2>3. CASE LockConnection(c)
    <3>1. Locking(c)
      BY <1>5, <2>3, LockEffect
    <3>2. ~crossed /\ UNCHANGED <<table, backlog, watched>>
      BY <3>1 DEF Locking, Behind, serverSide, messageVars
    <3>3. \A u \in Peer : thread'[u].pc = "none" <=> thread[u].pc = "none"
      BY <3>1 DEF Locking, Behind, serverSide, messageVars
    <3>4. \A q \in Peer : conn'[q].client = "new" =>
           conn[q].client = "new" /\ conn'[q].in = conn[q].in /\ conn'[q].out = conn[q].out
      BY <3>1 DEF Locking, Behind, serverSide, messageVars
    <3>. QED BY <3>2, <3>3, <3>4, DescriptorFrame
  <2>4. CASE SendQuery(c)
    <3>1. Asking(c)
      BY <1>5, <2>4, SendQueryEffect, OnPeer DEF SendQuery
    <3>2. ~crossed /\ UNCHANGED <<table, backlog, watched>>
      BY <3>1 DEF Asking, Behind, serverSide, messageVars
    <3>5. conn[On(c)].client # "new"
      BY <3>1, OnConnected DEF Asking
    <3>3. \A u \in Peer : thread'[u].pc = "none" <=> thread[u].pc = "none"
      BY <3>1 DEF Asking, Behind, serverSide, messageVars
    <3>4. \A q \in Peer : conn'[q].client = "new" =>
           conn[q].client = "new" /\ conn'[q].in = conn[q].in /\ conn'[q].out = conn[q].out
      BY <3>1, <3>5 DEF Asking, Behind, Conn, serverSide, messageVars, OthersC
    <3>. QED BY <3>2, <3>3, <3>4, DescriptorFrame
  <2>5. CASE ReadLength(c)
    <3>0. PICK out : out = conn[On(c)].out
      OBVIOUS
    <3>1. ReadingLength(c, out)
      BY <1>5, <2>5, <3>0, ReadLengthEffect, OnPeer DEF ReadLength
    <3>2. ~crossed /\ UNCHANGED <<table, backlog, watched>>
      BY <3>0, <3>1 DEF ReadingLength, Behind, serverSide, messageVars
    <3>5. conn[On(c)].client # "new"
      BY <3>0, <3>1, OnConnected DEF ReadingLength
    <3>3. \A u \in Peer : thread'[u].pc = "none" <=> thread[u].pc = "none"
      BY <3>0, <3>1 DEF ReadingLength, Behind, serverSide, messageVars
    <3>4. \A q \in Peer : conn'[q].client = "new" =>
           conn[q].client = "new" /\ conn'[q].in = conn[q].in /\ conn'[q].out = conn[q].out
      BY <3>0, <3>1, <3>5 DEF ReadingLength, Behind, OthersC, serverSide, messageVars
    <3>. QED BY <3>2, <3>3, <3>4, DescriptorFrame
  <2>6. CASE ReadLengthAtEnd(c)
    <3>1. ReadingEnd(c)
      BY <1>5, <2>6, ReadLengthAtEndEffect
    <3>2. ~crossed /\ UNCHANGED <<table, backlog, watched>>
      BY <3>1 DEF ReadingEnd, Behind, serverSide, messageVars
    <3>3. \A u \in Peer : thread'[u].pc = "none" <=> thread[u].pc = "none"
      BY <3>1 DEF ReadingEnd, Behind, serverSide, messageVars
    <3>4. \A q \in Peer : conn'[q].client = "new" =>
           conn[q].client = "new" /\ conn'[q].in = conn[q].in /\ conn'[q].out = conn[q].out
      BY <3>1 DEF ReadingEnd, Behind, serverSide, messageVars
    <3>. QED BY <3>2, <3>3, <3>4, DescriptorFrame
  <2>7. CASE ReadAnswer(c)
    <3>0. PICK out : out = conn[On(c)].out
      OBVIOUS
    <3>1. ReadingAnswer(c, out)
      BY <1>5, <2>7, <3>0, ReadAnswerEffect, OnPeer DEF ReadAnswer
    <3>2. ~crossed /\ UNCHANGED <<table, backlog, watched>>
      BY <3>0, <3>1 DEF ReadingAnswer, Behind, serverSide, messageVars
    <3>5. conn[On(c)].client # "new"
      BY <3>0, <3>1, OnConnected DEF ReadingAnswer
    <3>3. \A u \in Peer : thread'[u].pc = "none" <=> thread[u].pc = "none"
      BY <3>0, <3>1 DEF ReadingAnswer, Behind, serverSide, messageVars
    <3>4. \A q \in Peer : conn'[q].client = "new" =>
           conn[q].client = "new" /\ conn'[q].in = conn[q].in /\ conn'[q].out = conn[q].out
      BY <3>0, <3>1, <3>5 DEF ReadingAnswer, Behind, OthersC, serverSide, messageVars
    <3>. QED BY <3>2, <3>3, <3>4, DescriptorFrame
  <2>8. CASE UnlockConnection(c)
    <3>1. Unlocking(c)
      BY <1>5, <2>8, UnlockEffect
    <3>2. ~crossed /\ UNCHANGED <<table, backlog, watched>>
      BY <3>1 DEF Unlocking, Behind, serverSide, messageVars
    <3>3. \A u \in Peer : thread'[u].pc = "none" <=> thread[u].pc = "none"
      BY <3>1 DEF Unlocking, Behind, serverSide, messageVars
    <3>4. \A q \in Peer : conn'[q].client = "new" =>
           conn[q].client = "new" /\ conn'[q].in = conn[q].in /\ conn'[q].out = conn[q].out
      BY <3>1 DEF Unlocking, Behind, serverSide, messageVars
    <3>. QED BY <3>2, <3>3, <3>4, DescriptorFrame
  <2>9. CASE ReleaseConnection(c)
    <3>1. Releasing(c)
      BY <1>5, <2>9, ReleaseEffect
    <3>2. ~crossed /\ UNCHANGED <<table, backlog, watched>>
      BY <3>1 DEF Releasing, Behind, serverSide, messageVars
    <3>3. \A u \in Peer : thread'[u].pc = "none" <=> thread[u].pc = "none"
      BY <3>1 DEF Releasing, Behind, serverSide, messageVars
    <3>4. \A q \in Peer : conn'[q].client = "new" =>
           conn[q].client = "new" /\ conn'[q].in = conn[q].in /\ conn'[q].out = conn[q].out
      BY <3>1 DEF Releasing, Behind, serverSide, messageVars
    <3>. QED BY <3>2, <3>3, <3>4, DescriptorFrame
  <2>10. CASE DeleteConnection(c)
    <3>1. Deleting(c)
      BY <1>5, <2>10, DeleteEffect
    <3>2. ~crossed /\ UNCHANGED <<table, backlog, watched>>
      BY <3>1 DEF Deleting, Behind, serverSide, messageVars
    <3>3. \A u \in Peer : thread'[u].pc = "none" <=> thread[u].pc = "none"
      BY <3>1 DEF Deleting, Behind, serverSide, messageVars
    <3>4. \A q \in Peer : conn'[q].client = "new" =>
           conn[q].client = "new" /\ conn'[q].in = conn[q].in /\ conn'[q].out = conn[q].out
      BY <3>1 DEF Deleting, Behind, Conn, serverSide, messageVars, OthersC
    <3>. QED BY <3>2, <3>3, <3>4, DescriptorFrame
  <2>11. CASE CallerKilled(c)
    <3>1. Dying(c)
      BY <1>5, <2>11, KilledEffect
    <3>2. ~crossed /\ UNCHANGED <<table, backlog, watched>>
      BY <3>1 DEF Dying, Behind, serverSide, messageVars
    <3>3. \A u \in Peer : thread'[u].pc = "none" <=> thread[u].pc = "none"
      BY <3>1 DEF Dying, Behind, serverSide, messageVars
    <3>4. \A q \in Peer : conn'[q].client = "new" =>
           conn[q].client = "new" /\ conn'[q].in = conn[q].in /\ conn'[q].out = conn[q].out
      BY <3>1 DEF Dying, Behind, Conn, serverSide, messageVars, OthersC
    <3>. QED BY <3>2, <3>3, <3>4, DescriptorFrame
  <2>. QED
    BY <1>5, <2>1, <2>2, <2>3, <2>4, <2>5, <2>6, <2>7, <2>8, <2>9, <2>10, <2>11 DEF
         CallerStep
<1>6. ASSUME NEW t \in Peer, SessionStep(t) PROVE DescriptorInv'
  <2>1. CASE ReceiveLength(t)
    <3>1. ReceivingLength(t)
      BY <1>6, <2>1, ReceiveLengthEffect
    <3>2. ~crossed /\ UNCHANGED <<table, backlog, watched>>
      BY <3>1 DEF ReceivingLength, Waits, Ends, ServiceVars, clientVars
    <3>3. \A u \in Peer : thread'[u].pc = "none" <=> thread[u].pc = "none"
      BY <3>1 DEF ReceivingLength, Waits, Ends, ServiceVars, Leaves, Enters, clientVars,
           OthersT
    <3>4. \A q \in Peer : conn'[q].client = "new" =>
           conn[q].client = "new" /\ conn'[q].in = conn[q].in /\ conn'[q].out = conn[q].out
      BY <3>1 DEF ReceivingLength, Waits, Ends, ServiceVars, clientVars
    <3>. QED BY <3>2, <3>3, <3>4, DescriptorFrame
  <2>2. CASE LengthReceived(t)
    <3>0. PICK p : p = thread[t].hold
      OBVIOUS
    <3>1. GettingLength(t, p)
      BY <1>6, <2>2, <3>0, LengthReceivedEffect DEF LengthReceived, PhaseInv
    <3>2. ~crossed /\ UNCHANGED <<table, backlog, watched>>
      BY <3>0, <3>1 DEF GettingLength, ServiceVars, Ends, clientVars
    <3>5. conn[p].client = "new" => conn[p].in = <<>>
      BY <3>0, <3>1, <3>2 DEF GettingLength, PhaseInv, DescriptorInv
    <3>3. \A u \in Peer : thread'[u].pc = "none" <=> thread[u].pc = "none"
      BY <3>0, <3>1 DEF GettingLength, ServiceVars, Leaves, Ends, clientVars, OthersT
    <3>4. \A q \in Peer : conn'[q].client = "new" =>
           conn[q].client = "new" /\ conn'[q].in = conn[q].in /\ conn'[q].out = conn[q].out
      BY <3>0, <3>1, <3>5 DEF GettingLength, ServiceVars, Ends, Conn, clientVars,
           OthersC
    <3>. QED BY <3>2, <3>3, <3>4, DescriptorFrame
  <2>3. CASE ReceiveQuery(t)
    <3>1. ReceivingQuery(t)
      BY <1>6, <2>3, ReceiveQueryEffect
    <3>2. ~crossed /\ UNCHANGED <<table, backlog, watched>>
      BY <3>1 DEF ReceivingQuery, Waits, ServiceVars, clientVars
    <3>3. \A u \in Peer : thread'[u].pc = "none" <=> thread[u].pc = "none"
      BY <3>1 DEF ReceivingQuery, Waits, ServiceVars, Enters, clientVars, OthersT
    <3>4. \A q \in Peer : conn'[q].client = "new" =>
           conn[q].client = "new" /\ conn'[q].in = conn[q].in /\ conn'[q].out = conn[q].out
      BY <3>1 DEF ReceivingQuery, Waits, ServiceVars, clientVars
    <3>. QED BY <3>2, <3>3, <3>4, DescriptorFrame
  <2>4. CASE QueryReceived(t)
    <3>0. PICK p : p = thread[t].hold
      OBVIOUS
    <3>1. GettingQuery(t, p)
      BY <1>6, <2>4, <3>0, QueryReceivedEffect DEF QueryReceived, PhaseInv
    <3>2. ~crossed /\ UNCHANGED <<table, backlog, watched>>
      BY <3>0, <3>1 DEF GettingQuery, ServiceVars, clientVars
    <3>5. conn[p].client = "new" => conn[p].in = <<>>
      BY <3>0, <3>1, <3>2 DEF GettingQuery, PhaseInv, DescriptorInv
    <3>3. \A u \in Peer : thread'[u].pc = "none" <=> thread[u].pc = "none"
      BY <3>0, <3>1 DEF GettingQuery, ServiceVars, Leaves, clientVars, OthersT
    <3>4. \A q \in Peer : conn'[q].client = "new" =>
           conn[q].client = "new" /\ conn'[q].in = conn[q].in /\ conn'[q].out = conn[q].out
      BY <3>0, <3>1, <3>5 DEF GettingQuery, ServiceVars, Conn, clientVars, OthersC
    <3>. QED BY <3>2, <3>3, <3>4, DescriptorFrame
  <2>5. CASE AnswerQuery(t)
    <3>1. AnsweringQuery(t)
      BY <1>6, <2>5, AnswerQueryEffect
    <3>2. ~crossed /\ UNCHANGED <<table, backlog, watched>>
      BY <3>1 DEF AnsweringQuery, ServiceVars, Ends, clientVars
    <3>3. \A u \in Peer : thread'[u].pc = "none" <=> thread[u].pc = "none"
      BY <3>1 DEF AnsweringQuery, ServiceVars, GoesOn, Ends, clientVars, OthersT
    <3>4. \A q \in Peer : conn'[q].client = "new" =>
           conn[q].client = "new" /\ conn'[q].in = conn[q].in /\ conn'[q].out = conn[q].out
      BY <3>1 DEF AnsweringQuery, ServiceVars, Conn, Ends, clientVars, OthersC
    <3>. QED BY <3>2, <3>3, <3>4, DescriptorFrame
  <2>6. CASE CloseSession(t)
    <3>1. ClosingSession(t)
      BY <1>6, <2>6, CloseSessionEffect
    <3>. QED BY <3>1, CloseDescriptor DEF ClosingSession
  <2>. QED BY <1>6, <2>1, <2>2, <2>3, <2>4, <2>5, <2>6 DEF SessionStep
<1>. QED BY <1>1, <1>2, <1>3, <1>4, <1>5, <1>6 DEF SocketNext, MessageNext, ClientNext

\* A thread keeps its descriptor, or has left it, or takes its own.
Keeps(u) ==
  \/ thread'[u] = thread[u]
  \/ thread'[u].pc \notin Working
  \/ /\ thread[u].pc \in Working /\ thread'[u].fd = thread[u].fd
     /\ thread'[u].pc \in {"length", "body", "recv"} => thread'[u].hold = table[thread[u].fd]
  \/ thread'[u].pc = "taken" /\ thread'[u].fd \in 0 .. MaxFd /\ table[thread'[u].fd] = u

LEMMA OwnFrame ==
  ASSUME OwnInv, crossed => crossed', \A u \in Peer : Keeps(u),
         \A f \in 0 .. MaxFd : \A u \in Peer :
           table[f] = u /\ thread'[u].pc \in Working => table'[f] = u
  PROVE  OwnInv'
<1> SUFFICES ASSUME ~crossed', NEW t \in Peer
             PROVE  /\ thread'[t].pc \in Working =>
                         thread'[t].fd \in 0 .. MaxFd /\ table'[thread'[t].fd] = t
                    /\ thread'[t].pc \in {"length", "body", "recv"} => thread'[t].hold = t
  BY DEF OwnInv, Working
<1>1. /\ thread[t].pc \in Working => thread[t].fd \in 0 .. MaxFd /\ table[thread[t].fd] = t
      /\ thread[t].pc \in {"length", "body", "recv"} => thread[t].hold = t
  BY DEF OwnInv
<1>2. CASE thread'[t] = thread[t]
  BY <1>1, <1>2
<1>3. CASE thread'[t].pc \notin Working
  BY <1>3 DEF Working
<1>4. CASE /\ thread[t].pc \in Working /\ thread'[t].fd = thread[t].fd
           /\ thread'[t].pc \in {"length", "body", "recv"} => thread'[t].hold = table[thread[t].fd]
  BY <1>1, <1>3, <1>4
<1>5. CASE thread'[t].pc = "taken" /\ thread'[t].fd \in 0 .. MaxFd /\ table[thread'[t].fd] = t
  BY <1>3, <1>5
<1>. QED BY <1>2, <1>3, <1>4, <1>5 DEF Keeps

LEMMA NextOwn ==
  ASSUME TypeInv, PhaseInv, LockInv, DescriptorInv, OwnInv, SocketNext
  PROVE  OwnInv'
<1> SUFFICES ASSUME ~crossed' PROVE OwnInv'
  BY DEF OwnInv
<1>1. ASSUME Loop, UNCHANGED <<messageVars, clientVars>> PROVE OwnInv'
  <2>1. CASE Accept
    <3>1. Accepting
      BY <1>1, <2>1, AcceptEffect
    <3>2. crossed => crossed'
      BY <3>1 DEF Accepting, LoopVars, messageVars, clientVars
    <3>3. \A u \in Peer : Keeps(u)
      BY <3>1 DEF Accepting, LoopVars, GoesOn, messageVars, clientVars, OthersT, Keeps,
           Working
    <3>4. \A g \in 0 .. MaxFd : \A u \in Peer :
          table[g] = u /\ thread'[u].pc \in Working => table'[g] = u
      BY <3>1, ServerAssumption DEF Accepting, LoopVars, Accepts, GoesOn, messageVars,
           clientVars, OthersT, Working
    <3>. QED BY <3>2, <3>3, <3>4, OwnFrame
  <2>2. CASE AcceptWatched
    <3>1. AcceptingWatched
      BY <1>1, <2>2, AcceptWatchedEffect
    <3>2. crossed => crossed'
      BY <3>1 DEF AcceptingWatched, LoopVars, messageVars, clientVars
    <3>3. \A u \in Peer : Keeps(u)
      BY <3>1 DEF AcceptingWatched, LoopVars, messageVars, clientVars, Keeps, Working
    <3>4. \A g \in 0 .. MaxFd : \A u \in Peer :
          table[g] = u /\ thread'[u].pc \in Working => table'[g] = u
      BY <3>1, ServerAssumption DEF AcceptingWatched, LoopVars, Accepts, messageVars,
           clientVars, Working
    <3>. QED BY <3>2, <3>3, <3>4, OwnFrame
  <2>3. ASSUME NEW f \in 0 .. MaxFd, HandOver(f) PROVE OwnInv'
    <3>0. PICK p : p = table[f]
      OBVIOUS
    <3>1. HandingOver(f, p)
      BY <1>1, <2>3, <3>0, HandOverEffect
    <3>2. crossed => crossed'
      BY <3>0, <3>1 DEF HandingOver, LoopVars, messageVars, clientVars
    <3>5. p \in Peer /\ thread[p].pc = "none"
      BY <3>0, <3>1 DEF HandingOver, LoopVars, DescriptorInv
    <3>3. \A u \in Peer : Keeps(u)
      BY <3>0, <3>1 DEF HandingOver, LoopVars, GoesOn, messageVars, clientVars, OthersT,
           Keeps, Working
    <3>4. \A g \in 0 .. MaxFd : \A u \in Peer :
          table[g] = u /\ thread'[u].pc \in Working => table'[g] = u
      BY <3>0, <3>1, <3>5 DEF HandingOver, LoopVars, GoesOn, messageVars, clientVars,
           OthersT, Working
    <3>. QED BY <3>2, <3>3, <3>4, OwnFrame
  <2>. QED BY <1>1, <2>1, <2>2, <2>3 DEF Loop
<1>2. ASSUME NEW t \in Peer, TakeDescriptor(t), UNCHANGED <<messageVars, clientVars>> PROVE OwnInv'
  <2>1. Taking(t)
    BY <1>2, TakeEffect
  <2>2. crossed => crossed'
    BY <2>1 DEF Taking, messageVars, clientVars
  <2>3. \A u \in Peer : Keeps(u)
    BY <2>1 DEF Taking, messageVars, clientVars, OthersT, Keeps, Working
  <2>4. \A g \in 0 .. MaxFd : \A u \in Peer :
        table[g] = u /\ thread'[u].pc \in Working => table'[g] = u
    BY <2>1 DEF Taking, messageVars, clientVars, OthersT, Working
  <2>. QED BY <2>2, <2>3, <2>4, OwnFrame
<1>3. ASSUME NEW p \in Peer, ClientStep(p), UNCHANGED clientVars PROVE OwnInv'
  <2>1. CASE ClientConnects(p)
    <3>1. Connecting(p)
      BY <1>3, <2>1, ClientConnectsEffect
    <3>2. crossed => crossed'
      BY <3>1 DEF Connecting, clientVars
    <3>3. \A u \in Peer : Keeps(u)
      BY <3>1 DEF Connecting, clientVars, Keeps, Working
    <3>4. \A g \in 0 .. MaxFd : \A u \in Peer :
          table[g] = u /\ thread'[u].pc \in Working => table'[g] = u
      BY <3>1 DEF Connecting, clientVars, Working
    <3>. QED BY <3>2, <3>3, <3>4, OwnFrame
  <2>2. CASE ClientSends(p)
    <3>1. Sending(p)
      BY <1>3, <2>2, ClientSendsEffect
    <3>2. crossed => crossed'
      BY <3>1 DEF Sending, ServerOnly, clientVars
    <3>3. \A u \in Peer : Keeps(u)
      BY <3>1 DEF Sending, ServerOnly, clientVars, Keeps, Working
    <3>4. \A g \in 0 .. MaxFd : \A u \in Peer :
          table[g] = u /\ thread'[u].pc \in Working => table'[g] = u
      BY <3>1 DEF Sending, ServerOnly, clientVars, Working
    <3>. QED BY <3>2, <3>3, <3>4, OwnFrame
  <2>3. CASE ClientReads(p)
    <3>1. Reading(p)
      BY <1>3, <2>3, ClientReadsEffect
    <3>2. crossed => crossed'
      BY <3>1 DEF Reading, ServerOnly, clientVars
    <3>3. \A u \in Peer : Keeps(u)
      BY <3>1 DEF Reading, ServerOnly, clientVars, Keeps, Working
    <3>4. \A g \in 0 .. MaxFd : \A u \in Peer :
          table[g] = u /\ thread'[u].pc \in Working => table'[g] = u
      BY <3>1 DEF Reading, ServerOnly, clientVars, Working
    <3>. QED BY <3>2, <3>3, <3>4, OwnFrame
  <2>. QED BY <1>3, <2>1, <2>2, <2>3 DEF ClientStep
<1>4. ASSUME NEW t \in Peer, TextStep(t), UNCHANGED clientVars PROVE OwnInv'
  <2>1. CASE ReceiveText(t)
    <3>1. ReceivingText(t)
      BY <1>4, <2>1, ReceiveTextEffect
    <3>2. crossed => crossed'
      BY <3>1 DEF ReceivingText, Waits, Ends, ServiceVars, clientVars
    <3>3. \A u \in Peer : Keeps(u)
      BY <3>1 DEF ReceivingText, Waits, Ends, ServiceVars, Enters, clientVars, OthersT,
           Keeps, Working
    <3>4. \A g \in 0 .. MaxFd : \A u \in Peer :
          table[g] = u /\ thread'[u].pc \in Working => table'[g] = u
      BY <3>1 DEF ReceivingText, Waits, Ends, ServiceVars, Enters, clientVars, OthersT,
           Working
    <3>. QED BY <3>2, <3>3, <3>4, OwnFrame
  <2>2. CASE TextReceived(t)
    <3>0. PICK p : p = thread[t].hold
      OBVIOUS
    <3>1. GettingText(t, p)
      BY <1>4, <2>2, <3>0, TextReceivedEffect
    <3>2. crossed => crossed'
      BY <3>0, <3>1 DEF GettingText, ServiceVars, clientVars
    <3>3. \A u \in Peer : Keeps(u)
      BY <3>0, <3>1 DEF GettingText, ServiceVars, Leaves, clientVars, OthersT, Keeps,
           Working
    <3>4. \A g \in 0 .. MaxFd : \A u \in Peer :
          table[g] = u /\ thread'[u].pc \in Working => table'[g] = u
      BY <3>0, <3>1 DEF GettingText, ServiceVars, Leaves, clientVars, OthersT, Working
    <3>. QED BY <3>2, <3>3, <3>4, OwnFrame
  <2>3. CASE WriteMessage(t)
    <3>1. Writing(t)
      BY <1>4, <2>3, WriteMessageEffect
    <3>2. crossed => crossed'
      BY <3>1 DEF Writing, clientVars
    <3>3. \A u \in Peer : Keeps(u)
      BY <3>1 DEF Writing, GoesOn, clientVars, OthersT, Keeps, Working
    <3>4. \A g \in 0 .. MaxFd : \A u \in Peer :
          table[g] = u /\ thread'[u].pc \in Working => table'[g] = u
      BY <3>1 DEF Writing, GoesOn, clientVars, OthersT, Working
    <3>. QED BY <3>2, <3>3, <3>4, OwnFrame
  <2>4. CASE InvokeMethod(t)
    <3>1. Invoking(t)
      BY <1>4, <2>4, InvokeMethodEffect
    <3>2. crossed => crossed'
      BY <3>1 DEF Invoking, ServiceVars, clientVars
    <3>3. \A u \in Peer : Keeps(u)
      BY <3>1 DEF Invoking, GoesOn, ServiceVars, OthersT, clientVars, Keeps, Working
    <3>4. \A g \in 0 .. MaxFd : \A u \in Peer :
          table[g] = u /\ thread'[u].pc \in Working => table'[g] = u
      BY <3>1 DEF Invoking, GoesOn, ServiceVars, OthersT, clientVars, Working
    <3>. QED BY <3>2, <3>3, <3>4, OwnFrame
  <2>5. CASE AnswerText(t)
    <3>1. AnsweringText(t)
      BY <1>4, <2>5, AnswerTextEffect
    <3>2. crossed => crossed'
      BY <3>1 DEF AnsweringText, ServiceVars, clientVars
    <3>3. \A u \in Peer : Keeps(u)
      BY <3>1 DEF AnsweringText, GoesOn, ServiceVars, OthersT, clientVars, Keeps,
           Working
    <3>4. \A g \in 0 .. MaxFd : \A u \in Peer :
          table[g] = u /\ thread'[u].pc \in Working => table'[g] = u
      BY <3>1 DEF AnsweringText, GoesOn, ServiceVars, OthersT, clientVars, Working
    <3>. QED BY <3>2, <3>3, <3>4, OwnFrame
  <2>6. CASE CloseText(t)
    <3>1. ClosingText(t)
      BY <1>4, <2>6, CloseTextEffect
    <3>2. crossed => crossed'
      BY <3>1 DEF ClosingText, Closes, clientVars
    <3>3. \A u \in Peer : Keeps(u)
      BY <3>1 DEF ClosingText, Closes, clientVars, GoesOn, OthersT, Keeps, Working
    <3>4. \A g \in 0 .. MaxFd : \A u \in Peer :
          table[g] = u /\ thread'[u].pc \in Working => table'[g] = u
      BY <3>1 DEF ClosingText, Closes, clientVars, GoesOn, OthersT, Working
    <3>. QED BY <3>2, <3>3, <3>4, OwnFrame
  <2>. QED BY <1>4, <2>1, <2>2, <2>3, <2>4, <2>5, <2>6 DEF TextStep
<1>5. ASSUME NEW c \in Caller, CallerStep(c) \/ CallerKilled(c) PROVE OwnInv'
  <2>1. CASE GetPooledConnection(c)
    <3>1. TakingPooled(c)
      BY <1>5, <2>1, GetPooledEffect
    <3>2. crossed => crossed'
      BY <3>1 DEF TakingPooled, Behind, serverSide, messageVars
    <3>3. \A u \in Peer : Keeps(u)
      BY <3>1 DEF TakingPooled, Behind, serverSide, messageVars, Keeps, Working
    <3>4. \A g \in 0 .. MaxFd : \A u \in Peer :
          table[g] = u /\ thread'[u].pc \in Working => table'[g] = u
      BY <3>1 DEF TakingPooled, Behind, serverSide, messageVars, Working
    <3>. QED BY <3>2, <3>3, <3>4, OwnFrame
  <2>2. CASE GetOwnConnection(c)
    <3>1. Opening(c)
      BY <1>5, <2>2, GetOwnEffect
    <3>2. crossed => crossed'
      BY <3>1 DEF Opening, messageVars
    <3>3. \A u \in Peer : Keeps(u)
      BY <3>1 DEF Opening, messageVars, Keeps, Working
    <3>4. \A g \in 0 .. MaxFd : \A u \in Peer :
          table[g] = u /\ thread'[u].pc \in Working => table'[g] = u
      BY <3>1 DEF Opening, messageVars, Working
    <3>. QED BY <3>2, <3>3, <3>4, OwnFrame
  <2>3. CASE LockConnection(c)
    <3>1. Locking(c)
      BY <1>5, <2>3, LockEffect
    <3>2. crossed => crossed'
      BY <3>1 DEF Locking, Behind, serverSide, messageVars
    <3>3. \A u \in Peer : Keeps(u)
      BY <3>1 DEF Locking, Behind, serverSide, messageVars, Keeps, Working
    <3>4. \A g \in 0 .. MaxFd : \A u \in Peer :
          table[g] = u /\ thread'[u].pc \in Working => table'[g] = u
      BY <3>1 DEF Locking, Behind, serverSide, messageVars, Working
    <3>. QED BY <3>2, <3>3, <3>4, OwnFrame
  <2>4. CASE SendQuery(c)
    <3>1. Asking(c)
      BY <1>5, <2>4, SendQueryEffect, OnPeer DEF SendQuery
    <3>2. crossed => crossed'
      BY <3>1 DEF Asking, Behind, serverSide, messageVars
    <3>3. \A u \in Peer : Keeps(u)
      BY <3>1 DEF Asking, Behind, serverSide, messageVars, Keeps, Working
    <3>4. \A g \in 0 .. MaxFd : \A u \in Peer :
          table[g] = u /\ thread'[u].pc \in Working => table'[g] = u
      BY <3>1 DEF Asking, Behind, serverSide, messageVars, Working
    <3>. QED BY <3>2, <3>3, <3>4, OwnFrame
  <2>5. CASE ReadLength(c)
    <3>0. PICK out : out = conn[On(c)].out
      OBVIOUS
    <3>1. ReadingLength(c, out)
      BY <1>5, <2>5, <3>0, ReadLengthEffect, OnPeer DEF ReadLength
    <3>2. crossed => crossed'
      BY <3>0, <3>1 DEF ReadingLength, Behind, serverSide, messageVars
    <3>3. \A u \in Peer : Keeps(u)
      BY <3>0, <3>1 DEF ReadingLength, Behind, serverSide, messageVars, Keeps, Working
    <3>4. \A g \in 0 .. MaxFd : \A u \in Peer :
          table[g] = u /\ thread'[u].pc \in Working => table'[g] = u
      BY <3>0, <3>1 DEF ReadingLength, Behind, serverSide, messageVars, Working
    <3>. QED BY <3>2, <3>3, <3>4, OwnFrame
  <2>6. CASE ReadLengthAtEnd(c)
    <3>1. ReadingEnd(c)
      BY <1>5, <2>6, ReadLengthAtEndEffect
    <3>2. crossed => crossed'
      BY <3>1 DEF ReadingEnd, Behind, serverSide, messageVars
    <3>3. \A u \in Peer : Keeps(u)
      BY <3>1 DEF ReadingEnd, Behind, serverSide, messageVars, Keeps, Working
    <3>4. \A g \in 0 .. MaxFd : \A u \in Peer :
          table[g] = u /\ thread'[u].pc \in Working => table'[g] = u
      BY <3>1 DEF ReadingEnd, Behind, serverSide, messageVars, Working
    <3>. QED BY <3>2, <3>3, <3>4, OwnFrame
  <2>7. CASE ReadAnswer(c)
    <3>0. PICK out : out = conn[On(c)].out
      OBVIOUS
    <3>1. ReadingAnswer(c, out)
      BY <1>5, <2>7, <3>0, ReadAnswerEffect, OnPeer DEF ReadAnswer
    <3>2. crossed => crossed'
      BY <3>0, <3>1 DEF ReadingAnswer, Behind, serverSide, messageVars
    <3>3. \A u \in Peer : Keeps(u)
      BY <3>0, <3>1 DEF ReadingAnswer, Behind, serverSide, messageVars, Keeps, Working
    <3>4. \A g \in 0 .. MaxFd : \A u \in Peer :
          table[g] = u /\ thread'[u].pc \in Working => table'[g] = u
      BY <3>0, <3>1 DEF ReadingAnswer, Behind, serverSide, messageVars, Working
    <3>. QED BY <3>2, <3>3, <3>4, OwnFrame
  <2>8. CASE UnlockConnection(c)
    <3>1. Unlocking(c)
      BY <1>5, <2>8, UnlockEffect
    <3>2. crossed => crossed'
      BY <3>1 DEF Unlocking, Behind, serverSide, messageVars
    <3>3. \A u \in Peer : Keeps(u)
      BY <3>1 DEF Unlocking, Behind, serverSide, messageVars, Keeps, Working
    <3>4. \A g \in 0 .. MaxFd : \A u \in Peer :
          table[g] = u /\ thread'[u].pc \in Working => table'[g] = u
      BY <3>1 DEF Unlocking, Behind, serverSide, messageVars, Working
    <3>. QED BY <3>2, <3>3, <3>4, OwnFrame
  <2>9. CASE ReleaseConnection(c)
    <3>1. Releasing(c)
      BY <1>5, <2>9, ReleaseEffect
    <3>2. crossed => crossed'
      BY <3>1 DEF Releasing, Behind, serverSide, messageVars
    <3>3. \A u \in Peer : Keeps(u)
      BY <3>1 DEF Releasing, Behind, serverSide, messageVars, Keeps, Working
    <3>4. \A g \in 0 .. MaxFd : \A u \in Peer :
          table[g] = u /\ thread'[u].pc \in Working => table'[g] = u
      BY <3>1 DEF Releasing, Behind, serverSide, messageVars, Working
    <3>. QED BY <3>2, <3>3, <3>4, OwnFrame
  <2>10. CASE DeleteConnection(c)
    <3>1. Deleting(c)
      BY <1>5, <2>10, DeleteEffect
    <3>2. crossed => crossed'
      BY <3>1 DEF Deleting, Behind, serverSide, messageVars
    <3>3. \A u \in Peer : Keeps(u)
      BY <3>1 DEF Deleting, Behind, serverSide, messageVars, Keeps, Working
    <3>4. \A g \in 0 .. MaxFd : \A u \in Peer :
          table[g] = u /\ thread'[u].pc \in Working => table'[g] = u
      BY <3>1 DEF Deleting, Behind, serverSide, messageVars, Working
    <3>. QED BY <3>2, <3>3, <3>4, OwnFrame
  <2>11. CASE CallerKilled(c)
    <3>1. Dying(c)
      BY <1>5, <2>11, KilledEffect
    <3>2. crossed => crossed'
      BY <3>1 DEF Dying, Behind, serverSide, messageVars
    <3>3. \A u \in Peer : Keeps(u)
      BY <3>1 DEF Dying, Behind, serverSide, messageVars, Keeps, Working
    <3>4. \A g \in 0 .. MaxFd : \A u \in Peer :
          table[g] = u /\ thread'[u].pc \in Working => table'[g] = u
      BY <3>1 DEF Dying, Behind, serverSide, messageVars, Working
    <3>. QED BY <3>2, <3>3, <3>4, OwnFrame
  <2>. QED
    BY <1>5, <2>1, <2>2, <2>3, <2>4, <2>5, <2>6, <2>7, <2>8, <2>9, <2>10, <2>11 DEF
         CallerStep
<1>6. ASSUME NEW t \in Peer, SessionStep(t) PROVE OwnInv'
  <2>1. CASE ReceiveLength(t)
    <3>1. ReceivingLength(t)
      BY <1>6, <2>1, ReceiveLengthEffect
    <3>2. crossed => crossed'
      BY <3>1 DEF ReceivingLength, Waits, Ends, ServiceVars, clientVars
    <3>3. \A u \in Peer : Keeps(u)
      BY <3>1 DEF ReceivingLength, Waits, Ends, ServiceVars, Leaves, Enters, clientVars,
           OthersT, Keeps, Working
    <3>4. \A g \in 0 .. MaxFd : \A u \in Peer :
          table[g] = u /\ thread'[u].pc \in Working => table'[g] = u
      BY <3>1 DEF ReceivingLength, Waits, Ends, ServiceVars, Leaves, Enters, clientVars,
           OthersT, Working
    <3>. QED BY <3>2, <3>3, <3>4, OwnFrame
  <2>2. CASE LengthReceived(t)
    <3>0. PICK p : p = thread[t].hold
      OBVIOUS
    <3>1. GettingLength(t, p)
      BY <1>6, <2>2, <3>0, LengthReceivedEffect DEF LengthReceived, PhaseInv
    <3>2. crossed => crossed'
      BY <3>0, <3>1 DEF GettingLength, ServiceVars, Ends, clientVars
    <3>3. \A u \in Peer : Keeps(u)
      BY <3>0, <3>1 DEF GettingLength, ServiceVars, Leaves, Ends, clientVars, OthersT,
           Keeps, Working
    <3>4. \A g \in 0 .. MaxFd : \A u \in Peer :
          table[g] = u /\ thread'[u].pc \in Working => table'[g] = u
      BY <3>0, <3>1 DEF GettingLength, ServiceVars, Leaves, Ends, clientVars, OthersT,
           Working
    <3>. QED BY <3>2, <3>3, <3>4, OwnFrame
  <2>3. CASE ReceiveQuery(t)
    <3>1. ReceivingQuery(t)
      BY <1>6, <2>3, ReceiveQueryEffect
    <3>2. crossed => crossed'
      BY <3>1 DEF ReceivingQuery, Waits, ServiceVars, clientVars
    <3>3. \A u \in Peer : Keeps(u)
      BY <3>1 DEF ReceivingQuery, Waits, ServiceVars, Enters, clientVars, OthersT,
           Keeps, Working
    <3>4. \A g \in 0 .. MaxFd : \A u \in Peer :
          table[g] = u /\ thread'[u].pc \in Working => table'[g] = u
      BY <3>1 DEF ReceivingQuery, Waits, ServiceVars, Enters, clientVars, OthersT,
           Working
    <3>. QED BY <3>2, <3>3, <3>4, OwnFrame
  <2>4. CASE QueryReceived(t)
    <3>0. PICK p : p = thread[t].hold
      OBVIOUS
    <3>1. GettingQuery(t, p)
      BY <1>6, <2>4, <3>0, QueryReceivedEffect DEF QueryReceived, PhaseInv
    <3>2. crossed => crossed'
      BY <3>0, <3>1 DEF GettingQuery, ServiceVars, clientVars
    <3>3. \A u \in Peer : Keeps(u)
      BY <3>0, <3>1 DEF GettingQuery, ServiceVars, Leaves, clientVars, OthersT, Keeps,
           Working
    <3>4. \A g \in 0 .. MaxFd : \A u \in Peer :
          table[g] = u /\ thread'[u].pc \in Working => table'[g] = u
      BY <3>0, <3>1 DEF GettingQuery, ServiceVars, Leaves, clientVars, OthersT, Working
    <3>. QED BY <3>2, <3>3, <3>4, OwnFrame
  <2>5. CASE AnswerQuery(t)
    <3>1. AnsweringQuery(t)
      BY <1>6, <2>5, AnswerQueryEffect
    <3>2. crossed => crossed'
      BY <3>1 DEF AnsweringQuery, ServiceVars, Ends, clientVars
    <3>3. \A u \in Peer : Keeps(u)
      BY <3>1 DEF AnsweringQuery, ServiceVars, GoesOn, Ends, clientVars, OthersT, Keeps,
           Working
    <3>4. \A g \in 0 .. MaxFd : \A u \in Peer :
          table[g] = u /\ thread'[u].pc \in Working => table'[g] = u
      BY <3>1 DEF AnsweringQuery, ServiceVars, GoesOn, Ends, clientVars, OthersT,
           Working
    <3>. QED BY <3>2, <3>3, <3>4, OwnFrame
  <2>6. CASE CloseSession(t)
    <3>1. ClosingSession(t)
      BY <1>6, <2>6, CloseSessionEffect
    <3>2. crossed => crossed'
      BY <3>1 DEF ClosingSession, Closes, clientVars
    <3>3. \A u \in Peer : Keeps(u)
      BY <3>1 DEF ClosingSession, Closes, clientVars, GoesOn, OthersT, Keeps, Working
    <3>4. \A g \in 0 .. MaxFd : \A u \in Peer :
          table[g] = u /\ thread'[u].pc \in Working => table'[g] = u
      BY <3>1 DEF ClosingSession, Closes, clientVars, GoesOn, OthersT, Working
    <3>. QED BY <3>2, <3>3, <3>4, OwnFrame
  <2>. QED BY <1>6, <2>1, <2>2, <2>3, <2>4, <2>5, <2>6 DEF SessionStep
<1>. QED BY <1>1, <1>2, <1>3, <1>4, <1>5, <1>6 DEF SocketNext, MessageNext, ClientNext

----------------------------------------------------------------------------
(* The messages.                                                           *)

\* Nothing happens to the texts.
LEMMA OnceFrame ==
  ASSUME OnceInv, UNCHANGED <<service, files>>,
         \A p \in Peer : /\ call'[p].text = call[p].text /\ conn'[p].in = conn[p].in
                         /\ call'[p].pc # "new" => call[p].pc # "new"
                         /\ call'[p].pc \notin {"new", "connected"} <=> call[p].pc \notin {"new", "connected"},
         \A t \in Peer : thread'[t].pc \in {"got", "answer"} =>
                           /\ thread[t].pc = thread'[t].pc \/ thread'[t].pc = "answer"
                           /\ thread[t].pc \in {"got", "answer"} /\ thread'[t].got = thread[t].got
  PROVE  OnceInv'
<1> SUFFICES ASSUME service = "messages", NEW p \in Peer
             PROVE  TextInv(p)' /\ GotInv(p)' /\ PlaceInv(p)'
  BY DEF OnceInv
<1>1. TextInv(p) /\ GotInv(p) /\ PlaceInv(p)
  BY DEF OnceInv
<1>2. InFile(p)' <=> InFile(p)
  BY DEF InFile
<1>3. \A q \in Peer : WasSent(q)' <=> WasSent(q)
  BY DEF WasSent
<1>4. \A t \in Peer : Holds(t, p)' => Holds(t, p)
  BY DEF Holds
<1>5. TextInv(p)'
  BY <1>1, <1>2, <1>3 DEF TextInv
<1>6. GotInv(p)'
  BY <1>1, <1>3 DEF GotInv
<1>7. PlaceInv(p)'
  BY <1>1, <1>2, <1>3, <1>4 DEF PlaceInv
<1>. QED BY <1>5, <1>6, <1>7

LEMMA ConnectOnce ==
  ASSUME TypeInv, OnceInv, service = "messages", NEW p \in Peer, Connecting(p)
  PROVE  OnceInv'
<1> SUFFICES ASSUME NEW r \in Peer PROVE TextInv(r)' /\ GotInv(r)' /\ PlaceInv(r)'
  BY DEF OnceInv
<1>1. /\ UNCHANGED <<files, thread>> /\ \A q \in Peer : conn'[q].in = conn[q].in
      /\ \A q \in Peer : q # p => call'[q] = call[q]
      /\ call[p].pc = "new" /\ call'[p].pc = "connected" /\ call'[p].text \in MessageCalls
  BY DEF Connecting, Conn, OthersC, OthersP
<1>2. /\ \A q \in Peer : TextInv(q) /\ PlaceInv(q)
      /\ GotInv(r)
  BY DEF OnceInv
<1>3. \A q \in Peer : InFile(q)' <=> InFile(q)
  BY <1>1 DEF InFile
<1>4. \A q \in Peer : WasSent(q)' <=> WasSent(q)
  BY <1>1 DEF WasSent
<1>5. ~WasSent(p) /\ conn[p].in = <<>> /\ ~InFile(p)
  BY <1>1, <1>2 DEF WasSent, TextInv
<1>6. TextInv(r)'
  BY <1>1, <1>2, <1>3, <1>4, <1>5 DEF TextInv
<1>7. GotInv(r)'
  BY <1>1, <1>2, <1>4, <1>5 DEF GotInv
<1>8. PlaceInv(r)'
  <2>1. \A t \in Peer : Holds(t, r)' <=> Holds(t, r)
    BY <1>1 DEF Holds
  <2>. QED BY <1>1, <1>2, <1>3, <1>4, <1>5, <2>1 DEF PlaceInv
<1>. QED BY <1>6, <1>7, <1>8

LEMMA SendOnce ==
  ASSUME TypeInv, OnceInv, service = "messages", NEW p \in Peer, Sending(p)
  PROVE  OnceInv'
<1> SUFFICES ASSUME NEW r \in Peer PROVE TextInv(r)' /\ GotInv(r)' /\ PlaceInv(r)'
  BY DEF OnceInv, Sending, ServerOnly
<1>1. /\ UNCHANGED <<files, thread>> /\ \A q \in Peer : q # p => conn'[q].in = conn[q].in
      /\ conn'[p].in = <<call[p].text>>
      /\ \A q \in Peer : q # p => call'[q] = call[q]
      /\ call[p].pc = "connected" /\ call'[p].pc = "waiting" /\ call'[p].text = call[p].text
  BY DEF Sending, ServerOnly, Conn, OthersC, OthersP
<1>2. /\ \A q \in Peer : TextInv(q) /\ PlaceInv(q) /\ GotInv(q)
  BY DEF OnceInv
<1>3. \A q \in Peer : InFile(q)' <=> InFile(q)
  BY <1>1 DEF InFile
<1>4. \A q \in Peer : q # p => (WasSent(q)' <=> WasSent(q))
  BY <1>1 DEF WasSent
<1>5. ~WasSent(p) /\ ~InFile(p) /\ WasSent(p)'
  BY <1>1, <1>2 DEF WasSent, TextInv
<1>6. TextInv(r)'
  BY <1>1, <1>2, <1>3, <1>4, <1>5 DEF TextInv
<1>7. GotInv(r)'
  BY <1>1, <1>2, <1>4, <1>5 DEF GotInv
<1>8. PlaceInv(r)'
  <2>1. \A t \in Peer : Holds(t, r)' <=> Holds(t, r)
    BY <1>1 DEF Holds
  <2>2. \A t \in Peer : ~Holds(t, p)
    BY <1>2, <1>5 DEF Holds, GotInv
  <2>3. CASE r = p
    BY <1>3, <1>5, <2>1, <2>2, <2>3 DEF PlaceInv
  <2>4. CASE r # p
    BY <1>1, <1>2, <1>3, <1>4, <2>1, <2>4 DEF PlaceInv
  <2>. QED BY <2>3, <2>4
<1>. QED BY <1>6, <1>7, <1>8

LEMMA ReceiveOnce ==
  ASSUME TypeInv, OnceInv, service = "messages", NEW t \in Peer, NEW p, GettingText(t, p)
  PROVE  OnceInv'
<1>1. /\ UNCHANGED <<service, files, call>> /\ thread[t].pc = "recv" /\ p \in Peer
      /\ \A u \in Peer : u # t => thread'[u] = thread[u]
  BY DEF GettingText, ServiceVars, Leaves, OthersT
<1>2. CASE UNCHANGED conn /\ Leaves(t, "close", thread[t].got)
  <2>1. thread'[t].pc = "close"
    BY <1>2 DEF Leaves
  <2>. QED BY <1>1, <1>2, <2>1, OnceFrame
<1>3. ASSUME NEW i \in DOMAIN conn[p].in, NEW text, text = conn[p].in[i], conn[p].in # <<>>,
             Conn(p, IF text.whole THEN <<>> ELSE <<text>>, conn[p].out, conn[p].client),
             \/ Leaves(t, "close", <<text, p>>)
             \/ text.kind \in {"send", "invoke"} /\ Leaves(t, "got", <<text, p>>)
      PROVE  OnceInv'
  <2> SUFFICES ASSUME NEW r \in Peer PROVE TextInv(r)' /\ GotInv(r)' /\ PlaceInv(r)'
    BY <1>1 DEF OnceInv
  <2>1. \A q \in Peer : TextInv(q) /\ PlaceInv(q) /\ GotInv(q)
    BY DEF OnceInv
  <2>2. /\ conn[p].in = <<call[p].text>> /\ WasSent(p)
    BY <1>1, <1>3, <2>1 DEF TextInv
  <2>3. text = call[p].text
    BY <1>3, <2>2
  <2>4. /\ call[p].text \in MessageCalls
    BY <1>1, <2>1, <2>2 DEF TextInv, WasSent
  <2>5. /\ \A q \in Peer : q # p => conn'[q].in = conn[q].in
        /\ conn'[p].in = IF call[p].text.whole THEN <<>> ELSE <<call[p].text>>
    BY <1>3, <2>3 DEF Conn, OthersC
  <2>6. /\ thread'[t].pc \in {"close", "got"} /\ thread'[t].got = <<call[p].text, p>>
        /\ thread'[t].pc = "got" => call[p].text.kind = "send"
    <3>1. call[p].text.kind \in {"send", "invoke"} => call[p].text.kind = "send"
      BY <2>4, MessageAssumption
    <3>. QED BY <1>3, <2>3, <3>1 DEF Leaves
  <2>7. \A q \in Peer : (InFile(q)' <=> InFile(q)) /\ (WasSent(q)' <=> WasSent(q))
    BY <1>1 DEF InFile, WasSent
  <2>8. TextInv(r)'
    BY <1>1, <2>1, <2>2, <2>5, <2>7 DEF TextInv
  <2>9. GotInv(r)'
    <3>1. CASE r = t
      BY <1>1, <2>2, <2>6, <2>7, <3>1 DEF GotInv
    <3>2. CASE r # t
      BY <1>1, <2>1, <2>7, <3>2 DEF GotInv
    <3>. QED BY <3>1, <3>2
  <2>10. PlaceInv(r)'
    <3>1. \A u \in Peer : u # t => (Holds(u, r)' <=> Holds(u, r))
      BY <1>1 DEF Holds
    <3>2. ~Holds(t, r) /\ (Holds(t, r)' => r = p)
      BY <1>1, <2>6 DEF Holds
    <3>3. CASE r # p
      <4>1. \A u \in Peer : Holds(u, r)' => Holds(u, r)
        BY <3>1, <3>2, <3>3
      <4>. QED BY <1>1, <2>1, <2>5, <2>7, <3>3, <4>1 DEF PlaceInv
    <3>4. CASE r = p /\ call[p].text.whole
      <4>1. \A u \in Peer : ~Holds(u, p)
        BY <1>1, <2>1, <2>2, <3>4 DEF PlaceInv
      <4>2. ~InFile(p) /\ conn'[p].in = <<>>
        BY <1>1, <2>1, <2>2, <2>5, <3>4 DEF PlaceInv
      <4>3. \A u \in Peer : Holds(u, p)' => u = t
        BY <3>1, <3>4, <4>1
      <4>. QED BY <2>7, <3>4, <4>2, <4>3 DEF PlaceInv
    <3>5. CASE r = p /\ ~call[p].text.whole
      BY <1>1, <3>5 DEF PlaceInv
    <3>. QED BY <3>3, <3>4, <3>5
  <2>. QED BY <2>8, <2>9, <2>10
<1>. QED BY <1>2, <1>3 DEF GettingText

\* What a write does to the files.
LEMMA WriteEffect ==
  ASSUME TypeInv, OnceInv, service = "messages", NEW t \in Peer, Writing(t),
         NEW q, q = thread[t].got[2]
  PROVE  /\ q \in Peer /\ Holds(t, q) /\ call[q].text.kind = "send" /\ WasSent(q)
         /\ \/ /\ call[q].text.valid /\ call[q].text.whole /\ call[q].text.to \in Destination
               /\ files' = [files EXCEPT ![call[q].text.to] = Append(@, q)]
            \/ /\ ~(call[q].text.valid /\ call[q].text.whole /\ call[q].text.to \in Destination)
               /\ files' = files
<1>1. GotInv(t) /\ thread[t].pc = "got"
  BY DEF OnceInv, Writing
<1>2. q \in Peer /\ Holds(t, q) /\ call[q].text.kind = "send" /\ WasSent(q)
      /\ thread[t].got[1] = call[q].text
  BY <1>1 DEF GotInv, Holds
<1>3. files' = Stored(call[q].text, q)
  BY <1>2 DEF Writing
<1>. QED BY <1>2, <1>3 DEF Stored

LEMMA Appended ==
  ASSUME TypeInv, NEW d \in Destination, NEW q \in Peer, files' = [files EXCEPT ![d] = Append(@, q)]
  PROVE  /\ \A e \in Destination : e # d => files'[e] = files[e]
         /\ files[d] \in Seq(Peer) /\ Len(files[d]) \in Nat /\ DOMAIN files[d] = 1 .. Len(files[d])
         /\ DOMAIN files'[d] = 1 .. Len(files[d]) + 1 /\ files'[d][Len(files[d]) + 1] = q
         /\ \A i \in DOMAIN files[d] : files'[d][i] = files[d][i]
<1>1. files[d] \in Seq(Peer) /\ files'[d] = Append(files[d], q) /\ \A e \in Destination : e # d => files'[e] = files[e]
  BY DEF TypeInv
<1>. QED BY <1>1

LEMMA WriteOnce ==
  ASSUME TypeInv, OnceInv, service = "messages", NEW t \in Peer, Writing(t)
  PROVE  OnceInv'
<1>1. PICK q : q = thread[t].got[2]
  OBVIOUS
<1>2. /\ UNCHANGED <<service, call, conn>> /\ thread[t].pc = "got" /\ thread'[t].pc = "answer"
      /\ thread'[t].got = thread[t].got /\ \A u \in Peer : u # t => thread'[u] = thread[u]
  BY DEF Writing, GoesOn, OthersT
<1>3. q \in Peer /\ Holds(t, q) /\ WasSent(q)
  BY <1>1, WriteEffect
<1>4. CASE UNCHANGED files
  BY <1>2, <1>4, OnceFrame
<1>5. CASE /\ call[q].text.valid /\ call[q].text.whole /\ call[q].text.to \in Destination
           /\ files' = [files EXCEPT ![call[q].text.to] = Append(@, q)]
  <2> SUFFICES ASSUME NEW r \in Peer PROVE TextInv(r)' /\ GotInv(r)' /\ PlaceInv(r)'
    BY <1>2 DEF OnceInv
  <2>1. \A p \in Peer : TextInv(p) /\ PlaceInv(p) /\ GotInv(p)
    BY DEF OnceInv
  <2>2. PICK d \in Destination : d = call[q].text.to
    BY <1>5
  <2>3. /\ \A e \in Destination : e # d => files'[e] = files[e]
        /\ Len(files[d]) \in Nat /\ DOMAIN files[d] = 1 .. Len(files[d])
        /\ DOMAIN files'[d] = 1 .. Len(files[d]) + 1 /\ files'[d][Len(files[d]) + 1] = q
        /\ \A i \in DOMAIN files[d] : files'[d][i] = files[d][i]
    BY ZenonT(60), <1>3, <1>5, <2>2, Appended
  <2>4. r # q => (InFile(r)' => InFile(r))
    <3> SUFFICES ASSUME r # q, NEW e \in Destination, NEW i \in DOMAIN files'[e], files'[e][i] = r
                 PROVE  InFile(r)
      BY DEF InFile
    <3>1. CASE e # d
      BY <2>3, <3>1 DEF InFile
    <3>2. CASE e = d
      <4>1. i \in DOMAIN files[d] \/ i = Len(files[d]) + 1
        BY <2>3, <3>2
      <4>. QED BY <2>3, <3>2, <4>1 DEF InFile
    <3>. QED BY <3>1, <3>2
  <2>5. WasSent(r)' <=> WasSent(r)
    BY <1>2 DEF WasSent
  <2>6. TextInv(r)'
    BY <1>2, <1>3, <1>5, <2>1, <2>4, <2>5 DEF TextInv
  <2>7. GotInv(r)'
    BY <1>2, <2>1 DEF GotInv, WasSent
  <2>8. PlaceInv(r)'
    <3>1. \A u \in Peer : Holds(u, r)' => Holds(u, r) /\ u # t
      BY <1>2 DEF Holds
    <3>2. CASE r # q
      BY <1>2, <2>1, <2>4, <2>5, <3>1, <3>2 DEF PlaceInv
    <3>3. CASE r = q
      <4>1. conn[q].in = <<>> /\ \A u \in Peer : Holds(u, q) => u = t
        BY <1>3, <1>5, <2>1 DEF PlaceInv
      <4>2. \A u \in Peer : ~Holds(u, r)'
        BY <3>1, <3>3, <4>1
      <4>. QED BY <1>2, <3>3, <4>1, <4>2 DEF PlaceInv
    <3>. QED BY <3>2, <3>3
  <2>. QED BY <2>6, <2>7, <2>8
<1>. QED BY <1>1, <1>4, <1>5, WriteEffect

\* No message is in a file twice.
LEMMA WriteNoneTwice ==
  ASSUME TypeInv, OnceInv, NoneTwice, service = "messages", NEW t \in Peer, Writing(t)
  PROVE  NoneTwice'
<1>1. PICK q : q = thread[t].got[2]
  OBVIOUS
<1>2. q \in Peer /\ Holds(t, q) /\ WasSent(q)
  BY <1>1, WriteEffect
<1>3. CASE UNCHANGED files
  BY <1>3 DEF NoneTwice
<1>4. CASE /\ call[q].text.valid /\ call[q].text.whole /\ call[q].text.to \in Destination
           /\ files' = [files EXCEPT ![call[q].text.to] = Append(@, q)]
  <2>1. PICK d \in Destination : d = call[q].text.to
    BY <1>4
  <2>2. /\ \A e \in Destination : e # d => files'[e] = files[e]
        /\ Len(files[d]) \in Nat /\ DOMAIN files[d] = 1 .. Len(files[d])
        /\ DOMAIN files'[d] = 1 .. Len(files[d]) + 1 /\ files'[d][Len(files[d]) + 1] = q
        /\ \A i \in DOMAIN files[d] : files'[d][i] = files[d][i]
    BY ZenonT(60), <1>2, <1>4, <2>1, Appended
  <2>3. ~InFile(q)
    BY <1>2, <1>4 DEF OnceInv, PlaceInv
  <2>4. \A i \in DOMAIN files[d] : files[d][i] # q
    BY <2>3 DEF InFile
  <2>5. \A i \in DOMAIN files'[d] : i \in DOMAIN files[d] \/ i = Len(files[d]) + 1
    BY <2>2
  <2>6. \A i, j \in DOMAIN files[d] : files[d][i] = files[d][j] => i = j
    BY DEF NoneTwice
  <2>7. \A i, j \in DOMAIN files'[d] : files'[d][i] = files'[d][j] => i = j
    BY <2>2, <2>4, <2>5, <2>6
  <2>. QED BY <2>2, <2>7 DEF NoneTwice
<1>. QED BY <1>1, <1>3, <1>4, WriteEffect

LEMMA NextOnce ==
  ASSUME TypeInv, PhaseInv, LockInv, OnceInv, SocketNext
  PROVE  OnceInv'
<1> SUFFICES ASSUME service' = "messages" PROVE OnceInv'
  BY DEF OnceInv
<1>1. ASSUME Loop, UNCHANGED <<messageVars, clientVars>> PROVE OnceInv'
  <2>1. CASE Accept
    <3>1. Accepting
      BY <1>1, <2>1, AcceptEffect
    <3>2. UNCHANGED <<service, files, call>>
      BY <3>1 DEF Accepting, LoopVars, messageVars, clientVars
    <3>3. \A q \in Peer : conn'[q].in = conn[q].in
      BY <3>1 DEF Accepting, LoopVars, messageVars, clientVars
    <3>4. \A u \in Peer : thread'[u].pc \in {"got", "answer"} =>
           /\ thread[u].pc = thread'[u].pc \/ thread'[u].pc = "answer"
           /\ thread[u].pc \in {"got", "answer"} /\ thread'[u].got = thread[u].got
      BY <3>1 DEF Accepting, LoopVars, GoesOn, messageVars, clientVars, OthersT
    <3>. QED BY <3>2, <3>3, <3>4, OnceFrame
  <2>2. CASE AcceptWatched
    <3>1. AcceptingWatched
      BY <1>1, <2>2, AcceptWatchedEffect
    <3>. QED BY <3>1 DEF AcceptingWatched, LoopVars
  <2>3. ASSUME NEW f \in 0 .. MaxFd, HandOver(f) PROVE OnceInv'
    <3>0. PICK p : p = table[f]
      OBVIOUS
    <3>1. HandingOver(f, p)
      BY <1>1, <2>3, <3>0, HandOverEffect
    <3>2. UNCHANGED <<service, files, call>>
      BY <3>0, <3>1 DEF HandingOver, LoopVars, messageVars, clientVars
    <3>3. \A q \in Peer : conn'[q].in = conn[q].in
      BY <3>0, <3>1 DEF HandingOver, LoopVars, messageVars, clientVars
    <3>4. \A u \in Peer : thread'[u].pc \in {"got", "answer"} =>
           /\ thread[u].pc = thread'[u].pc \/ thread'[u].pc = "answer"
           /\ thread[u].pc \in {"got", "answer"} /\ thread'[u].got = thread[u].got
      BY <3>0, <3>1 DEF HandingOver, LoopVars, GoesOn, messageVars, clientVars, OthersT
    <3>. QED BY <3>2, <3>3, <3>4, OnceFrame
  <2>. QED BY <1>1, <2>1, <2>2, <2>3 DEF Loop
<1>2. ASSUME NEW t \in Peer, TakeDescriptor(t), UNCHANGED <<messageVars, clientVars>> PROVE OnceInv'
  <2>1. Taking(t)
    BY <1>2, TakeEffect
  <2>2. UNCHANGED <<service, files, call>>
    BY <2>1 DEF Taking, messageVars, clientVars
  <2>3. \A q \in Peer : conn'[q].in = conn[q].in
    BY <2>1 DEF Taking, messageVars, clientVars
  <2>4. \A u \in Peer : thread'[u].pc \in {"got", "answer"} =>
         /\ thread[u].pc = thread'[u].pc \/ thread'[u].pc = "answer"
         /\ thread[u].pc \in {"got", "answer"} /\ thread'[u].got = thread[u].got
    BY <2>1 DEF Taking, messageVars, clientVars, OthersT
  <2>. QED BY <2>2, <2>3, <2>4, OnceFrame
<1>3. ASSUME NEW p \in Peer, ClientStep(p), UNCHANGED clientVars PROVE OnceInv'
  <2>1. CASE ClientConnects(p)
    <3>1. Connecting(p)
      BY <1>3, <2>1, ClientConnectsEffect
    <3>. QED BY <3>1, ConnectOnce DEF Connecting
  <2>2. CASE ClientSends(p)
    <3>1. Sending(p)
      BY <1>3, <2>2, ClientSendsEffect
    <3>. QED BY <3>1, SendOnce DEF Sending, ServerOnly
  <2>3. CASE ClientReads(p)
    <3>1. Reading(p)
      BY <1>3, <2>3, ClientReadsEffect
    <3>2. UNCHANGED <<service, files, thread>>
      BY <3>1 DEF Reading, ServerOnly
    <3>3. \A q \in Peer :
           /\ call'[q].text = call[q].text /\ conn'[q].in = conn[q].in
           /\ call'[q].pc # "new" => call[q].pc # "new"
           /\ call'[q].pc \notin {"new", "connected"} <=> call[q].pc \notin {"new", "connected"}
      BY <3>1 DEF Reading, Conn, OthersC, OthersP
    <3>4. \A u \in Peer : thread'[u].pc \in {"got", "answer"} =>
           /\ thread[u].pc = thread'[u].pc \/ thread'[u].pc = "answer"
           /\ thread[u].pc \in {"got", "answer"} /\ thread'[u].got = thread[u].got
      BY <3>2
    <3>. QED BY <3>2, <3>3, <3>4, OnceFrame
  <2>. QED BY <1>3, <2>1, <2>2, <2>3 DEF ClientStep
<1>4. ASSUME NEW t \in Peer, TextStep(t), UNCHANGED clientVars PROVE OnceInv'
  <2>1. CASE ReceiveText(t)
    <3>1. ReceivingText(t)
      BY <1>4, <2>1, ReceiveTextEffect
    <3>2. UNCHANGED <<service, files, call>>
      BY <3>1 DEF ReceivingText, Waits, Ends, ServiceVars, clientVars
    <3>3. \A q \in Peer : conn'[q].in = conn[q].in
      BY <3>1 DEF ReceivingText, Waits, Ends, ServiceVars, clientVars
    <3>4. \A u \in Peer : thread'[u].pc \in {"got", "answer"} =>
           /\ thread[u].pc = thread'[u].pc \/ thread'[u].pc = "answer"
           /\ thread[u].pc \in {"got", "answer"} /\ thread'[u].got = thread[u].got
      BY <3>1 DEF ReceivingText, Waits, Ends, ServiceVars, Enters, clientVars, OthersT
    <3>. QED BY <3>2, <3>3, <3>4, OnceFrame
  <2>2. CASE TextReceived(t)
    <3>0. PICK p : p = thread[t].hold
      OBVIOUS
    <3>1. GettingText(t, p)
      BY <1>4, <2>2, <3>0, TextReceivedEffect
    <3>. QED BY <3>1, ReceiveOnce DEF GettingText, ServiceVars
  <2>3. CASE WriteMessage(t)
    <3>1. Writing(t)
      BY <1>4, <2>3, WriteMessageEffect
    <3>. QED BY <3>1, WriteOnce DEF Writing
  <2>4. CASE InvokeMethod(t)
    <3>1. Invoking(t)
      BY <1>4, <2>4, InvokeMethodEffect
    <3>2. UNCHANGED <<service, files, call>>
      BY <3>1 DEF Invoking, ServiceVars, clientVars
    <3>3. \A q \in Peer : conn'[q].in = conn[q].in
      BY <3>1 DEF Invoking, ServiceVars, clientVars
    <3>4. \A u \in Peer : thread'[u].pc \in {"got", "answer"} =>
           /\ thread[u].pc = thread'[u].pc \/ thread'[u].pc = "answer"
           /\ thread[u].pc \in {"got", "answer"} /\ thread'[u].got = thread[u].got
      BY <3>1 DEF Invoking, GoesOn, ServiceVars, OthersT, clientVars
    <3>. QED BY <3>2, <3>3, <3>4, OnceFrame
  <2>5. CASE AnswerText(t)
    <3>1. AnsweringText(t)
      BY <1>4, <2>5, AnswerTextEffect
    <3>2. UNCHANGED <<service, files, call>>
      BY <3>1 DEF AnsweringText, ServiceVars, clientVars
    <3>3. \A q \in Peer : conn'[q].in = conn[q].in
      BY <3>1 DEF AnsweringText, ServiceVars, Conn, clientVars, OthersC
    <3>4. \A u \in Peer : thread'[u].pc \in {"got", "answer"} =>
           /\ thread[u].pc = thread'[u].pc \/ thread'[u].pc = "answer"
           /\ thread[u].pc \in {"got", "answer"} /\ thread'[u].got = thread[u].got
      BY <3>1 DEF AnsweringText, GoesOn, ServiceVars, OthersT, clientVars
    <3>. QED BY <3>2, <3>3, <3>4, OnceFrame
  <2>6. CASE CloseText(t)
    <3>1. ClosingText(t)
      BY <1>4, <2>6, CloseTextEffect
    <3>2. UNCHANGED <<service, files, call>>
      BY <3>1 DEF ClosingText, Closes, clientVars
    <3>3. \A q \in Peer : conn'[q].in = conn[q].in
      BY <3>1 DEF ClosingText, Closes, clientVars
    <3>4. \A u \in Peer : thread'[u].pc \in {"got", "answer"} =>
           /\ thread[u].pc = thread'[u].pc \/ thread'[u].pc = "answer"
           /\ thread[u].pc \in {"got", "answer"} /\ thread'[u].got = thread[u].got
      BY <3>1 DEF ClosingText, Closes, clientVars, GoesOn, OthersT
    <3>. QED BY <3>2, <3>3, <3>4, OnceFrame
  <2>. QED BY <1>4, <2>1, <2>2, <2>3, <2>4, <2>5, <2>6 DEF TextStep
<1>5. ASSUME NEW c \in Caller, CallerStep(c) \/ CallerKilled(c) PROVE OnceInv'
  <2>1. CASE GetPooledConnection(c)
    <3>1. TakingPooled(c)
      BY <1>5, <2>1, GetPooledEffect
    <3>2. service = "messages"
      BY <3>1 DEF TakingPooled, Behind, serverSide, messageVars
    <3>. QED BY <3>1, <3>2 DEF TakingPooled, PhaseInv, SessionPcs
  <2>2. CASE GetOwnConnection(c)
    <3>1. Opening(c)
      BY <1>5, <2>2, GetOwnEffect
    <3>2. service = "messages"
      BY <3>1 DEF Opening, messageVars
    <3>. QED BY <3>1, <3>2 DEF Opening, PhaseInv, SessionPcs
  <2>3. CASE LockConnection(c)
    <3>1. Locking(c)
      BY <1>5, <2>3, LockEffect
    <3>2. service = "messages"
      BY <3>1 DEF Locking, Behind, serverSide, messageVars
    <3>. QED BY <3>1, <3>2 DEF Locking, PhaseInv, SessionPcs
  <2>4. CASE SendQuery(c)
    <3>1. Asking(c)
      BY <1>5, <2>4, SendQueryEffect, OnPeer DEF SendQuery
    <3>2. service = "messages"
      BY <3>1 DEF Asking, Behind, serverSide, messageVars
    <3>. QED BY <3>1, <3>2 DEF Asking, PhaseInv, SessionPcs
  <2>5. CASE ReadLength(c)
    <3>0. PICK out : out = conn[On(c)].out
      OBVIOUS
    <3>1. ReadingLength(c, out)
      BY <1>5, <2>5, <3>0, ReadLengthEffect, OnPeer DEF ReadLength
    <3>2. service = "messages"
      BY <3>0, <3>1 DEF ReadingLength, Behind, serverSide, messageVars
    <3>. QED BY <3>0, <3>1, <3>2 DEF ReadingLength, PhaseInv, SessionPcs
  <2>6. CASE ReadLengthAtEnd(c)
    <3>1. ReadingEnd(c)
      BY <1>5, <2>6, ReadLengthAtEndEffect
    <3>2. service = "messages"
      BY <3>1 DEF ReadingEnd, Behind, serverSide, messageVars
    <3>. QED BY <3>1, <3>2 DEF ReadingEnd, PhaseInv, SessionPcs
  <2>7. CASE ReadAnswer(c)
    <3>0. PICK out : out = conn[On(c)].out
      OBVIOUS
    <3>1. ReadingAnswer(c, out)
      BY <1>5, <2>7, <3>0, ReadAnswerEffect, OnPeer DEF ReadAnswer
    <3>2. service = "messages"
      BY <3>0, <3>1 DEF ReadingAnswer, Behind, serverSide, messageVars
    <3>. QED BY <3>0, <3>1, <3>2 DEF ReadingAnswer, PhaseInv, SessionPcs
  <2>8. CASE UnlockConnection(c)
    <3>1. Unlocking(c)
      BY <1>5, <2>8, UnlockEffect
    <3>2. service = "messages"
      BY <3>1 DEF Unlocking, Behind, serverSide, messageVars
    <3>. QED BY <3>1, <3>2 DEF Unlocking, PhaseInv, SessionPcs
  <2>9. CASE ReleaseConnection(c)
    <3>1. Releasing(c)
      BY <1>5, <2>9, ReleaseEffect
    <3>2. service = "messages"
      BY <3>1 DEF Releasing, Behind, serverSide, messageVars
    <3>. QED BY <3>1, <3>2 DEF Releasing, PhaseInv, SessionPcs
  <2>10. CASE DeleteConnection(c)
    <3>1. Deleting(c)
      BY <1>5, <2>10, DeleteEffect
    <3>2. service = "messages"
      BY <3>1 DEF Deleting, Behind, serverSide, messageVars
    <3>. QED BY <3>1, <3>2 DEF Deleting, PhaseInv, SessionPcs
  <2>11. CASE CallerKilled(c)
    <3>1. Dying(c)
      BY <1>5, <2>11, KilledEffect
    <3>2. service = "messages"
      BY <3>1 DEF Dying, Behind, serverSide, messageVars
    <3>. QED BY <3>1, <3>2 DEF Dying, PhaseInv, SessionPcs
  <2>. QED
    BY <1>5, <2>1, <2>2, <2>3, <2>4, <2>5, <2>6, <2>7, <2>8, <2>9, <2>10, <2>11 DEF
         CallerStep
<1>6. ASSUME NEW t \in Peer, SessionStep(t) PROVE OnceInv'
  <2>1. CASE ReceiveLength(t)
    <3>1. ReceivingLength(t)
      BY <1>6, <2>1, ReceiveLengthEffect
    <3>2. service = "messages"
      BY <3>1 DEF ReceivingLength, Waits, Ends, ServiceVars, clientVars
    <3>. QED BY <3>1, <3>2 DEF ReceivingLength, PhaseInv, SessionPcs
  <2>2. CASE LengthReceived(t)
    <3>0. PICK p : p = thread[t].hold
      OBVIOUS
    <3>1. GettingLength(t, p)
      BY <1>6, <2>2, <3>0, LengthReceivedEffect DEF LengthReceived, PhaseInv
    <3>2. service = "messages"
      BY <3>0, <3>1 DEF GettingLength, ServiceVars, Ends, clientVars
    <3>. QED BY <3>0, <3>1, <3>2 DEF GettingLength, PhaseInv, SessionPcs
  <2>3. CASE ReceiveQuery(t)
    <3>1. ReceivingQuery(t)
      BY <1>6, <2>3, ReceiveQueryEffect
    <3>2. service = "messages"
      BY <3>1 DEF ReceivingQuery, Waits, ServiceVars, clientVars
    <3>. QED BY <3>1, <3>2 DEF ReceivingQuery, PhaseInv, SessionPcs
  <2>4. CASE QueryReceived(t)
    <3>0. PICK p : p = thread[t].hold
      OBVIOUS
    <3>1. GettingQuery(t, p)
      BY <1>6, <2>4, <3>0, QueryReceivedEffect DEF QueryReceived, PhaseInv
    <3>2. service = "messages"
      BY <3>0, <3>1 DEF GettingQuery, ServiceVars, clientVars
    <3>. QED BY <3>0, <3>1, <3>2 DEF GettingQuery, PhaseInv, SessionPcs
  <2>5. CASE AnswerQuery(t)
    <3>1. AnsweringQuery(t)
      BY <1>6, <2>5, AnswerQueryEffect
    <3>2. service = "messages"
      BY <3>1 DEF AnsweringQuery, ServiceVars, Ends, clientVars
    <3>. QED BY <3>1, <3>2 DEF AnsweringQuery, PhaseInv, SessionPcs
  <2>6. CASE CloseSession(t)
    <3>1. ClosingSession(t)
      BY <1>6, <2>6, CloseSessionEffect
    <3>2. service = "messages"
      BY <3>1 DEF ClosingSession, Closes, clientVars
    <3>. QED BY <3>1, <3>2 DEF ClosingSession, PhaseInv, SessionPcs
  <2>. QED BY <1>6, <2>1, <2>2, <2>3, <2>4, <2>5, <2>6 DEF SessionStep
<1>. QED BY <1>1, <1>2, <1>3, <1>4, <1>5, <1>6 DEF SocketNext, MessageNext, ClientNext

LEMMA NextNoneTwice ==
  ASSUME TypeInv, PhaseInv, LockInv, OnceInv, NoneTwice, SocketNext
  PROVE  NoneTwice'
<1>1. ASSUME Loop, UNCHANGED <<messageVars, clientVars>> PROVE NoneTwice'
  <2>1. CASE Accept
    <3>1. Accepting
      BY <1>1, <2>1, AcceptEffect
    <3>2. UNCHANGED files
      BY <3>1 DEF Accepting, LoopVars, messageVars, clientVars
    <3>. QED BY <3>2 DEF NoneTwice
  <2>2. CASE AcceptWatched
    <3>1. AcceptingWatched
      BY <1>1, <2>2, AcceptWatchedEffect
    <3>2. UNCHANGED files
      BY <3>1 DEF AcceptingWatched, LoopVars, messageVars, clientVars
    <3>. QED BY <3>2 DEF NoneTwice
  <2>3. ASSUME NEW f \in 0 .. MaxFd, HandOver(f) PROVE NoneTwice'
    <3>0. PICK p : p = table[f]
      OBVIOUS
    <3>1. HandingOver(f, p)
      BY <1>1, <2>3, <3>0, HandOverEffect
    <3>2. UNCHANGED files
      BY <3>0, <3>1 DEF HandingOver, LoopVars, messageVars, clientVars
    <3>. QED BY <3>2 DEF NoneTwice
  <2>. QED BY <1>1, <2>1, <2>2, <2>3 DEF Loop
<1>2. ASSUME NEW t \in Peer, TakeDescriptor(t), UNCHANGED <<messageVars, clientVars>> PROVE NoneTwice'
  <2>1. Taking(t)
    BY <1>2, TakeEffect
  <2>2. UNCHANGED files
    BY <2>1 DEF Taking, messageVars, clientVars
  <2>. QED BY <2>2 DEF NoneTwice
<1>3. ASSUME NEW p \in Peer, ClientStep(p), UNCHANGED clientVars PROVE NoneTwice'
  <2>1. CASE ClientConnects(p)
    <3>1. Connecting(p)
      BY <1>3, <2>1, ClientConnectsEffect
    <3>2. UNCHANGED files
      BY <3>1 DEF Connecting, clientVars
    <3>. QED BY <3>2 DEF NoneTwice
  <2>2. CASE ClientSends(p)
    <3>1. Sending(p)
      BY <1>3, <2>2, ClientSendsEffect
    <3>2. UNCHANGED files
      BY <3>1 DEF Sending, ServerOnly, clientVars
    <3>. QED BY <3>2 DEF NoneTwice
  <2>3. CASE ClientReads(p)
    <3>1. Reading(p)
      BY <1>3, <2>3, ClientReadsEffect
    <3>2. UNCHANGED files
      BY <3>1 DEF Reading, ServerOnly, clientVars
    <3>. QED BY <3>2 DEF NoneTwice
  <2>. QED BY <1>3, <2>1, <2>2, <2>3 DEF ClientStep
<1>4. ASSUME NEW t \in Peer, TextStep(t), UNCHANGED clientVars PROVE NoneTwice'
  <2>1. CASE ReceiveText(t)
    <3>1. ReceivingText(t)
      BY <1>4, <2>1, ReceiveTextEffect
    <3>2. UNCHANGED files
      BY <3>1 DEF ReceivingText, Waits, Ends, ServiceVars, clientVars
    <3>. QED BY <3>2 DEF NoneTwice
  <2>2. CASE TextReceived(t)
    <3>0. PICK p : p = thread[t].hold
      OBVIOUS
    <3>1. GettingText(t, p)
      BY <1>4, <2>2, <3>0, TextReceivedEffect
    <3>2. UNCHANGED files
      BY <3>0, <3>1 DEF GettingText, ServiceVars, clientVars
    <3>. QED BY <3>2 DEF NoneTwice
  <2>3. CASE WriteMessage(t)
    <3>1. Writing(t)
      BY <1>4, <2>3, WriteMessageEffect
    <3>. QED BY <3>1, WriteNoneTwice DEF Writing
  <2>4. CASE InvokeMethod(t)
    <3>1. Invoking(t)
      BY <1>4, <2>4, InvokeMethodEffect
    <3>2. UNCHANGED files
      BY <3>1 DEF Invoking, ServiceVars, clientVars
    <3>. QED BY <3>2 DEF NoneTwice
  <2>5. CASE AnswerText(t)
    <3>1. AnsweringText(t)
      BY <1>4, <2>5, AnswerTextEffect
    <3>2. UNCHANGED files
      BY <3>1 DEF AnsweringText, ServiceVars, clientVars
    <3>. QED BY <3>2 DEF NoneTwice
  <2>6. CASE CloseText(t)
    <3>1. ClosingText(t)
      BY <1>4, <2>6, CloseTextEffect
    <3>2. UNCHANGED files
      BY <3>1 DEF ClosingText, Closes, clientVars
    <3>. QED BY <3>2 DEF NoneTwice
  <2>. QED BY <1>4, <2>1, <2>2, <2>3, <2>4, <2>5, <2>6 DEF TextStep
<1>5. ASSUME NEW c \in Caller, CallerStep(c) \/ CallerKilled(c) PROVE NoneTwice'
  <2>1. CASE GetPooledConnection(c)
    <3>1. TakingPooled(c)
      BY <1>5, <2>1, GetPooledEffect
    <3>2. UNCHANGED files
      BY <3>1 DEF TakingPooled, Behind, serverSide, messageVars
    <3>. QED BY <3>2 DEF NoneTwice
  <2>2. CASE GetOwnConnection(c)
    <3>1. Opening(c)
      BY <1>5, <2>2, GetOwnEffect
    <3>2. UNCHANGED files
      BY <3>1 DEF Opening, messageVars
    <3>. QED BY <3>2 DEF NoneTwice
  <2>3. CASE LockConnection(c)
    <3>1. Locking(c)
      BY <1>5, <2>3, LockEffect
    <3>2. UNCHANGED files
      BY <3>1 DEF Locking, Behind, serverSide, messageVars
    <3>. QED BY <3>2 DEF NoneTwice
  <2>4. CASE SendQuery(c)
    <3>1. Asking(c)
      BY <1>5, <2>4, SendQueryEffect, OnPeer DEF SendQuery
    <3>2. UNCHANGED files
      BY <3>1 DEF Asking, Behind, serverSide, messageVars
    <3>. QED BY <3>2 DEF NoneTwice
  <2>5. CASE ReadLength(c)
    <3>0. PICK out : out = conn[On(c)].out
      OBVIOUS
    <3>1. ReadingLength(c, out)
      BY <1>5, <2>5, <3>0, ReadLengthEffect, OnPeer DEF ReadLength
    <3>2. UNCHANGED files
      BY <3>0, <3>1 DEF ReadingLength, Behind, serverSide, messageVars
    <3>. QED BY <3>2 DEF NoneTwice
  <2>6. CASE ReadLengthAtEnd(c)
    <3>1. ReadingEnd(c)
      BY <1>5, <2>6, ReadLengthAtEndEffect
    <3>2. UNCHANGED files
      BY <3>1 DEF ReadingEnd, Behind, serverSide, messageVars
    <3>. QED BY <3>2 DEF NoneTwice
  <2>7. CASE ReadAnswer(c)
    <3>0. PICK out : out = conn[On(c)].out
      OBVIOUS
    <3>1. ReadingAnswer(c, out)
      BY <1>5, <2>7, <3>0, ReadAnswerEffect, OnPeer DEF ReadAnswer
    <3>2. UNCHANGED files
      BY <3>0, <3>1 DEF ReadingAnswer, Behind, serverSide, messageVars
    <3>. QED BY <3>2 DEF NoneTwice
  <2>8. CASE UnlockConnection(c)
    <3>1. Unlocking(c)
      BY <1>5, <2>8, UnlockEffect
    <3>2. UNCHANGED files
      BY <3>1 DEF Unlocking, Behind, serverSide, messageVars
    <3>. QED BY <3>2 DEF NoneTwice
  <2>9. CASE ReleaseConnection(c)
    <3>1. Releasing(c)
      BY <1>5, <2>9, ReleaseEffect
    <3>2. UNCHANGED files
      BY <3>1 DEF Releasing, Behind, serverSide, messageVars
    <3>. QED BY <3>2 DEF NoneTwice
  <2>10. CASE DeleteConnection(c)
    <3>1. Deleting(c)
      BY <1>5, <2>10, DeleteEffect
    <3>2. UNCHANGED files
      BY <3>1 DEF Deleting, Behind, serverSide, messageVars
    <3>. QED BY <3>2 DEF NoneTwice
  <2>11. CASE CallerKilled(c)
    <3>1. Dying(c)
      BY <1>5, <2>11, KilledEffect
    <3>2. UNCHANGED files
      BY <3>1 DEF Dying, Behind, serverSide, messageVars
    <3>. QED BY <3>2 DEF NoneTwice
  <2>. QED
    BY <1>5, <2>1, <2>2, <2>3, <2>4, <2>5, <2>6, <2>7, <2>8, <2>9, <2>10, <2>11 DEF
         CallerStep
<1>6. ASSUME NEW t \in Peer, SessionStep(t) PROVE NoneTwice'
  <2>1. CASE ReceiveLength(t)
    <3>1. ReceivingLength(t)
      BY <1>6, <2>1, ReceiveLengthEffect
    <3>2. UNCHANGED files
      BY <3>1 DEF ReceivingLength, Waits, Ends, ServiceVars, clientVars
    <3>. QED BY <3>2 DEF NoneTwice
  <2>2. CASE LengthReceived(t)
    <3>0. PICK p : p = thread[t].hold
      OBVIOUS
    <3>1. GettingLength(t, p)
      BY <1>6, <2>2, <3>0, LengthReceivedEffect DEF LengthReceived, PhaseInv
    <3>2. UNCHANGED files
      BY <3>0, <3>1 DEF GettingLength, ServiceVars, Ends, clientVars
    <3>. QED BY <3>2 DEF NoneTwice
  <2>3. CASE ReceiveQuery(t)
    <3>1. ReceivingQuery(t)
      BY <1>6, <2>3, ReceiveQueryEffect
    <3>2. UNCHANGED files
      BY <3>1 DEF ReceivingQuery, Waits, ServiceVars, clientVars
    <3>. QED BY <3>2 DEF NoneTwice
  <2>4. CASE QueryReceived(t)
    <3>0. PICK p : p = thread[t].hold
      OBVIOUS
    <3>1. GettingQuery(t, p)
      BY <1>6, <2>4, <3>0, QueryReceivedEffect DEF QueryReceived, PhaseInv
    <3>2. UNCHANGED files
      BY <3>0, <3>1 DEF GettingQuery, ServiceVars, clientVars
    <3>. QED BY <3>2 DEF NoneTwice
  <2>5. CASE AnswerQuery(t)
    <3>1. AnsweringQuery(t)
      BY <1>6, <2>5, AnswerQueryEffect
    <3>2. UNCHANGED files
      BY <3>1 DEF AnsweringQuery, ServiceVars, Ends, clientVars
    <3>. QED BY <3>2 DEF NoneTwice
  <2>6. CASE CloseSession(t)
    <3>1. ClosingSession(t)
      BY <1>6, <2>6, CloseSessionEffect
    <3>2. UNCHANGED files
      BY <3>1 DEF ClosingSession, Closes, clientVars
    <3>. QED BY <3>2 DEF NoneTwice
  <2>. QED BY <1>6, <2>1, <2>2, <2>3, <2>4, <2>5, <2>6 DEF SessionStep
<1>. QED BY <1>1, <1>2, <1>3, <1>4, <1>5, <1>6 DEF SocketNext, MessageNext, ClientNext

LEMMA SamePromise ==
  ASSUME NEW p, UNCHANGED files, call'[p].text = call[p].text
  PROVE  Promised(p)' <=> Promised(p)
  BY DEF Promised

\* Nothing happens to the files, and nobody is told what is not so.
LEMMA PromiseFrame ==
  ASSUME PromiseInv, UNCHANGED <<service, files>>, crossed => crossed',
         \A p \in Peer :
           /\ \/ call'[p].text = call[p].text
              \/ thread'[p].pc = "none" /\ conn'[p].out = <<>> /\ call'[p].told = "nothing"
           /\ call'[p].pc = "new" => call[p].pc = "new"
           /\ \/ call'[p].told = call[p].told
              \/ call'[p].pc # "new" /\ (call'[p].told = "Received Message----" => conn[p].out # <<>>),
         \A p \in Peer : conn'[p].out = conn[p].out \/ thread[p].pc = "answer",
         \A t \in Peer : thread'[t].pc \in {"got", "answer"} =>
           /\ \/ thread'[t].got[2] = t
              \/ thread[t].pc \in {"got", "answer"} /\ thread'[t].got = thread[t].got
           /\ thread'[t].pc = "answer" => thread[t].pc = "answer"
  PROVE  PromiseInv'
<1> SUFFICES ASSUME service = "messages", ~crossed, NEW p \in Peer
             PROVE  /\ call'[p].pc = "new" => call'[p].told = "nothing"
                    /\ thread'[p].pc \in {"got", "answer"} => thread'[p].got[2] = p
                    /\ (thread'[p].pc = "answer" \/ conn'[p].out # <<>>
                          \/ call'[p].told = "Received Message----") => Promised(p)'
  BY DEF PromiseInv
<1>1. /\ call[p].pc = "new" => call[p].told = "nothing"
      /\ thread[p].pc \in {"got", "answer"} => thread[p].got[2] = p
      /\ thread[p].pc = "answer" \/ conn[p].out # <<>> \/ call[p].told = "Received Message----"
           => Promised(p)
  BY DEF PromiseInv
<1>2. call'[p].text = call[p].text => (Promised(p)' <=> Promised(p))
  BY SamePromise
<1>3. call'[p].pc = "new" => call'[p].told = "nothing"
  BY <1>1
<1>4. thread'[p].pc \in {"got", "answer"} => thread'[p].got[2] = p
  BY <1>1
<1>5. (thread'[p].pc = "answer" \/ conn'[p].out # <<>>
         \/ call'[p].told = "Received Message----") => Promised(p)'
  BY <1>1, <1>2
<1>. QED BY <1>3, <1>4, <1>5

LEMMA WritePromise ==
  ASSUME TypeInv, OnceInv, PromiseInv, service = "messages", NEW t \in Peer, Writing(t)
  PROVE  PromiseInv'
<1> SUFFICES ASSUME ~crossed, NEW p \in Peer
             PROVE  /\ call[p].pc = "new" => call[p].told = "nothing"
                    /\ thread'[p].pc \in {"got", "answer"} => thread'[p].got[2] = p
                    /\ (thread'[p].pc = "answer" \/ conn[p].out # <<>>
                          \/ call[p].told = "Received Message----") => Promised(p)'
  BY DEF PromiseInv, Writing
<1>1. /\ thread[t].pc = "got" /\ thread'[t].got = thread[t].got /\ UNCHANGED <<call, conn>>
      /\ \A u \in Peer : u # t => thread'[u] = thread[u]
  BY DEF Writing, GoesOn, OthersT
<1>2. /\ call[p].pc = "new" => call[p].told = "nothing"
      /\ thread[p].pc \in {"got", "answer"} => thread[p].got[2] = p
      /\ thread[p].pc = "answer" \/ conn[p].out # <<>> \/ call[p].told = "Received Message----"
           => Promised(p)
      /\ thread[t].got[2] = t
  BY <1>1 DEF PromiseInv
<1>3. /\ call[t].text.kind = "send"
      /\ \/ /\ call[t].text.valid /\ call[t].text.whole /\ call[t].text.to \in Destination
            /\ files' = [files EXCEPT ![call[t].text.to] = Append(@, t)]
         \/ /\ ~(call[t].text.valid /\ call[t].text.whole /\ call[t].text.to \in Destination)
            /\ files' = files
  BY <1>2, WriteEffect
<1>4. Promised(t)' /\ (Promised(p) => Promised(p)')
  <2>1. CASE files' = files /\ ~(call[t].text.valid /\ call[t].text.whole /\ call[t].text.to \in Destination)
    BY <1>1, <1>3, <2>1 DEF Promised
  <2>2. CASE /\ call[t].text.valid /\ call[t].text.whole /\ call[t].text.to \in Destination
             /\ files' = [files EXCEPT ![call[t].text.to] = Append(@, t)]
    <3>1. PICK d \in Destination : d = call[t].text.to
      BY <2>2
    <3>2. /\ \A e \in Destination : e # d => files'[e] = files[e]
          /\ Len(files[d]) \in Nat /\ DOMAIN files[d] = 1 .. Len(files[d])
          /\ DOMAIN files'[d] = 1 .. Len(files[d]) + 1 /\ files'[d][Len(files[d]) + 1] = t
          /\ \A i \in DOMAIN files[d] : files'[d][i] = files[d][i]
      BY ZenonT(60), <2>2, <3>1, Appended
    <3>3. \E i \in DOMAIN files'[d] : files'[d][i] = t
      <4>1. Len(files[d]) + 1 \in DOMAIN files'[d]
        BY <3>2
      <4>. QED BY <3>2, <4>1
    <3>4. Promised(t)'
      BY <1>1, <1>3, <3>1, <3>3 DEF Promised
    <3>5. \A e \in Destination : \A i \in DOMAIN files[e] : i \in DOMAIN files'[e] /\ files'[e][i] = files[e][i]
      BY <3>2
    <3>6. Promised(p) => Promised(p)'
      BY <1>1, <3>5 DEF Promised
    <3>. QED BY <3>4, <3>6
  <2>. QED BY <1>3, <2>1, <2>2
<1>5. thread'[p].pc \in {"got", "answer"} => thread'[p].got[2] = p
  BY <1>1, <1>2
<1>6. (thread'[p].pc = "answer" \/ conn[p].out # <<>>
         \/ call[p].told = "Received Message----") => Promised(p)'
  BY <1>1, <1>2, <1>4
<1>. QED BY <1>2, <1>5, <1>6

LEMMA NextPromise ==
  ASSUME TypeInv, PhaseInv, LockInv, DescriptorInv, OwnInv, OnceInv, PromiseInv, SocketNext
  PROVE  PromiseInv'
<1> SUFFICES ASSUME service' = "messages", ~crossed' PROVE PromiseInv'
  BY DEF PromiseInv
<1>1. ASSUME Loop, UNCHANGED <<messageVars, clientVars>> PROVE PromiseInv'
  <2>1. CASE Accept
    <3>1. Accepting
      BY <1>1, <2>1, AcceptEffect
    <3>2. UNCHANGED <<service, files>> /\ ~crossed
      BY <3>1 DEF Accepting, LoopVars, messageVars, clientVars
    <3>3. \A q \in Peer :
          /\ \/ call'[q].text = call[q].text
             \/ thread'[q].pc = "none" /\ conn'[q].out = <<>> /\ call'[q].told = "nothing"
          /\ call'[q].pc = "new" => call[q].pc = "new"
          /\ \/ call'[q].told = call[q].told
             \/ call'[q].pc # "new" /\ (call'[q].told = "Received Message----" => conn[q].out # <<>>)
      BY <3>1 DEF Accepting, LoopVars, messageVars, clientVars
    <3>4. \A q \in Peer : conn'[q].out = conn[q].out \/ thread[q].pc = "answer"
      BY <3>1 DEF Accepting, LoopVars, messageVars, clientVars
    <3>5. \A u \in Peer : thread'[u].pc \in {"got", "answer"} =>
          /\ \/ thread'[u].got[2] = u
             \/ thread[u].pc \in {"got", "answer"} /\ thread'[u].got = thread[u].got
          /\ thread'[u].pc = "answer" => thread[u].pc = "answer"
      BY <3>1 DEF Accepting, LoopVars, GoesOn, messageVars, clientVars, OthersT
    <3>. QED BY <3>2, <3>3, <3>4, <3>5, PromiseFrame
  <2>2. CASE AcceptWatched
    <3>1. AcceptingWatched
      BY <1>1, <2>2, AcceptWatchedEffect
    <3>. QED BY <3>1 DEF AcceptingWatched, LoopVars
  <2>3. ASSUME NEW f \in 0 .. MaxFd, HandOver(f) PROVE PromiseInv'
    <3>0. PICK p : p = table[f]
      OBVIOUS
    <3>1. HandingOver(f, p)
      BY <1>1, <2>3, <3>0, HandOverEffect
    <3>2. UNCHANGED <<service, files>> /\ ~crossed
      BY <3>0, <3>1 DEF HandingOver, LoopVars, messageVars, clientVars
    <3>3. \A q \in Peer :
          /\ \/ call'[q].text = call[q].text
             \/ thread'[q].pc = "none" /\ conn'[q].out = <<>> /\ call'[q].told = "nothing"
          /\ call'[q].pc = "new" => call[q].pc = "new"
          /\ \/ call'[q].told = call[q].told
             \/ call'[q].pc # "new" /\ (call'[q].told = "Received Message----" => conn[q].out # <<>>)
      BY <3>0, <3>1 DEF HandingOver, LoopVars, messageVars, clientVars
    <3>4. \A q \in Peer : conn'[q].out = conn[q].out \/ thread[q].pc = "answer"
      BY <3>0, <3>1 DEF HandingOver, LoopVars, messageVars, clientVars
    <3>5. \A u \in Peer : thread'[u].pc \in {"got", "answer"} =>
          /\ \/ thread'[u].got[2] = u
             \/ thread[u].pc \in {"got", "answer"} /\ thread'[u].got = thread[u].got
          /\ thread'[u].pc = "answer" => thread[u].pc = "answer"
      BY <3>0, <3>1 DEF HandingOver, LoopVars, GoesOn, messageVars, clientVars, OthersT
    <3>. QED BY <3>2, <3>3, <3>4, <3>5, PromiseFrame
  <2>. QED BY <1>1, <2>1, <2>2, <2>3 DEF Loop
<1>2. ASSUME NEW t \in Peer, TakeDescriptor(t), UNCHANGED <<messageVars, clientVars>> PROVE PromiseInv'
  <2>1. Taking(t)
    BY <1>2, TakeEffect
  <2>2. UNCHANGED <<service, files>> /\ ~crossed
    BY <2>1 DEF Taking, messageVars, clientVars
  <2>3. \A q \in Peer :
        /\ \/ call'[q].text = call[q].text
           \/ thread'[q].pc = "none" /\ conn'[q].out = <<>> /\ call'[q].told = "nothing"
        /\ call'[q].pc = "new" => call[q].pc = "new"
        /\ \/ call'[q].told = call[q].told
           \/ call'[q].pc # "new" /\ (call'[q].told = "Received Message----" => conn[q].out # <<>>)
    BY <2>1 DEF Taking, messageVars, clientVars
  <2>4. \A q \in Peer : conn'[q].out = conn[q].out \/ thread[q].pc = "answer"
    BY <2>1 DEF Taking, messageVars, clientVars
  <2>5. \A u \in Peer : thread'[u].pc \in {"got", "answer"} =>
        /\ \/ thread'[u].got[2] = u
           \/ thread[u].pc \in {"got", "answer"} /\ thread'[u].got = thread[u].got
        /\ thread'[u].pc = "answer" => thread[u].pc = "answer"
    BY <2>1 DEF Taking, messageVars, clientVars, OthersT
  <2>. QED BY <2>2, <2>3, <2>4, <2>5, PromiseFrame
<1>3. ASSUME NEW p \in Peer, ClientStep(p), UNCHANGED clientVars PROVE PromiseInv'
  <2>1. CASE ClientConnects(p)
    <3>1. Connecting(p)
      BY <1>3, <2>1, ClientConnectsEffect
    <3>2. UNCHANGED <<service, files>> /\ ~crossed
      BY <3>1 DEF Connecting, clientVars
    <3>3. \A q \in Peer :
          /\ \/ call'[q].text = call[q].text
             \/ thread'[q].pc = "none" /\ conn'[q].out = <<>> /\ call'[q].told = "nothing"
          /\ call'[q].pc = "new" => call[q].pc = "new"
          /\ \/ call'[q].told = call[q].told
             \/ call'[q].pc # "new" /\ (call'[q].told = "Received Message----" => conn[q].out # <<>>)
      <4>1. thread[p].pc = "none" /\ conn[p].out = <<>> /\ call[p].told = "nothing"
        BY <3>1, <3>2 DEF Connecting, DescriptorInv, PromiseInv
      <4>. QED BY <3>1, <4>1 DEF Connecting, Conn, OthersC, OthersP
    <3>4. \A q \in Peer : conn'[q].out = conn[q].out \/ thread[q].pc = "answer"
      BY <3>1 DEF Connecting, clientVars, Conn, OthersC
    <3>5. \A u \in Peer : thread'[u].pc \in {"got", "answer"} =>
          /\ \/ thread'[u].got[2] = u
             \/ thread[u].pc \in {"got", "answer"} /\ thread'[u].got = thread[u].got
          /\ thread'[u].pc = "answer" => thread[u].pc = "answer"
      BY <3>1 DEF Connecting, clientVars
    <3>. QED BY <3>2, <3>3, <3>4, <3>5, PromiseFrame
  <2>2. CASE ClientSends(p)
    <3>1. Sending(p)
      BY <1>3, <2>2, ClientSendsEffect
    <3>2. UNCHANGED <<service, files>> /\ ~crossed
      BY <3>1 DEF Sending, ServerOnly, clientVars
    <3>3. \A q \in Peer :
          /\ \/ call'[q].text = call[q].text
             \/ thread'[q].pc = "none" /\ conn'[q].out = <<>> /\ call'[q].told = "nothing"
          /\ call'[q].pc = "new" => call[q].pc = "new"
          /\ \/ call'[q].told = call[q].told
             \/ call'[q].pc # "new" /\ (call'[q].told = "Received Message----" => conn[q].out # <<>>)
      BY <3>1 DEF Sending, ServerOnly, OthersP, clientVars
    <3>4. \A q \in Peer : conn'[q].out = conn[q].out \/ thread[q].pc = "answer"
      BY <3>1 DEF Sending, ServerOnly, Conn, clientVars, OthersC
    <3>5. \A u \in Peer : thread'[u].pc \in {"got", "answer"} =>
          /\ \/ thread'[u].got[2] = u
             \/ thread[u].pc \in {"got", "answer"} /\ thread'[u].got = thread[u].got
          /\ thread'[u].pc = "answer" => thread[u].pc = "answer"
      BY <3>1 DEF Sending, ServerOnly, clientVars
    <3>. QED BY <3>2, <3>3, <3>4, <3>5, PromiseFrame
  <2>3. CASE ClientReads(p)
    <3>1. Reading(p)
      BY <1>3, <2>3, ClientReadsEffect
    <3>2. UNCHANGED <<service, files>> /\ ~crossed
      BY <3>1 DEF Reading, ServerOnly, clientVars
    <3>3. \A q \in Peer :
          /\ \/ call'[q].text = call[q].text
             \/ thread'[q].pc = "none" /\ conn'[q].out = <<>> /\ call'[q].told = "nothing"
          /\ call'[q].pc = "new" => call[q].pc = "new"
          /\ \/ call'[q].told = call[q].told
             \/ call'[q].pc # "new" /\ (call'[q].told = "Received Message----" => conn[q].out # <<>>)
      BY <3>1 DEF Reading, ServerOnly, OthersP, clientVars
    <3>4. \A q \in Peer : conn'[q].out = conn[q].out \/ thread[q].pc = "answer"
      BY <3>1 DEF Reading, ServerOnly, Conn, clientVars, OthersC
    <3>5. \A u \in Peer : thread'[u].pc \in {"got", "answer"} =>
          /\ \/ thread'[u].got[2] = u
             \/ thread[u].pc \in {"got", "answer"} /\ thread'[u].got = thread[u].got
          /\ thread'[u].pc = "answer" => thread[u].pc = "answer"
      BY <3>1 DEF Reading, ServerOnly, clientVars
    <3>. QED BY <3>2, <3>3, <3>4, <3>5, PromiseFrame
  <2>. QED BY <1>3, <2>1, <2>2, <2>3 DEF ClientStep
<1>4. ASSUME NEW t \in Peer, TextStep(t), UNCHANGED clientVars PROVE PromiseInv'
  <2>1. CASE ReceiveText(t)
    <3>1. ReceivingText(t)
      BY <1>4, <2>1, ReceiveTextEffect
    <3>2. UNCHANGED <<service, files>> /\ ~crossed
      BY <3>1 DEF ReceivingText, Waits, Ends, ServiceVars, clientVars
    <3>3. \A q \in Peer :
          /\ \/ call'[q].text = call[q].text
             \/ thread'[q].pc = "none" /\ conn'[q].out = <<>> /\ call'[q].told = "nothing"
          /\ call'[q].pc = "new" => call[q].pc = "new"
          /\ \/ call'[q].told = call[q].told
             \/ call'[q].pc # "new" /\ (call'[q].told = "Received Message----" => conn[q].out # <<>>)
      BY <3>1 DEF ReceivingText, Waits, Ends, ServiceVars, clientVars
    <3>4. \A q \in Peer : conn'[q].out = conn[q].out \/ thread[q].pc = "answer"
      BY <3>1 DEF ReceivingText, Waits, Ends, ServiceVars, clientVars
    <3>5. \A u \in Peer : thread'[u].pc \in {"got", "answer"} =>
          /\ \/ thread'[u].got[2] = u
             \/ thread[u].pc \in {"got", "answer"} /\ thread'[u].got = thread[u].got
          /\ thread'[u].pc = "answer" => thread[u].pc = "answer"
      BY <3>1 DEF ReceivingText, Waits, Ends, ServiceVars, Enters, clientVars, OthersT
    <3>. QED BY <3>2, <3>3, <3>4, <3>5, PromiseFrame
  <2>2. CASE TextReceived(t)
    <3>0. PICK p : p = thread[t].hold
      OBVIOUS
    <3>1. GettingText(t, p)
      BY <1>4, <2>2, <3>0, TextReceivedEffect
    <3>2. UNCHANGED <<service, files>> /\ ~crossed
      BY <3>0, <3>1 DEF GettingText, ServiceVars, clientVars
    <3>3. \A q \in Peer :
          /\ \/ call'[q].text = call[q].text
             \/ thread'[q].pc = "none" /\ conn'[q].out = <<>> /\ call'[q].told = "nothing"
          /\ call'[q].pc = "new" => call[q].pc = "new"
          /\ \/ call'[q].told = call[q].told
             \/ call'[q].pc # "new" /\ (call'[q].told = "Received Message----" => conn[q].out # <<>>)
      BY <3>0, <3>1 DEF GettingText, ServiceVars, clientVars
    <3>4. \A q \in Peer : conn'[q].out = conn[q].out \/ thread[q].pc = "answer"
      BY <3>0, <3>1 DEF GettingText, ServiceVars, Conn, clientVars, OthersC
    <3>5. \A u \in Peer : thread'[u].pc \in {"got", "answer"} =>
          /\ \/ thread'[u].got[2] = u
             \/ thread[u].pc \in {"got", "answer"} /\ thread'[u].got = thread[u].got
          /\ thread'[u].pc = "answer" => thread[u].pc = "answer"
      <4>1. p = t
        BY <3>0, <3>1, <3>2 DEF GettingText, OwnInv
      <4>2. \/ \E got : Leaves(t, "close", got)
            \/ \E text : Leaves(t, "got", <<text, p>>)
        BY <3>1 DEF GettingText
      <4>4. ASSUME NEW text, Leaves(t, "got", <<text, p>>) PROVE thread'[t].got[2] = p /\ thread'[t].pc = "got"
        BY <4>4 DEF Leaves
      <4>5. ASSUME NEW got, Leaves(t, "close", got) PROVE thread'[t].pc = "close"
        BY <4>5 DEF Leaves
      <4>3. \A u \in Peer : u # t => thread'[u] = thread[u]
        BY <3>1 DEF GettingText, Leaves, OthersT
      <4>. QED BY <4>1, <4>2, <4>3, <4>4, <4>5
    <3>. QED BY <3>2, <3>3, <3>4, <3>5, PromiseFrame
  <2>3. CASE WriteMessage(t)
    <3>1. Writing(t)
      BY <1>4, <2>3, WriteMessageEffect
    <3>. QED BY <3>1, WritePromise DEF Writing
  <2>4. CASE InvokeMethod(t)
    <3>1. Invoking(t)
      BY <1>4, <2>4, InvokeMethodEffect
    <3>. QED BY <3>1 DEF Invoking, ServiceVars
  <2>5. CASE AnswerText(t)
    <3>1. AnsweringText(t)
      BY <1>4, <2>5, AnswerTextEffect
    <3>2. UNCHANGED <<service, files>> /\ ~crossed
      BY <3>1 DEF AnsweringText, ServiceVars, clientVars
    <3>3. \A q \in Peer :
          /\ \/ call'[q].text = call[q].text
             \/ thread'[q].pc = "none" /\ conn'[q].out = <<>> /\ call'[q].told = "nothing"
          /\ call'[q].pc = "new" => call[q].pc = "new"
          /\ \/ call'[q].told = call[q].told
             \/ call'[q].pc # "new" /\ (call'[q].told = "Received Message----" => conn[q].out # <<>>)
      BY <3>1 DEF AnsweringText, ServiceVars, clientVars
    <3>4. \A q \in Peer : conn'[q].out = conn[q].out \/ thread[q].pc = "answer"
      <4>1. thread[t].fd \in 0 .. MaxFd => table[thread[t].fd] = t
        BY <3>1, <3>2 DEF AnsweringText, OwnInv, Working
      <4>. QED BY <3>1, <4>1 DEF AnsweringText, Conn, OthersC
    <3>5. \A u \in Peer : thread'[u].pc \in {"got", "answer"} =>
          /\ \/ thread'[u].got[2] = u
             \/ thread[u].pc \in {"got", "answer"} /\ thread'[u].got = thread[u].got
          /\ thread'[u].pc = "answer" => thread[u].pc = "answer"
      BY <3>1 DEF AnsweringText, GoesOn, ServiceVars, OthersT, clientVars
    <3>. QED BY <3>2, <3>3, <3>4, <3>5, PromiseFrame
  <2>6. CASE CloseText(t)
    <3>1. ClosingText(t)
      BY <1>4, <2>6, CloseTextEffect
    <3>2. UNCHANGED <<service, files>> /\ ~crossed
      BY <3>1 DEF ClosingText, Closes, clientVars
    <3>3. \A q \in Peer :
          /\ \/ call'[q].text = call[q].text
             \/ thread'[q].pc = "none" /\ conn'[q].out = <<>> /\ call'[q].told = "nothing"
          /\ call'[q].pc = "new" => call[q].pc = "new"
          /\ \/ call'[q].told = call[q].told
             \/ call'[q].pc # "new" /\ (call'[q].told = "Received Message----" => conn[q].out # <<>>)
      BY <3>1 DEF ClosingText, Closes, clientVars
    <3>4. \A q \in Peer : conn'[q].out = conn[q].out \/ thread[q].pc = "answer"
      BY <3>1 DEF ClosingText, Closes, clientVars
    <3>5. \A u \in Peer : thread'[u].pc \in {"got", "answer"} =>
          /\ \/ thread'[u].got[2] = u
             \/ thread[u].pc \in {"got", "answer"} /\ thread'[u].got = thread[u].got
          /\ thread'[u].pc = "answer" => thread[u].pc = "answer"
      BY <3>1 DEF ClosingText, Closes, clientVars, GoesOn, OthersT
    <3>. QED BY <3>2, <3>3, <3>4, <3>5, PromiseFrame
  <2>. QED BY <1>4, <2>1, <2>2, <2>3, <2>4, <2>5, <2>6 DEF TextStep
<1>5. ASSUME NEW c \in Caller, CallerStep(c) \/ CallerKilled(c) PROVE PromiseInv'
  <2>1. CASE GetPooledConnection(c)
    <3>1. TakingPooled(c)
      BY <1>5, <2>1, GetPooledEffect
    <3>2. service = "messages"
      BY <3>1 DEF TakingPooled, Behind, serverSide, messageVars
    <3>. QED BY <3>1, <3>2 DEF TakingPooled, PhaseInv, SessionPcs
  <2>2. CASE GetOwnConnection(c)
    <3>1. Opening(c)
      BY <1>5, <2>2, GetOwnEffect
    <3>2. service = "messages"
      BY <3>1 DEF Opening, messageVars
    <3>. QED BY <3>1, <3>2 DEF Opening, PhaseInv, SessionPcs
  <2>3. CASE LockConnection(c)
    <3>1. Locking(c)
      BY <1>5, <2>3, LockEffect
    <3>2. service = "messages"
      BY <3>1 DEF Locking, Behind, serverSide, messageVars
    <3>. QED BY <3>1, <3>2 DEF Locking, PhaseInv, SessionPcs
  <2>4. CASE SendQuery(c)
    <3>1. Asking(c)
      BY <1>5, <2>4, SendQueryEffect, OnPeer DEF SendQuery
    <3>2. service = "messages"
      BY <3>1 DEF Asking, Behind, serverSide, messageVars
    <3>. QED BY <3>1, <3>2 DEF Asking, PhaseInv, SessionPcs
  <2>5. CASE ReadLength(c)
    <3>0. PICK out : out = conn[On(c)].out
      OBVIOUS
    <3>1. ReadingLength(c, out)
      BY <1>5, <2>5, <3>0, ReadLengthEffect, OnPeer DEF ReadLength
    <3>2. service = "messages"
      BY <3>0, <3>1 DEF ReadingLength, Behind, serverSide, messageVars
    <3>. QED BY <3>0, <3>1, <3>2 DEF ReadingLength, PhaseInv, SessionPcs
  <2>6. CASE ReadLengthAtEnd(c)
    <3>1. ReadingEnd(c)
      BY <1>5, <2>6, ReadLengthAtEndEffect
    <3>2. service = "messages"
      BY <3>1 DEF ReadingEnd, Behind, serverSide, messageVars
    <3>. QED BY <3>1, <3>2 DEF ReadingEnd, PhaseInv, SessionPcs
  <2>7. CASE ReadAnswer(c)
    <3>0. PICK out : out = conn[On(c)].out
      OBVIOUS
    <3>1. ReadingAnswer(c, out)
      BY <1>5, <2>7, <3>0, ReadAnswerEffect, OnPeer DEF ReadAnswer
    <3>2. service = "messages"
      BY <3>0, <3>1 DEF ReadingAnswer, Behind, serverSide, messageVars
    <3>. QED BY <3>0, <3>1, <3>2 DEF ReadingAnswer, PhaseInv, SessionPcs
  <2>8. CASE UnlockConnection(c)
    <3>1. Unlocking(c)
      BY <1>5, <2>8, UnlockEffect
    <3>2. service = "messages"
      BY <3>1 DEF Unlocking, Behind, serverSide, messageVars
    <3>. QED BY <3>1, <3>2 DEF Unlocking, PhaseInv, SessionPcs
  <2>9. CASE ReleaseConnection(c)
    <3>1. Releasing(c)
      BY <1>5, <2>9, ReleaseEffect
    <3>2. service = "messages"
      BY <3>1 DEF Releasing, Behind, serverSide, messageVars
    <3>. QED BY <3>1, <3>2 DEF Releasing, PhaseInv, SessionPcs
  <2>10. CASE DeleteConnection(c)
    <3>1. Deleting(c)
      BY <1>5, <2>10, DeleteEffect
    <3>2. service = "messages"
      BY <3>1 DEF Deleting, Behind, serverSide, messageVars
    <3>. QED BY <3>1, <3>2 DEF Deleting, PhaseInv, SessionPcs
  <2>11. CASE CallerKilled(c)
    <3>1. Dying(c)
      BY <1>5, <2>11, KilledEffect
    <3>2. service = "messages"
      BY <3>1 DEF Dying, Behind, serverSide, messageVars
    <3>. QED BY <3>1, <3>2 DEF Dying, PhaseInv, SessionPcs
  <2>. QED
    BY <1>5, <2>1, <2>2, <2>3, <2>4, <2>5, <2>6, <2>7, <2>8, <2>9, <2>10, <2>11 DEF
         CallerStep
<1>6. ASSUME NEW t \in Peer, SessionStep(t) PROVE PromiseInv'
  <2>1. CASE ReceiveLength(t)
    <3>1. ReceivingLength(t)
      BY <1>6, <2>1, ReceiveLengthEffect
    <3>2. service = "messages"
      BY <3>1 DEF ReceivingLength, Waits, Ends, ServiceVars, clientVars
    <3>. QED BY <3>1, <3>2 DEF ReceivingLength, PhaseInv, SessionPcs
  <2>2. CASE LengthReceived(t)
    <3>0. PICK p : p = thread[t].hold
      OBVIOUS
    <3>1. GettingLength(t, p)
      BY <1>6, <2>2, <3>0, LengthReceivedEffect DEF LengthReceived, PhaseInv
    <3>2. service = "messages"
      BY <3>0, <3>1 DEF GettingLength, ServiceVars, Ends, clientVars
    <3>. QED BY <3>0, <3>1, <3>2 DEF GettingLength, PhaseInv, SessionPcs
  <2>3. CASE ReceiveQuery(t)
    <3>1. ReceivingQuery(t)
      BY <1>6, <2>3, ReceiveQueryEffect
    <3>2. service = "messages"
      BY <3>1 DEF ReceivingQuery, Waits, ServiceVars, clientVars
    <3>. QED BY <3>1, <3>2 DEF ReceivingQuery, PhaseInv, SessionPcs
  <2>4. CASE QueryReceived(t)
    <3>0. PICK p : p = thread[t].hold
      OBVIOUS
    <3>1. GettingQuery(t, p)
      BY <1>6, <2>4, <3>0, QueryReceivedEffect DEF QueryReceived, PhaseInv
    <3>2. service = "messages"
      BY <3>0, <3>1 DEF GettingQuery, ServiceVars, clientVars
    <3>. QED BY <3>0, <3>1, <3>2 DEF GettingQuery, PhaseInv, SessionPcs
  <2>5. CASE AnswerQuery(t)
    <3>1. AnsweringQuery(t)
      BY <1>6, <2>5, AnswerQueryEffect
    <3>2. service = "messages"
      BY <3>1 DEF AnsweringQuery, ServiceVars, Ends, clientVars
    <3>. QED BY <3>1, <3>2 DEF AnsweringQuery, PhaseInv, SessionPcs
  <2>6. CASE CloseSession(t)
    <3>1. ClosingSession(t)
      BY <1>6, <2>6, CloseSessionEffect
    <3>2. service = "messages"
      BY <3>1 DEF ClosingSession, Closes, clientVars
    <3>. QED BY <3>1, <3>2 DEF ClosingSession, PhaseInv, SessionPcs
  <2>. QED BY <1>6, <2>1, <2>2, <2>3, <2>4, <2>5, <2>6 DEF SessionStep
<1>. QED BY <1>1, <1>2, <1>3, <1>4, <1>5, <1>6 DEF SocketNext, MessageNext, ClientNext

----------------------------------------------------------------------------

LEMMA InitWaiting ==
  ASSUME SocketInit
  PROVE  \E waiting \in Seq(Peer) :
           /\ ServerInit(waiting)
           /\ \A i, j \in DOMAIN waiting : waiting[i] = waiting[j] => i = j
           /\ service = "cache" => \A p \in Pool : \E i \in DOMAIN waiting : waiting[i] = p
<1>1. PICK waiting :
        /\ waiting \in IF service = "cache" THEN Bijection(1 .. Cardinality(Pool), Pool) ELSE {<<>>}
        /\ ServerInit(waiting)
  BY DEF SocketInit
<1>2. backlog = waiting
  BY <1>1 DEF ServerInit
<1>3. waiting \in Seq(Peer) /\ ServerInit(waiting)
  BY <1>1, <1>2, InitType DEF TypeInv
<1> SUFFICES /\ \A i, j \in DOMAIN waiting : waiting[i] = waiting[j] => i = j
             /\ service = "cache" => \A p \in Pool : \E i \in DOMAIN waiting : waiting[i] = p
  <2> USE <1>3
  <2>. WITNESS waiting \in Seq(Peer)
  <2>. QED OBVIOUS
<1>4. CASE service = "cache"
  <2>1. waiting \in Bijection(1 .. Cardinality(Pool), Pool)
    BY <1>1, <1>4
  <2>2. DOMAIN waiting = 1 .. Cardinality(Pool) /\ waiting \in [1 .. Cardinality(Pool) -> Pool]
    BY <2>1 DEF Bijection, Injection
  <2>3. \A i, j \in DOMAIN waiting : waiting[i] = waiting[j] => i = j
    BY <2>1 DEF Bijection, Injection, IsInjective
  <2>4. \A p \in Pool : \E i \in 1 .. Cardinality(Pool) : waiting[i] = p
    BY <2>1 DEF Bijection, Surjection
  <2>5. \A p \in Pool : \E i \in DOMAIN waiting : waiting[i] = p
    BY <2>2, <2>4
  <2>. QED BY <1>3, <2>3, <2>5
<1>5. CASE service # "cache"
  <2>1. waiting = <<>>
    BY <1>1, <1>5
  <2>. QED BY <1>3, <1>5, <2>1
<1>. QED BY <1>4, <1>5

LEMMA InitSocket == SocketInit => SocketInv
<1> SUFFICES ASSUME SocketInit PROVE SocketInv
  OBVIOUS
<1>1. TypeInv
  BY InitType
<1>2. PICK waiting \in Seq(Peer) :
        /\ ServerInit(waiting)
        /\ \A i, j \in DOMAIN waiting : waiting[i] = waiting[j] => i = j
        /\ service = "cache" => \A p \in Pool : \E i \in DOMAIN waiting : waiting[i] = p
  BY InitWaiting
<1>3. /\ \A t \in Peer : thread[t].pc = "none"
      /\ \A p \in Peer : conn[p].in = <<>> /\ conn[p].out = <<>>
      /\ \A p \in Peer : conn[p].client = "new" <=> ~\E i \in DOMAIN waiting : waiting[i] = p
      /\ watched = {} /\ backlog = waiting
      /\ \A f \in 0 .. MaxFd : table[f] = IF f = 0 THEN Listener ELSE NoPeer
      /\ table \in [0 .. MaxFd -> {Listener, NoPeer}]
  BY <1>2 DEF ServerInit, NoThread, Unused
<1>4. /\ \A p \in Peer : call[p].pc = "new" /\ call[p].told = "nothing"
      /\ files = [d \in Destination |-> <<>>]
  BY DEF SocketInit, MessageInit, NoCall
<1>5. \A c \in Caller : caller[c].pc = "idle" /\ caller[c].result = "none"
  BY DEF SocketInit, ClientInit
<1>6. PhaseInv
  BY <1>3, <1>4, <1>5 DEF PhaseInv, TextPcs, SessionPcs
<1>7. ConnectedInv
  BY <1>2, <1>3, <1>4, <1>5, ClientAssumption DEF ConnectedInv
<1>8. LockInv
  BY <1>5 DEF LockInv
<1>9. DescriptorInv
  <2>1. table[0] = Listener /\ \A f \in 0 .. MaxFd : table[f] \notin Peer
    BY <1>3, ServerAssumption
  <2>2. \A i \in DOMAIN backlog : backlog[i] \in Peer
    BY <1>1 DEF TypeInv
  <2>3. \A i \in DOMAIN backlog :
          /\ conn[backlog[i]].client # "new" /\ thread[backlog[i]].pc = "none"
          /\ \A f \in 0 .. MaxFd : table[f] # backlog[i]
    BY <1>3, <2>1, <2>2
  <2>. QED BY <1>2, <1>3, <2>1, <2>3 DEF DescriptorInv
<1>10. OwnInv
  BY <1>3 DEF OwnInv, Working
<1>11. \A p \in Peer : ~InFile(p)
  BY <1>4 DEF InFile
<1>12. \A p \in Peer : TextInv(p) /\ GotInv(p) /\ PlaceInv(p)
  BY <1>3, <1>4, <1>11 DEF TextInv, GotInv, PlaceInv, WasSent
<1>13. NoneTwice
  BY <1>4 DEF NoneTwice
<1>14. PromiseInv
  BY <1>3, <1>4 DEF PromiseInv
<1>. QED BY <1>1, <1>6, <1>7, <1>8, <1>9, <1>10, <1>12, <1>13, <1>14
     DEF SocketInv, ServerInv, MessageInv, OnceInv

LEMMA StutterSocket == SocketInv /\ UNCHANGED socketVars => SocketInv'
<1> SUFFICES ASSUME SocketInv, UNCHANGED socketVars PROVE SocketInv'
  OBVIOUS
<1> USE DEF SocketInv, socketVars, serverVars, messageVars, clientVars
<1>1. TypeInv'
  BY DEF TypeInv
<1>2. PhaseInv' /\ ConnectedInv' /\ LockInv'
  BY DEF PhaseInv, ConnectedInv, LockInv, On, LockOf
<1>3. ServerInv'
  BY DEF ServerInv, DescriptorInv, OwnInv
<1>4. OnceInv'
  BY OnceFrame DEF MessageInv
<1>5. NoneTwice' /\ PromiseInv'
  BY ZenonT(60) DEF MessageInv, NoneTwice, PromiseInv, Promised
<1>. QED BY <1>1, <1>2, <1>3, <1>4, <1>5 DEF MessageInv

LEMMA NextSocket == SocketInv /\ [SocketNext]_socketVars => SocketInv'
  BY StutterSocket, NextType, NextPhase, NextConnected, NextLock, NextDescriptor, NextOwn,
     NextOnce, NextNoneTwice, NextPromise
     DEF SocketInv, ServerInv, MessageInv

\* The inductive invariant of the sockets, their threads and their clients, for any
\* service; the distributed cache adds CacheInv below.
THEOREM SocketInvariant == SocketSpec => []SocketInv
  BY InitSocket, NextSocket, PTL DEF SocketSpec

\* ToldIsStored: a message whose sender was told that it was received is in the file
\* of its queue, and none is in a file twice.
THEOREM MessagesAreStored == SocketSpec => []ToldIsStored
<1>1. SocketInv => ToldIsStored
  BY DEF SocketInv, MessageInv, NoneTwice, PromiseInv, Promised, ToldIsStored
<1>. QED BY <1>1, SocketInvariant, PTL

----------------------------------------------------------------------------
(* The cache.                                                              *)

LEMMA Pair ==
  ASSUME NEW a, NEW b
  PROVE  /\ <<a, b>> # <<>> /\ Head(<<a, b>>) = a /\ Tail(<<a, b>>) = <<b>>
         /\ <<b>> # <<>> /\ Head(<<b>>) = b /\ Tail(<<b>>) = <<>>
         /\ <<>> \o <<a, b>> = <<a, b>>
<1>1. <<>> \o <<a, b>> = <<a, b>>
  <2>1. <<a, b>> \in Seq({a, b})
    OBVIOUS
  <2>. QED BY <2>1, ConcatEmptySeq
<1>. QED BY <1>1

LEMMA PiecesOf == \A c \in Caller : Pieces(c, CommandOf[Method[c]]) = <<HeadOf(c), BodyOf(c)>>
  BY DEF Pieces, HeadOf, BodyOf

\* Two callers never use one connection at once.
LEMMA OneUser ==
  ASSUME PoolInOneProcess, LockInv, NEW c \in Caller, NEW d \in Caller, On(c) = On(d),
         caller[c].pc \in InUse, caller[d].pc \in InUse
  PROVE  c = d
<1>1. caller[c].pc # "idle" /\ caller[d].pc # "idle"
  BY DEF InUse
<1>2. lock[LockOf(c)] = c /\ lock[LockOf(d)] = d
  BY <1>1 DEF LockInv
<1>3. CASE c \in OwnsConnection \/ d \in OwnsConnection
  <2>1. c = On(c) /\ d = On(d)
    BY <1>1, <1>3, ClientAssumption DEF LockInv
  <2>. QED BY <2>1
<1>4. CASE c \notin OwnsConnection /\ d \notin OwnsConnection
  <2>1. ProcessOf[c] = ProcessOf[d]
    BY <1>4 DEF PoolInOneProcess
  <2>2. LockOf(c) = LockOf(d)
    BY <2>1 DEF LockOf
  <2>. QED BY <1>2, <2>2
<1>. QED BY <1>3, <1>4

\* Whoever has a connection may use it.
LEMMA ServesCaller ==
  ASSUME LockInv, NEW c \in Caller, caller[c].pc \notin {"idle", "done"}
  PROVE  On(c) \in Peer /\ Serving(On(c))
  BY DEF LockInv, Serving

LEMMA ServingBefore ==
  ASSUME NEW p, Serving(p)',
         \A c \in Caller : caller'[c].pc # "done" => caller[c].pc # "done",
         p \in OwnsConnection /\ caller'[p].pc \notin {"idle", "done"} => caller[p].pc # "idle"
  PROVE  Serving(p)
  BY ClientAssumption DEF Serving

\* A query is on its way.
LEMMA AskedFor ==
  ASSUME NEW p, Good(p), ~dead, conn[p].in # <<>> \/ thread[p].pc \in {"query", "body", "asked"}
  PROVE  \E c \in Caller : Using(c, p) /\ caller[c].pc = "head" /\ conn[p].out = <<>> /\ Asked(p, c)
<1>1. ~AtRest(p)
  BY DEF AtRest
<1>2. ~Quiet(p)
  BY <1>1 DEF Quiet
<1>3. PICK c \in Caller : Using(c, p)
  BY <1>2 DEF Good, Stream
<1>4. InPhase(c, p)
  BY <1>3 DEF Good, Stream
<1>. QED BY <1>1, <1>3, <1>4 DEF InPhase

\* The thread of a connection in use works on queries.
LEMMA ThreadServes ==
  ASSUME NEW p, Good(p), ~dead
  PROVE  thread[p].pc \in {"none", "new", "taken", "length", "query", "body", "asked"}
<1>1. CASE AtRest(p)
  BY <1>1 DEF AtRest
<1>2. CASE ~AtRest(p)
  <2>1. ~Quiet(p)
    BY <1>2 DEF Quiet
  <2>2. PICK c \in Caller : Using(c, p)
    BY <2>1 DEF Good, Stream
  <2>3. InPhase(c, p)
    BY <2>2 DEF Good, Stream
  <2>4. Asked(p, c)
    BY <1>2, <2>3 DEF InPhase
  <2>. QED BY <2>4 DEF Asked
<1>. QED BY <1>1, <1>2

AtLength == {"none", "new", "taken", "length"}

\* Nothing happens on the connection p.
LEMMA GoodFrame ==
  ASSUME NEW p, Good(p), dead => dead', dead' \/ (Present(p) => Present(p)'),
         conn'[p].in = conn[p].in, conn'[p].out = conn[p].out, conn'[p].client = conn[p].client,
         \/ dead'
         \/ thread'[p].pc = thread[p].pc /\ thread'[p].got = thread[p].got
         \/ thread[p].pc \in AtLength /\ thread'[p].pc \in AtLength
         \/ thread[p].pc \in {"query", "body"} /\ thread'[p].pc \in {"query", "body"},
         \A c \in Caller : Using(c, p) \/ Using(c, p)' =>
           /\ caller'[c].pc = caller[c].pc /\ caller'[c].conn = caller[c].conn
           /\ caller'[c].got = caller[c].got
  PROVE  Good(p)'
<1>1. dead' \/ Present(p)'
  BY DEF Good
<1>2. \A c \in Caller : Using(c, p)' <=> Using(c, p)
  BY DEF Using, On
<1>3. dead \/ AtRest(p) => dead' \/ AtRest(p)'
  BY DEF AtRest, AtLength
<1>4. \A c \in Caller : dead \/ Asked(p, c) => dead' \/ Asked(p, c)'
  <2> SUFFICES ASSUME NEW c \in Caller, Asked(p, c), ~dead' PROVE Asked(p, c)'
    OBVIOUS
  <2>1. BodyOf(c)' = BodyOf(c) /\ HeadOf(c)' = HeadOf(c)
    BY DEF BodyOf, HeadOf
  <2>. QED BY <2>1 DEF Asked, AtLength
<1>5. \A c \in Caller : Using(c, p)' => InPhase(c, p)'
  <2> SUFFICES ASSUME NEW c \in Caller, Using(c, p)' PROVE InPhase(c, p)'
    OBVIOUS
  <2>1. InPhase(c, p) /\ caller'[c].pc = caller[c].pc /\ caller'[c].got = caller[c].got
    BY <1>2 DEF Good, Stream
  <2>2. BodyOf(c)' = BodyOf(c) /\ HeadOf(c)' = HeadOf(c)
    BY DEF BodyOf, HeadOf
  <2>. QED BY <1>3, <1>4, <2>1, <2>2 DEF InPhase
<1>6. (\A c \in Caller : ~Using(c, p)') => Quiet(p)'
  BY <1>2, <1>3 DEF Good, Stream, Quiet
<1>7. Stream(p)'
  BY <1>5, <1>6 DEF Stream
<1>. QED BY <1>1, <1>7 DEF Good

LEMMA AcceptPresent ==
  ASSUME TypeInv, NEW f \in 0 .. MaxFd, NEW q \in Peer, Accepts(f, q), NEW p \in Peer, Present(p)
  PROVE  Present(p)'
<1>1. /\ backlog # <<>> /\ q = Head(backlog) /\ backlog' = Tail(backlog) /\ backlog \in Seq(Peer)
      /\ table[f] = NoPeer /\ \A g \in 0 .. MaxFd : table'[g] = IF g = f THEN q ELSE table[g]
  BY DEF Accepts, TypeInv
<1>2. CASE \E g \in 0 .. MaxFd : table[g] = p
  <2>1. PICK g \in 0 .. MaxFd : table[g] = p
    BY <1>2
  <2>2. table'[g] = p
    BY <1>1, <2>1, ServerAssumption
  <2>. QED BY <2>2 DEF Present
<1>3. CASE \E i \in DOMAIN backlog : backlog[i] = p
  <2>1. PICK i \in DOMAIN backlog : backlog[i] = p
    BY <1>3
  <2>2. /\ Len(backlog) \in Nat /\ DOMAIN backlog = 1 .. Len(backlog) /\ q = backlog[1]
        /\ Tail(backlog) \in Seq(Peer) /\ Len(Tail(backlog)) = Len(backlog) - 1
        /\ \A j \in 1 .. Len(Tail(backlog)) : Tail(backlog)[j] = backlog[j + 1]
    BY <1>1, EmptySeq, HeadTailProperties
  <2>3. CASE i = 1
    <3>1. table'[f] = p
      BY <1>1, <2>1, <2>2, <2>3
    <3>. QED BY <3>1 DEF Present
  <2>4. CASE i # 1
    <3>1. i - 1 \in 1 .. Len(Tail(backlog)) /\ (i - 1) + 1 = i
      BY <2>1, <2>2, <2>4
    <3>2. i - 1 \in DOMAIN Tail(backlog) /\ Tail(backlog)[i - 1] = p
      BY <2>1, <2>2, <3>1
    <3>. QED BY <1>1, <3>2 DEF Present
  <2>. QED BY <2>3, <2>4
<1>. QED BY <1>2, <1>3 DEF Present

LEMMA ConnectPresent ==
  ASSUME TypeInv, NEW q \in Peer, backlog' = Append(backlog, q), UNCHANGED table, NEW p
  PROVE  (Present(p) => Present(p)') /\ Present(q)'
<1>1. /\ Len(backlog) \in Nat /\ DOMAIN backlog = 1 .. Len(backlog)
      /\ DOMAIN backlog' = 1 .. Len(backlog) + 1 /\ backlog'[Len(backlog) + 1] = q
      /\ \A i \in DOMAIN backlog : i \in DOMAIN backlog' /\ backlog'[i] = backlog[i]
  BY DEF TypeInv
<1>2. Len(backlog) + 1 \in DOMAIN backlog'
  BY <1>1
<1>. QED BY <1>1, <1>2 DEF Present

\* The steps of the session of p.
LEMMA LengthGood ==
  ASSUME PoolInOneProcess, LockInv, NEW p \in Peer, Good(p), GettingLength(p, p)
  PROVE  Good(p)'
<1>1. ~dead /\ conn[p].client = "open" /\ thread[p].pc = "length" /\ Present(p)
  BY DEF GettingLength, Good
<1>2. /\ UNCHANGED ServiceVars /\ UNCHANGED dead /\ conn[p].in # <<>>
      /\ Conn(p, Tail(conn[p].in), conn[p].out, conn[p].client)
      /\ \/ Leaves(p, "query", Head(conn[p].in))
         \/ Head(conn[p].in).part # "head" /\ Leaves(p, "closing", Head(conn[p].in))
  BY <1>1 DEF GettingLength
<1>3. PICK c \in Caller : Using(c, p) /\ caller[c].pc = "head" /\ conn[p].out = <<>> /\ Asked(p, c)
  BY <1>1, <1>2, AskedFor
<1>4. conn[p].in = <<HeadOf(c), BodyOf(c)>>
  BY <1>1, <1>2, <1>3 DEF Asked
<1>5. Head(conn[p].in) = HeadOf(c) /\ Tail(conn[p].in) = <<BodyOf(c)>>
  BY <1>4, Pair
<1>6. /\ conn'[p].in = <<BodyOf(c)>> /\ conn'[p].out = <<>> /\ conn'[p].client = "open"
      /\ thread'[p].pc = "query"
  <2>1. HeadOf(c).part = "head"
    BY DEF HeadOf
  <2>. QED BY <1>1, <1>2, <1>3, <1>5, <2>1 DEF Conn, Leaves
<1>7. UNCHANGED <<caller, lock, backlog, table>>
  BY <1>2 DEF ServiceVars, clientVars
<1>8. Asked(p, c)'
  BY <1>6 DEF Asked, BodyOf
<1>9. \A d \in Caller : Using(d, p)' => d = c
  BY <1>3, <1>7, OneUser DEF Using, On, InUse
<1>10. Using(c, p)' /\ InPhase(c, p)'
  BY <1>3, <1>6, <1>7, <1>8 DEF Using, On, InPhase
<1>11. Stream(p)'
  BY <1>9, <1>10 DEF Stream
<1>. QED BY <1>1, <1>6, <1>7, <1>11 DEF Good, Present

LEMMA QueryGood ==
  ASSUME PoolInOneProcess, LockInv, NEW p \in Peer, Good(p), GettingQuery(p, p)
  PROVE  Good(p)'
<1>1. ~dead /\ conn[p].client = "open" /\ thread[p].pc = "body" /\ Present(p)
  BY DEF GettingQuery, Good
<1>2. /\ UNCHANGED ServiceVars /\ UNCHANGED dead
      /\ Conn(p, Tail(conn[p].in), conn[p].out, conn[p].client)
      /\ Leaves(p, "asked", Head(conn[p].in))
  BY <1>1 DEF GettingQuery
<1>3. PICK c \in Caller : Using(c, p) /\ caller[c].pc = "head" /\ conn[p].out = <<>> /\ Asked(p, c)
  BY <1>1, AskedFor
<1>4. conn[p].in = <<BodyOf(c)>>
  BY <1>1, <1>3 DEF Asked
<1>5. Head(conn[p].in) = BodyOf(c) /\ Tail(conn[p].in) = <<>>
  BY <1>4, Pair
<1>6. /\ conn'[p].in = <<>> /\ conn'[p].out = <<>> /\ conn'[p].client = "open"
      /\ thread'[p].pc = "asked" /\ thread'[p].got = BodyOf(c)
  BY <1>1, <1>2, <1>3, <1>5 DEF Conn, Leaves
<1>7. UNCHANGED <<caller, lock, backlog, table>>
  BY <1>2 DEF ServiceVars, clientVars
<1>8. Asked(p, c)'
  BY <1>6 DEF Asked, BodyOf
<1>9. \A d \in Caller : Using(d, p)' => d = c
  BY <1>3, <1>7, OneUser DEF Using, On, InUse
<1>10. Using(c, p)' /\ InPhase(c, p)'
  BY <1>3, <1>6, <1>7, <1>8 DEF Using, On, InPhase
<1>11. Stream(p)'
  BY <1>9, <1>10 DEF Stream
<1>. QED BY <1>1, <1>6, <1>7, <1>11 DEF Good, Present

\* The answer.
LEMMA AnswerGood ==
  ASSUME PoolInOneProcess, LockInv, OwnInv, ~crossed, NEW p \in Peer, Good(p), AnsweringQuery(p)
  PROVE  Good(p)'
<1>1. ~dead /\ conn[p].client = "open" /\ thread[p].pc = "asked" /\ Present(p)
  BY DEF AnsweringQuery, Good
<1>2. CASE Ends
  <2>1. /\ conn'[p] = conn[p] /\ dead' /\ UNCHANGED <<backlog, table, caller>>
    BY <1>2 DEF Ends, ServiceVars, clientVars
  <2>. QED BY <2>1, GoodFrame DEF Present, Using, On
<1>3. CASE ~Ends
  <2>1. table[thread[p].fd] = p
    BY <1>1 DEF OwnInv, Working
  <2>2. /\ UNCHANGED ServiceVars /\ UNCHANGED dead /\ GoesOn(p, "taken")
        /\ Conn(p, conn[p].in, conn[p].out \o Pieces(thread[p].got.of, thread[p].got.is), "open")
    BY <1>1, <1>3, <2>1 DEF AnsweringQuery
  <2>3. PICK c \in Caller : Using(c, p) /\ caller[c].pc = "head" /\ conn[p].out = <<>> /\ Asked(p, c)
    BY <1>1, AskedFor
  <2>4. conn[p].in = <<>> /\ thread[p].got = BodyOf(c)
    BY <1>1, <2>3 DEF Asked
  <2>5. Pieces(thread[p].got.of, thread[p].got.is) = <<HeadOf(c), BodyOf(c)>>
    <3>1. thread[p].got.of = c /\ thread[p].got.is = CommandOf[Method[c]]
      BY <2>4 DEF BodyOf
    <3>. QED BY <3>1, PiecesOf
  <2>6. /\ conn'[p].in = <<>> /\ conn'[p].out = <<HeadOf(c), BodyOf(c)>> /\ conn'[p].client = "open"
        /\ thread'[p].pc = "taken"
    BY <2>2, <2>3, <2>4, <2>5, Pair DEF Conn, GoesOn
  <2>7. UNCHANGED <<caller, lock, backlog, table>>
    BY <2>2 DEF ServiceVars, clientVars
  <2>8. AtRest(p)'
    BY <2>6 DEF AtRest
  <2>9. \A d \in Caller : Using(d, p)' => d = c
    BY <2>3, <2>7, OneUser DEF Using, On, InUse
  <2>10. Using(c, p)' /\ InPhase(c, p)'
    BY <2>3, <2>6, <2>7, <2>8 DEF Using, On, InPhase, HeadOf, BodyOf
  <2>11. Stream(p)'
    BY <2>9, <2>10 DEF Stream
  <2>. QED BY <1>1, <2>6, <2>7, <2>11 DEF Good, Present
<1>. QED BY <1>2, <1>3

\* The steps of the caller c on its connection.
LEMMA KeptPresent ==
  ASSUME TypeInv, DescriptorInv, ~crossed, ~dead, NEW p, Present(p)
  PROVE  Kept(p)
<1>1. DOMAIN table = 0 .. MaxFd /\ table[0] = Listener /\ 0 \in 0 .. MaxFd
  BY ServerAssumption DEF TypeInv, DescriptorInv
<1>2. Listening
  BY <1>1 DEF Listening
<1>. QED BY <1>1, <1>2 DEF Kept, Present

LEMMA NotUsed ==
  ASSUME PoolInOneProcess, LockInv, NEW c \in Caller, caller[c].pc \in InUse,
         caller[c].pc \notin {"head", "body"}
  PROVE  \A d \in Caller : ~Using(d, On(c))
  BY OneUser DEF Using, InUse

LEMMA AskGood ==
  ASSUME TypeInv, PoolInOneProcess, LockInv, DescriptorInv, ~crossed, NEW c \in Caller,
         NEW p \in Peer, p = On(c), Good(p), Asking(c)
  PROVE  Good(p)'
<1>1. /\ UNCHANGED <<backlog, table, dead, thread>> /\ conn[p].client = "open"
      /\ caller[c].pc = "send" /\ (dead \/ Present(p)) /\ caller'[c].conn = p
      /\ \A d \in Caller : d # c => caller'[d] = caller[d]
  BY DEF Asking, Behind, serverSide, Good, Moves, OthersU, On
<1>2. \A d \in Caller : ~Using(d, p)
  BY <1>1, NotUsed DEF InUse
<1>3. conn[p].out = <<>> /\ (dead \/ AtRest(p))
  BY <1>2 DEF Good, Stream, Quiet
<1>4. \A d \in Caller : Using(d, p)' => d = c
  BY <1>1, <1>2 DEF Using, On
<1>5. Present(p)' <=> Present(p)
  BY <1>1 DEF Present
<1>6. CASE Kept(p)
  <2>1. ~dead /\ AtRest(p)
    BY <1>3, <1>6 DEF Kept
  <2>2. /\ caller'[c].pc = "head"
        /\ Conn(p, conn[p].in \o Pieces(c, CommandOf[Method[c]]), conn[p].out, conn[p].client)
    BY <1>6 DEF Asking, Moves
  <2>3. conn[p].in = <<>> /\ thread[p].pc \in {"none", "new", "taken", "length"}
    BY <2>1 DEF AtRest
  <2>4. conn'[p].in = <<HeadOf(c), BodyOf(c)>> /\ conn'[p].out = <<>> /\ conn'[p].client = "open"
    BY <1>1, <1>3, <2>2, <2>3, Pair, PiecesOf DEF Conn
  <2>5. Asked(p, c)'
    BY <1>1, <2>3, <2>4 DEF Asked, HeadOf, BodyOf
  <2>6. Using(c, p)' /\ InPhase(c, p)'
    BY <1>1, <2>2, <2>4, <2>5 DEF Using, On, InPhase
  <2>7. Stream(p)'
    BY <1>4, <2>6 DEF Stream
  <2>. QED BY <1>1, <1>5, <2>4, <2>7 DEF Good
<1>7. CASE ~Kept(p)
  <2>1. dead /\ UNCHANGED conn /\ caller'[c].pc \in {"head", "release"}
    BY <1>1, <1>7, KeptPresent DEF Asking, Moves
  <2>2. \A d \in Caller : Using(d, p)' => InPhase(d, p)'
    BY <1>1, <1>3, <1>4, <2>1 DEF InPhase, Using
  <2>3. Quiet(p)'
    BY <1>1, <1>3, <2>1 DEF Quiet
  <2>4. Stream(p)'
    BY <2>2, <2>3 DEF Stream
  <2>. QED BY <1>1, <1>5, <2>1, <2>4 DEF Good
<1>. QED BY <1>6, <1>7

\* The answer is that of c.
LEMMA OwnLength ==
  ASSUME NEW c \in Caller, NEW p, p = On(c), Good(p), caller[c].pc = "head", conn[p].out # <<>>
  PROVE  conn[p].out = <<HeadOf(c), BodyOf(c)>> /\ (dead \/ AtRest(p))
<1>1. Using(c, p)
  BY DEF Using
<1>2. InPhase(c, p)
  BY <1>1 DEF Good, Stream
<1>. QED BY <1>2 DEF InPhase

LEMMA OwnAnswer ==
  ASSUME NEW c \in Caller, NEW p, p = On(c), Good(p), caller[c].pc = "body"
  PROVE  conn[p].out = <<BodyOf(c)>> /\ caller[c].got = c /\ (dead \/ AtRest(p))
<1>1. Using(c, p)
  BY DEF Using
<1>2. InPhase(c, p)
  BY <1>1 DEF Good, Stream
<1>. QED BY <1>2 DEF InPhase

LEMMA ReadLengthGood ==
  ASSUME PoolInOneProcess, LockInv, NEW c \in Caller,
         NEW p \in Peer, p = On(c), Good(p), NEW out, out = conn[p].out, ReadingLength(c, out)
  PROVE  Good(p)' /\ Same(c)
<1>1. /\ UNCHANGED <<backlog, table, dead, thread>> /\ conn[p].client = "open"
      /\ caller[c].pc = "head" /\ (dead \/ Present(p)) /\ caller'[c].conn = p
      /\ \A d \in Caller : d # c => caller'[d] = caller[d]
      /\ conn'[p].in = conn[p].in /\ conn'[p].client = conn[p].client /\ out # <<>>
  BY DEF ReadingLength, Behind, serverSide, Good, OthersU, On
<1>2. conn[p].out = <<HeadOf(c), BodyOf(c)>> /\ (dead \/ AtRest(p))
  BY <1>1, OwnLength
<1>3. Head(out) = HeadOf(c) /\ Tail(out) = <<BodyOf(c)>> /\ Head(out).part = "head" /\ Head(out).of = c
  <2>1. Head(out) = HeadOf(c) /\ Tail(out) = <<BodyOf(c)>>
    BY <1>2, Pair
  <2>. QED BY <2>1 DEF HeadOf
<1>4. caller'[c].pc = "body" /\ caller'[c].got = c /\ Same(c) /\ conn'[p].out = <<BodyOf(c)>>
  BY <1>3 DEF ReadingLength
<1>5. \A d \in Caller : Using(d, p)' => d = c
  <2> SUFFICES ASSUME NEW d \in Caller, d # c, Using(d, p)' PROVE FALSE
    OBVIOUS
  <2>1. Using(d, p)
    BY <1>1 DEF Using, On
  <2>. QED BY <1>1, <2>1, OneUser DEF Using, InUse
<1>6. AtRest(p) => AtRest(p)'
  BY <1>1 DEF AtRest
<1>7. Using(c, p)' /\ InPhase(c, p)'
  BY <1>1, <1>2, <1>4, <1>6 DEF Using, On, InPhase, BodyOf
<1>8. Stream(p)'
  BY <1>5, <1>7 DEF Stream
<1>. QED BY <1>1, <1>4, <1>8 DEF Good, Present

\* Of c, which leaves the connection p with nothing on it.
LEMMA LeavesGood ==
  ASSUME PoolInOneProcess, LockInv, NEW c \in Caller, caller[c].pc \in {"head", "body"},
         NEW p \in Peer, p = On(c), Good(p), dead \/ AtRest(p),
         UNCHANGED <<backlog, table, dead, thread>>,
         conn'[p].in = conn[p].in, conn'[p].client = conn[p].client, conn'[p].out = <<>>,
         Moves(c, "unlock")
  PROVE  Good(p)'
<1>1. caller'[c].pc = "unlock" /\ \A d \in Caller : d # c => caller'[d] = caller[d]
  BY DEF Moves, OthersU
<1>2. \A d \in Caller : ~Using(d, p)'
  <2> SUFFICES ASSUME NEW d \in Caller, Using(d, p)' PROVE FALSE
    OBVIOUS
  <2>1. d # c
    BY <1>1 DEF Using
  <2>2. Using(d, p)
    BY <1>1, <2>1 DEF Using, On
  <2>. QED BY <2>1, <2>2, OneUser DEF Using, InUse
<1>3. AtRest(p) => AtRest(p)'
  BY DEF AtRest
<1>4. Stream(p)'
  BY <1>2, <1>3 DEF Stream, Quiet
<1>. QED BY <1>4 DEF Good, Present

LEMMA ReadEndGood ==
  ASSUME TypeInv, PoolInOneProcess, LockInv, DescriptorInv, ~crossed, NEW c \in Caller,
         NEW p \in Peer, p = On(c), Good(p), ReadingEnd(c)
  PROVE  Good(p)'
<1>1. dead
  BY KeptPresent DEF Good, ReadingEnd
<1>. QED BY <1>1, LeavesGood DEF ReadingEnd, Behind, serverSide

LEMMA ReadAnswerGood ==
  ASSUME PoolInOneProcess, LockInv, NEW c \in Caller,
         NEW p \in Peer, p = On(c), Good(p), NEW out, out = conn[p].out, ReadingAnswer(c, out),
         p \notin cut'
  PROVE  Good(p)' /\ caller'[c].result = "own"
<1>1. caller[c].pc = "body"
  BY DEF ReadingAnswer
<1>2. conn[p].out = <<BodyOf(c)>> /\ caller[c].got = c /\ (dead \/ AtRest(p))
  BY <1>1, OwnAnswer
<1>3. out # <<>> /\ Head(out) = BodyOf(c) /\ Tail(out) = <<>>
  BY <1>2, Pair
<1>4. Head(out).part = "body" /\ Head(out).of = c
  BY <1>3 DEF BodyOf
<1>5. conn'[p].out = <<>> /\ caller'[c].result = "own"
  BY <1>2, <1>3, <1>4 DEF ReadingAnswer
<1>. QED BY <1>1, <1>2, <1>5, LeavesGood DEF ReadingAnswer, Behind, serverSide

LEMMA GoodBefore ==
  ASSUME StreamInv, UNCHANGED <<service, caller, cut>>, ~crossed, service' = "cache",
         NEW r \in Peer \ cut', Serving(r)'
  PROVE  Good(r)
  BY DEF StreamInv, Serving

LEMMA CallerBefore ==
  ASSUME StreamInv, service = "cache", ~crossed, cut \subseteq cut', NEW c \in Caller, OthersU(c),
         caller[c].pc # "done", NEW r \in Peer \ cut', Serving(r)',
         caller[c].pc # "idle" \/ r # c \/ r \notin OwnsConnection
  PROVE  Good(r)
<1>1. \A d \in Caller : caller'[d].pc # "done" => caller[d].pc # "done"
  BY DEF OthersU
<1>2. r \in OwnsConnection /\ caller'[r].pc \notin {"idle", "done"} => caller[r].pc # "idle"
  BY ClientAssumption DEF OthersU
<1>3. Serving(r)
  BY <1>1, <1>2, ServingBefore
<1>. QED BY <1>3 DEF StreamInv

\* Nothing happens on the connection p, which c does not use.
LEMMA CallerElsewhere ==
  ASSUME NEW p \in Peer, Good(p), UNCHANGED <<table, backlog, thread, dead>>,
         conn'[p].in = conn[p].in, conn'[p].out = conn[p].out, conn'[p].client = conn[p].client,
         NEW c \in Caller, OthersU(c),
         \/ caller[c].pc \notin {"head", "body"} /\ caller'[c].pc \notin {"head", "body"}
         \/ On(c) # p /\ caller'[c].conn = caller[c].conn
  PROVE  Good(p)'
<1>1. ~Using(c, p) /\ ~Using(c, p)'
  BY DEF Using, On
<1>2. \A d \in Caller : Using(d, p) \/ Using(d, p)' =>
        /\ caller'[d].pc = caller[d].pc /\ caller'[d].conn = caller[d].conn
        /\ caller'[d].got = caller[d].got
  BY <1>1 DEF OthersU
<1>3. Present(p) => Present(p)'
  BY DEF Present
<1>. QED BY <1>2, <1>3, GoodFrame

LEMMA OpenGood ==
  ASSUME TypeInv, LockInv, DescriptorInv, ~crossed, NEW c \in Caller, Opening(c)
  PROVE  Good(c)'
<1>1. /\ conn[c].client = "new" /\ c \in Peer /\ Conn(c, conn[c].in, conn[c].out, "open")
      /\ \A d \in Caller : d # c => caller'[d] = caller[d]
      /\ caller'[c].pc = "lock" /\ UNCHANGED thread /\ c \in OwnsConnection
  BY DEF Opening, OthersU
<1>2. thread[c].pc = "none" /\ conn[c].in = <<>> /\ conn[c].out = <<>>
  BY <1>1 DEF DescriptorInv
<1>3. conn'[c].in = <<>> /\ conn'[c].out = <<>> /\ conn'[c].client = "open" /\ thread'[c].pc = "none"
  BY <1>1, <1>2 DEF Conn
<1>4. Present(c)'
  BY <1>1, ConnectPresent DEF Opening
<1>5. \A d \in Caller : ~Using(d, c)'
  <2> SUFFICES ASSUME NEW d \in Caller, Using(d, c)' PROVE FALSE
    OBVIOUS
  <2>1. d # c /\ Using(d, c)
    BY <1>1 DEF Using, On
  <2>2. IF d \in OwnsConnection THEN c = d ELSE c \in Pool
    BY <2>1 DEF LockInv, Using
  <2>. QED BY <1>1, <2>1, <2>2, ClientAssumption
<1>6. Stream(c)'
  BY <1>3, <1>5 DEF Stream, Quiet, AtRest
<1>. QED BY <1>3, <1>4, <1>6 DEF Good

LEMMA NextStream ==
  ASSUME PoolInOneProcess, TypeInv, PhaseInv, LockInv, DescriptorInv, OwnInv, StreamInv, SocketNext
  PROVE  StreamInv'
<1> SUFFICES ASSUME service' = "cache", ~crossed', NEW r \in Peer \ cut', Serving(r)' PROVE Good(r)'
  BY DEF StreamInv
<1>1. ASSUME Loop, UNCHANGED <<messageVars, clientVars>> PROVE Good(r)'
  <2>1. CASE Accept
    <3>1. Accepting
      BY <1>1, <2>1, AcceptEffect
    <3>. QED BY <3>1 DEF Accepting, LoopVars
  <2>2. CASE AcceptWatched
    <3>1. AcceptingWatched
      BY <1>1, <2>2, AcceptWatchedEffect
    <3>2. UNCHANGED <<service, caller, cut>> /\ ~crossed
      BY <3>1 DEF AcceptingWatched, LoopVars, messageVars, clientVars
    <3>3. Good(r) /\ r \in Peer
      BY <3>2, GoodBefore
    <3>4. dead => dead'
      BY <3>1 DEF AcceptingWatched, LoopVars, messageVars, clientVars
    <3>5. dead' \/ (Present(r) => Present(r)')
      BY <3>1, <3>3, AcceptPresent DEF AcceptingWatched, Present
    <3>6. conn'[r].in = conn[r].in /\ conn'[r].out = conn[r].out /\ conn'[r].client = conn[r].client
      BY <3>1, <3>3 DEF AcceptingWatched, LoopVars, messageVars, clientVars
    <3>7.
        \/ dead'
        \/ thread'[r].pc = thread[r].pc /\ thread'[r].got = thread[r].got
        \/ thread[r].pc \in AtLength /\ thread'[r].pc \in AtLength
        \/ thread[r].pc \in {"query", "body"} /\ thread'[r].pc \in {"query", "body"}
      BY <3>1, <3>3 DEF AcceptingWatched, LoopVars, messageVars, clientVars, AtLength
    <3>. QED BY <3>2, <3>3, <3>4, <3>5, <3>6, <3>7, GoodFrame DEF Using, On
  <2>3. ASSUME NEW f \in 0 .. MaxFd, HandOver(f) PROVE Good(r)'
    <3>0. PICK p : p = table[f]
      OBVIOUS
    <3>1. HandingOver(f, p)
      BY <1>1, <2>3, <3>0, HandOverEffect
    <3>2. UNCHANGED <<service, caller, cut>> /\ ~crossed
      BY <3>0, <3>1 DEF HandingOver, LoopVars, messageVars, clientVars
    <3>3. Good(r) /\ r \in Peer
      BY <3>2, GoodBefore
    <3>4. dead => dead'
      BY <3>0, <3>1 DEF HandingOver, LoopVars, messageVars, clientVars
    <3>5. dead' \/ (Present(r) => Present(r)')
      BY <3>0, <3>1, <3>3, ServerAssumption DEF HandingOver, Present, Good
    <3>6. conn'[r].in = conn[r].in /\ conn'[r].out = conn[r].out /\ conn'[r].client = conn[r].client
      BY <3>0, <3>1, <3>3 DEF HandingOver, LoopVars, messageVars, clientVars
    <3>7.
        \/ dead'
        \/ thread'[r].pc = thread[r].pc /\ thread'[r].got = thread[r].got
        \/ thread[r].pc \in AtLength /\ thread'[r].pc \in AtLength
        \/ thread[r].pc \in {"query", "body"} /\ thread'[r].pc \in {"query", "body"}
      <4>1. p \in Peer /\ thread[p].pc = "none"
        BY <3>0, <3>1, <3>2 DEF HandingOver, DescriptorInv
      <4>. QED BY <3>1, <3>3, <4>1 DEF HandingOver, GoesOn, OthersT, AtLength
    <3>. QED BY <3>2, <3>3, <3>4, <3>5, <3>6, <3>7, GoodFrame DEF Using, On
  <2>. QED BY <1>1, <2>1, <2>2, <2>3 DEF Loop
<1>2. ASSUME NEW t \in Peer, TakeDescriptor(t), UNCHANGED <<messageVars, clientVars>> PROVE Good(r)'
  <2>1. Taking(t)
    BY <1>2, TakeEffect
  <2>2. UNCHANGED <<service, caller, cut>> /\ ~crossed
    BY <2>1 DEF Taking, messageVars, clientVars
  <2>3. Good(r) /\ r \in Peer
    BY <2>2, GoodBefore
  <2>4. dead => dead'
    BY <2>1 DEF Taking, messageVars, clientVars
  <2>5. dead' \/ (Present(r) => Present(r)')
    BY <2>1 DEF Taking, messageVars, clientVars, Present
  <2>6. conn'[r].in = conn[r].in /\ conn'[r].out = conn[r].out /\ conn'[r].client = conn[r].client
    BY <2>1, <2>3 DEF Taking, messageVars, clientVars
  <2>7.
      \/ dead'
      \/ thread'[r].pc = thread[r].pc /\ thread'[r].got = thread[r].got
      \/ thread[r].pc \in AtLength /\ thread'[r].pc \in AtLength
      \/ thread[r].pc \in {"query", "body"} /\ thread'[r].pc \in {"query", "body"}
    BY <2>1, <2>3 DEF Taking, messageVars, clientVars, OthersT, AtLength
  <2>. QED BY <2>2, <2>3, <2>4, <2>5, <2>6, <2>7, GoodFrame DEF Using, On
<1>3. ASSUME NEW p \in Peer, ClientStep(p), UNCHANGED clientVars PROVE Good(r)'
  <2>1. CASE ClientConnects(p)
    <3>1. Connecting(p)
      BY <1>3, <2>1, ClientConnectsEffect
    <3>2. service = "cache"
      BY <3>1 DEF Connecting, clientVars
    <3>. QED BY <3>1, <3>2 DEF Connecting, PhaseInv, TextPcs
  <2>2. CASE ClientSends(p)
    <3>1. Sending(p)
      BY <1>3, <2>2, ClientSendsEffect
    <3>2. service = "cache"
      BY <3>1 DEF Sending, ServerOnly, clientVars
    <3>. QED BY <3>1, <3>2 DEF Sending, PhaseInv, TextPcs
  <2>3. CASE ClientReads(p)
    <3>1. Reading(p)
      BY <1>3, <2>3, ClientReadsEffect
    <3>2. service = "cache"
      BY <3>1 DEF Reading, ServerOnly, clientVars
    <3>. QED BY <3>1, <3>2 DEF Reading, PhaseInv, TextPcs
  <2>. QED BY <1>3, <2>1, <2>2, <2>3 DEF ClientStep
<1>4. ASSUME NEW t \in Peer, TextStep(t), UNCHANGED clientVars PROVE Good(r)'
  <2>1. CASE ReceiveText(t)
    <3>1. ReceivingText(t)
      BY <1>4, <2>1, ReceiveTextEffect
    <3>2. service = "cache"
      BY <3>1 DEF ReceivingText, Waits, Ends, ServiceVars, clientVars
    <3>. QED BY <3>1, <3>2 DEF ReceivingText, PhaseInv, TextPcs
  <2>2. CASE TextReceived(t)
    <3>0. PICK p : p = thread[t].hold
      OBVIOUS
    <3>1. GettingText(t, p)
      BY <1>4, <2>2, <3>0, TextReceivedEffect
    <3>2. service = "cache"
      BY <3>0, <3>1 DEF GettingText, ServiceVars, clientVars
    <3>. QED BY <3>0, <3>1, <3>2 DEF GettingText, PhaseInv, TextPcs
  <2>3. CASE WriteMessage(t)
    <3>1. Writing(t)
      BY <1>4, <2>3, WriteMessageEffect
    <3>2. service = "cache"
      BY <3>1 DEF Writing, clientVars
    <3>. QED BY <3>1, <3>2 DEF Writing, PhaseInv, TextPcs
  <2>4. CASE InvokeMethod(t)
    <3>1. Invoking(t)
      BY <1>4, <2>4, InvokeMethodEffect
    <3>2. service = "cache"
      BY <3>1 DEF Invoking, ServiceVars, clientVars
    <3>. QED BY <3>1, <3>2 DEF Invoking, PhaseInv, TextPcs
  <2>5. CASE AnswerText(t)
    <3>1. AnsweringText(t)
      BY <1>4, <2>5, AnswerTextEffect
    <3>2. service = "cache"
      BY <3>1 DEF AnsweringText, ServiceVars, clientVars
    <3>. QED BY <3>1, <3>2 DEF AnsweringText, PhaseInv, TextPcs
  <2>6. CASE CloseText(t)
    <3>1. ClosingText(t)
      BY <1>4, <2>6, CloseTextEffect
    <3>2. service = "cache"
      BY <3>1 DEF ClosingText, Closes, clientVars
    <3>. QED BY <3>1, <3>2 DEF ClosingText, PhaseInv, TextPcs
  <2>. QED BY <1>4, <2>1, <2>2, <2>3, <2>4, <2>5, <2>6 DEF TextStep
<1>5. ASSUME NEW c \in Caller, CallerStep(c) \/ CallerKilled(c) PROVE Good(r)'
  <2>1. CASE GetPooledConnection(c)
    <3>1. TakingPooled(c)
      BY <1>5, <2>1, GetPooledEffect
    <3>2.
        /\ service = "cache" /\ ~crossed /\ cut \subseteq cut'
        /\ UNCHANGED <<table, thread, dead, backlog>>
      BY <3>1 DEF TakingPooled, Behind, OthersU, Same, serverSide, messageVars
    <3>3. OthersU(c) /\ caller[c].pc # "done"
      BY <3>1 DEF TakingPooled
    <3>4. Good(r) /\ r \in Peer
      BY <3>1, <3>2, <3>3, CallerBefore DEF TakingPooled
    <3>5. conn'[r].in = conn[r].in /\ conn'[r].out = conn[r].out /\ conn'[r].client = conn[r].client
      BY <3>1, <3>4 DEF TakingPooled, Behind, serverSide, messageVars
    <3>6.
        \/ caller[c].pc \notin {"head", "body"} /\ caller'[c].pc \notin {"head", "body"}
        \/ On(c) # r /\ caller'[c].conn = caller[c].conn
      BY <3>1 DEF TakingPooled
    <3>. QED BY <3>2, <3>3, <3>4, <3>5, <3>6, CallerElsewhere
  <2>2. CASE GetOwnConnection(c)
    <3>1. Opening(c)
      BY <1>5, <2>2, GetOwnEffect
    <3>2.
        /\ service = "cache" /\ ~crossed /\ cut \subseteq cut'
        /\ UNCHANGED <<table, thread, dead>>
      BY <3>1 DEF Opening, messageVars, OthersU, Same
    <3>3. OthersU(c) /\ caller[c].pc # "done"
      BY <3>1 DEF Opening
    <3>4. CASE r = c
      BY <3>1, <3>2, <3>4, OpenGood
    <3>5. CASE r # c
      <4>1. Good(r) /\ r \in Peer
        BY <3>1, <3>2, <3>3, <3>5, CallerBefore DEF Opening
      <4>2. conn'[r].in = conn[r].in /\ conn'[r].out = conn[r].out /\ conn'[r].client = conn[r].client
        BY <3>1, <3>5, <4>1 DEF Opening, Conn, OthersC
      <4>3. Present(r) => Present(r)'
        BY <3>1, <3>2, ConnectPresent DEF Opening
      <4>4. \A d \in Caller : Using(d, r) \/ Using(d, r)' =>
             /\ caller'[d].pc = caller[d].pc /\ caller'[d].conn = caller[d].conn
             /\ caller'[d].got = caller[d].got
        BY <3>1 DEF Opening, OthersU, Using
      <4>. QED BY <3>2, <4>1, <4>2, <4>3, <4>4, GoodFrame
    <3>. QED BY <3>4, <3>5
  <2>3. CASE LockConnection(c)
    <3>1. Locking(c)
      BY <1>5, <2>3, LockEffect
    <3>2.
        /\ service = "cache" /\ ~crossed /\ cut \subseteq cut'
        /\ UNCHANGED <<table, thread, dead, backlog>>
      BY <3>1 DEF Locking, Moves, Same, Behind, OthersU, serverSide, messageVars
    <3>3. OthersU(c) /\ caller[c].pc # "done"
      BY <3>1 DEF Locking, Moves
    <3>4. Good(r) /\ r \in Peer
      BY <3>1, <3>2, <3>3, CallerBefore DEF Locking
    <3>5. conn'[r].in = conn[r].in /\ conn'[r].out = conn[r].out /\ conn'[r].client = conn[r].client
      BY <3>1, <3>4 DEF Locking, Behind, serverSide, messageVars
    <3>6.
        \/ caller[c].pc \notin {"head", "body"} /\ caller'[c].pc \notin {"head", "body"}
        \/ On(c) # r /\ caller'[c].conn = caller[c].conn
      BY <3>1 DEF Locking, Moves
    <3>. QED BY <3>2, <3>3, <3>4, <3>5, <3>6, CallerElsewhere
  <2>4. CASE SendQuery(c)
    <3>1. Asking(c)
      BY <1>5, <2>4, SendQueryEffect, OnPeer DEF SendQuery
    <3>2.
        /\ service = "cache" /\ ~crossed /\ cut \subseteq cut'
        /\ UNCHANGED <<table, thread, dead, backlog>>
      BY <3>1 DEF Asking, Behind, Moves, Same, serverSide, messageVars, OthersU
    <3>3. OthersU(c) /\ caller[c].pc # "done"
      BY <3>1 DEF Asking, Moves
    <3>4. Good(r) /\ r \in Peer
      BY <3>1, <3>2, <3>3, CallerBefore DEF Asking
    <3>5. CASE r = On(c)
      BY <3>1, <3>2, <3>4, <3>5, AskGood
    <3>6. CASE r # On(c)
      <4>5. conn'[r].in = conn[r].in /\ conn'[r].out = conn[r].out /\ conn'[r].client = conn[r].client
        BY <3>1, <3>4, <3>6 DEF Asking, Behind, Conn, serverSide, messageVars, OthersC
      <4>6. On(c) # r /\ caller'[c].conn = caller[c].conn
        BY <3>1, <3>6 DEF Asking, Moves
      <4>. QED BY <3>2, <3>3, <3>4, <4>5, <4>6, CallerElsewhere
    <3>. QED BY <3>5, <3>6
  <2>5. CASE ReadLength(c)
    <3>0. PICK out : out = conn[On(c)].out
      OBVIOUS
    <3>1. ReadingLength(c, out)
      BY <1>5, <2>5, <3>0, ReadLengthEffect, OnPeer DEF ReadLength
    <3>2.
        /\ service = "cache" /\ ~crossed /\ cut \subseteq cut'
        /\ UNCHANGED <<table, thread, dead, backlog>>
      BY <3>0, <3>1 DEF ReadingLength, Behind, OthersU, Same, serverSide, messageVars
    <3>3. OthersU(c) /\ caller[c].pc # "done"
      BY <3>0, <3>1 DEF ReadingLength
    <3>4. Good(r) /\ r \in Peer
      BY <3>0, <3>1, <3>2, <3>3, CallerBefore DEF ReadingLength
    <3>5. CASE r = On(c)
      BY <3>0, <3>1, <3>2, <3>4, <3>5, ReadLengthGood
    <3>6. CASE r # On(c)
      <4>5. conn'[r].in = conn[r].in /\ conn'[r].out = conn[r].out /\ conn'[r].client = conn[r].client
        BY <3>0, <3>1, <3>4, <3>6 DEF ReadingLength, Behind, OthersC, serverSide,
             messageVars
      <4>6. On(c) # r /\ caller'[c].conn = caller[c].conn
        BY <3>0, <3>1, <3>6 DEF ReadingLength
      <4>. QED BY <3>2, <3>3, <3>4, <4>5, <4>6, CallerElsewhere
    <3>. QED BY <3>5, <3>6
  <2>6. CASE ReadLengthAtEnd(c)
    <3>1. ReadingEnd(c)
      BY <1>5, <2>6, ReadLengthAtEndEffect
    <3>2.
        /\ service = "cache" /\ ~crossed /\ cut \subseteq cut'
        /\ UNCHANGED <<table, thread, dead, backlog>>
      BY <3>1 DEF ReadingEnd, Behind, Moves, serverSide, messageVars, OthersU
    <3>3. OthersU(c) /\ caller[c].pc # "done"
      BY <3>1 DEF ReadingEnd, Moves
    <3>4. Good(r) /\ r \in Peer
      BY <3>1, <3>2, <3>3, CallerBefore DEF ReadingEnd
    <3>5. CASE r = On(c)
      BY <3>1, <3>2, <3>4, <3>5, ReadEndGood
    <3>6. CASE r # On(c)
      <4>5. conn'[r].in = conn[r].in /\ conn'[r].out = conn[r].out /\ conn'[r].client = conn[r].client
        BY <3>1, <3>4, <3>6 DEF ReadingEnd, Behind, serverSide, messageVars
      <4>6. On(c) # r /\ caller'[c].conn = caller[c].conn
        BY <3>1, <3>6 DEF ReadingEnd, Moves
      <4>. QED BY <3>2, <3>3, <3>4, <4>5, <4>6, CallerElsewhere
    <3>. QED BY <3>5, <3>6
  <2>7. CASE ReadAnswer(c)
    <3>0. PICK out : out = conn[On(c)].out
      OBVIOUS
    <3>1. ReadingAnswer(c, out)
      BY <1>5, <2>7, <3>0, ReadAnswerEffect, OnPeer DEF ReadAnswer
    <3>2.
        /\ service = "cache" /\ ~crossed /\ cut \subseteq cut'
        /\ UNCHANGED <<table, thread, dead, backlog>>
      BY <3>0, <3>1 DEF ReadingAnswer, Behind, Moves, serverSide, messageVars, OthersU
    <3>3. OthersU(c) /\ caller[c].pc # "done"
      BY <3>0, <3>1 DEF ReadingAnswer, Moves
    <3>4. Good(r) /\ r \in Peer
      BY <3>0, <3>1, <3>2, <3>3, CallerBefore DEF ReadingAnswer
    <3>5. CASE r = On(c)
      BY <3>0, <3>1, <3>2, <3>4, <3>5, ReadAnswerGood
    <3>6. CASE r # On(c)
      <4>5. conn'[r].in = conn[r].in /\ conn'[r].out = conn[r].out /\ conn'[r].client = conn[r].client
        BY <3>0, <3>1, <3>4, <3>6 DEF ReadingAnswer, Behind, OthersC, serverSide,
             messageVars
      <4>6. On(c) # r /\ caller'[c].conn = caller[c].conn
        BY <3>0, <3>1, <3>6 DEF ReadingAnswer, Moves
      <4>. QED BY <3>2, <3>3, <3>4, <4>5, <4>6, CallerElsewhere
    <3>. QED BY <3>5, <3>6
  <2>8. CASE UnlockConnection(c)
    <3>1. Unlocking(c)
      BY <1>5, <2>8, UnlockEffect
    <3>2.
        /\ service = "cache" /\ ~crossed /\ cut \subseteq cut'
        /\ UNCHANGED <<table, thread, dead, backlog>>
      BY <3>1 DEF Unlocking, Moves, Same, Behind, OthersU, serverSide, messageVars
    <3>3. OthersU(c) /\ caller[c].pc # "done"
      BY <3>1 DEF Unlocking, Moves
    <3>4. Good(r) /\ r \in Peer
      BY <3>1, <3>2, <3>3, CallerBefore DEF Unlocking
    <3>5. conn'[r].in = conn[r].in /\ conn'[r].out = conn[r].out /\ conn'[r].client = conn[r].client
      BY <3>1, <3>4 DEF Unlocking, Behind, serverSide, messageVars
    <3>6.
        \/ caller[c].pc \notin {"head", "body"} /\ caller'[c].pc \notin {"head", "body"}
        \/ On(c) # r /\ caller'[c].conn = caller[c].conn
      BY <3>1 DEF Unlocking, Moves
    <3>. QED BY <3>2, <3>3, <3>4, <3>5, <3>6, CallerElsewhere
  <2>9. CASE ReleaseConnection(c)
    <3>1. Releasing(c)
      BY <1>5, <2>9, ReleaseEffect
    <3>2.
        /\ service = "cache" /\ ~crossed /\ cut \subseteq cut'
        /\ UNCHANGED <<table, thread, dead, backlog>>
      BY <3>1 DEF Releasing, Moves, Same, Behind, OthersU, serverSide, messageVars
    <3>3. OthersU(c) /\ caller[c].pc # "done"
      BY <3>1 DEF Releasing, Moves
    <3>4. Good(r) /\ r \in Peer
      BY <3>1, <3>2, <3>3, CallerBefore DEF Releasing
    <3>5. conn'[r].in = conn[r].in /\ conn'[r].out = conn[r].out /\ conn'[r].client = conn[r].client
      BY <3>1, <3>4 DEF Releasing, Behind, serverSide, messageVars
    <3>6.
        \/ caller[c].pc \notin {"head", "body"} /\ caller'[c].pc \notin {"head", "body"}
        \/ On(c) # r /\ caller'[c].conn = caller[c].conn
      BY <3>1 DEF Releasing, Moves
    <3>. QED BY <3>2, <3>3, <3>4, <3>5, <3>6, CallerElsewhere
  <2>10. CASE DeleteConnection(c)
    <3>1. Deleting(c)
      BY <1>5, <2>10, DeleteEffect
    <3>2.
        /\ service = "cache" /\ ~crossed /\ cut \subseteq cut'
        /\ UNCHANGED <<table, thread, dead, backlog>>
      BY <3>1 DEF Deleting, Moves, Same, Behind, OthersU, serverSide, messageVars
    <3>3. OthersU(c) /\ caller[c].pc # "done"
      BY <3>1 DEF Deleting, Moves
    <3>4. Good(r) /\ r \in Peer
      BY <3>1, <3>2, <3>3, CallerBefore DEF Deleting
    <3>7. r # c
      <4>1. caller'[c].pc = "done" /\ c \in OwnsConnection
        BY <3>1 DEF Deleting, Moves
      <4>. QED BY <4>1, ClientAssumption DEF Serving
    <3>5. conn'[r].in = conn[r].in /\ conn'[r].out = conn[r].out /\ conn'[r].client = conn[r].client
      BY <3>1, <3>4, <3>7 DEF Deleting, Behind, Conn, serverSide, messageVars, OthersC
    <3>6.
        \/ caller[c].pc \notin {"head", "body"} /\ caller'[c].pc \notin {"head", "body"}
        \/ On(c) # r /\ caller'[c].conn = caller[c].conn
      BY <3>1, <3>7 DEF Deleting, Moves
    <3>. QED BY <3>2, <3>3, <3>4, <3>5, <3>6, CallerElsewhere
  <2>11. CASE CallerKilled(c)
    <3>1. Dying(c)
      BY <1>5, <2>11, KilledEffect
    <3>2.
        /\ service = "cache" /\ ~crossed /\ cut \subseteq cut'
        /\ UNCHANGED <<table, thread, dead, backlog>>
      BY <3>1 DEF Dying, Moves, Behind, OthersU, serverSide, messageVars
    <3>3. OthersU(c) /\ caller[c].pc # "done"
      BY <3>1 DEF Dying, Moves
    <3>4. Good(r) /\ r \in Peer
      BY <3>1, <3>2, <3>3, CallerBefore DEF Dying
    <3>7. r # On(c)
      <4>1. caller'[c].pc = "done" /\ c \in Killable /\ caller[c].pc # "idle"
        BY <3>1 DEF Dying, Moves
      <4>2. CASE c \in OwnsConnection
        BY <4>1, <4>2, ClientAssumption DEF LockInv, Serving
      <4>3. CASE c \notin OwnsConnection
        <5>1. \A d \in Caller \ OwnsConnection : d = c
          BY <4>1, <4>3, ClientAssumption DEF PoolInOneProcess
        <5>2. ~Serving(r)' \/ r \in OwnsConnection
          BY <4>1, <5>1 DEF Serving
        <5>. QED BY <4>1, <4>3, <5>2, ClientAssumption DEF LockInv
      <4>. QED BY <4>2, <4>3
    <3>8. c \in OwnsConnection => On(c) = c
      BY <3>1 DEF Dying, LockInv
    <3>5. conn'[r].in = conn[r].in /\ conn'[r].out = conn[r].out /\ conn'[r].client = conn[r].client
      BY <3>1, <3>4, <3>7, <3>8 DEF Dying, Behind, Conn, serverSide, messageVars,
           OthersC
    <3>6.
        \/ caller[c].pc \notin {"head", "body"} /\ caller'[c].pc \notin {"head", "body"}
        \/ On(c) # r /\ caller'[c].conn = caller[c].conn
      BY <3>1, <3>7, <3>8 DEF Dying, Moves
    <3>. QED BY <3>2, <3>3, <3>4, <3>5, <3>6, CallerElsewhere
  <2>. QED
    BY <1>5, <2>1, <2>2, <2>3, <2>4, <2>5, <2>6, <2>7, <2>8, <2>9, <2>10, <2>11 DEF
         CallerStep
<1>6. ASSUME NEW t \in Peer, SessionStep(t) PROVE Good(r)'
  <2>1. CASE ReceiveLength(t)
    <3>1. ReceivingLength(t)
      BY <1>6, <2>1, ReceiveLengthEffect
    <3>2. UNCHANGED <<service, caller, cut>> /\ ~crossed
      BY <3>1 DEF ReceivingLength, Waits, Ends, ServiceVars, clientVars
    <3>3. Good(r) /\ r \in Peer
      BY <3>2, GoodBefore
    <3>8. thread[t].fd \in 0 .. MaxFd /\ table[thread[t].fd] = t
      BY <3>1, <3>2 DEF ReceivingLength, OwnInv, Working
    <3>9. Waits(t, "length") \/ Ends
      BY <3>1, <3>8 DEF ReceivingLength
    <3>4. dead => dead'
      BY <3>1 DEF ReceivingLength, Waits, Ends, ServiceVars, clientVars
    <3>5. dead' \/ (Present(r) => Present(r)')
      BY <3>9 DEF Waits, Ends, ServiceVars, Present
    <3>6. conn'[r].in = conn[r].in /\ conn'[r].out = conn[r].out /\ conn'[r].client = conn[r].client
      BY <3>9 DEF Waits, Ends
    <3>7.
        \/ dead'
        \/ thread'[r].pc = thread[r].pc /\ thread'[r].got = thread[r].got
        \/ thread[r].pc \in AtLength /\ thread'[r].pc \in AtLength
        \/ thread[r].pc \in {"query", "body"} /\ thread'[r].pc \in {"query", "body"}
      BY <3>1, <3>3, <3>9 DEF ReceivingLength, Waits, Ends, Enters, OthersT, AtLength
    <3>. QED BY <3>2, <3>3, <3>4, <3>5, <3>6, <3>7, GoodFrame DEF Using, On
  <2>2. CASE LengthReceived(t)
    <3>0. PICK p : p = thread[t].hold
      OBVIOUS
    <3>1. GettingLength(t, p)
      BY <1>6, <2>2, <3>0, LengthReceivedEffect DEF LengthReceived, PhaseInv
    <3>2. UNCHANGED <<service, caller, cut>> /\ ~crossed
      BY <3>0, <3>1 DEF GettingLength, ServiceVars, Ends, clientVars
    <3>3. Good(r) /\ r \in Peer
      BY <3>2, GoodBefore
    <3>4. p = t
      BY <3>0, <3>1, <3>2 DEF GettingLength, OwnInv
    <3>5. CASE r = t
      BY <3>1, <3>2, <3>3, <3>4, <3>5, LengthGood
    <3>6. CASE r # t
      <4>4. dead => dead'
        BY <3>1 DEF GettingLength, ServiceVars, Ends, clientVars
      <4>5. Present(r) => Present(r)'
        BY <3>1 DEF GettingLength, ServiceVars, Ends, clientVars, Present
      <4>6. conn'[r].in = conn[r].in /\ conn'[r].out = conn[r].out /\ conn'[r].client = conn[r].client
        BY <3>1, <3>3, <3>4, <3>6 DEF GettingLength, ServiceVars, Ends, Conn,
             clientVars, OthersC
      <4>7. dead' \/ thread'[r] = thread[r]
        BY <3>1, <3>3, <3>6 DEF GettingLength, ServiceVars, Leaves, Ends, clientVars,
             OthersT
      <4>. QED BY <3>2, <3>3, <4>4, <4>5, <4>6, <4>7, GoodFrame DEF Using, On
    <3>. QED BY <3>5, <3>6
  <2>3. CASE ReceiveQuery(t)
    <3>1. ReceivingQuery(t)
      BY <1>6, <2>3, ReceiveQueryEffect
    <3>2. UNCHANGED <<service, caller, cut>> /\ ~crossed
      BY <3>1 DEF ReceivingQuery, Waits, ServiceVars, clientVars
    <3>3. Good(r) /\ r \in Peer
      BY <3>2, GoodBefore
    <3>4. dead => dead'
      BY <3>1 DEF ReceivingQuery, Waits, ServiceVars, clientVars
    <3>5. dead' \/ (Present(r) => Present(r)')
      BY <3>1 DEF ReceivingQuery, Waits, ServiceVars, clientVars, Present
    <3>6. conn'[r].in = conn[r].in /\ conn'[r].out = conn[r].out /\ conn'[r].client = conn[r].client
      BY <3>1, <3>3 DEF ReceivingQuery, Waits, ServiceVars, clientVars
    <3>7.
        \/ dead'
        \/ thread'[r].pc = thread[r].pc /\ thread'[r].got = thread[r].got
        \/ thread[r].pc \in AtLength /\ thread'[r].pc \in AtLength
        \/ thread[r].pc \in {"query", "body"} /\ thread'[r].pc \in {"query", "body"}
      BY <3>1, <3>3 DEF ReceivingQuery, Waits, ServiceVars, Enters, clientVars, OthersT,
           AtLength
    <3>. QED BY <3>2, <3>3, <3>4, <3>5, <3>6, <3>7, GoodFrame DEF Using, On
  <2>4. CASE QueryReceived(t)
    <3>0. PICK p : p = thread[t].hold
      OBVIOUS
    <3>1. GettingQuery(t, p)
      BY <1>6, <2>4, <3>0, QueryReceivedEffect DEF QueryReceived, PhaseInv
    <3>2. UNCHANGED <<service, caller, cut>> /\ ~crossed
      BY <3>0, <3>1 DEF GettingQuery, ServiceVars, clientVars
    <3>3. Good(r) /\ r \in Peer
      BY <3>2, GoodBefore
    <3>4. p = t
      BY <3>0, <3>1, <3>2 DEF GettingQuery, OwnInv
    <3>5. CASE r = t
      BY <3>1, <3>2, <3>3, <3>4, <3>5, QueryGood
    <3>6. CASE r # t
      <4>4. dead => dead'
        BY <3>1 DEF GettingQuery, ServiceVars, clientVars
      <4>5. Present(r) => Present(r)'
        BY <3>1 DEF GettingQuery, ServiceVars, clientVars, Present
      <4>6. conn'[r].in = conn[r].in /\ conn'[r].out = conn[r].out /\ conn'[r].client = conn[r].client
        BY <3>1, <3>3, <3>4, <3>6 DEF GettingQuery, ServiceVars, Conn, clientVars,
             OthersC
      <4>7. dead' \/ thread'[r] = thread[r]
        BY <3>1, <3>3, <3>6 DEF GettingQuery, ServiceVars, Leaves, clientVars, OthersT
      <4>. QED BY <3>2, <3>3, <4>4, <4>5, <4>6, <4>7, GoodFrame DEF Using, On
    <3>. QED BY <3>5, <3>6
  <2>5. CASE AnswerQuery(t)
    <3>1. AnsweringQuery(t)
      BY <1>6, <2>5, AnswerQueryEffect
    <3>2. UNCHANGED <<service, caller, cut>> /\ ~crossed
      BY <3>1 DEF AnsweringQuery, ServiceVars, Ends, clientVars
    <3>3. Good(r) /\ r \in Peer
      BY <3>2, GoodBefore
    <3>4. table[thread[t].fd] = t
      BY <3>1, <3>2 DEF AnsweringQuery, OwnInv, Working
    <3>5. CASE r = t
      BY <3>1, <3>2, <3>3, <3>4, <3>5, AnswerGood
    <3>6. CASE r # t
      <4>4. dead => dead'
        BY <3>1 DEF AnsweringQuery, ServiceVars, Ends, clientVars
      <4>5. Present(r) => Present(r)'
        BY <3>1 DEF AnsweringQuery, ServiceVars, Ends, clientVars, Present
      <4>6. conn'[r].in = conn[r].in /\ conn'[r].out = conn[r].out /\ conn'[r].client = conn[r].client
        BY <3>1, <3>3, <3>4, <3>6 DEF AnsweringQuery, ServiceVars, Conn, Ends,
             clientVars, OthersC
      <4>7. dead' \/ thread'[r] = thread[r]
        BY <3>1, <3>3, <3>6 DEF AnsweringQuery, ServiceVars, GoesOn, Ends, clientVars,
             OthersT
      <4>. QED BY <3>2, <3>3, <4>4, <4>5, <4>6, <4>7, GoodFrame DEF Using, On
    <3>. QED BY <3>5, <3>6
  <2>6. CASE CloseSession(t)
    <3>1. ClosingSession(t)
      BY <1>6, <2>6, CloseSessionEffect
    <3>2. UNCHANGED <<service, caller, cut>> /\ ~crossed
      BY <3>1 DEF ClosingSession, Closes, clientVars
    <3>3. Good(r) /\ r \in Peer
      BY <3>2, GoodBefore
    <3>4. dead => dead'
      BY <3>1 DEF ClosingSession, Closes, clientVars
    <3>5. dead' \/ (Present(r) => Present(r)')
      <4>1. CASE dead
        BY <3>4, <4>1
      <4>2. CASE ~dead
        <5>1. r # t
          BY <3>1, <3>3, <4>2, ThreadServes DEF ClosingSession
        <5>2. \A f \in 0 .. MaxFd : table[f] = r => table'[f] = r
          BY <3>1, <3>3, <5>1, ServerAssumption DEF ClosingSession, Closes
        <5>. QED BY <3>1, <5>2 DEF ClosingSession, Closes, Present
      <4>. QED BY <4>1, <4>2
    <3>6. conn'[r].in = conn[r].in /\ conn'[r].out = conn[r].out /\ conn'[r].client = conn[r].client
      BY <3>1, <3>3 DEF ClosingSession, Closes, clientVars
    <3>7.
        \/ dead'
        \/ thread'[r].pc = thread[r].pc /\ thread'[r].got = thread[r].got
        \/ thread[r].pc \in AtLength /\ thread'[r].pc \in AtLength
        \/ thread[r].pc \in {"query", "body"} /\ thread'[r].pc \in {"query", "body"}
      <4>1. CASE dead
        BY <3>4, <4>1
      <4>2. CASE ~dead
        <5>1. r # t
          BY <3>1, <3>3, <4>2, ThreadServes DEF ClosingSession
        <5>. QED BY <3>1, <3>3, <5>1 DEF ClosingSession, Closes, GoesOn, OthersT
      <4>. QED BY <4>1, <4>2
    <3>. QED BY <3>2, <3>3, <3>4, <3>5, <3>6, <3>7, GoodFrame DEF Using, On
  <2>. QED BY <1>6, <2>1, <2>2, <2>3, <2>4, <2>5, <2>6 DEF SessionStep
<1>. QED BY <1>1, <1>2, <1>3, <1>4, <1>5, <1>6 DEF SocketNext, MessageNext, ClientNext

\* The result of each caller stays, or is no answer of another, or is excused.
LEMMA ResultFrame ==
  ASSUME ResultInv, cut \subseteq cut', crossed => crossed',
         \A d \in Caller :
           \/ caller'[d].result \notin {"other", "garbage"}
           \/ /\ caller'[d].result = caller[d].result /\ caller'[d].conn = caller[d].conn
              /\ caller[d].pc # "idle" => caller'[d].pc # "idle"
           \/ caller'[d].pc # "idle" /\ (crossed' \/ caller'[d].conn \in cut')
  PROVE  ResultInv'
  BY DEF ResultInv, On

LEMMA GoodNow ==
  ASSUME PhaseInv, LockInv, StreamInv, NEW c \in Caller, caller[c].pc \notin {"idle", "done"}
  PROVE  crossed \/ On(c) \in cut \/ (On(c) \in Peer /\ Good(On(c)))
<1>1. service = "cache"
  BY DEF PhaseInv
<1>. QED BY <1>1, ServesCaller DEF StreamInv

LEMMA NextResult ==
  ASSUME PoolInOneProcess, TypeInv, PhaseInv, LockInv, StreamInv, ResultInv, SocketNext
  PROVE  ResultInv'
<1>1. ASSUME Loop, UNCHANGED <<messageVars, clientVars>> PROVE ResultInv'
  <2>1. CASE Accept
    <3>1. Accepting
      BY <1>1, <2>1, AcceptEffect
    <3>2. cut \subseteq cut' /\ (crossed => crossed')
      BY <3>1 DEF Accepting, LoopVars, messageVars, clientVars
    <3>3. \A d \in Caller :
          \/ caller'[d].result \notin {"other", "garbage"}
          \/ /\ caller'[d].result = caller[d].result /\ caller'[d].conn = caller[d].conn
             /\ caller[d].pc # "idle" => caller'[d].pc # "idle"
          \/ caller'[d].pc # "idle" /\ (crossed' \/ caller'[d].conn \in cut')
      BY <3>1, <3>2 DEF Accepting, LoopVars, messageVars, clientVars
    <3>. QED BY <3>2, <3>3, ResultFrame
  <2>2. CASE AcceptWatched
    <3>1. AcceptingWatched
      BY <1>1, <2>2, AcceptWatchedEffect
    <3>2. cut \subseteq cut' /\ (crossed => crossed')
      BY <3>1 DEF AcceptingWatched, LoopVars, messageVars, clientVars
    <3>3. \A d \in Caller :
          \/ caller'[d].result \notin {"other", "garbage"}
          \/ /\ caller'[d].result = caller[d].result /\ caller'[d].conn = caller[d].conn
             /\ caller[d].pc # "idle" => caller'[d].pc # "idle"
          \/ caller'[d].pc # "idle" /\ (crossed' \/ caller'[d].conn \in cut')
      BY <3>1, <3>2 DEF AcceptingWatched, LoopVars, messageVars, clientVars
    <3>. QED BY <3>2, <3>3, ResultFrame
  <2>3. ASSUME NEW f \in 0 .. MaxFd, HandOver(f) PROVE ResultInv'
    <3>0. PICK p : p = table[f]
      OBVIOUS
    <3>1. HandingOver(f, p)
      BY <1>1, <2>3, <3>0, HandOverEffect
    <3>2. cut \subseteq cut' /\ (crossed => crossed')
      BY <3>0, <3>1 DEF HandingOver, LoopVars, messageVars, clientVars
    <3>3. \A d \in Caller :
          \/ caller'[d].result \notin {"other", "garbage"}
          \/ /\ caller'[d].result = caller[d].result /\ caller'[d].conn = caller[d].conn
             /\ caller[d].pc # "idle" => caller'[d].pc # "idle"
          \/ caller'[d].pc # "idle" /\ (crossed' \/ caller'[d].conn \in cut')
      BY <3>0, <3>1, <3>2 DEF HandingOver, LoopVars, messageVars, clientVars
    <3>. QED BY <3>2, <3>3, ResultFrame
  <2>. QED BY <1>1, <2>1, <2>2, <2>3 DEF Loop
<1>2. ASSUME NEW t \in Peer, TakeDescriptor(t), UNCHANGED <<messageVars, clientVars>> PROVE ResultInv'
  <2>1. Taking(t)
    BY <1>2, TakeEffect
  <2>2. cut \subseteq cut' /\ (crossed => crossed')
    BY <2>1 DEF Taking, messageVars, clientVars
  <2>3. \A d \in Caller :
        \/ caller'[d].result \notin {"other", "garbage"}
        \/ /\ caller'[d].result = caller[d].result /\ caller'[d].conn = caller[d].conn
           /\ caller[d].pc # "idle" => caller'[d].pc # "idle"
        \/ caller'[d].pc # "idle" /\ (crossed' \/ caller'[d].conn \in cut')
    BY <2>1, <2>2 DEF Taking, messageVars, clientVars
  <2>. QED BY <2>2, <2>3, ResultFrame
<1>3. ASSUME NEW p \in Peer, ClientStep(p), UNCHANGED clientVars PROVE ResultInv'
  <2>1. CASE ClientConnects(p)
    <3>1. Connecting(p)
      BY <1>3, <2>1, ClientConnectsEffect
    <3>2. cut \subseteq cut' /\ (crossed => crossed')
      BY <3>1 DEF Connecting, clientVars
    <3>3. \A d \in Caller :
          \/ caller'[d].result \notin {"other", "garbage"}
          \/ /\ caller'[d].result = caller[d].result /\ caller'[d].conn = caller[d].conn
             /\ caller[d].pc # "idle" => caller'[d].pc # "idle"
          \/ caller'[d].pc # "idle" /\ (crossed' \/ caller'[d].conn \in cut')
      BY <3>1, <3>2 DEF Connecting, clientVars
    <3>. QED BY <3>2, <3>3, ResultFrame
  <2>2. CASE ClientSends(p)
    <3>1. Sending(p)
      BY <1>3, <2>2, ClientSendsEffect
    <3>2. cut \subseteq cut' /\ (crossed => crossed')
      BY <3>1 DEF Sending, ServerOnly, clientVars
    <3>3. \A d \in Caller :
          \/ caller'[d].result \notin {"other", "garbage"}
          \/ /\ caller'[d].result = caller[d].result /\ caller'[d].conn = caller[d].conn
             /\ caller[d].pc # "idle" => caller'[d].pc # "idle"
          \/ caller'[d].pc # "idle" /\ (crossed' \/ caller'[d].conn \in cut')
      BY <3>1, <3>2 DEF Sending, ServerOnly, clientVars
    <3>. QED BY <3>2, <3>3, ResultFrame
  <2>3. CASE ClientReads(p)
    <3>1. Reading(p)
      BY <1>3, <2>3, ClientReadsEffect
    <3>2. cut \subseteq cut' /\ (crossed => crossed')
      BY <3>1 DEF Reading, ServerOnly, clientVars
    <3>3. \A d \in Caller :
          \/ caller'[d].result \notin {"other", "garbage"}
          \/ /\ caller'[d].result = caller[d].result /\ caller'[d].conn = caller[d].conn
             /\ caller[d].pc # "idle" => caller'[d].pc # "idle"
          \/ caller'[d].pc # "idle" /\ (crossed' \/ caller'[d].conn \in cut')
      BY <3>1, <3>2 DEF Reading, ServerOnly, clientVars
    <3>. QED BY <3>2, <3>3, ResultFrame
  <2>. QED BY <1>3, <2>1, <2>2, <2>3 DEF ClientStep
<1>4. ASSUME NEW t \in Peer, TextStep(t), UNCHANGED clientVars PROVE ResultInv'
  <2>1. CASE ReceiveText(t)
    <3>1. ReceivingText(t)
      BY <1>4, <2>1, ReceiveTextEffect
    <3>2. cut \subseteq cut' /\ (crossed => crossed')
      BY <3>1 DEF ReceivingText, Waits, Ends, ServiceVars, clientVars
    <3>3. \A d \in Caller :
          \/ caller'[d].result \notin {"other", "garbage"}
          \/ /\ caller'[d].result = caller[d].result /\ caller'[d].conn = caller[d].conn
             /\ caller[d].pc # "idle" => caller'[d].pc # "idle"
          \/ caller'[d].pc # "idle" /\ (crossed' \/ caller'[d].conn \in cut')
      BY <3>1, <3>2 DEF ReceivingText, Waits, Ends, ServiceVars, clientVars
    <3>. QED BY <3>2, <3>3, ResultFrame
  <2>2. CASE TextReceived(t)
    <3>0. PICK p : p = thread[t].hold
      OBVIOUS
    <3>1. GettingText(t, p)
      BY <1>4, <2>2, <3>0, TextReceivedEffect
    <3>2. cut \subseteq cut' /\ (crossed => crossed')
      BY <3>0, <3>1 DEF GettingText, ServiceVars, clientVars
    <3>3. \A d \in Caller :
          \/ caller'[d].result \notin {"other", "garbage"}
          \/ /\ caller'[d].result = caller[d].result /\ caller'[d].conn = caller[d].conn
             /\ caller[d].pc # "idle" => caller'[d].pc # "idle"
          \/ caller'[d].pc # "idle" /\ (crossed' \/ caller'[d].conn \in cut')
      BY <3>0, <3>1, <3>2 DEF GettingText, ServiceVars, clientVars
    <3>. QED BY <3>2, <3>3, ResultFrame
  <2>3. CASE WriteMessage(t)
    <3>1. Writing(t)
      BY <1>4, <2>3, WriteMessageEffect
    <3>2. cut \subseteq cut' /\ (crossed => crossed')
      BY <3>1 DEF Writing, clientVars
    <3>3. \A d \in Caller :
          \/ caller'[d].result \notin {"other", "garbage"}
          \/ /\ caller'[d].result = caller[d].result /\ caller'[d].conn = caller[d].conn
             /\ caller[d].pc # "idle" => caller'[d].pc # "idle"
          \/ caller'[d].pc # "idle" /\ (crossed' \/ caller'[d].conn \in cut')
      BY <3>1, <3>2 DEF Writing, clientVars
    <3>. QED BY <3>2, <3>3, ResultFrame
  <2>4. CASE InvokeMethod(t)
    <3>1. Invoking(t)
      BY <1>4, <2>4, InvokeMethodEffect
    <3>2. cut \subseteq cut' /\ (crossed => crossed')
      BY <3>1 DEF Invoking, ServiceVars, clientVars
    <3>3. \A d \in Caller :
          \/ caller'[d].result \notin {"other", "garbage"}
          \/ /\ caller'[d].result = caller[d].result /\ caller'[d].conn = caller[d].conn
             /\ caller[d].pc # "idle" => caller'[d].pc # "idle"
          \/ caller'[d].pc # "idle" /\ (crossed' \/ caller'[d].conn \in cut')
      BY <3>1, <3>2 DEF Invoking, ServiceVars, clientVars
    <3>. QED BY <3>2, <3>3, ResultFrame
  <2>5. CASE AnswerText(t)
    <3>1. AnsweringText(t)
      BY <1>4, <2>5, AnswerTextEffect
    <3>2. cut \subseteq cut' /\ (crossed => crossed')
      BY <3>1 DEF AnsweringText, ServiceVars, clientVars
    <3>3. \A d \in Caller :
          \/ caller'[d].result \notin {"other", "garbage"}
          \/ /\ caller'[d].result = caller[d].result /\ caller'[d].conn = caller[d].conn
             /\ caller[d].pc # "idle" => caller'[d].pc # "idle"
          \/ caller'[d].pc # "idle" /\ (crossed' \/ caller'[d].conn \in cut')
      BY <3>1, <3>2 DEF AnsweringText, ServiceVars, clientVars
    <3>. QED BY <3>2, <3>3, ResultFrame
  <2>6. CASE CloseText(t)
    <3>1. ClosingText(t)
      BY <1>4, <2>6, CloseTextEffect
    <3>2. cut \subseteq cut' /\ (crossed => crossed')
      BY <3>1 DEF ClosingText, Closes, clientVars
    <3>3. \A d \in Caller :
          \/ caller'[d].result \notin {"other", "garbage"}
          \/ /\ caller'[d].result = caller[d].result /\ caller'[d].conn = caller[d].conn
             /\ caller[d].pc # "idle" => caller'[d].pc # "idle"
          \/ caller'[d].pc # "idle" /\ (crossed' \/ caller'[d].conn \in cut')
      BY <3>1, <3>2 DEF ClosingText, Closes, clientVars
    <3>. QED BY <3>2, <3>3, ResultFrame
  <2>. QED BY <1>4, <2>1, <2>2, <2>3, <2>4, <2>5, <2>6 DEF TextStep
<1>5. ASSUME NEW c \in Caller, CallerStep(c) \/ CallerKilled(c) PROVE ResultInv'
  <2>1. CASE GetPooledConnection(c)
    <3>1. TakingPooled(c)
      BY <1>5, <2>1, GetPooledEffect
    <3>2. cut \subseteq cut' /\ (crossed => crossed')
      BY <3>1 DEF TakingPooled, Behind, OthersU, Same, serverSide, messageVars
    <3>3. \A d \in Caller :
          \/ caller'[d].result \notin {"other", "garbage"}
          \/ /\ caller'[d].result = caller[d].result /\ caller'[d].conn = caller[d].conn
             /\ caller[d].pc # "idle" => caller'[d].pc # "idle"
          \/ caller'[d].pc # "idle" /\ (crossed' \/ caller'[d].conn \in cut')
      BY <3>1, <3>2 DEF ResultInv, TakingPooled, Behind, OthersU, Same, serverSide,
           messageVars
    <3>. QED BY <3>2, <3>3, ResultFrame
  <2>2. CASE GetOwnConnection(c)
    <3>1. Opening(c)
      BY <1>5, <2>2, GetOwnEffect
    <3>2. cut \subseteq cut' /\ (crossed => crossed')
      BY <3>1 DEF Opening, messageVars, OthersU, Same
    <3>3. \A d \in Caller :
          \/ caller'[d].result \notin {"other", "garbage"}
          \/ /\ caller'[d].result = caller[d].result /\ caller'[d].conn = caller[d].conn
             /\ caller[d].pc # "idle" => caller'[d].pc # "idle"
          \/ caller'[d].pc # "idle" /\ (crossed' \/ caller'[d].conn \in cut')
      BY <3>1, <3>2 DEF ResultInv, Opening, messageVars, OthersU, Same
    <3>. QED BY <3>2, <3>3, ResultFrame
  <2>3. CASE LockConnection(c)
    <3>1. Locking(c)
      BY <1>5, <2>3, LockEffect
    <3>2. cut \subseteq cut' /\ (crossed => crossed')
      BY <3>1 DEF Locking, Moves, Same, Behind, OthersU, serverSide, messageVars
    <3>3. \A d \in Caller :
          \/ caller'[d].result \notin {"other", "garbage"}
          \/ /\ caller'[d].result = caller[d].result /\ caller'[d].conn = caller[d].conn
             /\ caller[d].pc # "idle" => caller'[d].pc # "idle"
          \/ caller'[d].pc # "idle" /\ (crossed' \/ caller'[d].conn \in cut')
      BY <3>1, <3>2 DEF Locking, Moves, Same, Behind, OthersU, serverSide, messageVars
    <3>. QED BY <3>2, <3>3, ResultFrame
  <2>4. CASE SendQuery(c)
    <3>1. Asking(c)
      BY <1>5, <2>4, SendQueryEffect, OnPeer DEF SendQuery
    <3>2. cut \subseteq cut' /\ (crossed => crossed')
      BY <3>1 DEF Asking, Behind, Moves, Same, serverSide, messageVars, OthersU
    <3>3. \A d \in Caller :
          \/ caller'[d].result \notin {"other", "garbage"}
          \/ /\ caller'[d].result = caller[d].result /\ caller'[d].conn = caller[d].conn
             /\ caller[d].pc # "idle" => caller'[d].pc # "idle"
          \/ caller'[d].pc # "idle" /\ (crossed' \/ caller'[d].conn \in cut')
      BY <3>1, <3>2 DEF Asking, Behind, Moves, Same, serverSide, messageVars, OthersU
    <3>. QED BY <3>2, <3>3, ResultFrame
  <2>5. CASE ReadLength(c)
    <3>0. PICK out : out = conn[On(c)].out
      OBVIOUS
    <3>1. ReadingLength(c, out)
      BY <1>5, <2>5, <3>0, ReadLengthEffect, OnPeer DEF ReadLength
    <3>2. cut \subseteq cut' /\ (crossed => crossed') /\ caller'[c].conn = On(c) /\ caller'[c].pc # "idle"
      BY <3>0, <3>1 DEF ReadingLength, OthersU, Same, Behind, serverSide, On
    <3>3. crossed' \/ On(c) \in cut' \/ Same(c)
      <4>1. caller[c].pc \notin {"idle", "done"}
        BY <3>1 DEF ReadingLength
      <4>. QED BY <3>0, <3>1, <3>2, <4>1, GoodNow, ReadLengthGood
    <3>4. \A d \in Caller : d # c => caller'[d] = caller[d]
      BY <3>1 DEF ReadingLength, OthersU, Same, Behind, serverSide
    <3>5. ResultInv'
      BY <3>2, <3>3, <3>4, ResultFrame DEF On, Same
    <3>. QED BY <3>5
  <2>6. CASE ReadLengthAtEnd(c)
    <3>1. ReadingEnd(c)
      BY <1>5, <2>6, ReadLengthAtEndEffect
    <3>2. cut \subseteq cut' /\ (crossed => crossed')
      BY <3>1 DEF ReadingEnd, Behind, Moves, serverSide, messageVars, OthersU
    <3>3. \A d \in Caller :
          \/ caller'[d].result \notin {"other", "garbage"}
          \/ /\ caller'[d].result = caller[d].result /\ caller'[d].conn = caller[d].conn
             /\ caller[d].pc # "idle" => caller'[d].pc # "idle"
          \/ caller'[d].pc # "idle" /\ (crossed' \/ caller'[d].conn \in cut')
      BY <3>1, <3>2 DEF ReadingEnd, Behind, Moves, serverSide, messageVars, OthersU
    <3>. QED BY <3>2, <3>3, ResultFrame
  <2>7. CASE ReadAnswer(c)
    <3>0. PICK out : out = conn[On(c)].out
      OBVIOUS
    <3>1. ReadingAnswer(c, out)
      BY <1>5, <2>7, <3>0, ReadAnswerEffect, OnPeer DEF ReadAnswer
    <3>2. cut \subseteq cut' /\ (crossed => crossed') /\ caller'[c].conn = On(c) /\ caller'[c].pc # "idle"
      BY <3>0, <3>1 DEF ReadingAnswer, Moves, OthersU, Behind, serverSide, On
    <3>3. crossed' \/ On(c) \in cut' \/ caller'[c].result = "own"
      <4>1. caller[c].pc \notin {"idle", "done"}
        BY <3>1 DEF ReadingAnswer
      <4>. QED BY <3>0, <3>1, <3>2, <4>1, GoodNow, ReadAnswerGood
    <3>4. \A d \in Caller : d # c => caller'[d] = caller[d]
      BY <3>1 DEF ReadingAnswer, Moves, OthersU, Behind, serverSide
    <3>5. ResultInv'
      BY <3>2, <3>3, <3>4, ResultFrame DEF On, Same
    <3>. QED BY <3>5
  <2>8. CASE UnlockConnection(c)
    <3>1. Unlocking(c)
      BY <1>5, <2>8, UnlockEffect
    <3>2. cut \subseteq cut' /\ (crossed => crossed')
      BY <3>1 DEF Unlocking, Moves, Same, Behind, OthersU, serverSide, messageVars
    <3>3. \A d \in Caller :
          \/ caller'[d].result \notin {"other", "garbage"}
          \/ /\ caller'[d].result = caller[d].result /\ caller'[d].conn = caller[d].conn
             /\ caller[d].pc # "idle" => caller'[d].pc # "idle"
          \/ caller'[d].pc # "idle" /\ (crossed' \/ caller'[d].conn \in cut')
      BY <3>1, <3>2 DEF Unlocking, Moves, Same, Behind, OthersU, serverSide, messageVars
    <3>. QED BY <3>2, <3>3, ResultFrame
  <2>9. CASE ReleaseConnection(c)
    <3>1. Releasing(c)
      BY <1>5, <2>9, ReleaseEffect
    <3>2. cut \subseteq cut' /\ (crossed => crossed')
      BY <3>1 DEF Releasing, Moves, Same, Behind, OthersU, serverSide, messageVars
    <3>3. \A d \in Caller :
          \/ caller'[d].result \notin {"other", "garbage"}
          \/ /\ caller'[d].result = caller[d].result /\ caller'[d].conn = caller[d].conn
             /\ caller[d].pc # "idle" => caller'[d].pc # "idle"
          \/ caller'[d].pc # "idle" /\ (crossed' \/ caller'[d].conn \in cut')
      BY <3>1, <3>2 DEF Releasing, Moves, Same, Behind, OthersU, serverSide, messageVars
    <3>. QED BY <3>2, <3>3, ResultFrame
  <2>10. CASE DeleteConnection(c)
    <3>1. Deleting(c)
      BY <1>5, <2>10, DeleteEffect
    <3>2. cut \subseteq cut' /\ (crossed => crossed')
      BY <3>1 DEF Deleting, Moves, Same, Behind, OthersU, serverSide, messageVars
    <3>3. \A d \in Caller :
          \/ caller'[d].result \notin {"other", "garbage"}
          \/ /\ caller'[d].result = caller[d].result /\ caller'[d].conn = caller[d].conn
             /\ caller[d].pc # "idle" => caller'[d].pc # "idle"
          \/ caller'[d].pc # "idle" /\ (crossed' \/ caller'[d].conn \in cut')
      BY <3>1, <3>2 DEF Deleting, Moves, Same, Behind, OthersU, serverSide, messageVars
    <3>. QED BY <3>2, <3>3, ResultFrame
  <2>11. CASE CallerKilled(c)
    <3>1. Dying(c)
      BY <1>5, <2>11, KilledEffect
    <3>2. cut \subseteq cut' /\ (crossed => crossed')
      BY <3>1 DEF Dying, Moves, Behind, OthersU, serverSide, messageVars
    <3>3. \A d \in Caller :
          \/ caller'[d].result \notin {"other", "garbage"}
          \/ /\ caller'[d].result = caller[d].result /\ caller'[d].conn = caller[d].conn
             /\ caller[d].pc # "idle" => caller'[d].pc # "idle"
          \/ caller'[d].pc # "idle" /\ (crossed' \/ caller'[d].conn \in cut')
      BY <3>1, <3>2 DEF Dying, Moves, Behind, OthersU, serverSide, messageVars
    <3>. QED BY <3>2, <3>3, ResultFrame
  <2>. QED
    BY <1>5, <2>1, <2>2, <2>3, <2>4, <2>5, <2>6, <2>7, <2>8, <2>9, <2>10, <2>11 DEF
         CallerStep
<1>6. ASSUME NEW t \in Peer, SessionStep(t) PROVE ResultInv'
  <2>1. CASE ReceiveLength(t)
    <3>1. ReceivingLength(t)
      BY <1>6, <2>1, ReceiveLengthEffect
    <3>2. cut \subseteq cut' /\ (crossed => crossed')
      BY <3>1 DEF ReceivingLength, Waits, Ends, ServiceVars, clientVars
    <3>3. \A d \in Caller :
          \/ caller'[d].result \notin {"other", "garbage"}
          \/ /\ caller'[d].result = caller[d].result /\ caller'[d].conn = caller[d].conn
             /\ caller[d].pc # "idle" => caller'[d].pc # "idle"
          \/ caller'[d].pc # "idle" /\ (crossed' \/ caller'[d].conn \in cut')
      BY <3>1, <3>2 DEF ReceivingLength, Waits, Ends, ServiceVars, clientVars
    <3>. QED BY <3>2, <3>3, ResultFrame
  <2>2. CASE LengthReceived(t)
    <3>0. PICK p : p = thread[t].hold
      OBVIOUS
    <3>1. GettingLength(t, p)
      BY <1>6, <2>2, <3>0, LengthReceivedEffect DEF LengthReceived, PhaseInv
    <3>2. cut \subseteq cut' /\ (crossed => crossed')
      BY <3>0, <3>1 DEF GettingLength, ServiceVars, Ends, clientVars
    <3>3. \A d \in Caller :
          \/ caller'[d].result \notin {"other", "garbage"}
          \/ /\ caller'[d].result = caller[d].result /\ caller'[d].conn = caller[d].conn
             /\ caller[d].pc # "idle" => caller'[d].pc # "idle"
          \/ caller'[d].pc # "idle" /\ (crossed' \/ caller'[d].conn \in cut')
      BY <3>0, <3>1, <3>2 DEF GettingLength, ServiceVars, Ends, clientVars
    <3>. QED BY <3>2, <3>3, ResultFrame
  <2>3. CASE ReceiveQuery(t)
    <3>1. ReceivingQuery(t)
      BY <1>6, <2>3, ReceiveQueryEffect
    <3>2. cut \subseteq cut' /\ (crossed => crossed')
      BY <3>1 DEF ReceivingQuery, Waits, ServiceVars, clientVars
    <3>3. \A d \in Caller :
          \/ caller'[d].result \notin {"other", "garbage"}
          \/ /\ caller'[d].result = caller[d].result /\ caller'[d].conn = caller[d].conn
             /\ caller[d].pc # "idle" => caller'[d].pc # "idle"
          \/ caller'[d].pc # "idle" /\ (crossed' \/ caller'[d].conn \in cut')
      BY <3>1, <3>2 DEF ReceivingQuery, Waits, ServiceVars, clientVars
    <3>. QED BY <3>2, <3>3, ResultFrame
  <2>4. CASE QueryReceived(t)
    <3>0. PICK p : p = thread[t].hold
      OBVIOUS
    <3>1. GettingQuery(t, p)
      BY <1>6, <2>4, <3>0, QueryReceivedEffect DEF QueryReceived, PhaseInv
    <3>2. cut \subseteq cut' /\ (crossed => crossed')
      BY <3>0, <3>1 DEF GettingQuery, ServiceVars, clientVars
    <3>3. \A d \in Caller :
          \/ caller'[d].result \notin {"other", "garbage"}
          \/ /\ caller'[d].result = caller[d].result /\ caller'[d].conn = caller[d].conn
             /\ caller[d].pc # "idle" => caller'[d].pc # "idle"
          \/ caller'[d].pc # "idle" /\ (crossed' \/ caller'[d].conn \in cut')
      BY <3>0, <3>1, <3>2 DEF GettingQuery, ServiceVars, clientVars
    <3>. QED BY <3>2, <3>3, ResultFrame
  <2>5. CASE AnswerQuery(t)
    <3>1. AnsweringQuery(t)
      BY <1>6, <2>5, AnswerQueryEffect
    <3>2. cut \subseteq cut' /\ (crossed => crossed')
      BY <3>1 DEF AnsweringQuery, ServiceVars, Ends, clientVars
    <3>3. \A d \in Caller :
          \/ caller'[d].result \notin {"other", "garbage"}
          \/ /\ caller'[d].result = caller[d].result /\ caller'[d].conn = caller[d].conn
             /\ caller[d].pc # "idle" => caller'[d].pc # "idle"
          \/ caller'[d].pc # "idle" /\ (crossed' \/ caller'[d].conn \in cut')
      BY <3>1, <3>2 DEF AnsweringQuery, ServiceVars, Ends, clientVars
    <3>. QED BY <3>2, <3>3, ResultFrame
  <2>6. CASE CloseSession(t)
    <3>1. ClosingSession(t)
      BY <1>6, <2>6, CloseSessionEffect
    <3>2. cut \subseteq cut' /\ (crossed => crossed')
      BY <3>1 DEF ClosingSession, Closes, clientVars
    <3>3. \A d \in Caller :
          \/ caller'[d].result \notin {"other", "garbage"}
          \/ /\ caller'[d].result = caller[d].result /\ caller'[d].conn = caller[d].conn
             /\ caller[d].pc # "idle" => caller'[d].pc # "idle"
          \/ caller'[d].pc # "idle" /\ (crossed' \/ caller'[d].conn \in cut')
      BY <3>1, <3>2 DEF ClosingSession, Closes, clientVars
    <3>. QED BY <3>2, <3>3, ResultFrame
  <2>. QED BY <1>6, <2>1, <2>2, <2>3, <2>4, <2>5, <2>6 DEF SessionStep
<1>. QED BY <1>1, <1>2, <1>3, <1>4, <1>5, <1>6 DEF SocketNext, MessageNext, ClientNext

LEMMA InitCache == SocketInit => CacheInv
<1> SUFFICES ASSUME SocketInit PROVE CacheInv
  OBVIOUS
<1>1. PICK waiting \in Seq(Peer) :
        /\ ServerInit(waiting)
        /\ \A i, j \in DOMAIN waiting : waiting[i] = waiting[j] => i = j
        /\ service = "cache" => \A p \in Pool : \E i \in DOMAIN waiting : waiting[i] = p
  BY InitWaiting
<1>2. \A c \in Caller : caller[c].pc = "idle" /\ caller[c].result = "none"
  BY DEF SocketInit, ClientInit
<1>3. ResultInv
  BY <1>2 DEF ResultInv
<1>4. ASSUME service = "cache", NEW p \in Peer, Serving(p) PROVE Good(p)
  <2>1. p \in Pool
    BY <1>2, <1>4, ClientAssumption DEF Serving
  <2>2. PICK i \in DOMAIN waiting : waiting[i] = p
    BY <1>1, <1>4, <2>1
  <2>3. /\ conn[p].client = "open" /\ conn[p].in = <<>> /\ conn[p].out = <<>>
        /\ thread[p].pc = "none" /\ backlog = waiting
    BY <1>1, <2>2 DEF ServerInit, Unused, NoThread
  <2>4. Present(p)
    BY <2>2, <2>3 DEF Present
  <2>5. Stream(p)
    BY <1>2, <2>3 DEF Stream, Using, Quiet, AtRest
  <2>. QED BY <2>3, <2>4, <2>5 DEF Good
<1>. QED BY <1>3, <1>4 DEF CacheInv, StreamInv

LEMMA StutterCache == CacheInv /\ UNCHANGED socketVars => CacheInv'
  BY DEF CacheInv, StreamInv, ResultInv, Serving, Good, Present, Stream, Using, InPhase, Quiet,
         AtRest, Asked, On, HeadOf, BodyOf, socketVars, serverVars, messageVars, clientVars

LEMMA NextCache ==
  PoolInOneProcess /\ SocketInv /\ CacheInv /\ [SocketNext]_socketVars => CacheInv'
  BY StutterCache, NextStream, NextResult DEF SocketInv, ServerInv, CacheInv

\* AnswersMatch: where one process has the connections of the pool, a caller gets the
\* answer to its own query, unless a thread has worked on the descriptor of another or
\* an answer was read in part.
THEOREM AnswersAreOwn == PoolInOneProcess => (SocketSpec => []AnswersMatch)
<1> SUFFICES ASSUME PoolInOneProcess PROVE SocketSpec => []AnswersMatch
  OBVIOUS
<1>1. SocketInit => CacheInv
  BY InitCache
<1>2. SocketInv /\ CacheInv /\ [SocketNext]_socketVars => CacheInv'
  BY NextCache
<1>3. CacheInv => AnswersMatch
  BY DEF CacheInv, ResultInv, AnswersMatch
<1>. QED BY <1>1, <1>2, <1>3, SocketInvariant, PTL DEF SocketSpec
=============================================================================
