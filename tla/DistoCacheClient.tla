-------------------------- MODULE DistoCacheClient --------------------------
(***************************************************************************)
(* The clients of the distributed cache and its sessions on NBServer.      *)
(* DistoCacheClientUtils sends the command of a method under its lock and  *)
(* reads the answer.  PooledDistoCacheConnectionFactory opens its          *)
(* connections in the process that starts the server: the children it     *)
(* forks share them, each with its own copy of the lock.                   *)
(* BasicDistoCacheConnectionFactory opens one for each caller.             *)
(* What the command does to the cache is the subject of CacheMap.          *)
(***************************************************************************)
EXTENDS MessageHandler, TLC, Functions

CONSTANTS Caller,      \* threads that call a method; each may own a connection
          Pool,        \* the connections of the pool
          Process,     \* where callers run
          ProcessOf,   \* by caller
          Method,      \* by caller: the method it calls
          OwnsConnection, \* the callers that use the basic factory
          Killable,    \* those whose process may be killed
          NoOne

\* A process that may be killed has one caller.
ASSUME ClientAssumption ==
  /\ OwnsConnection \cup Pool \subseteq Peer /\ OwnsConnection \cap Pool = {}
  /\ OwnsConnection \subseteq Caller /\ IsFiniteSet(Pool) /\ NoOne \notin Caller
  /\ ProcessOf \in [Caller -> Process]
  /\ \A c \in Killable, d \in Caller : ProcessOf[c] = ProcessOf[d] => c = d

VARIABLES caller,  \* by caller: where it is, on which connection, with what result
          lock,    \* by process and connection: the caller that holds it
          cut      \* history: the connections of which an answer was read in part

clientVars == <<caller, lock, cut>>

ClientInit ==
  /\ caller = [c \in Caller |-> [pc |-> "idle", conn |-> NoPeer, got |-> NoOne,
                                 result |-> "none"]]
  /\ lock = [at \in Process \X (Pool \cup Caller) |-> NoOne]
  /\ cut = {}

\* All of the server but what is on the connections.
serverSide == <<service, table, slot, backlog, watched, thread, dead, crossed>>

----------------------------------------------------------------------------
(* The commands.                                                           *)

EntryCommand ==
  [allocate |-> "allocate", deallocate |-> "deallocate",
   addObjectEntry |-> "add objentry", removeObjectEntry |-> "remove objentry",
   getObjectEntryValue |-> "get objentry"]

MapCommand ==
  [addMapEntry |-> "add mapentry", removeMapEntry |-> "remove mapentry",
   getMapEntryValue |-> "get mapentry",
   getMapEntryValueByPosition |-> "getbypos mapentry",
   setMapEntryValueByPosition |-> "set mapentry"]

CollectionCommand ==
  [setCollectionEntryAt |-> "set collentry", addCollectionEntry |-> "add collentry",
   removeCollectionEntryAt |-> "remove collentry",
   getCollectionEntryAt |-> "get collentry", insert |-> "insert collentry",
   size |-> "size", isEmpty |-> "isempty", clear |-> "clear"]

\* The two pushes are the wrong way round.
EndCommand ==
  [popValueQueue |-> "pop collentry", popGetValueQueue |-> "popget collentry",
   pushBackValue |-> "pushfront collentry", pushFrontValue |-> "pushback collentry",
   popFrontValue |-> "popfront collentry", popBackValue |-> "popback collentry",
   popGetFrontValue |-> "popfrontget collentry",
   popGetBackValue |-> "popbackget collentry",
   getFrontValue |-> "getfront collentry", getBackValue |-> "getback collentry"]

CommandOf == EntryCommand @@ MapCommand @@ CollectionCommand @@ EndCommand

\* What travels in either direction: four bytes with the length, and the rest.
Pieces(c, command) ==
  <<[part |-> "head", of |-> c, is |-> command], [part |-> "body", of |-> c, is |-> command]>>

----------------------------------------------------------------------------
(* The clients.                                                            *)

On(c) == caller[c].conn

LockOf(c) == <<ProcessOf[c], On(c)>>

Step(c, pc) == caller' = [caller EXCEPT ![c].pc = pc]

\* inUse is never written: any connection of the pool may look unused.
GetPooledConnection(c) ==
  /\ service = "cache" /\ caller[c].pc = "idle" /\ c \notin OwnsConnection
  /\ \E p \in Pool : caller' = [caller EXCEPT ![c].pc = "lock", ![c].conn = p]
  /\ UNCHANGED <<serverVars, messageVars, lock, cut>>

GetOwnConnection(c) ==
  /\ service = "cache" /\ caller[c].pc = "idle" /\ c \in OwnsConnection
  /\ Connect(c)
  /\ caller' = [caller EXCEPT ![c].pc = "lock", ![c].conn = c]
  /\ UNCHANGED <<messageVars, lock, cut>>

\* Mutant of LockConnection: it does not wait.
LockNothing(c) ==
  /\ caller[c].pc = "lock"
  /\ Step(c, "send")
  /\ UNCHANGED <<serverVars, messageVars, lock, cut>>

LockConnection(c) ==
  /\ caller[c].pc = "lock" /\ lock[LockOf(c)] = NoOne
  /\ lock' = [lock EXCEPT ![LockOf(c)] = c]
  /\ Step(c, "send")
  /\ UNCHANGED <<serverVars, messageVars, cut>>

\* An exception between lock() and unlock(): out of what encloses the call, whose
\* destructor releases the connection.
Throw(c) ==
  caller' = [caller EXCEPT ![c].pc = "release", ![c].result = "thrown"]

\* The first send() on a connection the server has closed succeeds, a later one
\* returns -1, and so does data.substr().
SendQuery(c) ==
  /\ caller[c].pc = "send"
  /\ IF Kept(On(c))
     THEN /\ conn' = [conn EXCEPT ![On(c)].in = @ \o Pieces(c, CommandOf[Method[c]])]
          /\ Step(c, "head")
     ELSE UNCHANGED conn /\ (Step(c, "head") \/ Throw(c))
  /\ UNCHANGED <<serverSide, messageVars, lock, cut>>

\* What recv() leaves of the first piece of the answers.
Takes(c) == conn' = [conn EXCEPT ![On(c)].out = Tail(@)]

\* getBinaryData: the length, of which nobody checks anything.  What is none may be
\* negative, which throws, or zero, or more than there is.
ReadLength(c) ==
  /\ caller[c].pc = "head" /\ conn[On(c)].out # <<>>
  /\ \E piece \in {Head(conn[On(c)].out)} :
       IF piece.part = "head"
       THEN /\ caller' = [caller EXCEPT ![c].pc = "body", ![c].got = piece.of]
            /\ Takes(c)
       ELSE \/ Throw(c) /\ Takes(c)
            \/ /\ caller' = [caller EXCEPT ![c].pc = "unlock", ![c].result = "garbage"]
               /\ UNCHANGED conn
            \/ /\ caller' = [caller EXCEPT ![c].pc = "body", ![c].got = NoOne]
               /\ conn' = [conn EXCEPT ![On(c)].out = <<>>]
  /\ UNCHANGED <<serverSide, messageVars, lock, cut>>

\* Four zero bytes, which decode to an answer without a value.
ReadLengthAtEnd(c) ==
  /\ caller[c].pc = "head" /\ conn[On(c)].out = <<>> /\ ~Kept(On(c))
  /\ caller' = [caller EXCEPT ![c].pc = "unlock", ![c].result = "empty"]
  /\ UNCHANGED <<serverVars, messageVars, lock, cut>>

\* One recv(), which may return a part of the answer.
ReadAnswer(c) ==
  /\ caller[c].pc = "body"
  /\ conn[On(c)].out # <<>> \/ ~Kept(On(c)) \/ caller[c].got = NoOne
  /\ LET whole == conn[On(c)].out # <<>> /\ Head(conn[On(c)].out).part = "body"
                    /\ Head(conn[On(c)].out).of = caller[c].got
     IN  \/ /\ caller' = [caller EXCEPT ![c].pc = "unlock", ![c].result =
                            IF ~whole THEN "garbage" ELSE IF caller[c].got = c THEN "own" ELSE "other"]
            /\ conn' = [conn EXCEPT ![On(c)].out = IF @ = <<>> THEN @ ELSE Tail(@)]
            /\ UNCHANGED cut
         \/ /\ whole
            /\ caller' = [caller EXCEPT ![c].pc = "unlock", ![c].result = "part"]
            /\ conn' = [conn EXCEPT ![On(c)].out[1].part = "rest"]
            /\ cut' = cut \cup {On(c)}
  /\ UNCHANGED <<serverSide, messageVars, lock>>

\* Mutant of UnlockConnection: the lock is kept.
KeepLock(c) ==
  /\ caller[c].pc = "unlock"
  /\ Step(c, "release")
  /\ UNCHANGED <<serverVars, messageVars, lock, cut>>

UnlockConnection(c) ==
  /\ caller[c].pc = "unlock"
  /\ lock' = [lock EXCEPT ![LockOf(c)] = NoOne]
  /\ Step(c, "release")
  /\ UNCHANGED <<serverVars, messageVars, cut>>

\* releaseConnection of the pool locks and unlocks the connection,
ReleaseConnection(c) ==
  /\ caller[c].pc = "release" /\ c \notin OwnsConnection /\ lock[LockOf(c)] = NoOne
  /\ Step(c, "done")
  /\ UNCHANGED <<serverVars, messageVars, lock, cut>>

\* that of the basic factory closes it.
DeleteConnection(c) ==
  /\ caller[c].pc = "release" /\ c \in OwnsConnection
  /\ conn' = [conn EXCEPT ![c].client = IF conn[c].out = <<>> THEN "shut" ELSE "reset"]
  /\ Step(c, "done")
  /\ UNCHANGED <<serverSide, messageVars, lock, cut>>

\* A process is killed: its own connection is closed, one of the pool is not.
CallerKilled(c) ==
  /\ c \in Killable /\ caller[c].pc \in {"head", "body"}
  /\ caller' = [caller EXCEPT ![c].pc = "done", ![c].result = "killed"]
  /\ conn' = IF c \notin OwnsConnection THEN conn
             ELSE [conn EXCEPT ![c].client = IF conn[c].out = <<>> THEN "shut" ELSE "reset"]
  /\ lock' = [l \in DOMAIN lock |-> IF lock[l] = c THEN NoOne ELSE lock[l]]
  /\ UNCHANGED <<serverSide, messageVars, cut>>

----------------------------------------------------------------------------
(* The sessions of the server.                                             *)

\* recv() fails on what is no connection, or one that was reset: the length is then
\* read from an empty string.
NoLength(t) ==
  \/ /\ thread' = [thread EXCEPT ![t].pc = "closing", ![t].hold = NoPeer]
     /\ UNCHANGED <<service, table, slot, backlog, watched, conn, dead, crossed>>
  \/ Terminate

ReceiveLength(t) ==
  /\ ~dead /\ thread[t].pc = "taken" /\ service = "cache"
  /\ IF At(thread[t].fd) \in Peer THEN EnterRecv(t, "length") ELSE NoLength(t)
  /\ UNCHANGED <<messageVars, clientVars>>

LengthReceived(t) ==
  /\ ~dead /\ thread[t].pc = "length"
  /\ \/ ReceivedEnd(t, "closing")
     \/ \E next \in {"query", "closing"} :
          /\ conn[thread[t].hold].in # <<>>
          /\ next = "closing" => Head(conn[thread[t].hold].in).part # "head"
          /\ Received(t, next, Head(conn[thread[t].hold].in), Tail(conn[thread[t].hold].in))
     \/ conn[thread[t].hold].client = "reset" /\ NoLength(t)
  /\ UNCHANGED <<messageVars, clientVars>>

ReceiveQuery(t) ==
  /\ ~dead /\ thread[t].pc = "query"
  /\ EnterRecv(t, "body")
  /\ UNCHANGED <<messageVars, clientVars>>

QueryReceived(t) ==
  /\ ~dead /\ thread[t].pc = "body"
  /\ \/ ReceivedEnd(t, "closing")
     \/ /\ conn[thread[t].hold].in # <<>>
        /\ Received(t, "asked", Head(conn[thread[t].hold].in), Tail(conn[thread[t].hold].in))
  /\ UNCHANGED <<messageVars, clientVars>>

Reaches(p) == IF p \in Peer THEN conn[p].client # "reset" ELSE FALSE

Sent(p, query) ==
  IF conn[p].client = "open"
  THEN [conn EXCEPT ![p].out = @ \o Pieces(query.of, query.is)] ELSE conn

\* send() returns -1 where nobody reads, and response.substr() throws.
AnswerQuery(t) ==
  /\ ~dead /\ thread[t].pc = "asked"
  /\ IF Reaches(At(thread[t].fd))
     THEN /\ conn' = Sent(At(thread[t].fd), thread[t].got)
          /\ thread' = [thread EXCEPT ![t].pc = "taken"]
          /\ UNCHANGED <<service, table, slot, backlog, watched, dead, crossed>>
     ELSE Terminate
  /\ UNCHANGED <<messageVars, clientVars>>

\* run() closes the descriptor, and so does the function that called it.
CloseSession(t) ==
  /\ ~dead
  /\ \E c \in {<<"closing", "closing again">>, <<"closing again", "done">>} :
       thread[t].pc = c[1] /\ Close(t, c[2])
  /\ UNCHANGED <<messageVars, clientVars>>

CallerStep(c) ==
  \/ GetPooledConnection(c) \/ GetOwnConnection(c) \/ LockConnection(c) \/ SendQuery(c)
  \/ ReadLength(c) \/ ReadLengthAtEnd(c) \/ ReadAnswer(c) \/ UnlockConnection(c)
  \/ ReleaseConnection(c) \/ DeleteConnection(c)

SessionStep(t) ==
  \/ ReceiveLength(t) \/ LengthReceived(t) \/ ReceiveQuery(t) \/ QueryReceived(t)
  \/ AnswerQuery(t) \/ CloseSession(t)

ClientNext ==
  \/ \E c \in Caller : CallerStep(c) \/ CallerKilled(c)
  \/ \E t \in Peer : SessionStep(t)

----------------------------------------------------------------------------
(* The servers with their clients.                                         *)

socketVars == <<serverVars, messageVars, clientVars>>

\* The pool connects before the server is seen to accept.
SocketInit ==
  /\ service \in {"messages", "methods", "cache"}
  /\ \E waiting \in IF service = "cache" THEN Bijection(1 .. Cardinality(Pool), Pool) ELSE {<<>>} :
       ServerInit(waiting)
  /\ MessageInit /\ ClientInit

SocketNext ==
  \/ Loop /\ UNCHANGED <<messageVars, clientVars>>
  \/ \E t \in Peer : TakeDescriptor(t) /\ UNCHANGED <<messageVars, clientVars>>
  \/ MessageNext /\ UNCHANGED clientVars
  \/ ClientNext

\* Without the fairness, which MCServices adds.
SocketSpec == SocketInit /\ [][SocketNext]_socketVars

----------------------------------------------------------------------------

\* "No issues with synchronization as the DistoCacheClientUtils class is
\* thread-safe" (PooledDistoCacheConnectionFactory.cpp:73): a caller gets the answer
\* to its own query, as long as every session has worked on its own descriptor and
\* every answer on the connection was read whole.
AnswersMatch ==
  \A c \in Caller : caller[c].result \in {"other", "garbage"} =>
    crossed \/ On(c) \in cut

\* Where that can hold: a program that forks once it has its pool leaves a copy of the
\* lock in each process and all of them on one connection.
PoolInOneProcess ==
  \A c, d \in Caller \ OwnsConnection : ProcessOf[c] = ProcessOf[d]

\* Whoever calls gets an answer, or an exception, unless the server has ended, a
\* thread has worked on another's descriptor or an answer was read in part; then the
\* lock may be held for good (DistoCacheClientUtils.cpp:62).  So do the clients of
\* the other two services.
CallsReturn ==
  /\ \A c \in Caller :
       caller[c].pc = "lock" ~> (caller[c].pc = "done" \/ dead \/ crossed \/ cut # {})
  /\ \A p \in Peer : call[p].pc = "connected" ~> (call[p].pc = "done" \/ dead \/ crossed)
=============================================================================
