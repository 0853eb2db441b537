---------------------------- MODULE SocketServer ----------------------------
(***************************************************************************)
(* The socket servers the modules run in the process that starts them.     *)
(* Server hands every connection it accepts to a thread of its own,        *)
(* NBServer every connection that has something to read.  Both give the    *)
(* thread the address of the descriptor, which their next turn overwrites. *)
(***************************************************************************)
EXTENDS Integers, Sequences, FiniteSets

CONSTANTS Peer,      \* the connections clients open, which also name the threads
          MaxFd,     \* the descriptors are 0 .. MaxFd
          NoPeer, Listener

ASSUME ServerAssumption ==
  /\ MaxFd \in Nat
  /\ NoPeer \notin Peer /\ Listener \notin Peer /\ NoPeer # Listener

VARIABLES
  service,  \* who is served: "messages", "methods" or "cache"
  table,    \* the descriptors of the process: a peer, Listener or NoPeer
  slot,     \* the descriptor at the address threads are given; -1 if accept failed
  backlog,  \* connections not accepted yet
  watched,  \* the descriptors registered for events
  conn,     \* by peer: what is unread in either direction, and the client's end
  thread,   \* by peer: the thread that was started for its connection
  dead,     \* the process was terminated
  crossed   \* history: a thread took or closed a descriptor that was another's

serverVars == <<service, table, slot, backlog, watched, conn, thread, dead, crossed>>

Lowest(S) == CHOOSE x \in S : \A y \in S : x <= y

At(fd) == IF fd \in DOMAIN table THEN table[fd] ELSE NoPeer

Listening == \E fd \in DOMAIN table : table[fd] = Listener

Free == {fd \in DOMAIN table : table[fd] = NoPeer}

\* The server's end lives as long as a descriptor or a thread inside recv keeps it.
Kept(p) ==
  /\ ~dead
  /\ \/ Listening /\ \E i \in DOMAIN backlog : backlog[i] = p
     \/ \E fd \in DOMAIN table : table[fd] = p
     \/ \E t \in Peer : thread[t].hold = p

Unused == [in |-> <<>>, out |-> <<>>, client |-> "new"]

NoThread == [pc |-> "none", fd |-> -1, hold |-> NoPeer, got |-> <<>>]

\* The server after start(), with the given connections waiting.
ServerInit(waiting) ==
  /\ table = [fd \in 0..MaxFd |-> IF fd = 0 THEN Listener ELSE NoPeer]
  /\ slot = -1
  /\ backlog = waiting
  /\ watched = {}
  /\ conn = [p \in Peer |-> IF \E i \in DOMAIN waiting : waiting[i] = p
                            THEN [Unused EXCEPT !.client = "open"] ELSE Unused]
  /\ thread = [p \in Peer |-> NoThread]
  /\ dead = FALSE
  /\ crossed = FALSE

----------------------------------------------------------------------------
(* The loops.                                                              *)

\* One turn of Server::servicing.  accept() fails when no descriptor is left.
Accept ==
  /\ service \in {"messages", "methods"} /\ ~dead /\ Listening /\ backlog # <<>>
  /\ slot' = IF Free = {} THEN -1 ELSE Lowest(Free)
  /\ IF Free = {} THEN UNCHANGED <<table, backlog, thread>>
     ELSE /\ table' = [table EXCEPT ![Lowest(Free)] = Head(backlog)]
          /\ thread' = [thread EXCEPT ![Head(backlog)].pc = "new"]
          /\ backlog' = Tail(backlog)
  /\ UNCHANGED <<service, watched, conn, dead, crossed>>

\* NBServer::servicing: the event of the listening socket, whose descriptor is
\* what the slot holds meanwhile.
AcceptWatched ==
  /\ service = "cache" /\ ~dead /\ Listening /\ backlog # <<>>
  /\ slot' = 0
  /\ IF Free = {} THEN UNCHANGED <<table, backlog, watched>>
     ELSE /\ table' = [table EXCEPT ![Lowest(Free)] = Head(backlog)]
          /\ watched' = watched \cup {Lowest(Free)}
          /\ backlog' = Tail(backlog)
  /\ UNCHANGED <<service, conn, thread, dead, crossed>>

\* NBServer::servicing: the event of a connection.  One that was closed gets no
\* thread.
HandOver(fd) ==
  /\ ~dead /\ fd \in watched
  /\ conn[table[fd]].in # <<>> \/ conn[table[fd]].client = "shut"
  /\ slot' = fd
  /\ watched' = watched \ {fd}
  /\ IF conn[table[fd]].in = <<>>
     THEN table' = [table EXCEPT ![fd] = NoPeer] /\ UNCHANGED thread
     ELSE thread' = [thread EXCEPT ![table[fd]].pc = "new"] /\ UNCHANGED table
  /\ UNCHANGED <<service, backlog, conn, dead, crossed>>

\* int fd = *(int*)arg;
TakeDescriptor(t) ==
  /\ ~dead /\ thread[t].pc = "new"
  /\ thread' = [thread EXCEPT ![t].pc = "taken", ![t].fd = slot]
  /\ crossed' = (crossed \/ At(slot) # t)
  /\ UNCHANGED <<service, table, slot, backlog, watched, conn, dead>>

Loop == Accept \/ AcceptWatched \/ \E fd \in 0..MaxFd : HandOver(fd)

----------------------------------------------------------------------------
(* What the threads of the services do with their descriptor.              *)

\* close(fd), by thread t.
Close(t, next) ==
  /\ thread' = [thread EXCEPT ![t].pc = next]
  /\ table' = [fd \in DOMAIN table |-> IF fd = thread[t].fd THEN NoPeer ELSE table[fd]]
  /\ watched' = watched \ {thread[t].fd}
  /\ crossed' = (crossed \/ At(thread[t].fd) \notin {t, NoPeer})
  /\ UNCHANGED <<service, slot, backlog, conn, dead>>

\* recv() on a descriptor of a connection: the thread waits inside.
EnterRecv(t, next) ==
  /\ At(thread[t].fd) \in Peer
  /\ thread' = [thread EXCEPT ![t].hold = At(thread[t].fd), ![t].pc = next]
  /\ UNCHANGED <<service, table, slot, backlog, watched, conn, dead, crossed>>

\* recv() returns what is there, of which it leaves the given rest,
Received(t, next, got, rest) ==
  /\ conn[thread[t].hold].in # <<>>
  /\ thread' = [thread EXCEPT ![t].hold = NoPeer, ![t].pc = next, ![t].got = got]
  /\ conn' = [conn EXCEPT ![thread[t].hold].in = rest]
  /\ UNCHANGED <<service, table, slot, backlog, watched, dead, crossed>>

\* or 0 when the client has closed.
ReceivedEnd(t, next) ==
  /\ conn[thread[t].hold].in = <<>> /\ conn[thread[t].hold].client = "shut"
  /\ thread' = [thread EXCEPT ![t].hold = NoPeer, ![t].pc = next]
  /\ UNCHANGED <<service, table, slot, backlog, watched, conn, dead, crossed>>

\* send(): the client reads it unless it has closed.
SendTo(p, text) ==
  conn' = IF p \in Peer /\ conn[p].client = "open"
          THEN [conn EXCEPT ![p].out = Append(@, text)] ELSE conn

\* An exception nobody catches ends the process, with all its threads.
Terminate ==
  /\ dead' = TRUE
  /\ UNCHANGED <<service, table, slot, backlog, watched, conn, thread, crossed>>

----------------------------------------------------------------------------
(* The clients' ends.                                                      *)

Connect(p) ==
  /\ ~dead /\ Listening /\ conn[p].client = "new"
  /\ conn' = [conn EXCEPT ![p].client = "open"]
  /\ backlog' = Append(backlog, p)
  /\ UNCHANGED <<service, table, slot, watched, thread, dead, crossed>>
=============================================================================
