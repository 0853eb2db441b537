---------------------------- MODULE ServerMaster ----------------------------
(***************************************************************************)
(* The processes of the server (CHServer.cpp): the master accepts the      *)
(* connections, watches them with SelEpolKqEvPrt, and passes each readable *)
(* one over a socket pair to one of NumProc children in turn; a child      *)
(* serves what it receives on its own thread pool (ThreadPool).  With      *)
(* DEV_MODE a monitor thread kills the children when a page has changed,   *)
(* and the master forks new ones; another thread waits for the removal of  *)
(* the file ffead.cntrl and wakes the master up.                           *)
(*                                                                         *)
(* This is the build with descriptor passing (IS_FILE_DESC_PASSING_AVAIL)  *)
(* and thread pools (THRD_PREQ unset).  A process is named by a number     *)
(* that also names its socket pair and its <pid>.cntrl file; no number is  *)
(* used again, since the server waits for no child.                        *)
(***************************************************************************)
EXTENDS Naturals, Sequences, FiniteSets

CONSTANTS
  Conn,         \* the connections that clients open
  Self,         \* the connection of gracefullShutdown_monitor
  Listener,     \* the listening socket, sockfd
  NoConn,
  NumProc,      \* NUM_PROC, preForked in the code
  QLen,         \* datagrams that a socket pair holds before sendmsg blocks
  MaxEdits,     \* changes of a page, 0 when DEV_MODE is off
  StartsInTime  \* every child starts within the sleep(5) of main

ASSUME NamesAssumption ==
  /\ Self \notin Conn /\ Listener \notin Conn \cup {Self}
  /\ NoConn \notin Conn \cup {Self, Listener}
ASSUME SizesAssumption ==
  /\ NumProc \in Nat \ {0} /\ QLen \in Nat \ {0} /\ MaxEdits \in Nat
  /\ StartsInTime \in BOOLEAN

VARIABLES
  mpc,          \* where the main thread of the master is
  slot,         \* j of its loops over the children
  forks,        \* the processes forked so far
  pds, files, sp,           \* per slot: pid, .cntrl file, socket pair
  childNo,      \* the child whose turn it is, from 0
  events,       \* descriptors of this batch still to be handled
  desc,         \* the descriptor about to be sent
  watched,      \* connections registered for events
  mopen,        \* connections of which the master has a descriptor
  processforcekilled, processgendone,
  stopFile,     \* ffead.cntrl exists
  page, kslot, stale, edits,  \* dynamic_page_monitor; a page has changed
  grace,        \* gracefullShutdown_monitor
  kid,          \* per process: where its main thread is
  cntrl,        \* processes whose .cntrl file exists
  queue,        \* per socket pair: descriptors in flight
  serving, inherited,  \* per process: descriptors in its pool, copied by fork
  backlog,      \* connections the kernel has not handed out yet
  peer,         \* per connection: what its client has done
  served        \* connections that a child has closed

forkVars == <<slot, forks, pds, files, sp>>
loopVars == <<childNo, events, desc, watched>>
flagVars == <<processforcekilled, processgendone>>
pageVars == <<page, kslot, stale, edits>>
kidVars == <<kid, cntrl, serving, inherited>>
peerVars == <<backlog, peer, served>>
vars == <<mpc, forkVars, loopVars, mopen, flagVars, stopFile, pageVars, grace,
          kidVars, queue, peerVars>>

AnyConn == Conn \cup {Self}
Slot == 1 .. NumProc
Pid == 1 .. NumProc * (1 + MaxEdits)

Queued(p) == {queue[p][i] : i \in DOMAIN queue[p]}
Waiting == {backlog[i] : i \in DOMAIN backlog}
MasterAlive == mpc \notin {"exited", "killed"}
Alive(p) == kid[p] \notin {"none", "dead"}

\* What SelEpolKqEvPrt::getEvents reports: level-triggered readiness.
Ready ==
  {c \in watched : peer[c] \in {"sent", "gone"}}
    \cup (IF backlog = <<>> THEN {} ELSE {Listener})

NextChild(n) == IF n >= NumProc THEN 0 ELSE n

Init ==
  /\ mpc = "fork" /\ slot = 1 /\ forks = 0
  /\ pds = [j \in Slot |-> 0] /\ files = <<>> /\ sp = [j \in Slot |-> 0]
  /\ childNo = 0 /\ events = {} /\ desc = NoConn /\ watched = {} /\ mopen = {}
  /\ processforcekilled = FALSE /\ processgendone = FALSE
  /\ stopFile = TRUE
  /\ page = "off" /\ kslot = 1 /\ stale = FALSE /\ edits = 0
  /\ grace = "off"
  /\ kid = [p \in Pid |-> "none"] /\ cntrl = {}
  /\ queue = [p \in Pid |-> <<>>]
  /\ serving = [p \in Pid |-> {}] /\ inherited = [p \in Pid |-> {}]
  /\ backlog = <<>> /\ peer = [c \in AnyConn |-> "away"] /\ served = {}
-----------------------------------------------------------------------------
(* The children: fork, and what a kill leaves.                             *)

\* Mutant of ForkChild: the child is given the socket pair of its slot.
ForkChildSamePair ==
  LET p == forks + 1 IN
    /\ mpc = "fork" /\ mpc' = "record"
    /\ forks' = p
    /\ sp' = [sp EXCEPT ![slot] = IF @ = 0 THEN p ELSE @]
    /\ kid' = [kid EXCEPT ![p] = "starting"]
    /\ inherited' = [inherited EXCEPT ![p] = mopen]
    /\ UNCHANGED <<slot, pds, files, loopVars, mopen, flagVars, stopFile,
                   pageVars, grace, cntrl, serving, queue, peerVars>>

\* createChildProcess: a socket pair over the old one of the slot, and a
\* process that has every descriptor of the master.
ForkChild ==
  LET p == forks + 1 IN
    /\ mpc = "fork" /\ mpc' = "record"
    /\ forks' = p
    /\ sp' = [sp EXCEPT ![slot] = p]
    /\ kid' = [kid EXCEPT ![p] = "starting"]
    /\ inherited' = [inherited EXCEPT ![p] = mopen]
    /\ UNCHANGED <<slot, pds, files, loopVars, mopen, flagVars, stopFile,
                   pageVars, grace, cntrl, serving, queue, peerVars>>

RecordChild ==
  /\ mpc = "record"
  /\ pds' = [pds EXCEPT ![slot] = forks]
  /\ files' = Append(files, forks)
  /\ IF slot < NumProc
     THEN slot' = slot + 1 /\ mpc' = "fork"
     ELSE slot' = 1 /\ mpc' = IF grace = "off" THEN "settle" ELSE "reforked"
  /\ UNCHANGED <<forks, sp, loopVars, mopen, flagVars, stopFile, pageVars,
                 grace, kidVars, queue, peerVars>>

\* SIGKILL: the descriptors go with the process, its .cntrl file stays, and so
\* does its socket pair, of which the master has both ends.
Killed(ps) ==
  /\ kid' = [p \in Pid |-> IF p \in ps THEN "dead" ELSE kid[p]]
  /\ serving' = [p \in Pid |-> IF p \in ps THEN {} ELSE serving[p]]
  /\ inherited' = [p \in Pid |-> IF p \in ps THEN {} ELSE inherited[p]]
  /\ UNCHANGED cntrl
-----------------------------------------------------------------------------
(* The main thread of the master.                                          *)

\* Mutant of Settle: main does not sleep.
SettleAtOnce ==
  /\ mpc = "settle"
  /\ mpc' = "handle" /\ page' = "sleep" /\ grace' = "watch"
  /\ UNCHANGED <<forkVars, loopVars, mopen, flagVars, stopFile, kslot, stale,
                 edits, kidVars, queue, peerVars>>

\* The monitors start and main sleeps five seconds, "so as to make sure all
\* the new child processes are set correctly".
Settle ==
  /\ mpc = "settle"
  /\ StartsInTime => \A j \in Slot : kid[pds[j]] # "starting"
  /\ mpc' = "handle" /\ page' = "sleep" /\ grace' = "watch"
  /\ UNCHANGED <<forkVars, loopVars, mopen, flagVars, stopFile, kslot, stale,
                 edits, kidVars, queue, peerVars>>

\* The top of the loop, when the batch is done.
Check ==
  /\ mpc = "handle" /\ events = {}
  /\ IF stopFile
     THEN mpc' = "poll" /\ childNo' = NextChild(childNo)
     ELSE mpc' = "close" /\ UNCHANGED childNo
  /\ UNCHANGED <<forkVars, events, desc, watched, mopen, flagVars, stopFile,
                 pageVars, grace, kidVars, queue, peerVars>>

\* Mutant of Woken: the names of the control files are not cleared.
WokenKeepsFiles(batch) ==
  /\ mpc = "poll"
  /\ events' = batch
  /\ processgendone' = FALSE
  /\ mpc' = IF processforcekilled THEN "fork" ELSE "handle"
  /\ UNCHANGED <<forkVars, childNo, desc, watched, mopen, processforcekilled,
                 stopFile, pageVars, grace, kidVars, queue, peerVars>>

\* getEvents returns, and the flag of the page monitor is tested.
Woken(batch) ==
  /\ mpc = "poll"
  /\ events' = batch
  /\ processgendone' = FALSE
  /\ IF processforcekilled
     THEN files' = <<>> /\ mpc' = "fork"
     ELSE mpc' = "handle" /\ UNCHANGED files
  /\ UNCHANGED <<slot, forks, pds, sp, childNo, desc, watched, mopen,
                 processforcekilled, stopFile, pageVars, grace, kidVars, queue,
                 peerVars>>

GetEvents == Ready # {} /\ Woken(Ready)

\* getEvents returns -1, as for EINTR.
PollInterrupted == Woken({})

Reforked ==
  /\ mpc = "reforked" /\ mpc' = "handle"
  /\ processforcekilled' = FALSE /\ processgendone' = TRUE
  /\ UNCHANGED <<forkVars, loopVars, mopen, stopFile, pageVars, grace, kidVars,
                 queue, peerVars>>

\* Mutant of AcceptConnection: the connection is not registered.
AcceptUnwatched ==
  /\ mpc = "handle" /\ Listener \in events
  /\ events' = events \ {Listener}
  /\ childNo' = NextChild(childNo)
  /\ mopen' = mopen \cup {Head(backlog)}
  /\ backlog' = Tail(backlog)
  /\ UNCHANGED <<mpc, forkVars, desc, watched, flagVars, stopFile, pageVars,
                 grace, kidVars, queue, peer, served>>

AcceptConnection ==
  /\ mpc = "handle" /\ Listener \in events
  /\ events' = events \ {Listener}
  /\ childNo' = NextChild(childNo)
  /\ watched' = watched \cup {Head(backlog)}
  /\ mopen' = mopen \cup {Head(backlog)}
  /\ backlog' = Tail(backlog)
  /\ UNCHANGED <<mpc, forkVars, desc, flagVars, stopFile, pageVars, grace,
                 kidVars, queue, peer, served>>

\* Mutant of TakeConnection: the connection is still watched.
TakeWatched(c) ==
  LET n == NextChild(childNo) IN
    /\ mpc = "handle" /\ c \in events \cap AnyConn
    /\ childNo' = n
    /\ IF files[n + 1] \in cntrl
       THEN mpc' = "send" /\ desc' = c /\ events' = events \ {c}
       ELSE events' = {} /\ UNCHANGED <<mpc, desc>>
    /\ UNCHANGED <<forkVars, watched, mopen, flagVars, stopFile, pageVars,
                   grace, kidVars, queue, peerVars>>

\* A readable connection is no longer watched; if the .cntrl file of the child
\* cannot be opened, it and the rest of the batch are abandoned.
TakeConnection(c) ==
  LET n == NextChild(childNo) IN
    /\ mpc = "handle" /\ c \in events \cap AnyConn
    /\ childNo' = n
    /\ watched' = watched \ {c}
    /\ IF files[n + 1] \in cntrl
       THEN mpc' = "send" /\ desc' = c /\ events' = events \ {c}
       ELSE events' = {} /\ UNCHANGED <<mpc, desc>>
    /\ UNCHANGED <<forkVars, mopen, flagVars, stopFile, pageVars, grace,
                   kidVars, queue, peerVars>>

\* Mutant of SendConnection: the master keeps its descriptor open.
SendKeepsOpen ==
  LET p == sp[childNo + 1] IN
    /\ mpc = "send" /\ mpc' = "handle"
    /\ Len(queue[p]) < QLen
    /\ queue' = [queue EXCEPT ![p] = Append(@, desc)]
    /\ desc' = NoConn
    /\ childNo' = childNo + 1
    /\ UNCHANGED <<forkVars, events, watched, mopen, flagVars, stopFile,
                   pageVars, grace, kidVars, peerVars>>

\* send_connection: sendmsg, which blocks while the pair is full, and close.
SendConnection ==
  LET p == sp[childNo + 1] IN
    /\ mpc = "send" /\ mpc' = "handle"
    /\ Len(queue[p]) < QLen
    /\ queue' = [queue EXCEPT ![p] = Append(@, desc)]
    /\ mopen' = mopen \ {desc}
    /\ desc' = NoConn
    /\ childNo' = childNo + 1
    /\ UNCHANGED <<forkVars, events, watched, flagVars, stopFile, pageVars,
                   grace, kidVars, peerVars>>

\* The listening socket is closed and the children killed; with the return of
\* main go its descriptors and its threads.
CloseServer ==
  /\ mpc = "close" /\ mpc' = "exited"
  /\ Killed({pds[j] : j \in Slot})
  /\ mopen' = {} /\ watched' = {} /\ backlog' = <<>>
  /\ page' = "off" /\ grace' = "done"
  /\ UNCHANGED <<forkVars, childNo, events, desc, flagVars, stopFile, kslot,
                 stale, edits, queue, peer, served>>

MasterStep ==
  \/ ForkChild \/ RecordChild \/ Settle \/ Check \/ GetEvents \/ Reforked
  \/ AcceptConnection \/ (\E c \in AnyConn : TakeConnection(c))
  \/ SendConnection \/ CloseServer
-----------------------------------------------------------------------------
(* The monitor threads of the master, and who edits pages or stops it.     *)

EditPage ==
  /\ page # "off" /\ edits < MaxEdits
  /\ edits' = edits + 1 /\ stale' = TRUE
  /\ UNCHANGED <<mpc, forkVars, loopVars, mopen, flagVars, stopFile, page,
                 kslot, grace, kidVars, queue, peerVars>>

\* A page differs from its recorded time: generate and compile, which takes
\* seconds, then kill the children.  After a re-fork it rests until the next
\* batch of events.
PageRegenerates ==
  /\ page = "sleep" /\ stale /\ ~processgendone
  /\ page' = "killing" /\ kslot' = 1
  /\ UNCHANGED <<mpc, forkVars, loopVars, mopen, flagVars, stopFile, stale,
                 edits, grace, kidVars, queue, peerVars>>

PageKills ==
  /\ page = "killing"
  /\ Killed({pds[kslot]})
  /\ IF kslot < NumProc THEN kslot' = kslot + 1 /\ UNCHANGED page
     ELSE page' = "flag" /\ UNCHANGED kslot
  /\ UNCHANGED <<mpc, forkVars, loopVars, mopen, flagVars, stopFile, stale,
                 edits, grace, queue, peerVars>>

PageFlags ==
  /\ page = "flag" /\ page' = "refresh"
  /\ processforcekilled' = TRUE
  /\ UNCHANGED <<mpc, forkVars, loopVars, mopen, processgendone, stopFile,
                 kslot, stale, edits, grace, kidVars, queue, peerVars>>

\* The times of all pages are read again, so a change made since is not seen.
PageRefreshes ==
  /\ page = "refresh" /\ page' = "sleep"
  /\ stale' = FALSE
  /\ UNCHANGED <<mpc, forkVars, loopVars, mopen, flagVars, stopFile, kslot,
                 edits, grace, kidVars, queue, peerVars>>

PageEnds ==
  /\ page = "sleep" /\ ~stopFile /\ page' = "off"
  /\ UNCHANGED <<mpc, forkVars, loopVars, mopen, flagVars, stopFile, kslot,
                 stale, edits, grace, kidVars, queue, peerVars>>

\* Mutant of WakeMaster: nobody wakes the master.
WakeNobody ==
  /\ grace = "watch" /\ ~stopFile /\ grace' = "done"
  /\ UNCHANGED <<mpc, forkVars, loopVars, mopen, flagVars, stopFile, pageVars,
                 kidVars, queue, peerVars>>

\* The monitor connects to the server and closes the connection.
WakeMaster ==
  /\ grace = "watch" /\ ~stopFile /\ grace' = "done"
  /\ IF MasterAlive
     THEN /\ backlog' = Append(backlog, Self)
          /\ peer' = [peer EXCEPT ![Self] = "gone"]
     ELSE UNCHANGED <<backlog, peer>>
  /\ UNCHANGED <<mpc, forkVars, loopVars, mopen, flagVars, stopFile, pageVars,
                 kidVars, queue, served>>

\* The operator removes ffead.cntrl, or every .cntrl file as server.sh does.
StopServer ==
  /\ stopFile /\ stopFile' = FALSE
  /\ cntrl' \in {cntrl, {}}
  /\ UNCHANGED <<mpc, forkVars, loopVars, mopen, flagVars, pageVars, grace, kid,
                 serving, inherited, queue, peerVars>>

MonitorStep ==
  PageRegenerates \/ PageKills \/ PageFlags \/ PageRefreshes \/ PageEnds
-----------------------------------------------------------------------------
(* A child p.                                                              *)

KidStarts(p) ==
  /\ kid[p] = "starting"
  /\ kid' = [kid EXCEPT ![p] = "check"]
  /\ cntrl' = cntrl \cup {p}
  /\ UNCHANGED <<mpc, forkVars, loopVars, mopen, flagVars, stopFile, pageVars,
                 grace, serving, inherited, queue, peerVars>>

KidChecks(p) ==
  /\ kid[p] = "check"
  /\ kid' = [kid EXCEPT ![p] = IF stopFile THEN "receive" ELSE "left"]
  /\ UNCHANGED <<mpc, forkVars, loopVars, mopen, flagVars, stopFile, pageVars,
                 grace, cntrl, serving, inherited, queue, peerVars>>

\* receive_fd, then MSG_PEEK, which finds nothing when the client is gone
\* without a request; else the connection is submitted to the pool.
KidReceives(p) ==
  LET c == Head(queue[p]) IN
    /\ kid[p] = "receive" /\ queue[p] # <<>>
    /\ kid' = [kid EXCEPT ![p] = "check"]
    /\ queue' = [queue EXCEPT ![p] = Tail(@)]
    /\ IF peer[c] = "gone"
       THEN served' = served \cup {c} /\ UNCHANGED serving
       ELSE serving' = [serving EXCEPT ![p] = @ \cup {c}] /\ UNCHANGED served
    /\ UNCHANGED <<mpc, forkVars, loopVars, mopen, flagVars, stopFile, pageVars,
                   grace, cntrl, inherited, backlog, peer>>

\* ServiceTask::run on a worker of the child, which ends by closing.
KidServes(p, c) ==
  /\ c \in serving[p]
  /\ serving' = [serving EXCEPT ![p] = @ \ {c}]
  /\ served' = served \cup {c}
  /\ UNCHANGED <<mpc, forkVars, loopVars, mopen, flagVars, stopFile, pageVars,
                 grace, kid, cntrl, inherited, queue, backlog, peer>>

\* Out of its loop a child joins its pool and returns 0 into main, where that
\* becomes its own pds[j]; at the end of main kill(0, SIGKILL) is sent to every
\* process of the group.
KidReturns(p) ==
  /\ kid[p] = "left" /\ serving[p] = {}
  /\ Killed({q \in Pid : Alive(q)})
  /\ IF MasterAlive
     THEN /\ mpc' = "killed" /\ mopen' = {} /\ watched' = {}
          /\ page' = "off" /\ grace' = "done" /\ backlog' = <<>>
     ELSE UNCHANGED <<mpc, mopen, watched, page, grace, backlog>>
  /\ UNCHANGED <<forkVars, childNo, events, desc, flagVars, stopFile, kslot,
                 stale, edits, queue, peer, served>>

KidStep(p) ==
  KidStarts(p) \/ KidChecks(p) \/ KidReceives(p) \/ KidReturns(p)
-----------------------------------------------------------------------------
(* The clients.                                                            *)

Connect(c) ==
  /\ peer[c] = "away" /\ MasterAlive
  /\ peer' = [peer EXCEPT ![c] = "quiet"]
  /\ backlog' = Append(backlog, c)
  /\ UNCHANGED <<mpc, forkVars, loopVars, mopen, flagVars, stopFile, pageVars,
                 grace, kidVars, queue, served>>

SendOrHangUp(c) ==
  /\ peer[c] = "quiet" /\ MasterAlive
  /\ peer' \in {[peer EXCEPT ![c] = "sent"], [peer EXCEPT ![c] = "gone"]}
  /\ UNCHANGED <<mpc, forkVars, loopVars, mopen, flagVars, stopFile, pageVars,
                 grace, kidVars, queue, backlog, served>>

Next ==
  \/ MasterStep \/ PollInterrupted \/ MonitorStep \/ EditPage
  \/ WakeMaster \/ StopServer
  \/ \E p \in Pid : KidStep(p) \/ \E c \in AnyConn : KidServes(p, c)
  \/ \E c \in Conn : Connect(c) \/ SendOrHangUp(c)

Spec == Init /\ [][Next]_vars

\* Processes and threads run, getEvents is not interrupted for ever, and
\* requests end: clients send them whole, and a worker closes a connection
\* that is idle for KEEP_ALIVE_SECONDS.
FairSpec ==
  /\ Spec
  /\ WF_vars(MasterStep) /\ SF_vars(GetEvents)
  /\ WF_vars(MonitorStep) /\ WF_vars(WakeMaster)
  /\ \A p \in Pid :
       WF_vars(KidStep(p)) /\ \A c \in AnyConn : WF_vars(KidServes(p, c))
-----------------------------------------------------------------------------
(* Properties.                                                             *)

\* The type of the state (the variables of CHServer.cpp).
TypeOK ==
  /\ mpc \in {"fork", "record", "settle", "poll", "reforked", "handle", "send",
              "close", "exited", "killed"}
  /\ slot \in Slot /\ forks \in {0} \cup Pid
  /\ pds \in [Slot -> {0} \cup Pid] /\ sp \in [Slot -> {0} \cup Pid]
  /\ files \in Seq(Pid) /\ Len(files) <= NumProc
  /\ childNo \in 0 .. NumProc
  /\ events \subseteq AnyConn \cup {Listener}
  /\ desc \in AnyConn \cup {NoConn}
  /\ watched \subseteq mopen /\ mopen \subseteq AnyConn
  /\ processforcekilled \in BOOLEAN /\ processgendone \in BOOLEAN
  /\ stopFile \in BOOLEAN
  /\ page \in {"off", "sleep", "killing", "flag", "refresh"}
  /\ kslot \in Slot /\ stale \in BOOLEAN /\ edits \in 0 .. MaxEdits
  /\ grace \in {"off", "watch", "done"}
  /\ kid \in [Pid -> {"none", "starting", "check", "receive", "left", "dead"}]
  /\ cntrl \subseteq Pid
  /\ queue \in [Pid -> Seq(AnyConn)]
  /\ serving \in [Pid -> SUBSET AnyConn]
  /\ inherited \in [Pid -> SUBSET AnyConn]
  /\ backlog \in Seq(AnyConn)
  /\ peer \in [AnyConn -> {"away", "quiet", "sent", "gone"}]
  /\ served \subseteq AnyConn

\* The hands a connection can be in: the kernel, the event set, the main loop,
\* a socket pair, the pool of a child.
Places(c) ==
  (IF c \in Waiting THEN {<<0, "backlog">>} ELSE {})
    \cup (IF c \in watched THEN {<<0, "watched">>} ELSE {})
    \cup (IF c = desc /\ MasterAlive THEN {<<0, "desc">>} ELSE {})
    \cup {<<p, "pair">> : p \in {q \in Pid : c \in Queued(q)}}
    \cup {<<p, "pool">> : p \in {q \in Pid : c \in serving[q]}}

\* A connection is in one hand at a time, and in none once a child has closed
\* it: no request is served by two children, none after its end, and none by a
\* child while the master still polls it, whatever children are killed and
\* forked again (TakeConnection and SendConnection against getEvents).
OneHand ==
  /\ \A c \in AnyConn : Cardinality(Places(c)) <= 1
  /\ \A c \in served : Places(c) = {}
  /\ \A p \in Pid : Cardinality(Queued(p)) = Len(queue[p])

\* In its event loop the master has one child per slot: the .cntrl file it
\* looks for, the socket pair it writes to and the pid it would kill are of the
\* same process (files, sp and pds are changed by both forking loops).
SlotsAgree ==
  mpc \in {"poll", "handle", "send", "close"}
    => /\ Len(files) = NumProc
       /\ \A j \in Slot : files[j] = pds[j] /\ sp[j] = pds[j]

\* The descriptors of a connection in all processes and socket pairs.
Holds(c) ==
  \/ c \in mopen
  \/ \E p \in Pid : c \in inherited[p] \cup serving[p] \cup Queued(p)

\* While no page changes, a connection that a child has closed is closed: no
\* other process keeps a copy, on which the client would wait for the end of
\* the response (close(descriptor) in send_connection, and no fork after the
\* first accept).
ClosedForAll == \A c \in served : ~Holds(c)

\* While no page changes and the server is not stopped, the master never loses
\* sight of a connection it has accepted: it watches it or is passing it on
\* (the break of the event loop leaves one that is neither).
NothingAbandoned == stopFile => mopen = watched \cup ({desc} \ {NoConn})

\* A client that has sent its request, or is gone, is served or dismissed
\* unless the server is stopped: the turn of its child comes, a full socket
\* pair drains, and no batch of events leaves it out.
EveryRequestServed ==
  \A c \in Conn :
    peer[c] \in {"sent", "gone"} ~> (c \in served \/ ~stopFile)

\* Once ffead.cntrl is removed the server ends and leaves no process: the
\* connection of gracefullShutdown_monitor wakes the master wherever it sleeps.
ServerStops ==
  ~stopFile ~> (~MasterAlive /\ \A p \in Pid : ~Alive(p))

\* The event loop gives up a readable connection only when, as it logs, "Child
\* Process got killed": the child whose turn it is is dead, or the operator has
\* removed the control files.
AbandonedOnlyIfKilled ==
  [][\A c \in AnyConn :
       (TakeConnection(c) /\ desc' = NoConn /\ stopFile)
         => kid[files[NextChild(childNo) + 1]] = "dead"]_vars
=============================================================================
