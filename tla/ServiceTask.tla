------------------------------ MODULE ServiceTask ------------------------------
(***************************************************************************)
(* ServiceTask::run: the tasks of one server process, one for a connection, *)
(* each a loop that waits for a request, reads it, loads the session, sends *)
(* the request through the handlers, saves the session and answers.  They   *)
(* share the table of descriptors of the process, the session files, the    *)
(* clock the session names are read from, and the one object of each REST   *)
(* controller.                                                               *)
(***************************************************************************)
EXTENDS WebPages

CONSTANTS
  Conn,        \* connections, in the order a client opens them
  Fd,          \* descriptors of the process
  None,        \* no session, no connection
  Workload,    \* the workloads: each names its connections and what they send
  Request,     \* the requests: Request[r], what WebHandlers needs to know of r
  Scene,       \* Scene[w]: [conns, owner, requests, sent, pipelined, impatient, tls]
  MaxClock     \* readings of the clock that differ

ASSUME TaskAssumption ==
  /\ MaxClock \in Nat \ {0}
  /\ Workload = DOMAIN Scene
  /\ \A w \in Workload : Scene[w].conns \subseteq Conn \cap DOMAIN Scene[w].sent
  /\ \A w \in Workload : \A c \in Scene[w].conns : Scene[w].requests[c] \subseteq DOMAIN Request
  /\ \A r \in DOMAIN Request : /\ {"method", "paramSize"} \subseteq DOMAIN Request[r]
                               /\ Request[r].size \in Nat /\ Request[r].paramSize \in Int
  /\ None \notin Conn /\ None \notin Fd /\ None \notin DOMAIN Request /\ None \notin 1 .. MaxClock

VARIABLES
  workload, tls,  \* chosen at the start
  table,          \* the connection each descriptor leads to
  task,           \* the task of each connection
  inbox,          \* what was sent on a connection and not read from the socket
  outbox,         \* the answers sent on it
  gone,           \* the connections their client has closed
  cookie,         \* the session each client names in its requests
  store,          \* the session files
  now,            \* Timer::getCurrentTime
  bean,           \* the request and the response a controller's object points to
  \* What the properties speak of, no part of the program:
  acked,          \* acked[id]: what answered requests have put in the session
  ghost           \* [sent, reused, collided, named, mixed, overlapped, proved]: what has happened

taskVars == <<workload, tls, table, task, inbox, outbox, gone, cookie, store, now, bean, acked, ghost>>

Clients == UNION {{Scene[w].owner[c] : c \in Scene[w].conns} : w \in Workload}
Owner(c) == Scene[workload].owner[c]

Blank2 == [items |-> {}, role |-> ""]
Idle == [pc |-> "new", fd |-> None, buffer |-> <<>>, rq |-> None, left |-> 0, got |-> 0,
         by |-> None, id |-> None, fresh |-> FALSE, sess |-> Blank2, rs |-> NewResponse,
         dirty |-> FALSE, adds |-> {}, call |-> NoCall]

TaskInit ==
  /\ workload \in Workload
  /\ tls \in Scene[workload].tls
  /\ table = [f \in Fd |-> None]
  /\ task = [c \in Conn |-> Idle]
  /\ inbox = [c \in Conn |-> <<>>]
  /\ outbox = [c \in Conn |-> <<>>]
  /\ gone = {}
  /\ cookie = [u \in Clients |-> None]
  /\ store = <<>>
  /\ now = 1
  /\ bean = [request |-> None, response |-> None]
  /\ acked = <<>>
  /\ ghost = [sent |-> [c \in Conn |-> 0], reused |-> FALSE, collided |-> FALSE, named |-> 0,
              mixed |-> FALSE, overlapped |-> {}, proved |-> {}]

\* The connection at the other end of the task's descriptor; another one, or
\* none, once somebody else has closed it.
Peer(c) == IF task[c].fd = None THEN None ELSE table[task[c].fd]
\* The socket can be read: data, or the end.
Readable(c) == Peer(c) # None /\ (inbox[Peer(c)] # <<>> \/ Peer(c) \in gone)

Goto(c, pc) == task' = [task EXCEPT ![c].pc = pc]

-----------------------------------------------------------------------------
(* The clients. *)
Body(r) == [i \in 1 .. Request[r].size |-> [kind |-> "body"]]

\* A client sends a request; it names its session.
Send(c) ==
  /\ c \in Scene[workload].conns \ gone
  /\ ghost.sent[c] < Scene[workload].sent[c]
  /\ Scene[workload].pipelined \/ Len(outbox[c]) = ghost.sent[c]
  /\ \E r \in Scene[workload].requests[c] :
       inbox' = [inbox EXCEPT ![c] = @ \o <<[kind |-> "head", rq |-> r, id |-> cookie[Owner(c)], by |-> Owner(c)]>> \o Body(r)]
  /\ ghost' = [ghost EXCEPT !.sent[c] = @ + 1]
  /\ UNCHANGED <<workload, tls, table, task, outbox, gone, cookie, store, now, bean, acked>>

\* A client closes its connection.
HangUp(c) ==
  /\ Scene[workload].impatient
  /\ c \in Scene[workload].conns \ gone
  /\ task[c].pc \notin {"new", "done"}
  /\ gone' = gone \cup {c}
  /\ UNCHANGED <<workload, tls, table, task, inbox, outbox, cookie, store, now, bean, acked, ghost>>

-----------------------------------------------------------------------------
\* The process receives a connection: the lowest free descriptor leads to it.
Accept(c) ==
  /\ c \in Scene[workload].conns
  /\ task[c].pc = "new"
  /\ \E f \in Fd :
       /\ table[f] = None
       /\ \A g \in Fd : table[g] = None => f <= g
       /\ table' = [table EXCEPT ![f] = c]
       /\ task' = [task EXCEPT ![c].pc = "wait", ![c].fd = f]
       /\ ghost' = [ghost EXCEPT !.reused = @ \/ \E d \in Conn : task[d].pc = "reclose" /\ task[d].fd = f]
  /\ UNCHANGED <<workload, tls, inbox, outbox, gone, cookie, store, now, bean, acked>>

\* checkSocketWaitForTimeout ends without data: it looks at the socket, not at
\* what the buffer of the connection already holds.  Where clients are patient
\* they send what they have to send before it ends.
TimeOutIfEmpty(c) ==
  /\ task[c].pc = "wait" /\ task[c].buffer = <<>>
  /\ ~Readable(c)
  /\ Scene[workload].impatient \/ ghost.sent[c] = Scene[workload].sent[c]
  /\ Goto(c, "close")
  /\ UNCHANGED <<workload, tls, table, inbox, outbox, gone, cookie, store, now, bean, acked, ghost>>

TimeOut(c) ==
  /\ task[c].pc = "wait"
  /\ ~Readable(c)
  /\ Scene[workload].impatient \/ ghost.sent[c] = Scene[workload].sent[c]
  /\ Goto(c, "close")
  /\ UNCHANGED <<workload, tls, table, inbox, outbox, gone, cookie, store, now, bean, acked, ghost>>

\* The client has closed: there is nothing more to read.
EndOfFile(c) ==
  /\ task[c].pc \in {"wait", "body"}
  /\ Readable(c)
  /\ inbox[Peer(c)] = <<>> /\ task[c].buffer = <<>>
  /\ Goto(c, "close")
  /\ UNCHANGED <<workload, tls, table, inbox, outbox, gone, cookie, store, now, bean, acked, ghost>>

Refused == [answer |-> Answer(Status(NewResponse, 400), <<>>), kept |-> FALSE, rq |-> None, got |-> 0, sess |-> Blank2]

\* Reading the head fills the buffer with what has come, some of it.  What is
\* left of a body is taken for a request and refused.
ReadRequest(c) ==
  /\ task[c].pc = "wait"
  /\ Readable(c)
  /\ \E n \in (IF inbox[Peer(c)] = <<>> THEN {0} ELSE 1 .. Len(inbox[Peer(c)])) :
       LET got == task[c].buffer \o SubSeq(inbox[Peer(c)], 1, n)
       IN  /\ got # <<>>
           /\ inbox' = [inbox EXCEPT ![Peer(c)] = SubSeq(@, n + 1, Len(@))]
           /\ IF got[1].kind = "body"
              THEN /\ task' = [task EXCEPT ![c].pc = "close", ![c].buffer = Tail(got)]
                   /\ outbox' = [outbox EXCEPT ![Peer(c)] = Append(@, Refused)]
              ELSE /\ task' = [task EXCEPT ![c].buffer = Tail(got), ![c].rq = got[1].rq, ![c].id = got[1].id,
                                           ![c].by = got[1].by, ![c].fresh = got[1].id = None,
                                           ![c].left = Request[got[1].rq].size, ![c].got = 0, ![c].sess = Blank2,
                                           ![c].pc = IF Request[got[1].rq].size > 0 THEN "body" ELSE "load"]
                   /\ UNCHANGED outbox
  /\ UNCHANGED <<workload, tls, table, gone, cookie, store, now, bean, acked, ghost>>

\* readData, a buffer at a time.  Under TLS every piece is counted twice.
CountedTwice(n) == 2 * n
Counted(n) == IF tls THEN 2 * n ELSE n

ReadData(c) ==
  /\ task[c].pc = "body"
  /\ LET left == task[c].left - Counted(1)
         next == IF left > 0 THEN "body" ELSE "load"
     IN  \/ /\ task[c].buffer # <<>>
            /\ task' = [task EXCEPT ![c].buffer = Tail(@), ![c].left = left, ![c].got = @ + 1, ![c].pc = next]
            /\ UNCHANGED inbox
         \/ /\ task[c].buffer = <<>>
            /\ Readable(c) /\ inbox[Peer(c)] # <<>>
            /\ inbox' = [inbox EXCEPT ![Peer(c)] = Tail(@)]
            /\ task' = [task EXCEPT ![c].left = left, ![c].got = @ + 1, ![c].pc = next]
  /\ UNCHANGED <<workload, tls, table, outbox, gone, cookie, store, now, bean, acked, ghost>>

-----------------------------------------------------------------------------
\* A request of the session is between loading it and saving it.
InSession(c, id) ==
  /\ task[c].id = id
  /\ task[c].pc \in {"request", "response", "invoke", "two", "store", "trunc", "write"}

\* The application's filter puts the item of the request into the session.
Added(c, x) ==
  IF x.rq.item # None /\ <<"in", "adder">> \in ToSet(x.called) THEN {<<task[c].by, x.rq.item>>} ELSE {}

\* getSessionDataFromFile: a file that is missing, or that somebody has just
\* opened to write, holds nothing.
SessionOfAnyone(id) == IF DOMAIN store = {} THEN Blank2 ELSE store[Min(DOMAIN store)]
Session(id) == IF id = None THEN Blank2 ELSE At(store, id, Blank2)

Overlapping(c) == \E d \in Conn \ {c} : task[c].id # None /\ InSession(d, task[c].id)

\* The handlers work on a request alone, with the role its session has.
LoginOf(rq) == LoginRole(SecurityOf(rq), rq)
Roles == {"", Anonymous} \cup {LoginOf(Request[r]).role : r \in DOMAIN Request}
Handled == [r \in DOMAIN Request |-> [role \in Roles |-> UnlessCalled(PhaseOne(Request[r], role))]]

\* The role of the user that a request names with the right password.
RolesProved ==
  [r \in DOMAIN Request |-> IF Request[r].user # <<>> /\ LoginOf(Request[r]).valid THEN {LoginOf(Request[r]).role} ELSE {}]
Proof(c) == {<<task[c].by, role>> : role \in RolesProved[task[c].rq]}

\* The session is loaded and the request goes through the handlers.  An
\* exception: the task waits for the next request; nothing is answered.
Load(c) ==
  /\ task[c].pc = "load"
  /\ LET sess == Session(task[c].id)
         x    == Handled[task[c].rq][sess.role]
         adds == Added(c, x)
     IN  task' = [task EXCEPT ![c].rs = x.rs, ![c].dirty = x.dirty \/ adds # {}, ![c].adds = adds, ![c].call = x.call,
                    ![c].sess = [items |-> sess.items \cup adds, role |-> x.role],
                    ![c].pc = IF x.threw THEN "wait" ELSE IF x.call # NoCall THEN "request" ELSE "store"]
  /\ ghost' = [ghost EXCEPT !.overlapped = @ \cup (IF Overlapping(c) THEN {task[c].id} ELSE {}), !.proved = @ \cup Proof(c)]
  /\ UNCHANGED <<workload, tls, table, inbox, outbox, gone, cookie, store, now, bean, acked>>

\* The controller's object is told the request, then the response.
BindRequest(c) ==
  /\ task[c].pc = "request"
  /\ bean' = [bean EXCEPT !.request = c]
  /\ ghost' = [ghost EXCEPT !.mixed = @ \/ \E d \in Conn \ {c} : task[d].pc \in {"request", "response", "invoke"}]
  /\ Goto(c, "response")
  /\ UNCHANGED <<workload, tls, table, inbox, outbox, gone, cookie, store, now, acked>>

BindResponseOnce(c) ==
  /\ task[c].pc = "response"
  /\ bean' = [bean EXCEPT !.response = IF @ = None THEN c ELSE @]
  /\ Goto(c, "invoke")
  /\ UNCHANGED <<workload, tls, table, inbox, outbox, gone, cookie, store, now, acked, ghost>>

BindResponse(c) ==
  /\ task[c].pc = "response"
  /\ bean' = [bean EXCEPT !.response = c]
  /\ Goto(c, "invoke")
  /\ UNCHANGED <<workload, tls, table, inbox, outbox, gone, cookie, store, now, acked, ghost>>

\* It writes to the response it was told last.  A response that is gone is
\* memory of a stack: nobody sees what is written there.
Invoke(c) ==
  /\ task[c].pc = "invoke"
  /\ LET d == bean.response
         live == task[d].pc \in {"request", "response", "invoke", "two", "store"}
     IN  task' = [e \in Conn |->
                    LET t == IF e = d /\ live THEN [task[e] EXCEPT !.rs = Invoked(@, task[c].call)]
                             ELSE task[e]
                    IN  IF e = c THEN [t EXCEPT !.pc = "two"] ELSE t]
  /\ UNCHANGED <<workload, tls, table, inbox, outbox, gone, cookie, store, now, bean, acked, ghost>>

PhaseTwoStep(c) ==
  /\ task[c].pc = "two"
  /\ LET x == Finished(Request[task[c].rq], task[c].sess.role, task[c].rs)
     IN  task' = [task EXCEPT ![c].rs = x.rs, ![c].pc = IF x.threw THEN "wait" ELSE "store"]
  /\ UNCHANGED <<workload, tls, table, inbox, outbox, gone, cookie, store, now, bean, acked, ghost>>

-----------------------------------------------------------------------------
\* storeSessionAttributes.  A request without a session gets one, named by the
\* clock; a session that was changed is saved.
StoreSessionAlways(c) ==
  /\ task[c].pc = "store"
  /\ IF task[c].id = None
     THEN /\ task' = [task EXCEPT ![c].id = now, ![c].pc = "trunc"]
          /\ ghost' = [ghost EXCEPT !.collided = @ \/ ghost.named = now, !.named = now]
          /\ now' \in {now} \cup {n \in {now + 1} : n <= MaxClock}
     ELSE /\ Goto(c, "trunc")
          /\ UNCHANGED <<now, ghost>>
  /\ UNCHANGED <<workload, tls, table, inbox, outbox, gone, cookie, store, bean, acked>>

StoreSession(c) ==
  /\ task[c].pc = "store"
  /\ IF task[c].id = None
     THEN /\ task' = [task EXCEPT ![c].id = now, ![c].pc = IF task[c].dirty THEN "trunc" ELSE "send"]
          /\ ghost' = [ghost EXCEPT !.collided = @ \/ ghost.named = now, !.named = now]
          /\ now' \in {now} \cup {n \in {now + 1} : n <= MaxClock}
     ELSE /\ Goto(c, IF task[c].dirty THEN "trunc" ELSE "send")
          /\ UNCHANGED <<now, ghost>>
  /\ UNCHANGED <<workload, tls, table, inbox, outbox, gone, cookie, store, bean, acked>>

\* saveSessionDataToFile: opening the file empties it.
Truncate(c) ==
  /\ task[c].pc = "trunc"
  /\ store' = Put(store, task[c].id, Blank2)
  /\ Goto(c, "write")
  /\ UNCHANGED <<workload, tls, table, inbox, outbox, gone, cookie, now, bean, acked, ghost>>

WriteNewOnly(c) ==
  /\ task[c].pc = "write"
  /\ store' = Put(store, task[c].id, [task[c].sess EXCEPT !.items = task[c].adds])
  /\ Goto(c, "send")
  /\ UNCHANGED <<workload, tls, table, inbox, outbox, gone, cookie, now, bean, acked, ghost>>

Write(c) ==
  /\ task[c].pc = "write"
  /\ store' = Put(store, task[c].id, task[c].sess)
  /\ Goto(c, "send")
  /\ UNCHANGED <<workload, tls, table, inbox, outbox, gone, cookie, now, bean, acked, ghost>>

\* What the client sees: the framed answer, with what the properties speak of.
Kept(c) == KeepsAlive(Request[task[c].rq], task[c].rs)
Sent(c) ==
  [answer |-> GenerateResponse(task[c].rs, Request[task[c].rq].method),
   kept |-> Kept(c), rq |-> task[c].rq, got |-> task[c].got, sess |-> task[c].sess]

\* The answer reaches whoever is at the other end; to a request without a session
\* it names the new one.  A client that has gone, or a descriptor that is closed,
\* makes the sending fail.
SendData(c) ==
  /\ task[c].pc = "send"
  /\ IF Peer(c) = None \/ Peer(c) \in gone
     THEN /\ Goto(c, "close")
          /\ UNCHANGED <<outbox, cookie, acked>>
     ELSE /\ outbox' = [outbox EXCEPT ![Peer(c)] = Append(@, Sent(c))]
          /\ cookie' = [cookie EXCEPT ![Owner(Peer(c))] = IF task[c].fresh THEN task[c].id ELSE @]
          /\ acked' = Put(acked, task[c].id, At(acked, task[c].id, {}) \cup task[c].adds)
          /\ task' = [task EXCEPT ![c] = [Idle EXCEPT !.pc = IF Kept(c) THEN "wait" ELSE "close", !.fd = task[c].fd,
                                                     !.buffer = task[c].buffer, !.id = task[c].id]]
  /\ UNCHANGED <<workload, tls, table, inbox, gone, store, now, bean, ghost>>

\* closeSocket.  Without TLS the descriptor is closed with the BIO, and then
\* once more, whoever has it by then.
Close(c) ==
  /\ task[c].pc = "close"
  /\ table' = [table EXCEPT ![task[c].fd] = None]
  /\ Goto(c, IF tls THEN "done" ELSE "reclose")
  /\ UNCHANGED <<workload, tls, inbox, outbox, gone, cookie, store, now, bean, acked, ghost>>

CloseAgain(c) ==
  /\ task[c].pc = "reclose"
  /\ table' = [table EXCEPT ![task[c].fd] = None]
  /\ Goto(c, "done")
  /\ UNCHANGED <<workload, tls, inbox, outbox, gone, cookie, store, now, bean, acked, ghost>>

-----------------------------------------------------------------------------
TaskStep(c) ==
  \/ TimeOut(c) \/ EndOfFile(c) \/ ReadRequest(c) \/ ReadData(c) \/ Load(c)
  \/ BindRequest(c) \/ BindResponse(c) \/ Invoke(c) \/ PhaseTwoStep(c)
  \/ StoreSession(c) \/ Truncate(c) \/ Write(c) \/ SendData(c) \/ Close(c) \/ CloseAgain(c)

TaskNext == \E c \in Conn : Send(c) \/ HangUp(c) \/ Accept(c) \/ TaskStep(c)

\* The threads of the pool go on, and so does the process that receives.  A
\* patient client sends what it has to send: it is not timed out before.
PatientSend(c) == ~Scene[workload].impatient /\ Send(c)

TaskFairness ==
  \A c \in Conn : WF_taskVars(TaskStep(c)) /\ WF_taskVars(Accept(c)) /\ WF_taskVars(PatientSend(c))

TaskSpec == TaskInit /\ [][TaskNext]_taskVars /\ TaskFairness
-----------------------------------------------------------------------------
Pcs == {"new", "wait", "body", "load", "request", "response", "invoke", "two", "store",
        "trunc", "write", "send", "close", "reclose", "done"}

\* A task's type, and what goes with where it is.
TaskTypeOK ==
  /\ \A f \in Fd : table[f] \in Conn \cup {None}
  /\ \A c \in Conn :
       /\ task[c].pc \in Pcs
       /\ task[c].pc \notin {"new"} => task[c].fd \in Fd
       /\ task[c].pc = "body" => task[c].left > 0
       /\ task[c].pc \in {"trunc", "write"} => task[c].id # None /\ task[c].dirty
  /\ now \in 1 .. MaxClock
  /\ DOMAIN store \subseteq 1 .. MaxClock

Answers == UNION {{[on |-> c, a |-> outbox[c][i]] : i \in DOMAIN outbox[c]} : c \in Conn}
Served == {r \in Answers : r.a # Refused}

\* readData reads the whole body, and no body is taken for a request, unless
\* TLS is on and the body is longer than a buffer, when each piece counts twice.
BodyIsWhole ==
  \/ ghost.reused
  \/ /\ \A r \in Served : r.a.got = Request[r.a.rq].size \/ (tls /\ Request[r.a.rq].size > 1)
     /\ Answers # Served => tls

\* What a request finds in its session was put there by requests of the same
\* client, unless two sessions got their names from equal readings of the
\* clock.
SessionsStayApart ==
  \A r \in Served : \/ ghost.collided \/ ghost.reused
                    \/ \A i \in r.a.sess.items : i[1] = Owner(r.on)

Saving(id) == \E c \in Conn : task[c].id = id /\ task[c].pc \in {"write"}

\* What an answered request has put into its session stays in the file, unless
\* two requests of the session were between loading and saving it at once:
\* nobody makes the .lck file that saveSessionDataToFile waits for.
UpdatesSurvive ==
  \A id \in DOMAIN acked :
    \/ ghost.collided \/ id \in ghost.overlapped \/ Saving(id)
    \/ acked[id] \subseteq At(store, id, Blank2).items

\* A request for a REST controller is answered with what its own call gave,
\* unless two requests were in the same controller at once: there is one object
\* of it, told the response to write to by each.
OwnAnswer(a) ==
  Request[a.rq].calls # "" => a.answer.status = 200 /\ a.answer.body[1] = Request[a.rq].calls

AnswersOwn == \A r \in Served : ghost.mixed \/ OwnAnswer(r.a)

\* Where an answer ends without the connection being closed.
Delimited(a) ==
  \/ a.answer.chunked \/ Request[a.rq].method = "HEAD" \/ a.answer.status = 304
  \/ a.answer.length = Len(a.answer.body)

\* On a connection that is kept the client can tell where each answer ends,
\* but for a redirection, an answer to OPTIONS, one whose ranges are all
\* refused, and one that no handler has given a status.
EndIsKnown(a) ==
  \/ ~a.kept \/ Delimited(a)
  \/ a.answer.status \in {0, 307} \/ Request[a.rq].method = "OPTIONS"
  \/ a.answer.status = 206 /\ a.answer.body = <<>>

AnswersDelimited == \A r \in Served : ghost.mixed \/ EndIsKnown(r.a)

\* A page that a role is needed for goes only to a client that has named a user
\* of that role with the right password; unless two sessions got one name, or
\* another's answer was written over the one that refuses.
ProtectedNeedsLogin ==
  \A r \in Served : \/ RoleOf(Request[r.a.rq]) \in {"", Anonymous} \/ r.a.answer.status # 200
                    \/ ghost.collided \/ ghost.reused \/ ghost.mixed
                    \/ <<Owner(r.on), RoleOf(Request[r.a.rq])>> \in ghost.proved

\* What a request alone is answered.
Alone(r, role) ==
  LET x == Handled[r][role]
  IN  IF x.threw \/ x.call = NoCall THEN x ELSE Finished(Request[r], x.role, Invoked(x.rs, x.call))

AnswerAlone(r, role) ==
  LET rs == Alone(r, role).rs
  IN  [answer |-> GenerateResponse(rs, Request[r].method), kept |-> KeepsAlive(Request[r], rs), rq |-> r]

\* Alone, a request for a REST controller is answered with what its call gave.
CallsAnswer == \A r \in DOMAIN Request, role \in Roles : ~Alone(r, role).threw => OwnAnswer(AnswerAlone(r, role))

\* Every request that is sent is answered, or its connection is closed: also
\* after an exception, which leaves it open, because of the time-out of the
\* wait for the next request.
EveryRequestEnds ==
  \A c \in Conn : ghost.sent[c] > Len(outbox[c]) ~>
                     (ghost.sent[c] <= Len(outbox[c]) \/ task[c].pc = "done" \/ c \in gone \/ ghost.reused)
=============================================================================
