--------------------------- MODULE ServiceTaskProofs ---------------------------
(***************************************************************************)
(* Proofs about the tasks of ServiceTask, for any connections, clients,    *)
(* requests, workloads, descriptors and readings of the clock.             *)
(***************************************************************************)
EXTENDS ServiceTask, WebPagesProofs

TaskFields == {"pc", "fd", "buffer", "rq", "left", "got", "by", "id", "fresh", "sess", "rs", "dirty", "adds", "call"}
GhostFields == {"sent", "reused", "collided", "named", "mixed", "overlapped", "proved"}

\* The sessions that have been named, or none; what a client sends.
Given == 1 .. ghost.named \cup {None}
ItemOf(n) == [kind : {"body"}]
               \cup [kind : {"head"}, rq : DOMAIN Request, id : 1 .. n \cup {None}, by : Clients]
Item == ItemOf(ghost.named)

\* Where a task has a request.
Active == {"body", "load", "request", "response", "invoke", "two", "store", "trunc", "write", "send"}

Shape ==
  /\ DOMAIN task = Conn
  /\ \A c \in Conn : DOMAIN task[c] = TaskFields
  /\ DOMAIN ghost = GhostFields

\* What a step of the task c leaves of the tasks.
Only(c, F) ==
  /\ DOMAIN task' = Conn
  /\ DOMAIN task'[c] = TaskFields
  /\ \A d \in Conn \ {c} : task'[d] = task[d]
  /\ \A f \in TaskFields \ F : task'[c][f] = task[c][f]

GhostKept == ghost' = ghost

LEMMA GotoOnly ==
  ASSUME Shape, NEW c \in Conn, NEW pc, Goto(c, pc)
  PROVE  Only(c, {"pc"}) /\ task'[c].pc = pc
BY DEF Shape, Goto, Only, TaskFields

LEMMA AcceptOnly ==
  ASSUME Shape, NEW c \in Conn, Accept(c)
  PROVE  \E f \in Fd :
           /\ table[f] = None
           /\ table' = [table EXCEPT ![f] = c]
           /\ Only(c, {"pc", "fd"}) /\ task'[c].pc = "wait" /\ task'[c].fd = f
           /\ ghost' = [ghost EXCEPT !.reused = @ \/ \E d \in Conn : task[d].pc = "reclose" /\ task[d].fd = f]
<1>1. PICK f \in Fd : /\ table[f] = None
                      /\ table' = [table EXCEPT ![f] = c]
                      /\ task' = [task EXCEPT ![c].pc = "wait", ![c].fd = f]
                      /\ ghost' = [ghost EXCEPT !.reused = @ \/ \E d \in Conn : task[d].pc = "reclose" /\ task[d].fd = f]
  BY DEF Accept
<1>2. Only(c, {"pc", "fd"}) /\ task'[c].pc = "wait" /\ task'[c].fd = f
  BY <1>1 DEF Shape, Only, TaskFields
<1>. QED BY <1>1, <1>2

HeadRead(c, got) ==
  /\ Only(c, {"pc", "buffer", "rq", "id", "by", "fresh", "left", "got", "sess"})
  /\ task'[c].buffer = Tail(got)
  /\ task'[c].rq = got[1].rq
  /\ task'[c].id = got[1].id
  /\ task'[c].by = got[1].by
  /\ task'[c].left = Request[got[1].rq].size
  /\ task'[c].got = 0
  /\ task'[c].sess = Blank2
  /\ task'[c].pc = IF Request[got[1].rq].size > 0 THEN "body" ELSE "load"
  /\ UNCHANGED outbox

BodyRefused(c, got) ==
  /\ Only(c, {"pc", "buffer"})
  /\ task'[c].buffer = Tail(got)
  /\ task'[c].pc = "close"
  /\ outbox' = [outbox EXCEPT ![Peer(c)] = Append(@, Refused)]

LEMMA ReadRequestOnly ==
  ASSUME Shape, NEW c \in Conn, ReadRequest(c)
  PROVE  /\ task[c].pc = "wait"
         /\ Peer(c) # None
         /\ \E n \in Nat : LET got == task[c].buffer \o SubSeq(inbox[Peer(c)], 1, n)
                 IN  /\ n <= Len(inbox[Peer(c)]) /\ got # <<>>
                     /\ inbox' = [inbox EXCEPT ![Peer(c)] = SubSeq(@, n + 1, Len(@))]
                     /\ \/ got[1].kind = "body" /\ BodyRefused(c, got)
                        \/ got[1].kind # "body" /\ HeadRead(c, got)
         /\ UNCHANGED <<workload, tls, table, gone, cookie, store, now, bean, acked, ghost>>
<1>1. task[c].pc = "wait" /\ Peer(c) # None
      /\ UNCHANGED <<workload, tls, table, gone, cookie, store, now, bean, acked, ghost>>
  BY DEF ReadRequest, Readable
<1>2. PICK n \in (IF inbox[Peer(c)] = <<>> THEN {0} ELSE 1 .. Len(inbox[Peer(c)])) :
       LET got == task[c].buffer \o SubSeq(inbox[Peer(c)], 1, n)
       IN  /\ got # <<>>
           /\ inbox' = [inbox EXCEPT ![Peer(c)] = SubSeq(@, n + 1, Len(@))]
           /\ IF got[1].kind = "body"
              THEN /\ task' = [task EXCEPT ![c].pc = "close", ![c].buffer = Tail(got)]
                   /\ outbox' = [outbox EXCEPT ![Peer(c)] = Append(@, Refused)]
              ELSE /\ task' = [task EXCEPT ![c].buffer = Tail(got), ![c].rq = got[1].rq, ![c].id = got[1].id,
                                           ![c].by = got[1].by, ![c].fresh = got[1].id = None,
                                           ![c].left = Request[got[1].rq].size, ![c].got = 0, ![c].sess = Blank2,
                                           ![c].pc = IF Request[got[1].rq].size > 0 THEN "body" ELSE "load"]
                   /\ UNCHANGED outbox
  BY DEF ReadRequest
<1> DEFINE got == task[c].buffer \o SubSeq(inbox[Peer(c)], 1, n)
<1> HIDE DEF got
<1>3. n \in Nat /\ n <= Len(inbox[Peer(c)])
  <2>1. CASE inbox[Peer(c)] = <<>> BY <2>1
  <2>2. CASE inbox[Peer(c)] # <<>> BY <2>2
  <2>. QED BY <2>1, <2>2
<1>4. ASSUME got[1].kind = "body" PROVE BodyRefused(c, got)
  <2>1. task' = [task EXCEPT ![c].pc = "close", ![c].buffer = Tail(got)]
        /\ outbox' = [outbox EXCEPT ![Peer(c)] = Append(@, Refused)]
    BY <1>2, <1>4 DEF got
  <2>. QED BY <2>1 DEF Shape, Only, TaskFields, BodyRefused
<1>5. ASSUME got[1].kind # "body" PROVE HeadRead(c, got)
  <2>1. task' = [task EXCEPT ![c].buffer = Tail(got), ![c].rq = got[1].rq, ![c].id = got[1].id,
                             ![c].by = got[1].by, ![c].fresh = got[1].id = None,
                             ![c].left = Request[got[1].rq].size, ![c].got = 0, ![c].sess = Blank2,
                             ![c].pc = IF Request[got[1].rq].size > 0 THEN "body" ELSE "load"]
        /\ UNCHANGED outbox
    BY <1>2, <1>5 DEF got
  <2> DEFINE rq == got[1].rq
             id == got[1].id
             by == got[1].by
             fresh == got[1].id = None
             left == Request[got[1].rq].size
             pc == IF Request[got[1].rq].size > 0 THEN "body" ELSE "load"
             buffer == Tail(got)
  <2>2. task' = [task EXCEPT ![c].buffer = buffer, ![c].rq = rq, ![c].id = id, ![c].by = by, ![c].fresh = fresh,
                             ![c].left = left, ![c].got = 0, ![c].sess = Blank2, ![c].pc = pc]
    BY <2>1
  <2> HIDE DEF rq, id, by, fresh, left, pc, buffer
  <2>3. /\ task'[c].buffer = buffer /\ task'[c].rq = rq /\ task'[c].id = id /\ task'[c].by = by
        /\ task'[c].left = left /\ task'[c].got = 0 /\ task'[c].sess = Blank2 /\ task'[c].pc = pc
    <3>1. /\ task'[c].buffer = buffer /\ task'[c].rq = rq /\ task'[c].id = id /\ task'[c].by = by
      BY SMTT(60), <2>2 DEF Shape, TaskFields
    <3>2. /\ task'[c].left = left /\ task'[c].got = 0 /\ task'[c].sess = Blank2 /\ task'[c].pc = pc
      BY SMTT(60), <2>2 DEF Shape, TaskFields
    <3>. QED BY <3>1, <3>2
  <2>4. /\ task'[c].fd = task[c].fd /\ task'[c].rs = task[c].rs /\ task'[c].dirty = task[c].dirty
        /\ task'[c].adds = task[c].adds /\ task'[c].call = task[c].call
    BY <2>2 DEF Shape, TaskFields
  <2>5. DOMAIN task' = Conn /\ DOMAIN task'[c] = TaskFields /\ \A d \in Conn \ {c} : task'[d] = task[d]
    BY <2>2 DEF Shape, TaskFields
  <2>6. Only(c, {"pc", "buffer", "rq", "id", "by", "fresh", "left", "got", "sess"})
    BY <2>4, <2>5 DEF Only, TaskFields
  <2>. QED BY <2>1, <2>3, <2>6 DEF HeadRead, rq, id, by, left, pc, buffer
<1>6. got # <<>> /\ inbox' = [inbox EXCEPT ![Peer(c)] = SubSeq(@, n + 1, Len(@))]
  BY <1>2 DEF got
<1>. QED BY <1>1, <1>3, <1>4, <1>5, <1>6 DEF got

LEMMA ReadDataOnly ==
  ASSUME Shape, NEW c \in Conn, ReadData(c)
  PROVE  /\ task[c].pc = "body"
         /\ task'[c].left = task[c].left - Counted(1)
         /\ task'[c].got = task[c].got + 1
         /\ task'[c].pc = IF task'[c].left > 0 THEN "body" ELSE "load"
         /\ \/ /\ task[c].buffer # <<>>
               /\ Only(c, {"pc", "buffer", "left", "got"})
               /\ task'[c].buffer = Tail(task[c].buffer)
               /\ inbox' = inbox
            \/ /\ task[c].buffer = <<>>
               /\ Peer(c) # None /\ inbox[Peer(c)] # <<>>
               /\ Only(c, {"pc", "left", "got"})
               /\ inbox' = [inbox EXCEPT ![Peer(c)] = Tail(@)]
         /\ UNCHANGED <<workload, tls, table, outbox, gone, cookie, store, now, bean, acked, ghost>>
<1> DEFINE left == task[c].left - Counted(1)
           next == IF left > 0 THEN "body" ELSE "load"
<1>1. /\ task[c].pc = "body"
      /\ \/ /\ task[c].buffer # <<>>
            /\ task' = [task EXCEPT ![c].buffer = Tail(@), ![c].left = left, ![c].got = @ + 1, ![c].pc = next]
            /\ inbox' = inbox
         \/ /\ task[c].buffer = <<>>
            /\ Peer(c) # None /\ inbox[Peer(c)] # <<>>
            /\ inbox' = [inbox EXCEPT ![Peer(c)] = Tail(@)]
            /\ task' = [task EXCEPT ![c].left = left, ![c].got = @ + 1, ![c].pc = next]
      /\ UNCHANGED <<workload, tls, table, outbox, gone, cookie, store, now, bean, acked, ghost>>
  BY DEF ReadData, Readable
<1> HIDE DEF left, next
<1>2. CASE /\ task[c].buffer # <<>>
           /\ task' = [task EXCEPT ![c].buffer = Tail(@), ![c].left = left, ![c].got = @ + 1, ![c].pc = next]
           /\ inbox' = inbox
  <2>1. Only(c, {"pc", "buffer", "left", "got"})
    BY <1>2 DEF Shape, Only, TaskFields
  <2>2. /\ task'[c].left = left /\ task'[c].got = task[c].got + 1 /\ task'[c].pc = next
        /\ task'[c].buffer = Tail(task[c].buffer)
    BY <1>2 DEF Shape, TaskFields
  <2>. QED BY <1>1, <1>2, <2>1, <2>2 DEF left, next
<1>3. CASE /\ task[c].buffer = <<>>
           /\ Peer(c) # None /\ inbox[Peer(c)] # <<>>
           /\ inbox' = [inbox EXCEPT ![Peer(c)] = Tail(@)]
           /\ task' = [task EXCEPT ![c].left = left, ![c].got = @ + 1, ![c].pc = next]
  <2>1. Only(c, {"pc", "left", "got"})
    BY <1>3 DEF Shape, Only, TaskFields
  <2>2. /\ task'[c].left = left /\ task'[c].got = task[c].got + 1 /\ task'[c].pc = next
    BY <1>3 DEF Shape, TaskFields
  <2>. QED BY <1>1, <1>3, <2>1, <2>2 DEF left, next
<1>. QED BY <1>1, <1>2, <1>3

\* What the handlers have made of the request of c.
Outcome(c) == Handled[task[c].rq][Session(task[c].id).role]
AddsOf(c) == Added(c, Outcome(c))
LoadGhost(c) ==
  ghost' = [ghost EXCEPT !.overlapped = @ \cup (IF Overlapping(c) THEN {task[c].id} ELSE {}), !.proved = @ \cup Proof(c)]

LEMMA GhostLoaded ==
  ASSUME Shape, NEW c \in Conn, LoadGhost(c)
  PROVE  /\ DOMAIN ghost' = GhostFields
         /\ ghost'.overlapped = ghost.overlapped \cup (IF Overlapping(c) THEN {task[c].id} ELSE {})
         /\ ghost'.proved = ghost.proved \cup Proof(c)
         /\ ghost'.sent = ghost.sent /\ ghost'.reused = ghost.reused /\ ghost'.collided = ghost.collided
         /\ ghost'.named = ghost.named /\ ghost'.mixed = ghost.mixed
<1>1. PICK over, proved : /\ over = ghost.overlapped \cup (IF Overlapping(c) THEN {task[c].id} ELSE {})
                          /\ proved = ghost.proved \cup Proof(c)
  OBVIOUS
<1>2. ghost' = [ghost EXCEPT !.overlapped = over, !.proved = proved]
  BY <1>1 DEF LoadGhost
<1>. QED BY <1>1, <1>2 DEF Shape, GhostFields

LEMMA LoadOnly ==
  ASSUME Shape, NEW c \in Conn, Load(c)
  PROVE  /\ task[c].pc = "load"
         /\ Only(c, {"pc", "rs", "dirty", "adds", "call", "sess"})
         /\ task'[c].adds = AddsOf(c)
         /\ AddsOf(c) # {} => task'[c].dirty
         /\ task'[c].sess.items = Session(task[c].id).items \cup AddsOf(c)
         /\ task'[c].sess.role = Outcome(c).role
         /\ task'[c].rs = Outcome(c).rs /\ task'[c].call = Outcome(c).call
         /\ task'[c].pc \in {"wait", "request", "store"}
         /\ task'[c].pc = IF Outcome(c).threw THEN "wait" ELSE IF Outcome(c).call # NoCall THEN "request" ELSE "store"
         /\ LoadGhost(c)
         /\ UNCHANGED <<workload, tls, table, inbox, outbox, gone, cookie, store, now, bean, acked>>
<1> DEFINE sess == [items |-> Session(task[c].id).items \cup AddsOf(c), role |-> Outcome(c).role]
           rs == Outcome(c).rs
           dirty == Outcome(c).dirty \/ AddsOf(c) # {}
           call == Outcome(c).call
           pc == IF Outcome(c).threw THEN "wait" ELSE IF Outcome(c).call # NoCall THEN "request" ELSE "store"
           adds == AddsOf(c)
<1>1. /\ task[c].pc = "load"
      /\ task' = [task EXCEPT ![c].rs = rs, ![c].dirty = dirty, ![c].adds = adds,
                              ![c].call = call, ![c].sess = sess, ![c].pc = pc]
      /\ LoadGhost(c)
      /\ UNCHANGED <<workload, tls, table, inbox, outbox, gone, cookie, store, now, bean, acked>>
  BY DEF Load, Outcome, AddsOf, LoadGhost
<1>2. /\ pc \in {"wait", "request", "store"} /\ (adds # {} => dirty)
      /\ sess.items = Session(task[c].id).items \cup adds /\ sess.role = Outcome(c).role
  OBVIOUS
<1> HIDE DEF sess, rs, dirty, call, pc, adds
<1>3. /\ task'[c].adds = adds /\ task'[c].sess = sess /\ task'[c].pc = pc /\ task'[c].dirty = dirty
      /\ task'[c].rs = rs /\ task'[c].call = call
  BY <1>1 DEF Shape, TaskFields
<1>4. Only(c, {"pc", "rs", "dirty", "adds", "call", "sess"})
  BY <1>1 DEF Shape, Only, TaskFields
<1>. QED BY <1>1, <1>2, <1>3, <1>4 DEF adds, sess, rs, call, pc

\* Another task's answer may be written to: the rest of what it has stays.
LEMMA InvokeOnly ==
  ASSUME Shape, NEW c \in Conn, Invoke(c)
  PROVE  /\ task[c].pc = "invoke"
         /\ DOMAIN task' = Conn
         /\ task'[c].pc = "two"
         /\ \A d \in Conn : /\ DOMAIN task'[d] = TaskFields
                            /\ \A f \in TaskFields \ {"pc", "rs"} : task'[d][f] = task[d][f]
         /\ \A d \in Conn \ {c} : task'[d].pc = task[d].pc
         /\ UNCHANGED <<workload, tls, table, inbox, outbox, gone, cookie, store, now, bean, acked, ghost>>
<1> DEFINE live(d) == task[d].pc \in {"request", "response", "invoke", "two", "store"}
           t(e) == IF e = bean.response /\ live(bean.response) THEN [task[e] EXCEPT !.rs = Invoked(@, task[c].call)]
                   ELSE task[e]
<1>1. /\ task[c].pc = "invoke"
      /\ task' = [e \in Conn |-> IF e = c THEN [t(e) EXCEPT !.pc = "two"] ELSE t(e)]
      /\ UNCHANGED <<workload, tls, table, inbox, outbox, gone, cookie, store, now, bean, acked, ghost>>
  BY DEF Invoke
<1>2. \A e \in Conn : /\ DOMAIN t(e) = TaskFields
                      /\ \A f \in TaskFields \ {"rs"} : t(e)[f] = task[e][f]
  BY DEF Shape, TaskFields
<1> HIDE DEF t
<1>3. task'[c] = [t(c) EXCEPT !.pc = "two"] /\ \A d \in Conn \ {c} : task'[d] = t(d)
  BY <1>1
<1>4. /\ DOMAIN task'[c] = TaskFields /\ task'[c].pc = "two"
      /\ \A f \in TaskFields \ {"pc", "rs"} : task'[c][f] = task[c][f]
  BY <1>2, <1>3 DEF TaskFields
<1>. QED BY <1>1, <1>2, <1>3, <1>4 DEF TaskFields

LEMMA PhaseTwoOnly ==
  ASSUME Shape, NEW c \in Conn, PhaseTwoStep(c)
  PROVE  /\ task[c].pc = "two"
         /\ Only(c, {"pc", "rs"})
         /\ task'[c].pc \in {"wait", "store"}
         /\ UNCHANGED <<workload, tls, table, inbox, outbox, gone, cookie, store, now, bean, acked, ghost>>
<1> DEFINE x == Finished(Request[task[c].rq], task[c].sess.role, task[c].rs)
           rs == x.rs
           pc == IF x.threw THEN "wait" ELSE "store"
<1>1. /\ task[c].pc = "two"
      /\ task' = [task EXCEPT ![c].rs = rs, ![c].pc = pc]
      /\ UNCHANGED <<workload, tls, table, inbox, outbox, gone, cookie, store, now, bean, acked, ghost>>
  BY DEF PhaseTwoStep
<1>2. pc \in {"wait", "store"}
  OBVIOUS
<1> HIDE DEF rs, pc
<1>. QED BY <1>1, <1>2 DEF Shape, Only, TaskFields

LEMMA StoreSessionOnly ==
  ASSUME Shape, NEW c \in Conn, StoreSession(c)
  PROVE  /\ task[c].pc = "store"
         /\ task'[c].pc = IF task[c].dirty THEN "trunc" ELSE "send"
         /\ Only(c, {"pc", "id"})
         /\ \/ /\ task[c].id = None
               /\ task'[c].id = now
               /\ ghost' = [ghost EXCEPT !.collided = @ \/ ghost.named = now, !.named = now]
               /\ now' \in {now} \cup {n \in {now + 1} : n <= MaxClock}
            \/ /\ task[c].id # None
               /\ task'[c].id = task[c].id
               /\ UNCHANGED <<now, ghost>>
         /\ UNCHANGED <<workload, tls, table, inbox, outbox, gone, cookie, store, bean, acked>>
<1> DEFINE pc == IF task[c].dirty THEN "trunc" ELSE "send"
<1> HIDE DEF pc
<1>1. CASE task[c].id = None
  <2>1. task' = [task EXCEPT ![c].id = now, ![c].pc = pc]
    BY <1>1 DEF StoreSession, pc
  <2>2. Only(c, {"pc", "id"}) /\ task'[c].id = now /\ task'[c].pc = pc
    BY <2>1 DEF Shape, Only, TaskFields
  <2>. QED BY <1>1, <2>2 DEF StoreSession, pc
<1>2. CASE task[c].id # None
  <2>1. Goto(c, pc)
    BY <1>2 DEF StoreSession, pc
  <2>2. Only(c, {"pc"}) /\ task'[c].pc = pc
    BY <2>1, GotoOnly
  <2>3. Only(c, {"pc", "id"}) /\ task'[c].id = task[c].id
    BY <2>2 DEF Only, TaskFields
  <2>. QED BY <1>2, <2>2, <2>3 DEF StoreSession, pc
<1>. QED BY <1>1, <1>2

LEMMA SendDataOnly ==
  ASSUME Shape, NEW c \in Conn, SendData(c)
  PROVE  /\ task[c].pc = "send"
         /\ \/ /\ Only(c, {"pc"}) /\ task'[c].pc = "close"
               /\ UNCHANGED <<outbox, cookie, acked>>
            \/ /\ Peer(c) # None
               /\ Only(c, TaskFields \ {"fd", "buffer", "id"})
               /\ task'[c].pc \in {"wait", "close"}
               /\ task'[c].adds = {}
               /\ outbox' = [outbox EXCEPT ![Peer(c)] = Append(@, Sent(c))]
               /\ cookie' = [cookie EXCEPT ![Owner(Peer(c))] = IF task[c].fresh THEN task[c].id ELSE @]
               /\ acked' = Put(acked, task[c].id, At(acked, task[c].id, {}) \cup task[c].adds)
         /\ UNCHANGED <<workload, tls, table, inbox, gone, store, now, bean, ghost>>
<1>1. CASE Peer(c) = None \/ Peer(c) \in gone
  <2>1. Goto(c, "close")
    BY <1>1 DEF SendData
  <2>. QED BY <1>1, <2>1, GotoOnly DEF SendData
<1>2. CASE ~(Peer(c) = None \/ Peer(c) \in gone)
  <2> DEFINE pc == IF Kept(c) THEN "wait" ELSE "close"
  <2>0. pc \in {"wait", "close"}
    OBVIOUS
  <2> HIDE DEF pc
  <2>1. task' = [task EXCEPT ![c] = [Idle EXCEPT !.pc = pc, !.fd = task[c].fd, !.buffer = task[c].buffer, !.id = task[c].id]]
    BY <1>2 DEF SendData, pc
  <2> DEFINE t == [Idle EXCEPT !.pc = pc, !.fd = task[c].fd, !.buffer = task[c].buffer, !.id = task[c].id]
  <2>2. DOMAIN t = TaskFields /\ t.pc = pc /\ t.fd = task[c].fd /\ t.buffer = task[c].buffer /\ t.id = task[c].id
        /\ t.adds = {}
    BY DEF Idle, TaskFields
  <2> HIDE DEF t
  <2>3. task' = [task EXCEPT ![c] = t]
    BY <2>1 DEF t
  <2>4. Only(c, TaskFields \ {"fd", "buffer", "id"}) /\ task'[c].pc = pc /\ task'[c].adds = {}
    BY <2>2, <2>3 DEF Shape, Only, TaskFields
  <2>. QED BY <1>2, <2>0, <2>4 DEF SendData
<1>. QED BY <1>1, <1>2

-----------------------------------------------------------------------------
(* Types.  A session that is named somewhere has been named: its name is at *)
(* most the last reading a name was taken from.                            *)
Later == Active \ {"body", "load"}

TaskOK(c) ==
  /\ task[c].pc \in Pcs
  /\ task[c].pc # "new" => task[c].fd \in Fd
  /\ task[c].buffer \in Seq(Item)
  /\ task[c].id \in Given
  /\ task[c].pc \in Active => /\ task[c].rq \in DOMAIN Request /\ task[c].by \in Clients
                              /\ task[c].left \in Int /\ task[c].got \in Nat
  /\ task[c].pc = "body" => task[c].left > 0
  /\ task[c].pc \in {"trunc", "write", "send"} => task[c].id # None
  /\ task[c].pc \in {"trunc", "write"} => task[c].dirty
  /\ task[c].pc \in Later /\ task[c].adds # {} => task[c].dirty

OthersOK ==
  /\ workload \in Workload
  /\ table \in [Fd -> Conn \cup {None}]
  /\ inbox \in [Conn -> Seq(Item)]
  /\ cookie \in [Clients -> Given]
  /\ now \in 1 .. MaxClock
  /\ ghost.named \in 0 .. now
  /\ DOMAIN store \subseteq 1 .. ghost.named
  /\ DOMAIN acked \subseteq 1 .. ghost.named

TypeInv == Shape /\ OthersOK /\ \A c \in Conn : TaskOK(c)

LEMMA ItemsGrow ==
  ASSUME NEW m \in Nat, NEW n \in Nat, m <= n
  PROVE  Seq(ItemOf(m)) \subseteq Seq(ItemOf(n))
<1>1. ItemOf(m) \subseteq ItemOf(n)
  <2>1. 1 .. m \subseteq 1 .. n
    OBVIOUS
  <2>. QED BY <2>1 DEF ItemOf
<1>. QED BY <1>1

\* The clients' connections have owners among the clients.
LEMMA OwnersAreClients ==
  ASSUME workload \in Workload, NEW c \in Scene[workload].conns
  PROVE  c \in Conn /\ Owner(c) \in Clients
<1>1. c \in Conn
  BY TaskAssumption
<1>2. Owner(c) \in {Scene[workload].owner[d] : d \in Scene[workload].conns}
  BY DEF Owner
<1>. QED BY <1>1, <1>2 DEF Clients

LEMMA TypeInit == TaskInit => TypeInv
<1> SUFFICES ASSUME TaskInit PROVE TypeInv
  OBVIOUS
<1>1. Shape
  BY DEF TaskInit, Shape, Idle, TaskFields, GhostFields
<1>2. ghost.named = 0 /\ now = 1 /\ 1 \in 1 .. MaxClock
  BY TaskAssumption DEF TaskInit
<1>3. OthersOK
  <2>1. <<>> \in Seq(Item)
    OBVIOUS
  <2>2. DOMAIN <<>> = {}
    OBVIOUS
  <2>. QED BY <1>2, <2>1, <2>2 DEF TaskInit, OthersOK, Given
<1>4. ASSUME NEW c \in Conn PROVE TaskOK(c)
  <2>1. task[c].pc = "new" /\ task[c].buffer = <<>> /\ task[c].id = None
    BY DEF TaskInit, Idle
  <2>2. <<>> \in Seq(Item)
    OBVIOUS
  <2>. QED BY <2>1, <2>2 DEF TaskOK, Pcs, Active, Later, Given
<1>. QED BY <1>1, <1>3, <1>4 DEF TypeInv

\* A step of c that names nothing leaves the other tasks' types alone.
LEMMA OthersStay ==
  ASSUME TypeInv, NEW c \in Conn, NEW F, Only(c, F), ghost'.named = ghost.named, TaskOK(c)'
  PROVE  \A d \in Conn : TaskOK(d)'
<1>1. Item' = Item /\ Given' = Given
  BY DEF Item, Given
<1>2. ASSUME NEW d \in Conn \ {c} PROVE TaskOK(d)'
  <2>1. task'[d] = task[d] /\ TaskOK(d)
    BY DEF TypeInv, Only
  <2>. QED BY <1>1, <2>1 DEF TaskOK
<1>. QED BY <1>2

LEMMA ShapeStays ==
  ASSUME Shape, NEW c \in Conn, NEW F, Only(c, F), DOMAIN ghost' = GhostFields
  PROVE  Shape'
BY DEF Shape, Only

\* A step that only moves c on.
LEMMA TypeMoved ==
  ASSUME TypeInv, NEW c \in Conn, Only(c, {"pc"}), task'[c].pc \in Pcs \ {"new", "body"},
         task'[c].pc \in Active => task[c].pc \in Active,
         task'[c].pc \in Later => task[c].pc \in Later,
         task'[c].pc \in {"trunc", "write", "send"} => task[c].id # None,
         task'[c].pc \in {"trunc", "write"} => task[c].dirty,
         task[c].pc # "new",
         DOMAIN ghost' = GhostFields, ghost'.named = ghost.named
  PROVE  Shape' /\ \A d \in Conn : TaskOK(d)'
<1>1. Item' = Item /\ Given' = Given
  BY DEF Item, Given
<1>2. /\ task'[c].fd = task[c].fd /\ task'[c].buffer = task[c].buffer /\ task'[c].id = task[c].id
      /\ task'[c].rq = task[c].rq /\ task'[c].by = task[c].by /\ task'[c].left = task[c].left
      /\ task'[c].got = task[c].got /\ task'[c].dirty = task[c].dirty /\ task'[c].adds = task[c].adds
  BY DEF Only, TaskFields
<1>3. TaskOK(c)
  BY DEF TypeInv
<1>4. TaskOK(c)'
  BY <1>1, <1>2, <1>3 DEF TaskOK
<1>. QED BY <1>4, OthersStay, ShapeStays DEF TypeInv

LEMMA SentItems ==
  ASSUME TypeInv, NEW c \in Scene[workload].conns, NEW r \in Scene[workload].requests[c]
  PROVE  /\ r \in DOMAIN Request /\ Request[r].size \in Nat
         /\ <<[kind |-> "head", rq |-> r, id |-> cookie[Owner(c)], by |-> Owner(c)]>> \in Seq(Item)
         /\ Body(r) \in Seq(Item) /\ Len(Body(r)) = Request[r].size
         /\ \A i \in 1 .. Len(Body(r)) : Body(r)[i].kind = "body"
<1>1. r \in DOMAIN Request /\ Request[r].size \in Nat
  BY TaskAssumption DEF TypeInv, OthersOK
<1>2. Owner(c) \in Clients /\ cookie[Owner(c)] \in Given
  BY OwnersAreClients DEF TypeInv, OthersOK
<1>3. [kind |-> "head", rq |-> r, id |-> cookie[Owner(c)], by |-> Owner(c)] \in Item
  BY <1>1, <1>2 DEF Item, ItemOf, Given
<1>4. <<[kind |-> "head", rq |-> r, id |-> cookie[Owner(c)], by |-> Owner(c)]>> \in Seq(Item)
  BY <1>3
<1>5. [kind |-> "body"] \in Item
  BY DEF Item, ItemOf
<1>6. Body(r) \in [1 .. Request[r].size -> Item]
  BY <1>5 DEF Body
<1>7. Body(r) \in Seq(Item) /\ Len(Body(r)) = Request[r].size
  BY <1>1, <1>6
<1>8. \A i \in 1 .. Request[r].size : Body(r)[i].kind = "body"
  BY DEF Body
<1>. QED BY <1>1, <1>4, <1>7, <1>8

LEMMA TypeSend ==
  ASSUME TypeInv, NEW c \in Conn, Send(c)
  PROVE  TypeInv'
<1>1. PICK r \in Scene[workload].requests[c] :
        inbox' = [inbox EXCEPT ![c] = @ \o <<[kind |-> "head", rq |-> r, id |-> cookie[Owner(c)], by |-> Owner(c)]>> \o Body(r)]
  BY DEF Send
<1>2. ghost'.named = ghost.named /\ DOMAIN ghost' = GhostFields
  BY DEF Send, TypeInv, Shape, GhostFields
<1>3. Item' = Item /\ Given' = Given
  BY <1>2 DEF Item, Given
<1>4. c \in Scene[workload].conns
  BY DEF Send
<1> DEFINE head == <<[kind |-> "head", rq |-> r, id |-> cookie[Owner(c)], by |-> Owner(c)]>>
<1>5. head \in Seq(Item) /\ Body(r) \in Seq(Item) /\ inbox[c] \in Seq(Item)
  BY <1>4, SentItems DEF TypeInv, OthersOK
<1> HIDE DEF head
<1>6. inbox[c] \o head \o Body(r) \in Seq(Item)
  BY <1>5
<1>7. inbox' \in [Conn -> Seq(Item)]
  BY <1>1, <1>6 DEF head, TypeInv, OthersOK
<1>8. task' = task /\ UNCHANGED <<workload, table, cookie, now, store, acked>>
  BY DEF Send
<1>9. OthersOK'
  BY <1>2, <1>3, <1>7, <1>8 DEF TypeInv, OthersOK
<1>10. Shape'
  BY <1>2, <1>8 DEF TypeInv, Shape
<1>11. \A d \in Conn : TaskOK(d)'
  BY <1>3, <1>8 DEF TypeInv, TaskOK
<1>. QED BY <1>9, <1>10, <1>11 DEF TypeInv

LEMMA TypeAccept ==
  ASSUME TypeInv, NEW c \in Conn, Accept(c)
  PROVE  TypeInv'
<1>1. PICK f \in Fd :
           /\ table[f] = None
           /\ table' = [table EXCEPT ![f] = c]
           /\ Only(c, {"pc", "fd"}) /\ task'[c].pc = "wait" /\ task'[c].fd = f
           /\ ghost' = [ghost EXCEPT !.reused = @ \/ \E d \in Conn : task[d].pc = "reclose" /\ task[d].fd = f]
  BY AcceptOnly DEF TypeInv
<1>2. ghost'.named = ghost.named /\ DOMAIN ghost' = GhostFields
  BY <1>1 DEF TypeInv, Shape, GhostFields
<1>3. Item' = Item /\ Given' = Given
  BY <1>2 DEF Item, Given
<1>4. UNCHANGED <<workload, inbox, cookie, now, store, acked>>
  BY DEF Accept
<1>5. table' \in [Fd -> Conn \cup {None}]
  BY <1>1 DEF TypeInv, OthersOK
<1>6. OthersOK'
  BY <1>2, <1>3, <1>4, <1>5 DEF TypeInv, OthersOK
<1>7. TaskOK(c)'
  <2>1. task'[c].buffer = task[c].buffer /\ task'[c].id = task[c].id
    BY <1>1 DEF Only, TaskFields
  <2>. QED BY <1>1, <1>3, <2>1 DEF TypeInv, TaskOK, Pcs, Active, Later
<1>. QED BY <1>1, <1>2, <1>6, <1>7, OthersStay, ShapeStays DEF TypeInv

LEMMA TypeReadRequest ==
  ASSUME TypeInv, NEW c \in Conn, ReadRequest(c)
  PROVE  TypeInv'
<1>1. PICK n \in Nat :
        LET got == task[c].buffer \o SubSeq(inbox[Peer(c)], 1, n)
        IN  /\ n <= Len(inbox[Peer(c)]) /\ got # <<>>
            /\ inbox' = [inbox EXCEPT ![Peer(c)] = SubSeq(@, n + 1, Len(@))]
            /\ \/ got[1].kind = "body" /\ BodyRefused(c, got)
               \/ got[1].kind # "body" /\ HeadRead(c, got)
  BY ReadRequestOnly DEF TypeInv
<1>2. /\ task[c].pc = "wait" /\ Peer(c) # None
      /\ UNCHANGED <<workload, tls, table, gone, cookie, store, now, bean, acked, ghost>>
  BY ReadRequestOnly DEF TypeInv
<1>3. Item' = Item /\ Given' = Given /\ ghost'.named = ghost.named /\ DOMAIN ghost' = GhostFields
  BY <1>2 DEF Item, Given, TypeInv, Shape
<1>4. TaskOK(c)
  BY DEF TypeInv
<1>5. Peer(c) \in Conn
  BY <1>2, <1>4 DEF Peer, TypeInv, OthersOK, TaskOK
<1> DEFINE got == task[c].buffer \o SubSeq(inbox[Peer(c)], 1, n)
           rest == SubSeq(inbox[Peer(c)], n + 1, Len(inbox[Peer(c)]))
<1>6. inbox[Peer(c)] \in Seq(Item)
  BY <1>5 DEF TypeInv, OthersOK
<1>7. SubSeq(inbox[Peer(c)], 1, n) \in Seq(Item) /\ rest \in Seq(Item)
  <2>1. \A s \in Seq(Item) : \A i, j \in Int : (\A k \in i .. j : k \in 1 .. Len(s)) => SubSeq(s, i, j) \in Seq(Item)
    BY SubSeqProperties
  <2>. QED BY <1>1, <1>6, <2>1
<1>8. got \in Seq(Item)
  BY <1>4, <1>7 DEF TaskOK
<1>9. /\ got # <<>> /\ inbox' = [inbox EXCEPT ![Peer(c)] = rest]
      /\ \/ got[1].kind = "body" /\ BodyRefused(c, got)
         \/ got[1].kind # "body" /\ HeadRead(c, got)
  BY <1>1
<1> HIDE DEF got, rest
<1>10. got[1] \in Item /\ Tail(got) \in Seq(Item)
  BY <1>8, <1>9
<1>11. inbox' \in [Conn -> Seq(Item)]
  BY <1>5, <1>7, <1>9 DEF TypeInv, OthersOK
<1>12. OthersOK'
  BY <1>2, <1>3, <1>11 DEF TypeInv, OthersOK
<1>13. CASE got[1].kind = "body" /\ BodyRefused(c, got)
  <2>1. /\ Only(c, {"pc", "buffer"}) /\ task'[c].buffer = Tail(got) /\ task'[c].pc = "close"
    BY <1>13 DEF BodyRefused
  <2>2. task'[c].fd = task[c].fd /\ task'[c].id = task[c].id
    BY <2>1 DEF Only, TaskFields
  <2>3. TaskOK(c)'
    BY <1>2, <1>3, <1>4, <1>10, <2>1, <2>2 DEF TaskOK, Pcs, Active, Later
  <2>. QED BY <1>3, <1>12, <2>1, <2>3, OthersStay, ShapeStays DEF TypeInv
<1>14. CASE got[1].kind # "body" /\ HeadRead(c, got)
  <2>1. /\ Only(c, {"pc", "buffer", "rq", "id", "by", "fresh", "left", "got", "sess"})
        /\ task'[c].buffer = Tail(got)
        /\ task'[c].rq = got[1].rq /\ task'[c].id = got[1].id /\ task'[c].by = got[1].by
        /\ task'[c].left = Request[got[1].rq].size /\ task'[c].got = 0
        /\ task'[c].pc = IF Request[got[1].rq].size > 0 THEN "body" ELSE "load"
    BY <1>14 DEF HeadRead
  <2>2. task'[c].fd = task[c].fd
    BY <2>1 DEF Only, TaskFields
  <2>3. got[1].rq \in DOMAIN Request /\ got[1].id \in Given /\ got[1].by \in Clients
    BY <1>10, <1>14 DEF Item, ItemOf, Given
  <2>4. Request[got[1].rq].size \in Nat
    BY <2>3, TaskAssumption
  <2>5. TaskOK(c)'
    BY <1>2, <1>3, <1>4, <1>10, <2>1, <2>2, <2>3, <2>4 DEF TaskOK, Pcs, Active, Later
  <2>. QED BY <1>3, <1>12, <2>1, <2>5, OthersStay, ShapeStays DEF TypeInv
<1>. QED BY <1>9, <1>13, <1>14

LEMMA TypeReadData ==
  ASSUME TypeInv, NEW c \in Conn, ReadData(c)
  PROVE  TypeInv'
<1>1. /\ task[c].pc = "body"
      /\ task'[c].left = task[c].left - Counted(1)
      /\ task'[c].got = task[c].got + 1
      /\ task'[c].pc = IF task'[c].left > 0 THEN "body" ELSE "load"
      /\ \/ /\ task[c].buffer # <<>>
            /\ Only(c, {"pc", "buffer", "left", "got"})
            /\ task'[c].buffer = Tail(task[c].buffer)
            /\ inbox' = inbox
         \/ /\ task[c].buffer = <<>>
            /\ Peer(c) # None /\ inbox[Peer(c)] # <<>>
            /\ Only(c, {"pc", "left", "got"})
            /\ inbox' = [inbox EXCEPT ![Peer(c)] = Tail(@)]
      /\ UNCHANGED <<workload, tls, table, outbox, gone, cookie, store, now, bean, acked, ghost>>
  BY ReadDataOnly DEF TypeInv
<1>2. Item' = Item /\ Given' = Given /\ ghost'.named = ghost.named /\ DOMAIN ghost' = GhostFields
  BY <1>1 DEF Item, Given, TypeInv, Shape
<1>3. TaskOK(c)
  BY DEF TypeInv
<1>4. Counted(1) \in Int
  BY DEF Counted
<1>5. Only(c, {"pc", "buffer", "left", "got"}) /\ task'[c].buffer \in Seq(Item)
  <2>1. CASE task[c].buffer # <<>> /\ Only(c, {"pc", "buffer", "left", "got"}) /\ task'[c].buffer = Tail(task[c].buffer)
    BY <1>3, <2>1 DEF TaskOK
  <2>2. CASE Only(c, {"pc", "left", "got"})
    BY <1>3, <2>2 DEF Only, TaskFields, TaskOK
  <2>. QED BY <1>1, <2>1, <2>2
<1>6. inbox' \in [Conn -> Seq(Item)]
  <2>1. CASE inbox' = inbox
    BY <2>1 DEF TypeInv, OthersOK
  <2>2. CASE Peer(c) # None /\ inbox[Peer(c)] # <<>> /\ inbox' = [inbox EXCEPT ![Peer(c)] = Tail(@)]
    <3>1. Peer(c) \in Conn
      BY <1>1, <1>3, <2>2 DEF Peer, TypeInv, OthersOK, TaskOK
    <3>2. inbox[Peer(c)] \in Seq(Item)
      BY <3>1 DEF TypeInv, OthersOK
    <3>. QED BY <2>2, <3>1, <3>2 DEF TypeInv, OthersOK
  <2>. QED BY <1>1, <2>1, <2>2
<1>7. OthersOK'
  BY <1>1, <1>2, <1>6 DEF TypeInv, OthersOK
<1>8. /\ task'[c].fd = task[c].fd /\ task'[c].id = task[c].id /\ task'[c].rq = task[c].rq
      /\ task'[c].by = task[c].by
  BY <1>5 DEF Only, TaskFields
<1>9. task'[c].left \in Int /\ task'[c].got \in Nat
  BY <1>1, <1>3, <1>4 DEF TaskOK, Active
<1>10. TaskOK(c)'
  BY <1>1, <1>2, <1>3, <1>5, <1>8, <1>9 DEF TaskOK, Pcs, Active, Later
<1>. QED BY <1>2, <1>5, <1>7, <1>10, OthersStay, ShapeStays DEF TypeInv

LEMMA TypeLoad ==
  ASSUME TypeInv, NEW c \in Conn, Load(c)
  PROVE  TypeInv'
<1>1. /\ task[c].pc = "load"
      /\ Only(c, {"pc", "rs", "dirty", "adds", "call", "sess"})
      /\ task'[c].adds = AddsOf(c)
      /\ AddsOf(c) # {} => task'[c].dirty
      /\ task'[c].pc \in {"wait", "request", "store"}
      /\ LoadGhost(c)
      /\ UNCHANGED <<workload, tls, table, inbox, outbox, gone, cookie, store, now, bean, acked>>
  BY LoadOnly DEF TypeInv
<1>2. ghost'.named = ghost.named /\ DOMAIN ghost' = GhostFields
  BY <1>1, GhostLoaded DEF TypeInv
<1>3. Item' = Item /\ Given' = Given
  BY <1>2 DEF Item, Given
<1>4. OthersOK'
  BY <1>1, <1>2, <1>3 DEF TypeInv, OthersOK
<1>5. /\ task'[c].fd = task[c].fd /\ task'[c].id = task[c].id /\ task'[c].rq = task[c].rq
      /\ task'[c].by = task[c].by /\ task'[c].left = task[c].left /\ task'[c].got = task[c].got
      /\ task'[c].buffer = task[c].buffer
  BY <1>1 DEF Only, TaskFields
<1>6. TaskOK(c)
  BY DEF TypeInv
<1>7. TaskOK(c)'
  BY <1>1, <1>3, <1>5, <1>6 DEF TaskOK, Pcs, Active, Later
<1>. QED BY <1>1, <1>2, <1>4, <1>7, OthersStay, ShapeStays DEF TypeInv

LEMMA TypeInvoke ==
  ASSUME TypeInv, NEW c \in Conn, Invoke(c)
  PROVE  TypeInv'
<1>1. /\ task[c].pc = "invoke"
      /\ DOMAIN task' = Conn
      /\ task'[c].pc = "two"
      /\ \A d \in Conn : /\ DOMAIN task'[d] = TaskFields
                         /\ \A f \in TaskFields \ {"pc", "rs"} : task'[d][f] = task[d][f]
      /\ \A d \in Conn \ {c} : task'[d].pc = task[d].pc
      /\ UNCHANGED <<workload, tls, table, inbox, outbox, gone, cookie, store, now, bean, acked, ghost>>
  BY InvokeOnly DEF TypeInv
<1>2. Item' = Item /\ Given' = Given
  BY <1>1 DEF Item, Given
<1>3. OthersOK' /\ Shape'
  BY <1>1, <1>2 DEF TypeInv, OthersOK, Shape
<1>4. ASSUME NEW d \in Conn PROVE TaskOK(d)'
  <2>1. /\ task'[d].fd = task[d].fd /\ task'[d].id = task[d].id /\ task'[d].rq = task[d].rq
        /\ task'[d].by = task[d].by /\ task'[d].left = task[d].left /\ task'[d].got = task[d].got
        /\ task'[d].buffer = task[d].buffer /\ task'[d].dirty = task[d].dirty /\ task'[d].adds = task[d].adds
    BY <1>1 DEF TaskFields
  <2>2. task'[d].pc = task[d].pc \/ (task[d].pc = "invoke" /\ task'[d].pc = "two")
    BY <1>1
  <2>3. TaskOK(d)
    BY DEF TypeInv
  <2>. QED BY <1>2, <2>1, <2>2, <2>3 DEF TaskOK, Pcs, Active, Later
<1>. QED BY <1>3, <1>4 DEF TypeInv

LEMMA TypeStoreSession ==
  ASSUME TypeInv, NEW c \in Conn, StoreSession(c)
  PROVE  TypeInv'
<1>1. /\ task[c].pc = "store"
      /\ task'[c].pc = IF task[c].dirty THEN "trunc" ELSE "send"
      /\ Only(c, {"pc", "id"})
      /\ \/ /\ task[c].id = None
            /\ task'[c].id = now
            /\ ghost' = [ghost EXCEPT !.collided = @ \/ ghost.named = now, !.named = now]
            /\ now' \in {now} \cup {n \in {now + 1} : n <= MaxClock}
         \/ /\ task[c].id # None
            /\ task'[c].id = task[c].id
            /\ UNCHANGED <<now, ghost>>
      /\ UNCHANGED <<workload, tls, table, inbox, outbox, gone, cookie, store, bean, acked>>
  BY StoreSessionOnly DEF TypeInv
<1>2. /\ task'[c].fd = task[c].fd /\ task'[c].rq = task[c].rq
      /\ task'[c].by = task[c].by /\ task'[c].left = task[c].left /\ task'[c].got = task[c].got
      /\ task'[c].buffer = task[c].buffer /\ task'[c].dirty = task[c].dirty /\ task'[c].adds = task[c].adds
  BY <1>1 DEF Only, TaskFields
<1>3. TaskOK(c)
  BY DEF TypeInv
<1>4. CASE task[c].id = None
  <2>1. /\ now \in Nat /\ ghost.named \in Nat /\ ghost.named <= now /\ now \in 1 .. MaxClock
    BY TaskAssumption DEF TypeInv, OthersOK
  <2>2. ghost'.named = now /\ DOMAIN ghost' = GhostFields
    BY <1>1, <1>4 DEF TypeInv, Shape, GhostFields
  <2>3. now' \in 1 .. MaxClock /\ now <= now' /\ task'[c].id = now
    BY <1>1, <1>4, <2>1, TaskAssumption
  <2>4. Seq(Item) \subseteq Seq(Item')
    <3>1. Seq(ItemOf(ghost.named)) \subseteq Seq(ItemOf(now))
      BY <2>1, ItemsGrow
    <3>2. Item' = ItemOf(now)
      BY <2>2 DEF Item, ItemOf
    <3>. QED BY <3>1, <3>2 DEF Item
  <2>5. 1 .. ghost.named \subseteq 1 .. now
    BY <2>1
  <2>6. Given \subseteq Given' /\ now \in Given'
    BY <2>1, <2>2, <2>5 DEF Given
  <2>7. OthersOK'
    <3>1. inbox' \in [Conn -> Seq(Item')] /\ cookie' \in [Clients -> Given']
      BY <1>1, <2>4, <2>6 DEF TypeInv, OthersOK
    <3>2. ghost'.named \in 0 .. now'
      BY <2>1, <2>2, <2>3
    <3>3. DOMAIN store' \subseteq 1 .. ghost'.named /\ DOMAIN acked' \subseteq 1 .. ghost'.named
      BY <1>1, <2>2, <2>5 DEF TypeInv, OthersOK
    <3>. QED BY <1>1, <2>3, <3>1, <3>2, <3>3 DEF TypeInv, OthersOK
  <2>8. now # None
    BY <2>1, TaskAssumption
  <2>9. TaskOK(c)'
    BY <1>1, <1>2, <1>3, <2>3, <2>4, <2>6, <2>8 DEF TaskOK, Pcs, Active, Later
  <2>10. ASSUME NEW d \in Conn \ {c} PROVE TaskOK(d)'
    <3>1. task'[d] = task[d] /\ TaskOK(d)
      BY <1>1 DEF TypeInv, Only
    <3>. QED BY <2>4, <2>6, <3>1 DEF TaskOK
  <2>11. Shape'
    BY <1>1, <2>2, ShapeStays DEF TypeInv
  <2>. QED BY <2>7, <2>9, <2>10, <2>11 DEF TypeInv
<1>5. CASE task[c].id # None
  <2>1. ghost' = ghost /\ now' = now /\ task'[c].id = task[c].id /\ DOMAIN ghost' = GhostFields
    BY <1>1, <1>5 DEF TypeInv, Shape
  <2>2. Item' = Item /\ Given' = Given
    BY <2>1 DEF Item, Given
  <2>3. OthersOK'
    BY <1>1, <2>1, <2>2 DEF TypeInv, OthersOK
  <2>4. TaskOK(c)'
    BY <1>1, <1>2, <1>3, <1>5, <2>1, <2>2 DEF TaskOK, Pcs, Active, Later
  <2>. QED BY <1>1, <2>1, <2>3, <2>4, OthersStay, ShapeStays DEF TypeInv
<1>. QED BY <1>4, <1>5

LEMMA PutDomain ==
  ASSUME NEW f, NEW k, NEW v
  PROVE  DOMAIN Put(f, k, v) = DOMAIN f \cup {k}
BY DEF Put

LEMMA TypeSendData ==
  ASSUME TypeInv, NEW c \in Conn, SendData(c)
  PROVE  TypeInv'
<1>1. /\ task[c].pc = "send"
      /\ UNCHANGED <<workload, tls, table, inbox, gone, store, now, bean, ghost>>
  BY SendDataOnly DEF TypeInv
<1>2. Item' = Item /\ Given' = Given /\ ghost'.named = ghost.named /\ DOMAIN ghost' = GhostFields
  BY <1>1 DEF Item, Given, TypeInv, Shape
<1>3. TaskOK(c)
  BY DEF TypeInv
<1>4. CASE Only(c, {"pc"}) /\ task'[c].pc = "close" /\ UNCHANGED <<outbox, cookie, acked>>
  <2>1. OthersOK'
    BY <1>1, <1>2, <1>4 DEF TypeInv, OthersOK
  <2>2. Shape' /\ \A d \in Conn : TaskOK(d)'
    BY <1>1, <1>2, <1>4, TypeMoved DEF Pcs, Active, Later
  <2>. QED BY <2>1, <2>2 DEF TypeInv
<1>5. CASE /\ Only(c, TaskFields \ {"fd", "buffer", "id"})
           /\ task'[c].pc \in {"wait", "close"}
           /\ cookie' = [cookie EXCEPT ![Owner(Peer(c))] = IF task[c].fresh THEN task[c].id ELSE @]
           /\ acked' = Put(acked, task[c].id, At(acked, task[c].id, {}) \cup task[c].adds)
  <2>1. task[c].id \in Given /\ task[c].id # None
    BY <1>1, <1>3 DEF TaskOK
  <2>2. cookie' \in [Clients -> Given]
    BY <1>5, <2>1 DEF TypeInv, OthersOK
  <2>3. DOMAIN acked' \subseteq 1 .. ghost.named
    <3>1. DOMAIN acked' = DOMAIN acked \cup {task[c].id}
      BY <1>5, PutDomain
    <3>2. task[c].id \in 1 .. ghost.named
      BY <2>1 DEF Given
    <3>. QED BY <3>1, <3>2 DEF TypeInv, OthersOK
  <2>4. OthersOK'
    BY <1>1, <1>2, <2>2, <2>3 DEF TypeInv, OthersOK
  <2>5. task'[c].fd = task[c].fd /\ task'[c].id = task[c].id /\ task'[c].buffer = task[c].buffer
    BY <1>5 DEF Only, TaskFields
  <2>6. TaskOK(c)'
    BY <1>1, <1>2, <1>3, <1>5, <2>5 DEF TaskOK, Pcs, Active, Later
  <2>. QED BY <1>2, <1>5, <2>4, <2>6, OthersStay, ShapeStays DEF TypeInv
<1>. QED BY <1>4, <1>5, SendDataOnly DEF TypeInv

LEMMA TypeSaved ==
  ASSUME TypeInv, NEW c \in Conn, Truncate(c) \/ Write(c)
  PROVE  TypeInv'
<1>1. /\ task[c].pc \in {"trunc", "write"}
      /\ DOMAIN store' = DOMAIN store \cup {task[c].id}
      /\ Only(c, {"pc"}) /\ task'[c].pc \in {"write", "send"}
      /\ task[c].pc = "write" => task'[c].pc = "send"
      /\ UNCHANGED <<workload, table, inbox, cookie, now, acked, ghost>>
  <2>1. CASE Truncate(c)
    BY <2>1, PutDomain, GotoOnly DEF Truncate, TypeInv
  <2>2. CASE Write(c)
    BY <2>2, PutDomain, GotoOnly DEF Write, TypeInv
  <2>. QED BY <2>1, <2>2
<1>2. Item' = Item /\ Given' = Given /\ ghost'.named = ghost.named /\ DOMAIN ghost' = GhostFields
  BY <1>1 DEF Item, Given, TypeInv, Shape
<1>3. task[c].id \in Given /\ task[c].id # None /\ task[c].dirty
  BY <1>1 DEF TypeInv, TaskOK
<1>4. OthersOK'
  BY <1>1, <1>2, <1>3 DEF TypeInv, OthersOK, Given
<1>5. Shape' /\ \A d \in Conn : TaskOK(d)'
  BY <1>1, <1>2, <1>3, TypeMoved DEF Pcs, Active, Later
<1>. QED BY <1>4, <1>5 DEF TypeInv

LEMMA TypeClose ==
  ASSUME TypeInv, NEW c \in Conn, Close(c) \/ CloseAgain(c)
  PROVE  TypeInv'
<1>1. /\ task[c].pc \in {"close", "reclose"}
      /\ table' = [table EXCEPT ![task[c].fd] = None]
      /\ Only(c, {"pc"}) /\ task'[c].pc \in {"reclose", "done"}
      /\ UNCHANGED <<workload, inbox, cookie, store, now, acked, ghost>>
  <2>1. CASE Close(c)
    <3>1. PICK pc \in {"reclose", "done"} : Goto(c, pc)
      BY <2>1 DEF Close
    <3>. QED BY <2>1, <3>1, GotoOnly DEF Close, TypeInv
  <2>2. CASE CloseAgain(c)
    BY <2>2, GotoOnly DEF CloseAgain, TypeInv
  <2>. QED BY <2>1, <2>2
<1>2. Item' = Item /\ Given' = Given /\ ghost'.named = ghost.named /\ DOMAIN ghost' = GhostFields
  BY <1>1 DEF Item, Given, TypeInv, Shape
<1>3. table' \in [Fd -> Conn \cup {None}]
  BY <1>1 DEF TypeInv, OthersOK
<1>4. OthersOK'
  BY <1>1, <1>2, <1>3 DEF TypeInv, OthersOK
<1>5. Shape' /\ \A d \in Conn : TaskOK(d)'
  BY <1>1, <1>2, TypeMoved DEF Pcs, Active, Later
<1>. QED BY <1>4, <1>5 DEF TypeInv

\* The steps that move a task on and change nothing its type speaks of.
LEMMA TypeOnwards ==
  ASSUME TypeInv, NEW c \in Conn,
         TimeOut(c) \/ EndOfFile(c) \/ BindRequest(c) \/ BindResponse(c) \/ PhaseTwoStep(c)
  PROVE  TypeInv'
<1>1. /\ UNCHANGED <<workload, table, inbox, cookie, store, now, acked>>
      /\ ghost'.named = ghost.named /\ DOMAIN ghost' = GhostFields
  BY DEF TimeOut, EndOfFile, BindRequest, BindResponse, PhaseTwoStep, TypeInv, Shape, GhostFields
<1>2. Item' = Item /\ Given' = Given
  BY <1>1 DEF Item, Given
<1>3. OthersOK'
  BY <1>1, <1>2 DEF TypeInv, OthersOK
<1>4. Shape' /\ \A d \in Conn : TaskOK(d)'
  <2>1. CASE TimeOut(c) \/ EndOfFile(c)
    <3>1. task[c].pc \in {"wait", "body"} /\ Goto(c, "close")
      BY <2>1 DEF TimeOut, EndOfFile
    <3>. QED BY <1>1, <3>1, GotoOnly, TypeMoved DEF TypeInv, Pcs, Active, Later
  <2>2. CASE BindRequest(c)
    <3>1. task[c].pc = "request" /\ Goto(c, "response")
      BY <2>2 DEF BindRequest
    <3>. QED BY <1>1, <3>1, GotoOnly, TypeMoved DEF TypeInv, Pcs, Active, Later
  <2>3. CASE BindResponse(c)
    <3>1. task[c].pc = "response" /\ Goto(c, "invoke")
      BY <2>3 DEF BindResponse
    <3>. QED BY <1>1, <3>1, GotoOnly, TypeMoved DEF TypeInv, Pcs, Active, Later
  <2>4. CASE PhaseTwoStep(c)
    <3>1. task[c].pc = "two" /\ Only(c, {"pc", "rs"}) /\ task'[c].pc \in {"wait", "store"}
      BY <2>4, PhaseTwoOnly DEF TypeInv
    <3>2. /\ task'[c].fd = task[c].fd /\ task'[c].buffer = task[c].buffer /\ task'[c].id = task[c].id
          /\ task'[c].rq = task[c].rq /\ task'[c].by = task[c].by /\ task'[c].left = task[c].left
          /\ task'[c].got = task[c].got /\ task'[c].dirty = task[c].dirty /\ task'[c].adds = task[c].adds
      BY <3>1 DEF Only, TaskFields
    <3>3. TaskOK(c)
      BY DEF TypeInv
    <3>4. TaskOK(c)'
      BY <1>2, <3>1, <3>2, <3>3 DEF TaskOK, Pcs, Active, Later
    <3>. QED BY <1>1, <3>1, <3>4, OthersStay, ShapeStays DEF TypeInv
  <2>. QED BY <2>1, <2>2, <2>3, <2>4
<1>. QED BY <1>3, <1>4 DEF TypeInv

LEMMA TypeStep == TypeInv /\ [TaskNext]_taskVars => TypeInv'
<1> SUFFICES ASSUME TypeInv, [TaskNext]_taskVars PROVE TypeInv'
  OBVIOUS
<1>1. CASE UNCHANGED taskVars
  BY <1>1 DEF taskVars, TypeInv, Shape, OthersOK, TaskOK, Item, Given
<1>2. CASE TaskNext
  <2>1. PICK c \in Conn : Send(c) \/ HangUp(c) \/ Accept(c) \/ TaskStep(c)
    BY <1>2 DEF TaskNext
  <2>2. CASE HangUp(c)
    BY <2>2 DEF HangUp, TypeInv, Shape, OthersOK, TaskOK, Item, Given
  <2>3. CASE TaskStep(c)
    BY <2>3, TypeReadRequest, TypeReadData, TypeLoad, TypeInvoke, TypeStoreSession, TypeSendData,
       TypeSaved, TypeClose, TypeOnwards DEF TaskStep
  <2>. QED BY <2>1, <2>2, <2>3, TypeSend, TypeAccept
<1>. QED BY <1>1, <1>2

\* TaskTypeOK: a task is where it says, with what goes with that place: it has a
\* descriptor, something left of a body it reads, and a name for a session it
\* saves, which was changed.
THEOREM TypeCorrect == TaskSpec => []TaskTypeOK
<1>1. TypeInv => TaskTypeOK
  <2> SUFFICES ASSUME TypeInv PROVE TaskTypeOK
    OBVIOUS
  <2>1. now \in Nat /\ MaxClock \in Nat /\ ghost.named \in Nat /\ ghost.named <= now /\ now <= MaxClock
    BY TaskAssumption DEF TypeInv, OthersOK
  <2>2. 1 .. ghost.named \subseteq 1 .. MaxClock
    BY <2>1
  <2>. QED BY <2>2 DEF TypeInv, OthersOK, TaskOK, TaskTypeOK, Active
<1>. QED BY <1>1, TypeInit, TypeStep, PTL DEF TaskSpec

-----------------------------------------------------------------------------
(* Descriptors: until one that was closed twice has been used again, a     *)
(* task's descriptor leads to its own connection.                          *)
Away == {"new", "reclose", "done"}

PeerInv ==
  ~ghost.reused =>
    \A c \in Conn : /\ task[c].pc \notin Away => table[task[c].fd] = c
                    /\ task[c].pc = "reclose" => table[task[c].fd] = None

LEMMA NoneApart == None \notin Conn /\ None \notin Fd /\ None \notin DOMAIN Request /\ None \notin 1 .. MaxClock
BY TaskAssumption

LEMMA OwnPeer ==
  ASSUME TypeInv, PeerInv, ~ghost.reused, NEW c \in Conn, task[c].pc \notin Away
  PROVE  Peer(c) = c
<1>1. task[c].fd \in Fd
  BY DEF TypeInv, TaskOK, Away
<1>2. table[task[c].fd] = c
  BY DEF PeerInv
<1>. QED BY <1>1, <1>2, NoneApart DEF Peer

\* The steps of a task between accepting its connection and closing it.
ServingStep(c) ==
  \/ TimeOut(c) \/ EndOfFile(c) \/ ReadRequest(c) \/ ReadData(c) \/ Load(c)
  \/ BindRequest(c) \/ BindResponse(c) \/ Invoke(c) \/ PhaseTwoStep(c)
  \/ StoreSession(c) \/ Truncate(c) \/ Write(c) \/ SendData(c)

LEMMA ServingStays ==
  ASSUME TypeInv, NEW c \in Conn, ServingStep(c)
  PROVE  /\ table' = table /\ tls' = tls /\ workload' = workload /\ ghost'.reused = ghost.reused
         /\ task[c].pc \notin Away /\ task'[c].pc \notin Away
         /\ \A d \in Conn : task'[d].fd = task[d].fd
         /\ \A d \in Conn \ {c} : task'[d].pc = task[d].pc
<1>1. CASE TimeOut(c)
  BY <1>1, GotoOnly DEF TimeOut, Away, Only, TaskFields, TypeInv
<1>2. CASE EndOfFile(c)
  BY <1>2, GotoOnly DEF EndOfFile, Away, Only, TaskFields, TypeInv
<1>3. CASE ReadRequest(c)
  <2>1. Only(c, {"pc", "buffer", "rq", "id", "by", "fresh", "left", "got", "sess"}) /\ task'[c].pc \in {"body", "load", "close"}
    BY <1>3, ReadRequestOnly DEF HeadRead, BodyRefused, TypeInv, Only
  <2>. QED BY <1>3, <2>1, ReadRequestOnly DEF Away, Only, TaskFields, TypeInv
<1>4. CASE ReadData(c)
  BY <1>4, ReadDataOnly DEF Away, Only, TaskFields, TypeInv
<1>5. CASE Load(c)
  BY <1>5, LoadOnly, GhostLoaded DEF Away, Only, TaskFields, TypeInv
<1>6. CASE BindRequest(c)
  BY <1>6, GotoOnly DEF BindRequest, Away, Only, TaskFields, TypeInv, Shape, GhostFields
<1>7. CASE BindResponse(c)
  BY <1>7, GotoOnly DEF BindResponse, Away, Only, TaskFields, TypeInv
<1>8. CASE Invoke(c)
  BY <1>8, InvokeOnly DEF Away, TaskFields, TypeInv
<1>9. CASE PhaseTwoStep(c)
  BY <1>9, PhaseTwoOnly DEF Away, Only, TaskFields, TypeInv
<1>10. CASE StoreSession(c)
  BY ZenonT(60), <1>10, StoreSessionOnly DEF Away, Only, TaskFields, TypeInv, Shape, GhostFields
<1>11. CASE Truncate(c)
  BY <1>11, GotoOnly DEF Truncate, Away, Only, TaskFields, TypeInv
<1>12. CASE Write(c)
  BY <1>12, GotoOnly DEF Write, Away, Only, TaskFields, TypeInv
<1>13. CASE SendData(c)
  BY <1>13, SendDataOnly DEF Away, Only, TaskFields, TypeInv
<1>. QED BY <1>1, <1>2, <1>3, <1>4, <1>5, <1>6, <1>7, <1>8, <1>9, <1>10, <1>11, <1>12, <1>13 DEF ServingStep

LEMMA PeerInit == TaskInit => PeerInv
BY DEF TaskInit, PeerInv, Idle, Away

LEMMA PeerStep == TypeInv /\ PeerInv /\ [TaskNext]_taskVars => PeerInv'
<1> SUFFICES ASSUME TypeInv, PeerInv, [TaskNext]_taskVars PROVE PeerInv'
  OBVIOUS
<1>1. CASE UNCHANGED taskVars
  BY <1>1 DEF taskVars, PeerInv
<1>2. CASE TaskNext
  <2>1. PICK c \in Conn : Send(c) \/ HangUp(c) \/ Accept(c) \/ TaskStep(c)
    BY <1>2 DEF TaskNext
  <2>2. CASE Send(c)
    BY <2>2 DEF Send, PeerInv, TypeInv, Shape, GhostFields
  <2>3. CASE HangUp(c)
    BY <2>3 DEF HangUp, PeerInv
  <2>4. CASE Accept(c)
    <3> SUFFICES ASSUME ~ghost'.reused, NEW d \in Conn
                 PROVE  /\ task'[d].pc \notin Away => table'[task'[d].fd] = d
                        /\ task'[d].pc = "reclose" => table'[task'[d].fd] = None
      BY DEF PeerInv
    <3>1. PICK f \in Fd :
           /\ table[f] = None
           /\ table' = [table EXCEPT ![f] = c]
           /\ Only(c, {"pc", "fd"}) /\ task'[c].pc = "wait" /\ task'[c].fd = f
           /\ ghost' = [ghost EXCEPT !.reused = @ \/ \E e \in Conn : task[e].pc = "reclose" /\ task[e].fd = f]
      BY <2>4, AcceptOnly DEF TypeInv
    <3>2. ghost'.reused = (ghost.reused \/ \E e \in Conn : task[e].pc = "reclose" /\ task[e].fd = f)
      BY <3>1 DEF TypeInv, Shape, GhostFields
    <3>3. ~ghost.reused /\ \A e \in Conn : ~(task[e].pc = "reclose" /\ task[e].fd = f)
      BY <3>2
    <3>4. CASE d = c
      BY <3>1, <3>4 DEF TypeInv, OthersOK
    <3>5. CASE d # c
      <4>1. task'[d] = task[d]
        BY <3>1, <3>5 DEF Only
      <4>2. task[d].pc \notin Away => task[d].fd # f
        BY <3>1, <3>3, NoneApart DEF PeerInv
      <4>3. task[d].pc # "new" => task[d].fd \in Fd
        BY DEF TypeInv, TaskOK
      <4>. QED BY <3>1, <3>3, <4>1, <4>2, <4>3 DEF PeerInv, TypeInv, OthersOK, Away
    <3>. QED BY <3>4, <3>5
  <2>5. CASE ServingStep(c)
    BY <2>5, ServingStays DEF PeerInv, Away
  <2>6. CASE Close(c) \/ CloseAgain(c)
    <3> SUFFICES ASSUME ~ghost'.reused, NEW d \in Conn
                 PROVE  /\ task'[d].pc \notin Away => table'[task'[d].fd] = d
                        /\ task'[d].pc = "reclose" => table'[task'[d].fd] = None
      BY DEF PeerInv
    <3>1. /\ table' = [table EXCEPT ![task[c].fd] = None]
          /\ ghost' = ghost
          /\ Only(c, {"pc"})
          /\ \/ task[c].pc = "close" /\ task'[c].pc \in {"reclose", "done"}
             \/ task[c].pc = "reclose" /\ task'[c].pc = "done"
      <4>1. CASE Close(c)
        <5>1. PICK pc \in {"reclose", "done"} : Goto(c, pc)
          BY <4>1 DEF Close
        <5>. QED BY <4>1, <5>1, GotoOnly DEF Close, TypeInv
      <4>2. CASE CloseAgain(c)
        BY <4>2, GotoOnly DEF CloseAgain, TypeInv
      <4>. QED BY <2>6, <4>1, <4>2
    <3>2. task[c].fd \in Fd /\ task'[c].fd = task[c].fd
      BY <3>1 DEF TypeInv, TaskOK, Only, TaskFields
    <3>3. CASE d = c
      BY <3>1, <3>2, <3>3 DEF TypeInv, OthersOK, Away
    <3>4. CASE d # c
      <4>1. task'[d] = task[d]
        BY <3>1, <3>4 DEF Only
      <4>2. task[d].pc # "new" => task[d].fd \in Fd
        BY DEF TypeInv, TaskOK
      <4>3. table[task[c].fd] = c \/ table[task[c].fd] = None
        BY <3>1 DEF PeerInv, Away
      <4>4. task[d].pc \notin Away => task[d].fd # task[c].fd
        BY <3>1, <3>4, <4>3, NoneApart DEF PeerInv
      <4>. QED BY <3>1, <3>2, <4>1, <4>2, <4>4 DEF PeerInv, TypeInv, OthersOK, Away
    <3>. QED BY <3>3, <3>4
  <2>. QED BY <2>1, <2>2, <2>3, <2>4, <2>5, <2>6 DEF TaskStep, ServingStep
<1>. QED BY <1>1, <1>2

-----------------------------------------------------------------------------
(* Framing.  What was sent and not read yet begins with the rest of a body  *)
(* of k buffers, and goes on with whole requests.                          *)
Size(x) == Request[x.rq].size

FramedAt(s, i) ==
  LET z == Size(s[i])
  IN  /\ i + z <= Len(s)
      /\ \A j \in i + 1 .. i + z : s[j].kind = "body"
      /\ i + z < Len(s) => s[i + z + 1].kind = "head"

Framed(s, k) ==
  /\ k <= Len(s)
  /\ \A i \in 1 .. k : s[i].kind = "body"
  /\ k < Len(s) => s[k + 1].kind = "head"
  /\ \A i \in 1 .. Len(s) : s[i].kind = "head" => FramedAt(s, i)

LEMMA SizeIsNat ==
  ASSUME NEW n, NEW x \in ItemOf(n), x.kind = "head"
  PROVE  Size(x) \in Nat
<1>1. x.rq \in DOMAIN Request
  BY DEF ItemOf
<1>. QED BY <1>1, TaskAssumption DEF Size

LEMMA ItemKinds ==
  ASSUME NEW n, NEW x \in ItemOf(n)
  PROVE  x.kind \in {"head", "body"}
BY DEF ItemOf

LEMMA TailEntries ==
  ASSUME NEW S, NEW s \in Seq(S), s # <<>>
  PROVE  /\ Tail(s) \in Seq(S) /\ Len(Tail(s)) = Len(s) - 1 /\ Len(s) \in Nat /\ Len(s) >= 1
         /\ \A i \in 1 .. Len(s) - 1 : Tail(s)[i] = s[i + 1]
BY HeadTailProperties, EmptySeq, LenProperties

LEMMA FramedTail ==
  ASSUME NEW n, NEW s \in Seq(ItemOf(n)), s # <<>>, NEW k \in Nat, NEW l \in Nat,
         Framed(s, k),
         \/ k > 0 /\ l = k - 1
         \/ k = 0 /\ l = Size(s[1])
  PROVE  Framed(Tail(s), l)
<1> DEFINE t == Tail(s)
<1>1. /\ t \in Seq(ItemOf(n)) /\ Len(t) = Len(s) - 1 /\ Len(s) \in Nat /\ Len(s) >= 1
      /\ \A i \in 1 .. Len(s) - 1 : t[i] = s[i + 1]
  BY TailEntries
<1> HIDE DEF t
<1>2. ASSUME NEW i \in 1 .. Len(t), t[i].kind = "head" PROVE FramedAt(t, i)
  <2>1. i + 1 \in 1 .. Len(s) /\ t[i] = s[i + 1] /\ i \in Int
    BY <1>1
  <2>2. FramedAt(s, i + 1)
    BY <1>2, <2>1 DEF Framed
  <2>3. Size(t[i]) \in Nat
    BY <1>1, <1>2, SizeIsNat, ElementOfSeq
  <2> DEFINE z == Size(t[i])
  <2>4. /\ i + 1 + z <= Len(s)
        /\ \A j \in i + 2 .. i + 1 + z : s[j].kind = "body"
        /\ i + 1 + z < Len(s) => s[i + z + 2].kind = "head"
    BY <2>1, <2>2, <2>3 DEF FramedAt
  <2> HIDE DEF z
  <2>5. z \in Nat
    BY <2>3 DEF z
  <2>6. i + z <= Len(t)
    BY <1>1, <2>1, <2>4, <2>5
  <2>7. ASSUME NEW j \in i + 1 .. i + z PROVE t[j].kind = "body"
    <3>1. j \in 1 .. Len(s) - 1 /\ j + 1 \in i + 2 .. i + 1 + z
      BY <1>1, <2>1, <2>5, <2>6
    <3>. QED BY <1>1, <2>4, <3>1
  <2>8. ASSUME i + z < Len(t) PROVE t[i + z + 1].kind = "head"
    <3>1. i + z + 1 \in 1 .. Len(s) - 1 /\ (i + z + 1) + 1 = i + z + 2 /\ i + 1 + z < Len(s)
      BY <1>1, <2>1, <2>5, <2>8
    <3>. QED BY <1>1, <2>4, <3>1
  <2>. QED BY <2>6, <2>7, <2>8 DEF FramedAt, z
<1>3. CASE k > 0 /\ l = k - 1
  <2>1. /\ k <= Len(s) /\ \A i \in 1 .. k : s[i].kind = "body"
        /\ k < Len(s) => s[k + 1].kind = "head"
    BY DEF Framed
  <2>2. \A i \in 1 .. l : t[i].kind = "body"
    <3>1. \A i \in 1 .. l : i + 1 \in 1 .. k /\ i \in 1 .. Len(s) - 1
      BY <1>1, <1>3, <2>1
    <3>. QED BY <1>1, <2>1, <3>1
  <2>3. l < Len(t) => t[l + 1].kind = "head"
    <3>1. l < Len(t) => l + 1 \in 1 .. Len(s) - 1 /\ (l + 1) + 1 = k + 1 /\ k < Len(s)
      BY <1>1, <1>3
    <3>. QED BY <1>1, <2>1, <3>1
  <2>4. l <= Len(t)
    BY <1>1, <1>3, <2>1
  <2>. QED BY <1>2, <2>2, <2>3, <2>4 DEF Framed, t
<1>4. CASE k = 0 /\ l = Size(s[1])
  <2>1. s[1].kind = "head" /\ 1 \in 1 .. Len(s)
    BY <1>1, <1>4 DEF Framed
  <2>2. FramedAt(s, 1)
    BY <2>1 DEF Framed
  <2>3. /\ 1 + l <= Len(s)
        /\ \A j \in 2 .. 1 + l : s[j].kind = "body"
        /\ 1 + l < Len(s) => s[l + 2].kind = "head"
    BY <1>1, <1>4, <2>2 DEF FramedAt
  <2>4. \A i \in 1 .. l : t[i].kind = "body"
    <3>1. \A i \in 1 .. l : i + 1 \in 2 .. 1 + l /\ i \in 1 .. Len(s) - 1
      BY <1>1, <2>3
    <3>. QED BY <1>1, <2>3, <3>1
  <2>5. l < Len(t) => t[l + 1].kind = "head"
    <3>1. l < Len(t) => l + 1 \in 1 .. Len(s) - 1 /\ (l + 1) + 1 = l + 2 /\ 1 + l < Len(s)
      BY <1>1
    <3>. QED BY <1>1, <2>3, <3>1
  <2>6. l <= Len(t)
    BY <1>1, <2>3
  <2>. QED BY <1>2, <2>4, <2>5, <2>6 DEF Framed, t
<1>. QED BY <1>3, <1>4

\* Sending a whole request keeps what is framed.
LEMMA FramedSend ==
  ASSUME NEW n, NEW s \in Seq(ItemOf(n)), NEW h \in ItemOf(n), NEW b \in Seq(ItemOf(n)), NEW k \in Nat,
         Framed(s, k), h.kind = "head", Len(b) = Size(h),
         \A i \in 1 .. Len(b) : b[i].kind = "body"
  PROVE  Framed(s \o (<<h>> \o b), k)
<1> DEFINE m == Len(s)
           z == Len(b)
           t == s \o (<<h>> \o b)
<1>1. /\ <<h>> \in Seq(ItemOf(n)) /\ Len(<<h>>) = 1 /\ <<h>>[1] = h
  OBVIOUS
<1>2. m \in Nat /\ z \in Nat
  BY LenProperties
<1>3. /\ <<h>> \o b \in Seq(ItemOf(n)) /\ Len(<<h>> \o b) = 1 + z
      /\ (<<h>> \o b)[1] = h
      /\ \A i \in 1 .. z : (<<h>> \o b)[i + 1] = b[i]
  BY <1>1, <1>2, ConcatProperties
<1>4. /\ Len(t) = m + 1 + z
      /\ \A i \in 1 .. m : t[i] = s[i]
      /\ t[m + 1] = h
      /\ \A i \in 1 .. z : t[m + 1 + i] = b[i]
  <2> DEFINE u == <<h>> \o b
  <2>1. u \in Seq(ItemOf(n)) /\ Len(u) = 1 + z /\ u[1] = h /\ \A i \in 1 .. z : u[i + 1] = b[i]
    BY <1>3
  <2> HIDE DEF u
  <2>2. /\ Len(s \o u) = m + Len(u)
        /\ \A i \in 1 .. m + Len(u) : (s \o u)[i] = IF i <= m THEN s[i] ELSE u[i - m]
    <3>1. \A x, y \in Seq(ItemOf(n)) :
            /\ Len(x \o y) = Len(x) + Len(y)
            /\ \A i \in 1 .. Len(x) + Len(y) : (x \o y)[i] = IF i <= Len(x) THEN x[i] ELSE y[i - Len(x)]
      BY ConcatProperties
    <3>. QED BY <2>1, <3>1
  <2> HIDE DEF m, z
  <2>6. t = s \o u
    BY DEF u
  <2> HIDE DEF t
  <2>3. \A i \in 1 .. m : (s \o u)[i] = s[i]
    BY <1>2, <2>1, <2>2
  <2>4. (s \o u)[m + 1] = h
    <3>1. m + 1 \in 1 .. m + Len(u) /\ ~(m + 1 <= m) /\ (m + 1) - m = 1
      BY <1>2, <2>1
    <3>. QED BY <2>1, <2>2, <3>1
  <2>5. ASSUME NEW i \in 1 .. z PROVE (s \o u)[m + 1 + i] = b[i]
    <3>1. m + 1 + i \in 1 .. m + Len(u) /\ ~(m + 1 + i <= m) /\ (m + 1 + i) - m = i + 1
      BY <1>2, <2>1
    <3>. QED BY <2>1, <2>2, <3>1
  <2>7. Len(t) = m + 1 + z
    BY <1>2, <2>1, <2>2, <2>6
  <2>. QED BY <2>3, <2>4, <2>5, <2>6, <2>7
<1>5. \A j \in m + 2 .. m + 1 + z : t[j].kind = "body"
  <2> HIDE DEF t, m, z
  <2>1. ASSUME NEW j \in m + 2 .. m + 1 + z PROVE t[j].kind = "body"
    <3>1. j - (m + 1) \in 1 .. z /\ j = m + 1 + (j - (m + 1))
      BY <1>2
    <3>2. t[j] = b[j - (m + 1)]
      BY <1>4, <3>1
    <3>3. \A i \in 1 .. z : b[i].kind = "body"
      BY DEF z
    <3>. QED BY <3>1, <3>2, <3>3
  <2>. QED BY <2>1
<1>6. k <= m /\ (\A i \in 1 .. k : s[i].kind = "body") /\ (k < m => s[k + 1].kind = "head")
  BY DEF Framed
<1>7. \A i \in 1 .. m : s[i].kind = "head" => FramedAt(s, i) /\ Size(s[i]) \in Nat
  <2>1. ASSUME NEW i \in 1 .. m, s[i].kind = "head" PROVE Size(s[i]) \in Nat
    BY <2>1, SizeIsNat, ElementOfSeq
  <2>. QED BY <2>1 DEF Framed
<1>8. z = Size(h)
  OBVIOUS
<1> HIDE DEF m, z, t
<1>9. ASSUME NEW i \in 1 .. Len(t), t[i].kind = "head" PROVE FramedAt(t, i)
  <2>1. CASE i <= m
    <3>1. i \in 1 .. m /\ t[i] = s[i]
      BY <1>2, <1>4, <2>1
    <3> DEFINE y == Size(s[i])
    <3>2. /\ y \in Nat
          /\ i + y <= m /\ \A j \in i + 1 .. i + y : s[j].kind = "body"
          /\ i + y < m => s[i + y + 1].kind = "head"
      BY <1>7, <1>9, <3>1 DEF FramedAt, m
    <3>3. Size(t[i]) = y
      BY <3>1
    <3> HIDE DEF y
    <3>4. i + y <= Len(t)
      BY <1>2, <1>4, <3>2
    <3>5. \A j \in i + 1 .. i + y : t[j].kind = "body"
      BY <1>2, <1>4, <3>1, <3>2
    <3>6. t[i + y + 1].kind = "head"
      <4>1. CASE i + y < m
        <5>1. i + y + 1 \in 1 .. m
          BY SMTT(30), <1>2, <3>1, <3>2, <4>1
        <5>. QED BY <1>4, <3>2, <4>1, <5>1
      <4>2. CASE i + y = m
        BY <1>4, <4>2
      <4>. QED BY <1>2, <3>1, <3>2, <4>1, <4>2
    <3>. QED BY <3>3, <3>4, <3>5, <3>6 DEF FramedAt
  <2>2. CASE i > m
    <3>1. i = m + 1
      <4>1. i \in m + 2 .. m + 1 + z => t[i].kind = "body"
        BY <1>5
      <4>. QED BY <1>2, <1>4, <1>9, <2>2, <4>1
    <3>2. Size(t[i]) = z /\ i + z = Len(t)
      BY <1>2, <1>4, <1>8, <3>1
    <3>3. \A j \in i + 1 .. i + z : t[j].kind = "body"
      BY <1>2, <1>5, <3>1
    <3>4. ~(i + z < Len(t)) /\ i + z <= Len(t)
      BY <1>2, <3>1, <3>2
    <3>. QED BY <3>2, <3>3, <3>4 DEF FramedAt
  <2>. QED BY <1>2, <1>4, <2>1, <2>2
<1>10. k <= Len(t) /\ \A i \in 1 .. k : t[i].kind = "body"
  BY <1>2, <1>4, <1>6
<1>11. t[k + 1].kind = "head"
  <2>1. CASE k < m
    BY <1>2, <1>4, <1>6, <2>1
  <2>2. CASE k = m
    BY <1>4, <2>2
  <2>. QED BY <1>2, <1>6, <2>1, <2>2
<1>. QED BY <1>9, <1>10, <1>11 DEF Framed, t

\* What is read from the socket into the buffer stays in its place, and so does
\* the rest when the first is taken.
LEMMA Moved ==
  ASSUME NEW S, NEW b \in Seq(S), NEW s \in Seq(S), NEW n \in Nat, n <= Len(s)
  PROVE  /\ SubSeq(s, 1, n) \in Seq(S) /\ SubSeq(s, n + 1, Len(s)) \in Seq(S)
         /\ (b \o SubSeq(s, 1, n)) \o SubSeq(s, n + 1, Len(s)) = b \o s
<1>1. Len(s) \in Nat /\ \A i \in 1 .. Len(s) : s[i] \in S
  BY LenProperties, ElementOfSeq
<1>2. SubSeq(s, 1, n) \in Seq(S)
  <2>1. \A i \in 1 .. n : s[i] \in S
    BY <1>1
  <2>. QED BY <2>1, SubSeqProperties
<1>3. SubSeq(s, n + 1, Len(s)) \in Seq(S)
  <2>1. \A i \in n + 1 .. Len(s) : s[i] \in S
    BY <1>1
  <2>. QED BY <1>1, <2>1, SubSeqProperties
<1>4. SubSeq(s, 1, n) \o SubSeq(s, n + 1, Len(s)) = SubSeq(s, 1, Len(s))
  <2>1. 1 \in 1 .. Len(s) + 1 /\ n \in 1 - 1 .. Len(s) /\ Len(s) \in n .. Len(s)
    BY <1>1
  <2>. QED BY <2>1, ConcatAdjacentSubSeq
<1>5. SubSeq(s, 1, Len(s)) = s
  BY SubSeqFull
<1>6. \A x, y, z \in Seq(S) : (x \o y) \o z = x \o (y \o z)
  BY SMTT(30), ConcatAssociative
<1> DEFINE p == SubSeq(s, 1, n)
           q == SubSeq(s, n + 1, Len(s))
<1>7. p \in Seq(S) /\ q \in Seq(S) /\ p \o q = s
  BY <1>2, <1>3, <1>4, <1>5
<1> HIDE DEF p, q
<1>8. (b \o p) \o q = b \o s
  BY <1>6, <1>7
<1>. QED BY <1>7, <1>8 DEF p, q

LEMMA TailOfConcat ==
  ASSUME NEW S, NEW a \in Seq(S), NEW b \in Seq(S), a # <<>>
  PROVE  /\ a \o b \in Seq(S) /\ a \o b # <<>>
         /\ (a \o b)[1] = a[1]
         /\ Tail(a \o b) = Tail(a) \o b
<1>1. /\ Tail(a) \in Seq(S) /\ Len(Tail(a)) = Len(a) - 1 /\ Len(a) \in Nat /\ Len(a) >= 1
      /\ \A i \in 1 .. Len(a) - 1 : Tail(a)[i] = a[i + 1]
  BY TailEntries
<1>2. /\ a \o b \in Seq(S) /\ Len(a \o b) = Len(a) + Len(b) /\ Len(b) \in Nat
      /\ \A i \in 1 .. Len(a) + Len(b) : (a \o b)[i] = IF i <= Len(a) THEN a[i] ELSE b[i - Len(a)]
  BY ConcatProperties, LenProperties
<1>3. a \o b # <<>>
  BY <1>1, <1>2, EmptySeq
<1>4. /\ Tail(a \o b) \in Seq(S) /\ Len(Tail(a \o b)) = Len(a) + Len(b) - 1
      /\ \A i \in 1 .. Len(a) + Len(b) - 1 : Tail(a \o b)[i] = (a \o b)[i + 1]
  BY <1>2, <1>3, TailEntries
<1>5. /\ Tail(a) \o b \in Seq(S) /\ Len(Tail(a) \o b) = Len(Tail(a)) + Len(b)
      /\ \A i \in 1 .. Len(Tail(a)) + Len(b) :
           (Tail(a) \o b)[i] = IF i <= Len(Tail(a)) THEN Tail(a)[i] ELSE b[i - Len(Tail(a))]
  BY <1>1, ConcatProperties
<1>6. ASSUME NEW i \in 1 .. Len(a) + Len(b) - 1
      PROVE  Tail(a \o b)[i] = (Tail(a) \o b)[i]
  <2>1. Tail(a \o b)[i] = IF i + 1 <= Len(a) THEN a[i + 1] ELSE b[i + 1 - Len(a)]
    BY <1>1, <1>2, <1>4
  <2>2. (Tail(a) \o b)[i] = IF i <= Len(a) - 1 THEN Tail(a)[i] ELSE b[i - (Len(a) - 1)]
    BY <1>1, <1>2, <1>5
  <2>3. i + 1 - Len(a) = i - (Len(a) - 1)
    BY <1>1
  <2>. QED BY <1>1, <2>1, <2>2, <2>3
<1>7. Tail(a \o b) = Tail(a) \o b
  BY <1>1, <1>2, <1>4, <1>5, <1>6, SeqEqual
<1>8. (a \o b)[1] = a[1]
  BY <1>1, <1>2
<1>. QED BY <1>2, <1>3, <1>7, <1>8

-----------------------------------------------------------------------------
(* Bodies.  What is left of a body and what was read of it make its size,  *)
(* each piece counting twice under TLS; without TLS the task is where a    *)
(* request begins when it reads one.                                       *)
Ended == {"close", "reclose", "done"}
PerPiece == IF tls THEN 2 ELSE 1
WholeBody(got, rq) == got = Request[rq].size \/ (tls /\ Request[rq].size > 1)
Left(c) == IF task[c].pc = "body" THEN task[c].left ELSE 0

CountOK(c) ==
  /\ task[c].pc = "body" => task[c].left + PerPiece * task[c].got = Request[task[c].rq].size
  /\ task[c].pc \in Active \ {"body"} => WholeBody(task[c].got, task[c].rq)

FrameOK(c) ==
  (~tls /\ ~ghost.reused /\ task[c].pc \notin Ended) => Framed(task[c].buffer \o inbox[c], Left(c))

AnswerOK(a) ==
  \/ a = Refused /\ (tls \/ ghost.reused)
  \/ a # Refused /\ WholeBody(a.got, a.rq)

OutboxOK ==
  /\ DOMAIN outbox = Conn
  /\ \A c \in Conn : \E S : outbox[c] \in Seq(S)
  /\ \A c \in Conn : \A i \in DOMAIN outbox[c] : AnswerOK(outbox[c][i])

BodyInv == OutboxOK /\ \A c \in Conn : CountOK(c) /\ FrameOK(c)

\* A step that neither reads nor begins to read a body.
Quiet(d) ==
  /\ task'[d].buffer = task[d].buffer
  /\ task'[d].pc \in Active => /\ task[d].pc \in Active
                               /\ task'[d].rq = task[d].rq /\ task'[d].left = task[d].left
                               /\ task'[d].got = task[d].got
                               /\ task'[d].pc = "body" <=> task[d].pc = "body"
  /\ task'[d].pc \notin Ended => /\ task[d].pc \notin Ended
                                 /\ task[d].pc = "body" <=> task'[d].pc = "body"

LEMMA QuietKeeps ==
  ASSUME BodyInv, tls' = tls, inbox' = inbox, ghost.reused => ghost'.reused,
         \A d \in Conn : Quiet(d)
  PROVE  \A d \in Conn : CountOK(d)' /\ FrameOK(d)'
<1> SUFFICES ASSUME NEW d \in Conn PROVE CountOK(d)' /\ FrameOK(d)'
  OBVIOUS
<1>1. Quiet(d) /\ CountOK(d) /\ FrameOK(d)
  BY DEF BodyInv
<1>2. CountOK(d)'
  <2>1. PerPiece' = PerPiece
    BY DEF PerPiece
  <2>2. CASE task'[d].pc = "body"
    <3>1. task[d].pc = "body" /\ task'[d].rq = task[d].rq /\ task'[d].left = task[d].left /\ task'[d].got = task[d].got
      BY <1>1, <2>2 DEF Quiet, Active
    <3>. QED BY <1>1, <2>1, <2>2, <3>1 DEF CountOK, Active
  <2>3. CASE task'[d].pc \in Active \ {"body"}
    <3>1. task[d].pc \in Active \ {"body"} /\ task'[d].rq = task[d].rq /\ task'[d].got = task[d].got
      BY <1>1, <2>3 DEF Quiet
    <3>2. WholeBody(task[d].got, task[d].rq)
      BY <1>1, <3>1 DEF CountOK
    <3>3. task'[d].got = Request[task'[d].rq].size \/ (tls' /\ Request[task'[d].rq].size > 1)
      BY <3>1, <3>2 DEF WholeBody
    <3>. QED BY <2>3, <3>3 DEF CountOK, WholeBody
  <2>4. CASE task'[d].pc \notin Active
    BY <2>4 DEF CountOK, Active
  <2>. QED BY <2>2, <2>3, <2>4
<1>3. ASSUME ~tls, ~ghost'.reused, task'[d].pc \notin Ended
      PROVE  Framed(task'[d].buffer \o inbox'[d], Left(d)')
  <2>1. Left(d)' = Left(d)
    BY <1>1, <1>3 DEF Quiet, Left, Active
  <2>2. Framed(task[d].buffer \o inbox[d], Left(d))
    BY <1>1, <1>3 DEF FrameOK, Quiet
  <2>. QED BY <1>1, <2>1, <2>2 DEF Quiet
<1>4. FrameOK(d)'
  BY <1>3 DEF FrameOK, Framed, FramedAt, Size
<1>. QED BY <1>2, <1>4

LEMMA QuietOnly ==
  ASSUME TypeInv, NEW c \in Conn, NEW F, Only(c, F), F \cap {"buffer", "rq", "left", "got"} = {},
         task[c].pc \notin Ended \/ task'[c].pc \in Ended,
         task'[c].pc \in Active => task[c].pc \in Active,
         task[c].pc = "body" => task'[c].pc \in Ended,
         task'[c].pc # "body"
  PROVE  \A d \in Conn : Quiet(d)
<1>1. task'[c].buffer = task[c].buffer /\ task'[c].rq = task[c].rq /\ task'[c].left = task[c].left /\ task'[c].got = task[c].got
  BY DEF Only, TaskFields
<1>2. Quiet(c)
  BY <1>1 DEF Quiet, Active, Ended
<1>3. ASSUME NEW d \in Conn \ {c} PROVE Quiet(d)
  BY DEF Only, Quiet
<1>. QED BY <1>2, <1>3

QuietStep(c) ==
  \/ HangUp(c) \/ Accept(c) \/ TimeOut(c) \/ EndOfFile(c) \/ Load(c)
  \/ BindRequest(c) \/ BindResponse(c) \/ Invoke(c) \/ PhaseTwoStep(c)
  \/ StoreSession(c) \/ Truncate(c) \/ Write(c) \/ SendData(c) \/ Close(c) \/ CloseAgain(c)

LEMMA QuietSteps ==
  ASSUME TypeInv, NEW c \in Conn, QuietStep(c)
  PROVE  /\ tls' = tls /\ inbox' = inbox /\ (ghost.reused => ghost'.reused)
         /\ \A d \in Conn : Quiet(d)
<1>1. tls' = tls /\ inbox' = inbox /\ (ghost.reused => ghost'.reused)
  <2>1. tls' = tls /\ inbox' = inbox
    BY DEF QuietStep, HangUp, Accept, TimeOut, EndOfFile, Load, BindRequest, BindResponse, Invoke, PhaseTwoStep,
           StoreSession, Truncate, Write, SendData, Close, CloseAgain
  <2>2. ghost.reused => ghost'.reused
    <3>1. CASE HangUp(c) \/ Close(c) \/ CloseAgain(c)
      BY <3>1 DEF HangUp, Close, CloseAgain
    <3>2. CASE Accept(c)
      <4>1. PICK f \in Fd : ghost' = [ghost EXCEPT !.reused = @ \/ \E d \in Conn : task[d].pc = "reclose" /\ task[d].fd = f]
        BY <3>2 DEF Accept
      <4>. QED BY <4>1 DEF TypeInv, Shape, GhostFields
    <3>3. CASE ServingStep(c)
      BY <3>3, ServingStays
    <3>. QED BY <3>1, <3>2, <3>3 DEF QuietStep, ServingStep
  <2>. QED BY <2>1, <2>2
<1> SUFFICES \A d \in Conn : Quiet(d)
  BY <1>1
<1>2. CASE HangUp(c)
  BY <1>2 DEF HangUp, Quiet
<1>3. CASE Accept(c)
  <2>1. Only(c, {"pc", "fd"}) /\ task'[c].pc = "wait" /\ task[c].pc = "new"
    BY <1>3, AcceptOnly DEF TypeInv, Accept
  <2>. QED BY <2>1, QuietOnly DEF Active, Ended
<1>4. CASE TimeOut(c) \/ EndOfFile(c)
  <2>1. task[c].pc \in {"wait", "body"} /\ Goto(c, "close")
    BY <1>4 DEF TimeOut, EndOfFile
  <2>2. Only(c, {"pc"}) /\ task'[c].pc = "close"
    BY <2>1, GotoOnly DEF TypeInv
  <2>. QED BY <2>1, <2>2, QuietOnly DEF Active, Ended
<1>5. CASE Load(c)
  <2>1. Only(c, {"pc", "rs", "dirty", "adds", "call", "sess"}) /\ task[c].pc = "load" /\ task'[c].pc \in {"wait", "request", "store"}
    BY <1>5, LoadOnly DEF TypeInv
  <2>. QED BY <2>1, QuietOnly DEF Active, Ended
<1>6. CASE BindRequest(c)
  <2>1. Only(c, {"pc"}) /\ task[c].pc = "request" /\ task'[c].pc = "response"
    BY <1>6, GotoOnly DEF TypeInv, BindRequest
  <2>. QED BY <2>1, QuietOnly DEF Active, Ended
<1>7. CASE BindResponse(c)
  <2>1. Only(c, {"pc"}) /\ task[c].pc = "response" /\ task'[c].pc = "invoke"
    BY <1>7, GotoOnly DEF TypeInv, BindResponse
  <2>. QED BY <2>1, QuietOnly DEF Active, Ended
<1>8. CASE Invoke(c)
  <2> SUFFICES ASSUME NEW d \in Conn PROVE Quiet(d)
    BY <1>1
  <2>1. /\ task'[d].buffer = task[d].buffer /\ task'[d].rq = task[d].rq /\ task'[d].left = task[d].left
        /\ task'[d].got = task[d].got
    BY <1>8, InvokeOnly DEF TypeInv, TaskFields
  <2>2. task'[d].pc = task[d].pc \/ (task[d].pc = "invoke" /\ task'[d].pc = "two")
    BY <1>8, InvokeOnly DEF TypeInv
  <2>. QED BY <2>1, <2>2 DEF Quiet, Active, Ended
<1>9. CASE PhaseTwoStep(c)
  <2>1. Only(c, {"pc", "rs"}) /\ task[c].pc = "two" /\ task'[c].pc \in {"wait", "store"}
    BY <1>9, PhaseTwoOnly DEF TypeInv
  <2>. QED BY <2>1, QuietOnly DEF Active, Ended
<1>10. CASE StoreSession(c)
  <2>1. Only(c, {"pc", "id"}) /\ task[c].pc = "store" /\ task'[c].pc \in {"trunc", "send"}
    BY <1>10, StoreSessionOnly DEF TypeInv
  <2>. QED BY <2>1, QuietOnly DEF Active, Ended
<1>11. CASE Truncate(c)
  <2>1. Only(c, {"pc"}) /\ task[c].pc = "trunc" /\ task'[c].pc = "write"
    BY <1>11, GotoOnly DEF TypeInv, Truncate
  <2>. QED BY <2>1, QuietOnly DEF Active, Ended
<1>12. CASE Write(c)
  <2>1. Only(c, {"pc"}) /\ task[c].pc = "write" /\ task'[c].pc = "send"
    BY <1>12, GotoOnly DEF TypeInv, Write
  <2>. QED BY <2>1, QuietOnly DEF Active, Ended
<1>13. CASE SendData(c)
  <2> SUFFICES ASSUME NEW d \in Conn PROVE Quiet(d)
    BY <1>1
  <2>1. CASE d # c
    <3>1. task'[d] = task[d]
      BY <1>13, <2>1, SendDataOnly DEF TypeInv, Only
    <3>. QED BY <3>1 DEF Quiet
  <2>2. CASE d = c
    <3>1. task'[c].buffer = task[c].buffer /\ task[c].pc = "send" /\ task'[c].pc \in {"wait", "close"}
      BY <1>13, SendDataOnly DEF TypeInv, Only, TaskFields
    <3>. QED BY <2>2, <3>1 DEF Quiet, Active, Ended
  <2>. QED BY <2>1, <2>2
<1>14. CASE Close(c)
  <2>1. PICK pc \in {"reclose", "done"} : Goto(c, pc)
    BY <1>14 DEF Close
  <2>2. Only(c, {"pc"}) /\ task[c].pc = "close" /\ task'[c].pc \in {"reclose", "done"}
    BY <1>14, <2>1, GotoOnly DEF TypeInv, Close
  <2>. QED BY <1>1, <2>2, QuietOnly DEF Active, Ended
<1>15. CASE CloseAgain(c)
  <2>1. Only(c, {"pc"}) /\ task[c].pc = "reclose" /\ task'[c].pc = "done"
    BY <1>15, GotoOnly DEF TypeInv, CloseAgain
  <2>. QED BY <1>1, <2>1, QuietOnly DEF Active, Ended
<1>. QED BY <1>1, <1>2, <1>3, <1>4, <1>5, <1>6, <1>7, <1>8, <1>9, <1>10, <1>11, <1>12, <1>13, <1>14, <1>15 DEF QuietStep

LEMMA OneMore ==
  ASSUME NEW S, NEW s \in Seq(S), NEW a
  PROVE  /\ \E T : Append(s, a) \in Seq(T)
         /\ \A i \in DOMAIN Append(s, a) : \/ i \in DOMAIN s /\ Append(s, a)[i] = s[i]
                                           \/ Append(s, a)[i] = a
<1> DEFINE T == S \cup {a}
<1>1. s \in Seq(T) /\ a \in T
  BY SeqMonotonic
<1> HIDE DEF T
<1>2. /\ Append(s, a) \in Seq(T) /\ Len(Append(s, a)) = Len(s) + 1
      /\ \A i \in 1 .. Len(s) : Append(s, a)[i] = s[i]
      /\ Append(s, a)[Len(s) + 1] = a
  BY <1>1, AppendProperties
<1>3. /\ Len(s) \in Nat /\ DOMAIN s = 1 .. Len(s)
      /\ DOMAIN Append(s, a) = 1 .. Len(Append(s, a))
  BY <1>1, <1>2, LenProperties
<1>4. ASSUME NEW i \in DOMAIN Append(s, a)
      PROVE  i \in 1 .. Len(s) \/ i = Len(s) + 1
  BY <1>2, <1>3
<1>. QED BY <1>2, <1>3, <1>4

LEMMA AnswersStay ==
  ASSUME tls' = tls, ghost.reused => ghost'.reused, NEW a, AnswerOK(a)
  PROVE  \/ a = Refused /\ (tls' \/ ghost'.reused)
         \/ a # Refused /\ (a.got = Request[a.rq].size \/ (tls' /\ Request[a.rq].size > 1))
BY DEF AnswerOK, WholeBody

LEMMA OutboxStays ==
  ASSUME OutboxOK, tls' = tls, ghost.reused => ghost'.reused, outbox' = outbox
  PROVE  OutboxOK'
<1>1. ASSUME NEW c \in Conn, NEW i \in DOMAIN outbox'[c] PROVE AnswerOK(outbox[c][i])'
  <2>1. AnswerOK(outbox[c][i])
    BY DEF OutboxOK
  <2>. QED BY <2>1, AnswersStay DEF AnswerOK, WholeBody
<1>. QED BY <1>1 DEF OutboxOK

LEMMA OutboxGrows ==
  ASSUME OutboxOK, tls' = tls, ghost.reused => ghost'.reused,
         NEW d \in Conn, NEW a, AnswerOK(a), outbox' = [outbox EXCEPT ![d] = Append(@, a)]
  PROVE  OutboxOK'
<1>1. PICK S : outbox[d] \in Seq(S)
  BY DEF OutboxOK
<1>2. DOMAIN outbox' = Conn /\ outbox'[d] = Append(outbox[d], a) /\ \A c \in Conn \ {d} : outbox'[c] = outbox[c]
  BY DEF OutboxOK
<1>3. \A c \in Conn : \E T : outbox'[c] \in Seq(T)
  BY <1>1, <1>2, OneMore DEF OutboxOK
<1>4. ASSUME NEW c \in Conn, NEW i \in DOMAIN outbox'[c] PROVE AnswerOK(outbox'[c][i])
  <2>1. CASE c = d
    <3>1. \/ i \in DOMAIN outbox[d] /\ outbox'[d][i] = outbox[d][i]
          \/ outbox'[d][i] = a
      BY <1>1, <1>2, <2>1, OneMore
    <3>. QED BY <2>1, <3>1 DEF OutboxOK
  <2>2. CASE c # d
    BY <1>2, <2>2 DEF OutboxOK
  <2>. QED BY <2>1, <2>2
<1>5. ASSUME NEW c \in Conn, NEW i \in DOMAIN outbox'[c] PROVE AnswerOK(outbox[c][i])'
  BY <1>4, AnswersStay DEF AnswerOK, WholeBody
<1>. QED BY <1>2, <1>3, <1>5 DEF OutboxOK

LEMMA BodyInit == TaskInit => BodyInv
<1> SUFFICES ASSUME TaskInit PROVE BodyInv
  OBVIOUS
<1>1. OutboxOK
  <2>1. \A c \in Conn : outbox[c] = <<>>
    BY DEF TaskInit
  <2>2. <<>> \in Seq({}) /\ DOMAIN <<>> = {}
    OBVIOUS
  <2>3. \A c \in Conn : \E S : outbox[c] \in Seq(S)
    BY <2>1, <2>2
  <2>. QED BY <2>1, <2>2, <2>3 DEF TaskInit, OutboxOK
<1>2. ASSUME NEW c \in Conn PROVE CountOK(c) /\ FrameOK(c)
  <2>1. task[c].pc = "new" /\ task[c].buffer = <<>> /\ inbox[c] = <<>>
    BY DEF TaskInit, Idle
  <2>2. CountOK(c)
    BY <2>1 DEF CountOK, Active
  <2>3. <<>> \o <<>> = <<>> /\ Len(<<>>) = 0
    OBVIOUS
  <2>4. Framed(<<>>, 0)
    BY <2>3 DEF Framed
  <2>. QED BY <2>1, <2>2, <2>3, <2>4 DEF FrameOK, Left
<1>. QED BY <1>1, <1>2 DEF BodyInv

\* The types the framing lemmas ask for.
LEMMA StreamTypes ==
  ASSUME TypeInv, NEW c \in Conn
  PROVE  /\ task[c].buffer \in Seq(Item) /\ inbox[c] \in Seq(Item)
         /\ task[c].buffer \o inbox[c] \in Seq(Item)
<1>1. task[c].buffer \in Seq(Item) /\ inbox[c] \in Seq(Item)
  BY DEF TypeInv, TaskOK, OthersOK
<1>. QED BY <1>1, ConcatProperties

LEMMA BodySend ==
  ASSUME TypeInv, BodyInv, NEW c \in Conn, Send(c)
  PROVE  BodyInv'
<1>1. /\ task' = task /\ tls' = tls /\ outbox' = outbox /\ ghost'.reused = ghost.reused
      /\ c \in Scene[workload].conns
  BY DEF Send, TypeInv, Shape, GhostFields
<1>2. OutboxOK'
  BY <1>1, OutboxStays DEF BodyInv
<1>3. ASSUME NEW d \in Conn PROVE CountOK(d)'
  <2>1. CountOK(d)
    BY DEF BodyInv
  <2>. QED BY <1>1, <2>1 DEF CountOK, PerPiece, WholeBody
<1>4. PICK r \in Scene[workload].requests[c] :
        inbox' = [inbox EXCEPT ![c] = @ \o <<[kind |-> "head", rq |-> r, id |-> cookie[Owner(c)], by |-> Owner(c)]>> \o Body(r)]
  BY DEF Send
<1> DEFINE h == [kind |-> "head", rq |-> r, id |-> cookie[Owner(c)], by |-> Owner(c)]
           b == Body(r)
<1>5. /\ <<h>> \in Seq(Item) /\ h.kind = "head" /\ h \in Item
      /\ b \in Seq(Item) /\ Len(b) = Size(h) /\ \A i \in 1 .. Len(b) : b[i].kind = "body"
  <2>1. /\ <<h>> \in Seq(Item)
        /\ b \in Seq(Item) /\ Len(b) = Request[r].size /\ \A i \in 1 .. Len(b) : b[i].kind = "body"
    BY <1>1, SentItems
  <2>2. Size(h) = Request[r].size /\ h.kind = "head"
    BY DEF Size
  <2>3. h \in Item
    <3>1. \A x : <<x>> \in Seq(Item) => x \in Item
      OBVIOUS
    <3>. QED BY <2>1, <3>1
  <2>. QED BY <2>1, <2>2, <2>3
<1>6. inbox' = [inbox EXCEPT ![c] = (inbox[c] \o <<h>>) \o b]
  BY <1>4
<1> HIDE DEF h, b
<1>7. \A d \in Conn \ {c} : inbox'[d] = inbox[d]
  BY <1>6
<1>8. inbox'[c] = (inbox[c] \o <<h>>) \o b
  BY <1>6 DEF TypeInv, OthersOK
<1>9. ASSUME NEW d \in Conn, ~tls, ~ghost.reused, task[d].pc \notin Ended
      PROVE  Framed(task[d].buffer \o inbox'[d], Left(d))
  <2>1. Framed(task[d].buffer \o inbox[d], Left(d))
    BY <1>9 DEF BodyInv, FrameOK
  <2>2. CASE d = c
    <3> DEFINE s == task[c].buffer
               i == inbox[c]
    <3>1. s \in Seq(Item) /\ i \in Seq(Item) /\ s \o i \in Seq(Item)
      BY StreamTypes
    <3>2. \A x, y, z \in Seq(Item) : (x \o y) \o z = x \o (y \o z) /\ x \o y \in Seq(Item) /\ y \o z \in Seq(Item)
      BY ConcatAssociative, ConcatProperties
    <3>3. Left(c) \in Nat
      BY DEF TypeInv, TaskOK, Left, Active
    <3>4. Framed(s \o i, Left(c))
      BY <2>1, <2>2
    <3> HIDE DEF s, i
    <3>5. s \o ((i \o <<h>>) \o b) = (s \o i) \o (<<h>> \o b)
      <4>1. (i \o <<h>>) \o b = i \o (<<h>> \o b) /\ <<h>> \o b \in Seq(Item)
        BY SMTT(30), <1>5, <3>1, <3>2
      <4>. QED BY SMTT(30), <3>1, <3>2, <4>1
    <3>6. Framed((s \o i) \o (<<h>> \o b), Left(c))
      BY <1>5, <3>1, <3>3, <3>4, FramedSend DEF Item
    <3>. QED BY <1>8, <2>2, <3>5, <3>6 DEF s, i
  <2>3. CASE d # c
    BY <1>7, <2>1, <2>3
  <2>. QED BY <2>2, <2>3
<1>10. ASSUME NEW d \in Conn, ~tls, ~ghost'.reused, task'[d].pc \notin Ended
       PROVE  Framed(task'[d].buffer \o inbox'[d], Left(d)')
  <2>1. Left(d)' = Left(d)
    BY <1>1 DEF Left
  <2>. QED BY <1>1, <1>9, <1>10, <2>1
<1>11. \A d \in Conn : FrameOK(d)'
  BY <1>1, <1>10 DEF FrameOK, Framed, FramedAt, Size
<1>. QED BY <1>2, <1>3, <1>11 DEF BodyInv

LEMMA BodyReadRequest ==
  ASSUME TypeInv, PeerInv, BodyInv, NEW c \in Conn, ReadRequest(c)
  PROVE  BodyInv'
<1>1. PICK n \in Nat :
        LET got == task[c].buffer \o SubSeq(inbox[Peer(c)], 1, n)
        IN  /\ n <= Len(inbox[Peer(c)]) /\ got # <<>>
            /\ inbox' = [inbox EXCEPT ![Peer(c)] = SubSeq(@, n + 1, Len(@))]
            /\ \/ got[1].kind = "body" /\ BodyRefused(c, got)
               \/ got[1].kind # "body" /\ HeadRead(c, got)
  BY ReadRequestOnly DEF TypeInv
<1>2. task[c].pc = "wait" /\ Peer(c) # None /\ tls' = tls /\ ghost' = ghost
  BY ReadRequestOnly DEF TypeInv
<1>3. Peer(c) \in Conn
  BY <1>2 DEF Peer, TypeInv, OthersOK, TaskOK
<1> DEFINE got == task[c].buffer \o SubSeq(inbox[Peer(c)], 1, n)
           rest == SubSeq(inbox[Peer(c)], n + 1, Len(inbox[Peer(c)]))
<1>4. /\ got # <<>> /\ inbox' = [inbox EXCEPT ![Peer(c)] = rest]
      /\ \/ got[1].kind = "body" /\ BodyRefused(c, got)
         \/ got[1].kind # "body" /\ HeadRead(c, got)
  BY <1>1
<1>5. got \in Seq(Item) /\ rest \in Seq(Item) /\ got \o rest = task[c].buffer \o inbox[Peer(c)]
  <2>1. task[c].buffer \in Seq(Item) /\ inbox[Peer(c)] \in Seq(Item) /\ n <= Len(inbox[Peer(c)])
    BY <1>1, <1>3, StreamTypes
  <2>2. /\ SubSeq(inbox[Peer(c)], 1, n) \in Seq(Item) /\ rest \in Seq(Item)
        /\ got \o rest = task[c].buffer \o inbox[Peer(c)]
    <3>1. \A b, s \in Seq(Item) : \A m \in Nat : m <= Len(s) =>
            /\ SubSeq(s, 1, m) \in Seq(Item) /\ SubSeq(s, m + 1, Len(s)) \in Seq(Item)
            /\ (b \o SubSeq(s, 1, m)) \o SubSeq(s, m + 1, Len(s)) = b \o s
      BY Moved
    <3>. QED BY <2>1, <3>1
  <2>. QED BY <2>1, <2>2, ConcatProperties
<1> HIDE DEF got, rest
<1>6. got[1] \in Item /\ got[1].kind \in {"head", "body"}
  <2>1. got[1] \in Item
    BY <1>4, <1>5
  <2>. QED BY <2>1, ItemKinds DEF Item
\* Without TLS a request begins here.
<1>7. ASSUME ~tls, ~ghost.reused
      PROVE  /\ Peer(c) = c /\ got[1].kind = "head"
             /\ Framed(Tail(got) \o rest, Size(got[1]))
  <2>1. Peer(c) = c
    BY <1>2, <1>7, OwnPeer DEF Away
  <2>2. Framed(got \o rest, 0)
    BY <1>2, <1>5, <1>7, <2>1 DEF BodyInv, FrameOK, Left, Ended
  <2>3. /\ got \o rest \in Seq(Item) /\ got \o rest # <<>> /\ (got \o rest)[1] = got[1]
        /\ Tail(got \o rest) = Tail(got) \o rest
    <3>1. \A a, b \in Seq(Item) : a # <<>> =>
            /\ a \o b \in Seq(Item) /\ a \o b # <<>> /\ (a \o b)[1] = a[1]
            /\ Tail(a \o b) = Tail(a) \o b
      BY TailOfConcat
    <3>2. got # <<>> /\ got \in Seq(Item) /\ rest \in Seq(Item)
      BY <1>4, <1>5
    <3>. QED BY <3>1, <3>2
  <2>4. Len(got \o rest) \in Nat /\ Len(got \o rest) > 0
    BY <2>3, EmptySeq
  <2>5. got[1].kind = "head"
    BY <2>2, <2>3, <2>4 DEF Framed
  <2>6. Size(got[1]) \in Nat
    BY <1>6, <2>5, SizeIsNat DEF Item
  <2>7. Framed(Tail(got \o rest), Size(got[1]))
    BY <2>2, <2>3, <2>6, FramedTail DEF Item
  <2>. QED BY <2>1, <2>3, <2>5, <2>7
<1>8. /\ \A d \in Conn \ {c} : task'[d] = task[d]
      /\ task'[c].buffer = Tail(got)
  BY <1>4 DEF BodyRefused, HeadRead, Only
<1>9. \/ task'[c].pc = "close"
      \/ /\ got[1].kind = "head"
         /\ task'[c].rq = got[1].rq /\ task'[c].left = Size(got[1]) /\ task'[c].got = 0
         /\ task'[c].pc = IF Size(got[1]) > 0 THEN "body" ELSE "load"
  BY <1>4, <1>6 DEF BodyRefused, HeadRead, Size
<1>10. CountOK(c)'
  <2>1. CASE task'[c].pc = "close"
    BY <2>1 DEF CountOK, Active
  <2>2. CASE /\ got[1].kind = "head"
             /\ task'[c].rq = got[1].rq /\ task'[c].left = Size(got[1]) /\ task'[c].got = 0
             /\ task'[c].pc = IF Size(got[1]) > 0 THEN "body" ELSE "load"
    <3>1. Size(got[1]) \in Nat /\ Size(got[1]) = Request[task'[c].rq].size
      BY <1>6, <2>2, SizeIsNat DEF Item, Size
    <3>2. PerPiece' \in Int /\ PerPiece' * 0 = 0
      BY DEF PerPiece
    <3>. QED BY <2>2, <3>1, <3>2 DEF CountOK, WholeBody
  <2>. QED BY <1>9, <2>1, <2>2
<1>11. ASSUME NEW d \in Conn \ {c} PROVE CountOK(d)'
  <2>1. CountOK(d)
    BY DEF BodyInv
  <2>. QED BY <1>2, <1>8, <2>1 DEF CountOK, PerPiece, WholeBody
<1>12. ASSUME NEW d \in Conn, ~tls, ~ghost.reused, task'[d].pc \notin Ended
       PROVE  Framed(task'[d].buffer \o inbox'[d], Left(d)')
  <2>1. CASE d = c
    <3>1. inbox'[c] = rest
      BY <1>3, <1>4, <1>7, <1>12 DEF TypeInv, OthersOK
    <3>2. Left(c)' = Size(got[1])
      <4>1. Size(got[1]) \in Nat
        BY <1>6, <1>7, <1>12, SizeIsNat DEF Item
      <4>. QED BY <1>9, <1>12, <2>1, <4>1 DEF Left, Ended
    <3>. QED BY <1>7, <1>8, <1>12, <2>1, <3>1, <3>2
  <2>2. CASE d # c
    <3>1. inbox'[d] = inbox[d] /\ task'[d] = task[d]
      BY <1>4, <1>7, <1>8, <1>12, <2>2
    <3>2. Left(d)' = Left(d)
      BY <3>1 DEF Left
    <3>3. Framed(task[d].buffer \o inbox[d], Left(d))
      BY <1>12, <3>1 DEF BodyInv, FrameOK
    <3>. QED BY <3>1, <3>2, <3>3
  <2>. QED BY <2>1, <2>2
<1>13. \A d \in Conn : FrameOK(d)'
  BY <1>2, <1>12 DEF FrameOK, Framed, FramedAt, Size
<1>14. OutboxOK'
  <2>1. CASE got[1].kind = "body" /\ BodyRefused(c, got)
    <3>1. outbox' = [outbox EXCEPT ![Peer(c)] = Append(@, Refused)]
      BY <2>1 DEF BodyRefused
    <3>2. AnswerOK(Refused)
      BY <1>7, <2>1 DEF AnswerOK
    <3>. QED BY <1>2, <1>3, <3>1, <3>2, OutboxGrows DEF BodyInv
  <2>2. CASE got[1].kind # "body" /\ HeadRead(c, got)
    BY <1>2, <2>2, OutboxStays DEF BodyInv, HeadRead
  <2>. QED BY <1>4, <2>1, <2>2
<1>. QED BY <1>10, <1>11, <1>13, <1>14 DEF BodyInv

\* What a piece counts for, and when none is left.
LEMMA Pieces ==
  ASSUME NEW p \in {1, 2}, NEW left \in Int, NEW got \in Nat, NEW size, left > 0, left + p * got = size
  PROVE  /\ (left - p) + p * (got + 1) = size
         /\ left - p <= 0 => got + 1 = size \/ (p = 2 /\ size > 1)
<1>1. CASE p = 1
  BY <1>1
<1>2. CASE p = 2
  <2>1. left \in {1, 2} \/ left - p > 0
    BY <1>2
  <2>2. CASE left = 1
    BY <1>2, <2>2
  <2>3. CASE left = 2
    BY <1>2, <2>3
  <2>4. p * got = 2 * got /\ p * (got + 1) = 2 * got + 2
    BY <1>2
  <2>. QED BY <1>2, <2>1, <2>2, <2>3, <2>4
<1>. QED BY <1>1, <1>2

LEMMA BodyReadData ==
  ASSUME TypeInv, PeerInv, BodyInv, NEW c \in Conn, ReadData(c)
  PROVE  BodyInv'
<1>1. /\ task[c].pc = "body"
      /\ task'[c].left = task[c].left - Counted(1)
      /\ task'[c].got = task[c].got + 1
      /\ task'[c].pc = IF task'[c].left > 0 THEN "body" ELSE "load"
      /\ \/ /\ task[c].buffer # <<>>
            /\ Only(c, {"pc", "buffer", "left", "got"})
            /\ task'[c].buffer = Tail(task[c].buffer)
            /\ inbox' = inbox
         \/ /\ task[c].buffer = <<>>
            /\ Peer(c) # None /\ inbox[Peer(c)] # <<>>
            /\ Only(c, {"pc", "left", "got"})
            /\ inbox' = [inbox EXCEPT ![Peer(c)] = Tail(@)]
      /\ tls' = tls /\ outbox' = outbox /\ ghost' = ghost
  BY ReadDataOnly DEF TypeInv
<1>2. /\ \A d \in Conn \ {c} : task'[d] = task[d]
      /\ task'[c].rq = task[c].rq
  BY <1>1 DEF Only, TaskFields
<1>3. OutboxOK'
  BY <1>1, OutboxStays DEF BodyInv
<1>4. /\ PerPiece \in {1, 2} /\ PerPiece' = PerPiece /\ (tls <=> PerPiece = 2) /\ Counted(1) = PerPiece
  BY <1>1 DEF PerPiece, Counted
<1>5. /\ task[c].left \in Int /\ task[c].got \in Nat /\ task[c].left > 0
      /\ task[c].left + PerPiece * task[c].got = Request[task[c].rq].size
  BY <1>1 DEF TypeInv, TaskOK, Active, BodyInv, CountOK
<1>6. CountOK(c)'
  <2> DEFINE size == Request[task[c].rq].size
             left == task[c].left
             got == task[c].got
             p == PerPiece
  <2>1. left \in Int /\ got \in Nat /\ left > 0 /\ left + p * got = size /\ p \in {1, 2}
    BY <1>4, <1>5
  <2> HIDE DEF size, left, got, p
  <2>2. /\ (left - p) + p * (got + 1) = size
        /\ left - p <= 0 => got + 1 = size \/ (p = 2 /\ size > 1)
    BY <2>1, Pieces
  <2>3. task'[c].left = left - p /\ task'[c].got = got + 1 /\ Request[task'[c].rq].size = size /\ PerPiece' = p
    BY <1>1, <1>2, <1>4 DEF left, got, size, p
  <2>4. CASE left - p > 0
    BY <1>1, <2>2, <2>3, <2>4 DEF CountOK
  <2>5. CASE ~(left - p > 0)
    <3>1. left - p <= 0
      BY <2>1, <2>5
    <3>2. got + 1 = size \/ (tls' /\ size > 1)
      BY <1>1, <1>4, <2>2, <3>1 DEF p
    <3>. QED BY <1>1, <2>3, <2>5, <3>2 DEF CountOK, WholeBody
  <2>. QED BY <2>4, <2>5
<1>7. ASSUME NEW d \in Conn \ {c} PROVE CountOK(d)'
  <2>1. CountOK(d)
    BY DEF BodyInv
  <2>. QED BY <1>1, <1>2, <2>1 DEF CountOK, PerPiece, WholeBody
<1>8. ASSUME NEW d \in Conn, ~tls, ~ghost.reused, task'[d].pc \notin Ended
      PROVE  Framed(task'[d].buffer \o inbox'[d], Left(d)')
  <2>1. Peer(c) = c
    BY <1>1, <1>8, OwnPeer DEF Away
  <2>2. CASE d = c
    <3> DEFINE s == task[c].buffer \o inbox[c]
    <3>1. task[c].buffer \in Seq(Item) /\ inbox[c] \in Seq(Item) /\ s \in Seq(Item)
      BY StreamTypes
    <3>2. task'[c].buffer \o inbox'[c] = Tail(s) /\ s # <<>>
      <4>1. CASE task[c].buffer # <<>> /\ task'[c].buffer = Tail(task[c].buffer) /\ inbox' = inbox
        <5>1. \A a, b \in Seq(Item) : a # <<>> => a \o b # <<>> /\ Tail(a \o b) = Tail(a) \o b
          BY TailOfConcat
        <5>2. s # <<>> /\ Tail(s) = Tail(task[c].buffer) \o inbox[c]
          BY <3>1, <4>1, <5>1
        <5>. QED BY <4>1, <5>2
      <4>2. CASE /\ task[c].buffer = <<>> /\ inbox[c] # <<>>
                 /\ Only(c, {"pc", "left", "got"})
                 /\ inbox' = [inbox EXCEPT ![Peer(c)] = Tail(@)]
        <5>1. task'[c].buffer = <<>> /\ inbox'[c] = Tail(inbox[c])
          BY <2>1, <4>2 DEF Only, TaskFields, TypeInv, OthersOK
        <5>2. Tail(inbox[c]) \in Seq(Item)
          BY <3>1, <4>2
        <5>3. \A x \in Seq(Item) : <<>> \o x = x
          BY ConcatEmptySeq
        <5>4. s = inbox[c]
          BY <3>1, <4>2, <5>3
        <5>5. task'[c].buffer \o inbox'[c] = Tail(inbox[c])
          BY <5>1, <5>2, <5>3
        <5> HIDE DEF s
        <5>. QED BY <4>2, <5>4, <5>5
      <4>. QED BY <1>1, <2>1, <4>1, <4>2
    <3>3. Framed(s, task[c].left)
      BY <1>1, <1>8 DEF BodyInv, FrameOK, Left, Ended
    <3>4. PerPiece = 1
      BY <1>8 DEF PerPiece
    <3>5. task[c].left \in Nat /\ task[c].left > 0 /\ task'[c].left = task[c].left - 1 /\ task'[c].left \in Nat
      BY <1>1, <1>4, <1>5, <3>4
    <3>6. Left(c)' = task'[c].left
      BY <1>1, <3>5 DEF Left
    <3> HIDE DEF s
    <3>7. Framed(Tail(s), task'[c].left)
      <4> DEFINE k == task[c].left
                 l == task'[c].left
      <4>1. k \in Nat /\ l \in Nat /\ k > 0 /\ l = k - 1 /\ Framed(s, k)
        BY <3>3, <3>5
      <4> HIDE DEF k, l
      <4>2. Framed(Tail(s), l)
        BY <3>1, <3>2, <4>1, FramedTail DEF Item
      <4>. QED BY <4>2 DEF l
    <3>. QED BY <2>2, <3>2, <3>6, <3>7
  <2>3. CASE d # c
    <3>1. inbox'[d] = inbox[d] /\ task'[d] = task[d]
      <4>1. CASE inbox' = inbox
        BY <1>2, <2>3, <4>1
      <4>2. CASE inbox' = [inbox EXCEPT ![Peer(c)] = Tail(@)]
        BY <1>2, <2>1, <2>3, <4>2 DEF TypeInv, OthersOK
      <4>. QED BY <1>1, <4>1, <4>2
    <3>2. Left(d)' = Left(d)
      BY <3>1 DEF Left
    <3>3. Framed(task[d].buffer \o inbox[d], Left(d))
      BY <1>8, <3>1 DEF BodyInv, FrameOK
    <3>. QED BY <3>1, <3>2, <3>3
  <2>. QED BY <2>2, <2>3
<1>9. \A d \in Conn : FrameOK(d)'
  BY <1>1, <1>8 DEF FrameOK, Framed, FramedAt, Size
<1>. QED BY <1>3, <1>6, <1>7, <1>9 DEF BodyInv

\* What is sent as an answer to a request is told from a refusal.
LEMMA SentOK ==
  ASSUME TypeInv, BodyInv, NEW c \in Conn, task[c].pc = "send"
  PROVE  AnswerOK(Sent(c)) /\ Sent(c) # Refused
<1>1. Sent(c).rq = task[c].rq /\ Sent(c).got = task[c].got
  BY DEF Sent
<1>2. task[c].rq \in DOMAIN Request /\ Refused.rq = None
  BY DEF TypeInv, TaskOK, Active, Refused
<1>3. WholeBody(task[c].got, task[c].rq)
  BY DEF BodyInv, CountOK, Active
<1>. QED BY <1>1, <1>2, <1>3, NoneApart DEF AnswerOK

LEMMA BodyStep == TypeInv /\ PeerInv /\ BodyInv /\ [TaskNext]_taskVars => BodyInv'
<1> SUFFICES ASSUME TypeInv, PeerInv, BodyInv, [TaskNext]_taskVars PROVE BodyInv'
  OBVIOUS
<1>1. CASE UNCHANGED taskVars
  <2>1. /\ task' = task /\ tls' = tls /\ inbox' = inbox /\ outbox' = outbox /\ ghost' = ghost
    BY <1>1 DEF taskVars
  <2>2. \A d \in Conn : Quiet(d)
    BY <2>1 DEF Quiet
  <2>. QED BY <2>1, <2>2, QuietKeeps, OutboxStays DEF BodyInv
<1>2. CASE TaskNext
  <2>1. PICK c \in Conn : Send(c) \/ HangUp(c) \/ Accept(c) \/ TaskStep(c)
    BY <1>2 DEF TaskNext
  <2>2. CASE QuietStep(c)
    <3>1. /\ tls' = tls /\ inbox' = inbox /\ (ghost.reused => ghost'.reused)
          /\ \A d \in Conn : Quiet(d)
      BY <2>2, QuietSteps
    <3>2. OutboxOK'
      <4>1. CASE SendData(c)
        <5>1. CASE outbox' = outbox
          BY <3>1, <5>1, OutboxStays DEF BodyInv
        <5>2. CASE Peer(c) # None /\ outbox' = [outbox EXCEPT ![Peer(c)] = Append(@, Sent(c))]
          <6>1. task[c].pc = "send"
            BY <4>1 DEF SendData
          <6>2. Peer(c) \in Conn
            BY <5>2, <6>1 DEF Peer, TypeInv, OthersOK, TaskOK
          <6>. QED BY <3>1, <5>2, <6>1, <6>2, SentOK, OutboxGrows DEF BodyInv
        <5>. QED BY <4>1, <5>1, <5>2, SendDataOnly DEF TypeInv
      <4>2. CASE ~SendData(c)
        <5>1. outbox' = outbox
          BY <2>2, <4>2 DEF QuietStep, HangUp, Accept, TimeOut, EndOfFile, Load, BindRequest, BindResponse, Invoke,
                 PhaseTwoStep, StoreSession, Truncate, Write, Close, CloseAgain
        <5>. QED BY <3>1, <5>1, OutboxStays DEF BodyInv
      <4>. QED BY <4>1, <4>2
    <3>. QED BY <3>1, <3>2, QuietKeeps DEF BodyInv
  <2>. QED BY <2>1, <2>2, BodySend, BodyReadRequest, BodyReadData DEF TaskStep, QuietStep
<1>. QED BY <1>1, <1>2

\* BodyIsWhole: an answered request's body has been read whole, and without TLS
\* no body is taken for a request, as long as no descriptor was used again that
\* is then closed a second time.
THEOREM BodiesWhole == TaskSpec => []BodyIsWhole
<1>1. BodyInv => BodyIsWhole
  <2> SUFFICES ASSUME BodyInv, ~ghost.reused
               PROVE  /\ \A r \in Served : r.a.got = Request[r.a.rq].size \/ (tls /\ Request[r.a.rq].size > 1)
                      /\ Answers # Served => tls
    BY DEF BodyIsWhole
  <2>1. ASSUME NEW r \in Answers PROVE AnswerOK(r.a)
    <3>1. PICK c \in Conn : r \in {[on |-> c, a |-> outbox[c][i]] : i \in DOMAIN outbox[c]}
      BY DEF Answers
    <3>2. PICK i \in DOMAIN outbox[c] : r = [on |-> c, a |-> outbox[c][i]]
      BY <3>1
    <3>. QED BY <3>2 DEF BodyInv, OutboxOK
  <2>2. \A r \in Served : r.a.got = Request[r.a.rq].size \/ (tls /\ Request[r.a.rq].size > 1)
    BY <2>1 DEF Served, AnswerOK, WholeBody
  <2>3. ASSUME ~tls PROVE Answers = Served
    BY <2>1, <2>3 DEF Served, AnswerOK
  <2>. QED BY <2>2, <2>3
<1>. QED BY <1>1, TypeInit, TypeStep, PeerInit, PeerStep, BodyInit, BodyStep, PTL DEF TaskSpec

-----------------------------------------------------------------------------
(* Sessions.  Until two sessions get one name, each has an owner: the client *)
(* whose request it was named for.  Heads are sent, sessions loaded, saved   *)
(* and named in answers to their owners only; and the role in one is          *)
(* nobody's, or that of a user whose password its owner has given.            *)
Mine(own, n, u) ==
  {x \in ItemOf(n) : x.kind = "head" => x.by = u /\ (x.id # None => own[x.id] = u)}

SessOf(sess, u, proved) ==
  /\ \A i \in sess.items : i[1] = u
  /\ sess.role \in {"", Anonymous} \/ <<u, sess.role>> \in proved

ConnOwned(own, c) ==
  /\ inbox[c] \in Seq(Mine(own, ghost.named, Owner(c)))
  /\ task[c].buffer \in Seq(Mine(own, ghost.named, Owner(c)))
  /\ task[c].pc \in Active => task[c].by = Owner(c) /\ (task[c].id # None => own[task[c].id] = task[c].by)
  /\ task[c].pc \in Later => SessOf(task[c].sess, task[c].by, ghost.proved)

CookiesOwned(own) == \A u \in Clients : cookie[u] # None => own[cookie[u]] = u
FilesOwned(own) == \A n \in DOMAIN store : SessOf(store[n], own[n], ghost.proved)
AnswerOwned(a, c) == a # Refused => SessOf(a.sess, Owner(c), ghost.proved)
AnswersOwned ==
  /\ DOMAIN outbox = Conn
  /\ \A c \in Conn : \E S : outbox[c] \in Seq(S)
  /\ \A c \in Conn : \A i \in DOMAIN outbox[c] : AnswerOwned(outbox[c][i], c)

Owned(own) == CookiesOwned(own) /\ FilesOwned(own) /\ \A c \in Conn : ConnOwned(own, c)

Owners == [1 .. MaxClock -> Clients \cup {None}]
OwnedInv == ~ghost.collided /\ ~ghost.reused => AnswersOwned /\ \E own \in Owners : Owned(own)

\* A role that is proved stays proved.
LEMMA SessGrows ==
  ASSUME NEW sess, NEW u, NEW p, NEW q, p \subseteq q, SessOf(sess, u, p)
  PROVE  SessOf(sess, u, q)
BY DEF SessOf

LEMMA BlankOf ==
  ASSUME NEW u, NEW p PROVE SessOf(Blank2, u, p)
BY DEF SessOf, Blank2

LEMMA FilesKept ==
  ASSUME NEW own, FilesOwned(own), store' = store, ghost.proved \subseteq ghost'.proved
  PROVE  FilesOwned(own)'
<1>1. ASSUME NEW n \in DOMAIN store PROVE SessOf(store[n], own[n], ghost'.proved)
  BY SessGrows DEF FilesOwned
<1>. QED BY <1>1 DEF FilesOwned

\* A step that neither reads nor loads.
Alike(d) ==
  /\ task'[d].buffer = task[d].buffer
  /\ task'[d].pc \in Active => /\ task[d].pc \in Active
                               /\ task'[d].by = task[d].by /\ task'[d].id = task[d].id
  /\ task'[d].pc \in Later => /\ task[d].pc \in Later
                              /\ task'[d].sess = task[d].sess /\ task'[d].adds = task[d].adds

LEMMA AlikeOwned ==
  ASSUME NEW own, NEW d, ConnOwned(own, d), Alike(d), inbox'[d] = inbox[d], ghost'.named = ghost.named,
         ghost.proved \subseteq ghost'.proved, workload' = workload
  PROVE  ConnOwned(own, d)'
<1>1. Owner(d)' = Owner(d)
  BY DEF Owner
<1>2. /\ inbox'[d] \in Seq(Mine(own, ghost'.named, Owner(d)))
      /\ task'[d].buffer \in Seq(Mine(own, ghost'.named, Owner(d)))
  BY DEF ConnOwned, Alike
<1>3. task'[d].pc \in Active => task'[d].by = Owner(d) /\ (task'[d].id # None => own[task'[d].id] = task'[d].by)
  BY DEF ConnOwned, Alike
<1>4. task'[d].pc \in Later => SessOf(task'[d].sess, task'[d].by, ghost'.proved)
  <2>1. task'[d].pc \in Later => SessOf(task'[d].sess, task'[d].by, ghost.proved)
    BY DEF ConnOwned, Alike, Later
  <2>. QED BY <2>1, SessGrows
<1>. QED BY <1>1, <1>2, <1>3, <1>4 DEF ConnOwned, Mine

LEMMA AlikeOnly ==
  ASSUME TypeInv, NEW c \in Conn, NEW F, Only(c, F), F \cap {"buffer", "by", "id", "sess", "adds"} = {},
         task'[c].pc \in Active => task[c].pc \in Active,
         task'[c].pc \in Later => task[c].pc \in Later
  PROVE  \A d \in Conn : Alike(d)
<1>1. /\ task'[c].buffer = task[c].buffer /\ task'[c].by = task[c].by /\ task'[c].id = task[c].id
      /\ task'[c].sess = task[c].sess /\ task'[c].adds = task[c].adds
  BY DEF Only, TaskFields
<1>2. Alike(c)
  BY <1>1 DEF Alike
<1>3. ASSUME NEW d \in Conn \ {c} PROVE Alike(d)
  BY DEF Only, Alike
<1>. QED BY <1>2, <1>3

AlikeStep(c) ==
  \/ HangUp(c) \/ Accept(c) \/ TimeOut(c) \/ EndOfFile(c)
  \/ BindRequest(c) \/ BindResponse(c) \/ Invoke(c) \/ PhaseTwoStep(c)
  \/ Truncate(c) \/ Write(c) \/ SendData(c) \/ Close(c) \/ CloseAgain(c)

LEMMA AlikeSteps ==
  ASSUME TypeInv, NEW c \in Conn, AlikeStep(c)
  PROVE  /\ workload' = workload /\ inbox' = inbox /\ ghost'.named = ghost.named
         /\ (ghost.reused => ghost'.reused) /\ ghost'.collided = ghost.collided
         /\ ghost'.overlapped = ghost.overlapped /\ ghost'.proved = ghost.proved
         /\ \A d \in Conn : Alike(d)
<1>1. workload' = workload /\ inbox' = inbox
  BY DEF AlikeStep, HangUp, Accept, TimeOut, EndOfFile, BindRequest, BindResponse, Invoke, PhaseTwoStep,
         Truncate, Write, SendData, Close, CloseAgain
<1>2. /\ ghost'.named = ghost.named /\ ghost'.collided = ghost.collided
      /\ ghost'.overlapped = ghost.overlapped /\ ghost'.proved = ghost.proved
  <2>1. CASE Accept(c)
    <3>1. PICK f \in Fd : ghost' = [ghost EXCEPT !.reused = @ \/ \E d \in Conn : task[d].pc = "reclose" /\ task[d].fd = f]
      BY <2>1 DEF Accept
    <3>. QED BY <3>1 DEF TypeInv, Shape, GhostFields
  <2>2. CASE BindRequest(c)
    <3>1. ghost' = [ghost EXCEPT !.mixed = @ \/ \E d \in Conn \ {c} : task[d].pc \in {"request", "response", "invoke"}]
      BY <2>2 DEF BindRequest
    <3>. QED BY <3>1 DEF TypeInv, Shape, GhostFields
  <2>3. CASE ghost' = ghost
    BY <2>3
  <2>. QED BY <2>1, <2>2, <2>3 DEF AlikeStep, HangUp, TimeOut, EndOfFile, BindResponse, Invoke, PhaseTwoStep,
              Truncate, Write, SendData, Close, CloseAgain
<1>3. ghost.reused => ghost'.reused
  BY QuietSteps DEF AlikeStep, QuietStep
<1> SUFFICES \A d \in Conn : Alike(d)
  BY <1>1, <1>2, <1>3
<1>4. CASE HangUp(c)
  BY <1>4 DEF HangUp, Alike
<1>5. CASE Accept(c)
  <2>1. Only(c, {"pc", "fd"}) /\ task'[c].pc = "wait" /\ task[c].pc = "new"
    BY <1>5, AcceptOnly DEF TypeInv, Accept
  <2>. QED BY <2>1, AlikeOnly DEF Active, Later
<1>6. CASE TimeOut(c) \/ EndOfFile(c)
  <2>1. Goto(c, "close")
    BY <1>6 DEF TimeOut, EndOfFile
  <2>2. Only(c, {"pc"}) /\ task'[c].pc = "close"
    BY <2>1, GotoOnly DEF TypeInv
  <2>. QED BY <2>1, <2>2, AlikeOnly DEF Active, Later
<1>7. CASE BindRequest(c)
  <2>1. Only(c, {"pc"}) /\ task[c].pc = "request" /\ task'[c].pc = "response"
    BY <1>7, GotoOnly DEF TypeInv, BindRequest
  <2>. QED BY <2>1, AlikeOnly DEF Active, Later
<1>8. CASE BindResponse(c)
  <2>1. Only(c, {"pc"}) /\ task[c].pc = "response" /\ task'[c].pc = "invoke"
    BY <1>8, GotoOnly DEF TypeInv, BindResponse
  <2>. QED BY <2>1, AlikeOnly DEF Active, Later
<1>9. CASE Invoke(c)
  <2> SUFFICES ASSUME NEW d \in Conn PROVE Alike(d)
    OBVIOUS
  <2>1. /\ task'[d].buffer = task[d].buffer /\ task'[d].by = task[d].by /\ task'[d].id = task[d].id
        /\ task'[d].sess = task[d].sess /\ task'[d].adds = task[d].adds
    BY <1>9, InvokeOnly DEF TypeInv, TaskFields
  <2>2. task'[d].pc = task[d].pc \/ (task[d].pc = "invoke" /\ task'[d].pc = "two")
    BY <1>9, InvokeOnly DEF TypeInv
  <2>. QED BY <2>1, <2>2 DEF Alike, Active, Later
<1>10. CASE PhaseTwoStep(c)
  <2>1. Only(c, {"pc", "rs"}) /\ task[c].pc = "two" /\ task'[c].pc \in {"wait", "store"}
    BY <1>10, PhaseTwoOnly DEF TypeInv
  <2>. QED BY <2>1, AlikeOnly DEF Active, Later
<1>11. CASE Truncate(c)
  <2>1. Only(c, {"pc"}) /\ task[c].pc = "trunc" /\ task'[c].pc = "write"
    BY <1>11, GotoOnly DEF TypeInv, Truncate
  <2>. QED BY <2>1, AlikeOnly DEF Active, Later
<1>12. CASE Write(c)
  <2>1. Only(c, {"pc"}) /\ task[c].pc = "write" /\ task'[c].pc = "send"
    BY <1>12, GotoOnly DEF TypeInv, Write
  <2>. QED BY <2>1, AlikeOnly DEF Active, Later
<1>13. CASE SendData(c)
  <2> SUFFICES ASSUME NEW d \in Conn PROVE Alike(d)
    OBVIOUS
  <2>1. CASE d # c
    <3>1. task'[d] = task[d]
      BY <1>13, <2>1, SendDataOnly DEF TypeInv, Only
    <3>. QED BY <3>1 DEF Alike
  <2>2. CASE d = c
    <3>1. task'[c].buffer = task[c].buffer /\ task[c].pc = "send" /\ task'[c].pc \in {"wait", "close"}
      BY <1>13, SendDataOnly DEF TypeInv, Only, TaskFields
    <3>. QED BY <2>2, <3>1 DEF Alike, Active, Later
  <2>. QED BY <2>1, <2>2
<1>14. CASE Close(c) \/ CloseAgain(c)
  <2>1. PICK pc \in {"reclose", "done"} : Goto(c, pc)
    BY <1>14 DEF Close, CloseAgain
  <2>2. Only(c, {"pc"}) /\ task'[c].pc \in {"reclose", "done"}
    BY <2>1, GotoOnly DEF TypeInv
  <2>. QED BY <2>2, AlikeOnly DEF Active, Later
<1>. QED BY <1>4, <1>5, <1>6, <1>7, <1>8, <1>9, <1>10, <1>11, <1>12, <1>13, <1>14 DEF AlikeStep

\* The roles that sessions and requests have are of the finite set of roles.
RolesKnown ==
  /\ \A n \in DOMAIN store : store[n].role \in Roles
  /\ \A c \in Conn : task[c].pc \in Later => task[c].sess.role \in Roles

LEMMA HandledRole ==
  ASSUME NEW r \in DOMAIN Request, NEW role \in Roles
  PROVE  /\ Handled[r][role] = UnlessCalled(PhaseOne(Request[r], role))
         /\ DOMAIN Handled[r][role] = XFields
         /\ Handled[r][role].role \in {role, Anonymous} \cup RolesProved[r]
         /\ Handled[r][role].role \in Roles
<1>1. Handled[r][role] = UnlessCalled(PhaseOne(Request[r], role))
  BY DEF Handled
<1>2. RolesProved[r] = Proved(Request[r])
  BY DEF RolesProved, Proved, LoginOf
<1>3. RolesProved[r] \subseteq Roles /\ Anonymous \in Roles
  <2>1. LoginOf(Request[r]).role \in Roles
    BY DEF Roles
  <2>. QED BY <2>1 DEF RolesProved, Roles
<1>. QED BY <1>1, <1>2, <1>3, RoleAfter DEF RolesFrom

LEMMA SessionRole ==
  ASSUME RolesKnown, NEW id PROVE Session(id).role \in Roles
<1>1. Blank2.role \in Roles
  BY DEF Blank2, Roles
<1>. QED BY <1>1 DEF Session, At, RolesKnown

LEMMA RolesInit == TaskInit => RolesKnown
<1> SUFFICES ASSUME TaskInit PROVE RolesKnown
  OBVIOUS
<1>1. DOMAIN store = {} /\ \A c \in Conn : task[c].pc = "new"
  BY DEF TaskInit, Idle
<1>. QED BY <1>1 DEF RolesKnown, Later, Active

\* A step that loads nothing leaves a task the session it has.
LEMMA SessStays ==
  ASSUME TypeInv, NEW c \in Conn, Send(c) \/ ReadRequest(c) \/ ReadData(c) \/ StoreSession(c) \/ AlikeStep(c),
         NEW d \in Conn, task'[d].pc \in Later
  PROVE  task[d].pc \in Later /\ task'[d].sess = task[d].sess
<1>1. CASE Send(c)
  BY <1>1 DEF Send
<1>2. CASE ReadRequest(c)
  <2>1. task'[c].pc \in {"body", "load", "close"} /\ \A e \in Conn \ {c} : task'[e] = task[e]
    BY <1>2, ReadRequestOnly DEF TypeInv, HeadRead, BodyRefused, Only
  <2>. QED BY <2>1 DEF Later, Active
<1>3. CASE ReadData(c)
  <2>1. task'[c].pc \in {"body", "load"} /\ \A e \in Conn \ {c} : task'[e] = task[e]
    BY <1>3, ReadDataOnly DEF TypeInv, Only
  <2>. QED BY <2>1 DEF Later, Active
<1>4. CASE StoreSession(c)
  <2>1. Only(c, {"pc", "id"}) /\ task[c].pc = "store"
    BY <1>4, StoreSessionOnly DEF TypeInv
  <2>. QED BY <2>1 DEF Only, TaskFields, Later, Active
<1>5. CASE AlikeStep(c)
  BY <1>5, AlikeSteps DEF Alike
<1>. QED BY <1>1, <1>2, <1>3, <1>4, <1>5

LEMMA AnswersSame ==
  ASSUME AnswersOwned, workload' = workload, outbox' = outbox, ghost.proved \subseteq ghost'.proved
  PROVE  AnswersOwned'
<1>1. \A c \in Conn : Owner(c)' = Owner(c)
  BY DEF Owner
<1>2. \A c \in Conn : \A i \in DOMAIN outbox[c] :
        outbox[c][i] # Refused => SessOf(outbox[c][i].sess, Owner(c), ghost'.proved)
  BY SessGrows DEF AnswersOwned, AnswerOwned
<1>. QED BY <1>1, <1>2 DEF AnswersOwned, AnswerOwned

LEMMA AnswersMore ==
  ASSUME AnswersOwned, workload' = workload, ghost'.proved = ghost.proved, NEW d \in Conn, NEW a, AnswerOwned(a, d),
         outbox' = [outbox EXCEPT ![d] = Append(@, a)]
  PROVE  AnswersOwned'
<1>1. PICK S : outbox[d] \in Seq(S)
  BY DEF AnswersOwned
<1>2. DOMAIN outbox' = Conn /\ outbox'[d] = Append(outbox[d], a) /\ \A c \in Conn \ {d} : outbox'[c] = outbox[c]
  BY DEF AnswersOwned
<1>3. \A c \in Conn : \E T : outbox'[c] \in Seq(T)
  BY <1>1, <1>2, OneMore DEF AnswersOwned
<1>4. ASSUME NEW c \in Conn, NEW i \in DOMAIN outbox'[c] PROVE AnswerOwned(outbox'[c][i], c)
  <2>1. CASE c = d
    <3>1. \/ i \in DOMAIN outbox[d] /\ outbox'[d][i] = outbox[d][i]
          \/ outbox'[d][i] = a
      BY <1>1, <1>2, <2>1, OneMore
    <3>. QED BY <2>1, <3>1 DEF AnswersOwned
  <2>2. CASE c # d
    BY <1>2, <2>2 DEF AnswersOwned
  <2>. QED BY <2>1, <2>2
<1>5. \A c \in Conn : Owner(c)' = Owner(c)
  BY DEF Owner
<1>6. \A c \in Conn : \A i \in DOMAIN outbox'[c] :
        outbox'[c][i] # Refused => SessOf(outbox'[c][i].sess, Owner(c), ghost'.proved)
  BY <1>4 DEF AnswerOwned
<1>. QED BY <1>2, <1>3, <1>5, <1>6 DEF AnswersOwned, AnswerOwned

\* What the cookies and the files give their owners stays theirs.
LEMMA OwnedAlike ==
  ASSUME NEW own \in Owners, Owned(own), workload' = workload, inbox' = inbox, ghost'.named = ghost.named,
         ghost.proved \subseteq ghost'.proved, \A d \in Conn : Alike(d), CookiesOwned(own)', FilesOwned(own)'
  PROVE  Owned(own)'
<1>1. ASSUME NEW d \in Conn PROVE ConnOwned(own, d)'
  BY AlikeOwned DEF Owned
<1>. QED BY <1>1 DEF Owned

LEMMA OwnedTruncate ==
  ASSUME TypeInv, NEW own \in Owners, Owned(own), NEW c \in Conn, Truncate(c)
  PROVE  Owned(own)'
<1>1. store' = Put(store, task[c].id, Blank2) /\ cookie' = cookie
  BY DEF Truncate
<1>2. ghost'.proved = ghost.proved
  BY DEF Truncate
<1>3. FilesOwned(own)'
  BY <1>1, <1>2, BlankOf DEF Owned, FilesOwned, Put
<1>4. CookiesOwned(own)'
  BY <1>1 DEF Owned, CookiesOwned
<1>. QED BY <1>3, <1>4, AlikeSteps, OwnedAlike DEF AlikeStep

LEMMA OwnedWrite ==
  ASSUME TypeInv, NEW own \in Owners, Owned(own), NEW c \in Conn, Write(c)
  PROVE  Owned(own)'
<1>1. task[c].pc = "write" /\ store' = Put(store, task[c].id, task[c].sess) /\ cookie' = cookie /\ ghost' = ghost
  BY DEF Write
<1>2. own[task[c].id] = task[c].by /\ SessOf(task[c].sess, task[c].by, ghost.proved)
  BY <1>1 DEF TypeInv, TaskOK, Owned, ConnOwned, Active, Later
<1>3. FilesOwned(own)'
  BY <1>1, <1>2 DEF Owned, FilesOwned, Put
<1>4. CookiesOwned(own)'
  BY <1>1 DEF Owned, CookiesOwned
<1>. QED BY <1>3, <1>4, AlikeSteps, OwnedAlike DEF AlikeStep

LEMMA OwnedSendData ==
  ASSUME TypeInv, PeerInv, AnswersOwned, ~ghost.reused, NEW own \in Owners, Owned(own), NEW c \in Conn, SendData(c)
  PROVE  AnswersOwned' /\ Owned(own)'
<1>1. task[c].pc = "send" /\ store' = store /\ workload' = workload /\ ghost' = ghost
  BY DEF SendData
<1>2. Peer(c) = c
  BY <1>1, OwnPeer DEF Away
<1>3. /\ task[c].by = Owner(c) /\ task[c].id # None /\ own[task[c].id] = task[c].by
      /\ SessOf(task[c].sess, task[c].by, ghost.proved)
  BY <1>1 DEF TypeInv, TaskOK, Owned, ConnOwned, Active, Later
<1>4. FilesOwned(own)'
  BY <1>1 DEF Owned, FilesOwned
<1>5. CASE UNCHANGED <<outbox, cookie, acked>>
  <2>1. CookiesOwned(own)'
    BY <1>5 DEF Owned, CookiesOwned
  <2>. QED BY <1>1, <1>4, <1>5, <2>1, AnswersSame, AlikeSteps, OwnedAlike DEF AlikeStep
<1>6. CASE /\ outbox' = [outbox EXCEPT ![Peer(c)] = Append(@, Sent(c))]
           /\ cookie' = [cookie EXCEPT ![Owner(Peer(c))] = IF task[c].fresh THEN task[c].id ELSE @]
  <2>1. cookie' = [cookie EXCEPT ![Owner(c)] = IF task[c].fresh THEN task[c].id ELSE cookie[Owner(c)]]
    BY <1>2, <1>6
  <2>2. CookiesOwned(own)'
    BY <1>3, <2>1 DEF Owned, CookiesOwned, TypeInv, OthersOK
  <2>3. AnswerOwned(Sent(c), c)
    BY <1>3 DEF AnswerOwned, Sent
  <2>4. outbox' = [outbox EXCEPT ![c] = Append(@, Sent(c))]
    BY <1>2, <1>6
  <2>5. AnswersOwned'
    BY <1>1, <2>3, <2>4, AnswersMore
  <2>. QED BY <1>4, <2>2, <2>5, AlikeSteps, OwnedAlike DEF AlikeStep
<1>. QED BY <1>5, <1>6, SendDataOnly DEF TypeInv

LEMMA OwnedQuiet ==
  ASSUME TypeInv, NEW own \in Owners, Owned(own), NEW c \in Conn, AlikeStep(c), cookie' = cookie, store' = store
  PROVE  Owned(own)'
<1>1. CookiesOwned(own)' /\ FilesOwned(own)'
  BY AlikeSteps, FilesKept DEF Owned, CookiesOwned
<1>. QED BY <1>1, AlikeSteps, OwnedAlike

\* A session that gets a name belongs to the client that asked for it.
LEMMA OwnedStoreSession ==
  ASSUME TypeInv, ~ghost'.collided, NEW own \in Owners, Owned(own), NEW c \in Conn, StoreSession(c)
  PROVE  \E new \in Owners : Owned(new)'
<1>1. /\ task[c].pc = "store" /\ task'[c].pc \in {"trunc", "send"}
      /\ Only(c, {"pc", "id"})
      /\ \/ /\ task[c].id = None
            /\ task'[c].id = now
            /\ ghost' = [ghost EXCEPT !.collided = @ \/ ghost.named = now, !.named = now]
            /\ now' \in {now} \cup {n \in {now + 1} : n <= MaxClock}
         \/ /\ task[c].id # None
            /\ task'[c].id = task[c].id
            /\ UNCHANGED <<now, ghost>>
      /\ UNCHANGED <<workload, inbox, cookie, store>>
  BY StoreSessionOnly DEF TypeInv
<1>0. ghost'.proved = ghost.proved
  BY <1>1 DEF TypeInv, Shape, GhostFields
<1>2. CookiesOwned(own)' /\ FilesOwned(own)'
  BY <1>0, <1>1 DEF Owned, CookiesOwned, FilesOwned
<1>3. /\ task'[c].buffer = task[c].buffer /\ task'[c].by = task[c].by
      /\ task'[c].sess = task[c].sess /\ task'[c].adds = task[c].adds
      /\ \A d \in Conn \ {c} : task'[d] = task[d]
  BY <1>1 DEF Only, TaskFields
<1>4. CASE task[c].id # None /\ task'[c].id = task[c].id /\ ghost' = ghost
  <2>1. \A d \in Conn : Alike(d)
    BY <1>1, <1>3, <1>4 DEF Alike, Active, Later
  <2>. QED BY <1>1, <1>2, <1>4, <2>1, OwnedAlike
<1>5. CASE /\ task[c].id = None
           /\ task'[c].id = now
           /\ ghost' = [ghost EXCEPT !.collided = @ \/ ghost.named = now, !.named = now]
  <2>1. ghost'.named = now /\ ghost.named # now
    BY <1>5 DEF TypeInv, Shape, GhostFields
  <2>2. ghost.named \in Nat /\ now \in Nat /\ ghost.named < now /\ now \in 1 .. MaxClock
    BY <2>1, TaskAssumption DEF TypeInv, OthersOK
  <2>3. task[c].by \in Clients
    BY <1>1 DEF TypeInv, TaskOK, Active
  <2>4. PICK new \in Owners :
          new[now] = task[c].by /\ \A n \in 1 .. ghost.named : n # now /\ n \in 1 .. MaxClock /\ new[n] = own[n]
    <3> DEFINE with == [own EXCEPT ![now] = task[c].by]
    <3>1. with \in Owners /\ with[now] = task[c].by
      BY <2>2, <2>3 DEF Owners
    <3>2. \A n \in 1 .. ghost.named : n # now /\ n \in 1 .. MaxClock /\ with[n] = own[n]
      BY <2>2, TaskAssumption DEF Owners
    <3>. QED BY <3>1, <3>2
  <2>5. CookiesOwned(new)'
    <3>1. \A u \in Clients : cookie[u] \in Given
      BY DEF TypeInv, OthersOK
    <3>. QED BY <1>1, <2>4, <3>1 DEF Owned, CookiesOwned, Given
  <2>6. FilesOwned(new)'
    BY <1>0, <1>1, <2>4 DEF Owned, FilesOwned, TypeInv, OthersOK
  <2>7. ASSUME NEW u PROVE Seq(Mine(own, ghost.named, u)) \subseteq Seq(Mine(new, ghost'.named, u))
    <3>1. Mine(own, ghost.named, u) \subseteq Mine(new, ghost'.named, u)
      <4> SUFFICES ASSUME NEW x \in Mine(own, ghost.named, u) PROVE x \in Mine(new, ghost'.named, u)
        OBVIOUS
      <4>1. x \in ItemOf(ghost.named) /\ (x.kind = "head" => x.by = u /\ (x.id # None => own[x.id] = u))
        BY DEF Mine
      <4>2. x \in ItemOf(now)
        BY <2>2, <4>1 DEF ItemOf
      <4>3. x.kind = "head" /\ x.id # None => x.id \in 1 .. ghost.named
        BY <4>1 DEF ItemOf
      <4>. QED BY <2>1, <2>4, <4>1, <4>2, <4>3 DEF Mine
    <3>. QED BY <3>1
  <2>8. ASSUME NEW d \in Conn PROVE ConnOwned(new, d)'
    <3>1. ConnOwned(own, d)
      BY DEF Owned
    <3>2. Owner(d)' = Owner(d)
      BY <1>1 DEF Owner
    <3>3. task'[d].buffer = task[d].buffer /\ task'[d].by = task[d].by /\ task'[d].sess = task[d].sess
      BY <1>3
    <3>4. /\ inbox'[d] \in Seq(Mine(new, ghost'.named, Owner(d)))
          /\ task'[d].buffer \in Seq(Mine(new, ghost'.named, Owner(d)))
      BY <1>1, <2>7, <3>1, <3>3 DEF ConnOwned
    <3>5. task'[d].pc \in Active => task[d].pc \in Active
      BY <1>1, <1>3 DEF Active
    <3>6. task'[d].pc \in Later => task[d].pc \in Later
      BY <1>1, <1>3 DEF Active, Later
    <3>7. task'[d].pc \in Active => task'[d].by = Owner(d) /\ (task'[d].id # None => new[task'[d].id] = task'[d].by)
      <4>1. CASE d = c
        BY <1>5, <2>4, <3>1, <3>3, <3>5, <4>1 DEF ConnOwned
      <4>2. CASE d # c
        <5>1. task'[d] = task[d] /\ task[d].id \in Given
          BY <1>3, <4>2 DEF TypeInv, TaskOK
        <5>. QED BY <2>4, <3>1, <5>1 DEF ConnOwned, Given
      <4>. QED BY <4>1, <4>2
    <3>8. task'[d].pc \in Later => SessOf(task'[d].sess, task'[d].by, ghost'.proved)
      BY <1>0, <3>1, <3>3, <3>6 DEF ConnOwned
    <3>. QED BY <3>2, <3>4, <3>7, <3>8 DEF ConnOwned, Mine
  <2>. QED BY <2>4, <2>5, <2>6, <2>8 DEF Owned
<1>. QED BY <1>1, <1>4, <1>5

\* What another connection has is as it was.
LEMMA OwnedElsewhere ==
  ASSUME NEW own, Owned(own), NEW d \in Conn, task'[d] = task[d], inbox'[d] = inbox[d],
         ghost'.named = ghost.named, ghost.proved \subseteq ghost'.proved, workload' = workload
  PROVE  ConnOwned(own, d)'
<1>1. Alike(d)
  BY DEF Alike
<1>. QED BY <1>1, AlikeOwned DEF Owned

LEMMA OwnedSend ==
  ASSUME TypeInv, NEW own \in Owners, Owned(own), NEW c \in Conn, Send(c)
  PROVE  Owned(own)'
<1>1. /\ task' = task /\ workload' = workload /\ ghost'.named = ghost.named /\ cookie' = cookie /\ store' = store
      /\ c \in Scene[workload].conns /\ ghost'.proved = ghost.proved
  BY DEF Send, TypeInv, Shape, GhostFields
<1>2. CookiesOwned(own)' /\ FilesOwned(own)'
  BY <1>1 DEF Owned, CookiesOwned, FilesOwned
<1>3. PICK r \in Scene[workload].requests[c] :
        inbox' = [inbox EXCEPT ![c] = @ \o <<[kind |-> "head", rq |-> r, id |-> cookie[Owner(c)], by |-> Owner(c)]>> \o Body(r)]
  BY DEF Send
<1> DEFINE h == [kind |-> "head", rq |-> r, id |-> cookie[Owner(c)], by |-> Owner(c)]
           M == Mine(own, ghost.named, Owner(c))
<1>4. <<h>> \in Seq(M)
  <2>1. <<h>> \in Seq(Item)
    BY <1>1, SentItems
  <2>2. h \in Item
    <3>1. \A x : <<x>> \in Seq(Item) => x \in Item
      OBVIOUS
    <3>. QED BY <2>1, <3>1
  <2>3. Owner(c) \in Clients
    BY <1>1, OwnersAreClients DEF TypeInv, OthersOK
  <2>4. h \in M
    BY <2>2, <2>3 DEF Item, Mine, Owned, CookiesOwned
  <2> HIDE DEF h, M
  <2>. QED BY <2>4
<1>5. Body(r) \in Seq(M)
  <2>1. Request[r].size \in Nat
    BY <1>1, SentItems
  <2>2. [kind |-> "body"] \in M
    BY DEF Mine, ItemOf
  <2>3. Body(r) \in [1 .. Request[r].size -> M]
    BY <2>2 DEF Body
  <2> HIDE DEF M
  <2>. QED BY <2>1, <2>3
<1>6. inbox[c] \in Seq(M)
  BY DEF Owned, ConnOwned
<1>7. inbox' = [inbox EXCEPT ![c] = (inbox[c] \o <<h>>) \o Body(r)]
  BY <1>3
<1>8. inbox'[c] = (inbox[c] \o <<h>>) \o Body(r) /\ \A d \in Conn \ {c} : inbox'[d] = inbox[d]
  BY <1>7 DEF TypeInv, OthersOK
<1>9. inbox'[c] \in Seq(M)
  <2> HIDE DEF h, M
  <2>1. \A x, y \in Seq(M) : x \o y \in Seq(M)
    BY ConcatProperties
  <2>. QED BY <1>4, <1>5, <1>6, <1>8, <2>1
<1>10. ConnOwned(own, c)'
  <2>1. ConnOwned(own, c)
    BY DEF Owned
  <2>2. Owner(c)' = Owner(c)
    BY <1>1 DEF Owner
  <2>. QED BY <1>1, <1>9, <2>1, <2>2 DEF ConnOwned, Mine
<1>11. ASSUME NEW d \in Conn \ {c} PROVE ConnOwned(own, d)'
  BY <1>1, <1>8, OwnedElsewhere
<1>. QED BY <1>2, <1>10, <1>11 DEF Owned

LEMMA OwnedReadData ==
  ASSUME TypeInv, PeerInv, ~ghost.reused, NEW own \in Owners, Owned(own), NEW c \in Conn, ReadData(c)
  PROVE  Owned(own)'
<1>1. /\ task[c].pc = "body" /\ task'[c].pc \in {"body", "load"}
      /\ \/ /\ task[c].buffer # <<>>
            /\ Only(c, {"pc", "buffer", "left", "got"})
            /\ task'[c].buffer = Tail(task[c].buffer)
            /\ inbox' = inbox
         \/ /\ Peer(c) # None /\ inbox[Peer(c)] # <<>>
            /\ Only(c, {"pc", "left", "got"})
            /\ inbox' = [inbox EXCEPT ![Peer(c)] = Tail(@)]
      /\ UNCHANGED <<workload, cookie, store, ghost>>
  BY ReadDataOnly DEF TypeInv
<1>2. Peer(c) = c
  BY <1>1, OwnPeer DEF Away
<1>3. CookiesOwned(own)' /\ FilesOwned(own)'
  BY <1>1 DEF Owned, CookiesOwned, FilesOwned
<1>4. /\ task'[c].by = task[c].by /\ task'[c].id = task[c].id
      /\ \A d \in Conn \ {c} : task'[d] = task[d]
  BY <1>1 DEF Only, TaskFields
<1>5. \A d \in Conn \ {c} : inbox'[d] = inbox[d]
  <2>1. CASE inbox' = inbox
    BY <2>1
  <2>2. CASE inbox' = [inbox EXCEPT ![Peer(c)] = Tail(@)]
    BY <1>2, <2>2 DEF TypeInv, OthersOK
  <2>. QED BY <1>1, <2>1, <2>2
<1>6. ASSUME NEW d \in Conn \ {c} PROVE ConnOwned(own, d)'
  BY <1>1, <1>4, <1>5, OwnedElsewhere
<1> DEFINE M == Mine(own, ghost.named, Owner(c))
<1>7. inbox[c] \in Seq(M) /\ task[c].buffer \in Seq(M)
  BY DEF Owned, ConnOwned
<1>8. inbox'[c] \in Seq(M) /\ task'[c].buffer \in Seq(M)
  <2> HIDE DEF M
  <2>1. \A x \in Seq(M) : x # <<>> => Tail(x) \in Seq(M)
    OBVIOUS
  <2>2. CASE task[c].buffer # <<>> /\ task'[c].buffer = Tail(task[c].buffer) /\ inbox' = inbox
    BY <1>7, <2>1, <2>2
  <2>3. CASE /\ Peer(c) # None /\ inbox[Peer(c)] # <<>>
             /\ Only(c, {"pc", "left", "got"})
             /\ inbox' = [inbox EXCEPT ![Peer(c)] = Tail(@)]
    <3>1. task'[c].buffer = task[c].buffer
      BY <2>3 DEF Only, TaskFields
    <3>2. inbox'[c] = Tail(inbox[c])
      BY <1>2, <2>3 DEF TypeInv, OthersOK
    <3>. QED BY <1>2, <1>7, <2>1, <2>3, <3>1, <3>2
  <2>. QED BY <1>1, <2>2, <2>3
<1>9. ConnOwned(own, c)'
  <2>1. task'[c].by = Owner(c) /\ (task'[c].id # None => own[task'[c].id] = task'[c].by)
    BY <1>1, <1>4 DEF Owned, ConnOwned, Active
  <2>2. Owner(c)' = Owner(c)
    BY <1>1 DEF Owner
  <2>. QED BY <1>1, <1>8, <2>1, <2>2 DEF ConnOwned, Mine, Later, Active
<1>. QED BY <1>3, <1>6, <1>9 DEF Owned

LEMMA OwnedReadRequest ==
  ASSUME TypeInv, PeerInv, AnswersOwned, ~ghost.reused, NEW own \in Owners, Owned(own), NEW c \in Conn, ReadRequest(c)
  PROVE  AnswersOwned' /\ Owned(own)'
<1>1. PICK n \in Nat :
        LET got == task[c].buffer \o SubSeq(inbox[Peer(c)], 1, n)
        IN  /\ n <= Len(inbox[Peer(c)]) /\ got # <<>>
            /\ inbox' = [inbox EXCEPT ![Peer(c)] = SubSeq(@, n + 1, Len(@))]
            /\ \/ got[1].kind = "body" /\ BodyRefused(c, got)
               \/ got[1].kind # "body" /\ HeadRead(c, got)
  BY ReadRequestOnly DEF TypeInv
<1>2. /\ task[c].pc = "wait"
      /\ UNCHANGED <<workload, cookie, store, ghost>>
  BY ReadRequestOnly DEF TypeInv
<1>3. Peer(c) = c
  BY <1>2, OwnPeer DEF Away
<1>4. CookiesOwned(own)' /\ FilesOwned(own)'
  BY <1>2 DEF Owned, CookiesOwned, FilesOwned
<1> DEFINE M == Mine(own, ghost.named, Owner(c))
           got == task[c].buffer \o SubSeq(inbox[c], 1, n)
           rest == SubSeq(inbox[c], n + 1, Len(inbox[c]))
<1>5. /\ n <= Len(inbox[c]) /\ got # <<>> /\ inbox' = [inbox EXCEPT ![c] = rest]
      /\ \/ got[1].kind = "body" /\ BodyRefused(c, got)
         \/ got[1].kind # "body" /\ HeadRead(c, got)
  BY <1>1, <1>3
<1>6. inbox[c] \in Seq(M) /\ task[c].buffer \in Seq(M)
  BY DEF Owned, ConnOwned
<1>7. got \in Seq(M) /\ rest \in Seq(M)
  <2> HIDE DEF M
  <2>1. \A s \in Seq(M) : \A i, j \in Int : (\A k \in i .. j : k \in 1 .. Len(s)) => SubSeq(s, i, j) \in Seq(M)
    BY SubSeqProperties
  <2>2. SubSeq(inbox[c], 1, n) \in Seq(M) /\ rest \in Seq(M)
    BY <1>5, <1>6, <2>1
  <2>. QED BY <1>6, <2>2
<1> HIDE DEF got, rest
<1>8. got[1] \in M /\ Tail(got) \in Seq(M)
  <2> HIDE DEF M
  <2>. QED BY <1>5, <1>7
<1>9. /\ inbox'[c] = rest /\ \A d \in Conn \ {c} : inbox'[d] = inbox[d]
      /\ task'[c].buffer = Tail(got) /\ \A d \in Conn \ {c} : task'[d] = task[d]
  BY <1>5 DEF TypeInv, OthersOK, BodyRefused, HeadRead, Only
<1>10. ASSUME NEW d \in Conn \ {c} PROVE ConnOwned(own, d)'
  BY <1>2, <1>9, OwnedElsewhere
<1>11. Owner(c)' = Owner(c)
  BY <1>2 DEF Owner
<1>12. CASE got[1].kind = "body" /\ BodyRefused(c, got)
  <2>1. task'[c].pc = "close" /\ outbox' = [outbox EXCEPT ![c] = Append(@, Refused)]
    BY <1>3, <1>12 DEF BodyRefused
  <2>2. AnswerOwned(Refused, c)
    BY DEF AnswerOwned
  <2>3. AnswersOwned'
    BY <1>2, <2>1, <2>2, AnswersMore
  <2>4. ConnOwned(own, c)'
    BY <1>2, <1>7, <1>8, <1>9, <1>11, <2>1 DEF ConnOwned, Mine, Later, Active
  <2>. QED BY <1>4, <1>10, <2>3, <2>4 DEF Owned
<1>13. CASE got[1].kind # "body" /\ HeadRead(c, got)
  <2>1. /\ task'[c].pc \in {"body", "load"} /\ outbox' = outbox
        /\ task'[c].id = got[1].id /\ task'[c].by = got[1].by
    BY <1>13 DEF HeadRead
  <2>2. got[1].kind = "head"
    BY <1>8, <1>13 DEF Mine, ItemOf
  <2>3. got[1].by = Owner(c) /\ (got[1].id # None => own[got[1].id] = Owner(c))
    BY <1>8, <2>2 DEF Mine
  <2>4. task'[c].by = Owner(c) /\ (task'[c].id # None => own[task'[c].id] = task'[c].by)
    BY <2>1, <2>3
  <2>5. ConnOwned(own, c)'
    BY <1>2, <1>7, <1>8, <1>9, <1>11, <2>1, <2>4 DEF ConnOwned, Mine, Later, Active
  <2>6. AnswersOwned'
    BY <1>2, <2>1, AnswersSame
  <2>. QED BY <1>4, <1>10, <2>5, <2>6 DEF Owned
<1>. QED BY <1>5, <1>12, <1>13

\* A request leaves in the session a role its owner had already, or proves.
LEMMA RoleLoaded ==
  ASSUME TypeInv, RolesKnown, NEW c \in Conn, Load(c)
  PROVE  /\ task'[c].sess.role \in {Session(task[c].id).role, Anonymous} \cup RolesProved[task[c].rq]
         /\ task'[c].sess.role \in Roles
<1>1. task[c].pc = "load" /\ task'[c].sess.role = Outcome(c).role
  BY LoadOnly DEF TypeInv
<1>2. task[c].rq \in DOMAIN Request
  BY <1>1 DEF TypeInv, TaskOK, Active
<1>3. PICK r, role : r = task[c].rq /\ role = Session(task[c].id).role
  OBVIOUS
<1>4. role \in Roles
  BY <1>3, SessionRole
<1>5. Outcome(c).role \in {role, Anonymous} \cup RolesProved[r] /\ Outcome(c).role \in Roles
  BY <1>2, <1>3, <1>4, HandledRole DEF Outcome
<1>. QED BY <1>1, <1>3, <1>5

LEMMA RolesStep == TypeInv /\ RolesKnown /\ [TaskNext]_taskVars => RolesKnown'
<1> SUFFICES ASSUME TypeInv, RolesKnown, [TaskNext]_taskVars PROVE RolesKnown'
  OBVIOUS
<1>0. Roles' = Roles
  BY DEF Roles
<1>1. CASE UNCHANGED taskVars
  BY <1>0, <1>1 DEF taskVars, RolesKnown
<1>2. CASE TaskNext
  <2>1. PICK c \in Conn : Send(c) \/ HangUp(c) \/ Accept(c) \/ TaskStep(c)
    BY <1>2 DEF TaskNext
  <2>2. CASE Load(c)
    <3>1. store' = store /\ \A d \in Conn \ {c} : task'[d] = task[d]
      BY <2>2, LoadOnly DEF TypeInv, Only
    <3>. QED BY <1>0, <2>2, <3>1, RoleLoaded DEF RolesKnown
  <2>3. CASE Send(c) \/ ReadRequest(c) \/ ReadData(c) \/ StoreSession(c) \/ AlikeStep(c)
    <3>1. \A d \in Conn : task'[d].pc \in Later => task'[d].sess.role \in Roles
      BY <2>3, SessStays DEF RolesKnown
    <3>2. CASE Truncate(c)
      <4>1. store' = Put(store, task[c].id, Blank2) /\ Blank2.role \in Roles
        BY <3>2 DEF Truncate, Blank2, Roles
      <4>. QED BY <1>0, <3>1, <4>1 DEF RolesKnown, Put
    <3>3. CASE Write(c)
      <4>1. store' = Put(store, task[c].id, task[c].sess) /\ task[c].pc \in Later
        BY <3>3 DEF Write, Later, Active
      <4>. QED BY <1>0, <3>1, <4>1 DEF RolesKnown, Put
    <3>4. CASE store' = store
      BY <1>0, <3>1, <3>4 DEF RolesKnown
    <3>. QED BY <2>3, <3>2, <3>3, <3>4 DEF Send, ReadRequest, ReadData, StoreSession, AlikeStep, HangUp, Accept,
                TimeOut, EndOfFile, BindRequest, BindResponse, Invoke, PhaseTwoStep, SendData, Close, CloseAgain
  <2>. QED BY <2>1, <2>2, <2>3 DEF TaskStep, AlikeStep
<1>. QED BY <1>1, <1>2

LEMMA OwnedLoad ==
  ASSUME TypeInv, RolesKnown, NEW own \in Owners, Owned(own), NEW c \in Conn, Load(c)
  PROVE  Owned(own)'
<1>1. /\ task[c].pc = "load"
      /\ Only(c, {"pc", "rs", "dirty", "adds", "call", "sess"})
      /\ task'[c].sess.items = Session(task[c].id).items \cup AddsOf(c)
      /\ task'[c].pc \in {"wait", "request", "store"}
      /\ LoadGhost(c)
      /\ UNCHANGED <<workload, inbox, cookie, store>>
  BY LoadOnly DEF TypeInv
<1>2. ghost'.named = ghost.named /\ ghost'.proved = ghost.proved \cup Proof(c)
  BY <1>1, GhostLoaded DEF TypeInv
<1>3. CookiesOwned(own)' /\ FilesOwned(own)'
  BY <1>1, <1>2, FilesKept DEF Owned, CookiesOwned
<1>4. /\ task'[c].by = task[c].by /\ task'[c].id = task[c].id /\ task'[c].buffer = task[c].buffer
      /\ \A d \in Conn \ {c} : task'[d] = task[d]
  BY <1>1 DEF Only, TaskFields
<1>5. ASSUME NEW d \in Conn \ {c} PROVE ConnOwned(own, d)'
  BY <1>1, <1>2, <1>4, OwnedElsewhere
<1>6. /\ inbox[c] \in Seq(Mine(own, ghost.named, Owner(c))) /\ task[c].buffer \in Seq(Mine(own, ghost.named, Owner(c)))
      /\ task[c].by = Owner(c) /\ (task[c].id # None => own[task[c].id] = task[c].by)
  BY <1>1 DEF Owned, ConnOwned, Active
<1>7. SessOf(Session(task[c].id), task[c].by, ghost.proved)
  BY <1>6, BlankOf DEF Session, At, Owned, FilesOwned
<1>8. \A i \in AddsOf(c) : i[1] = task[c].by
  <2> DEFINE x == Outcome(c)
  <2>1. AddsOf(c) = Added(c, x)
    BY DEF AddsOf
  <2> HIDE DEF x
  <2>. QED BY <2>1 DEF Added
<1>9. SessOf(task'[c].sess, task'[c].by, ghost'.proved)
  <2>1. \A i \in task'[c].sess.items : i[1] = task[c].by
    BY <1>1, <1>7, <1>8 DEF SessOf
  <2>2. CASE task'[c].sess.role \in {Session(task[c].id).role, Anonymous}
    BY <1>2, <1>4, <1>7, <2>1, <2>2 DEF SessOf
  <2>3. CASE task'[c].sess.role \in RolesProved[task[c].rq]
    <3>1. <<task[c].by, task'[c].sess.role>> \in Proof(c)
      BY <2>3 DEF Proof
    <3>. QED BY <1>2, <1>4, <2>1, <3>1 DEF SessOf
  <2>. QED BY <2>2, <2>3, RoleLoaded
<1>10. Owner(c)' = Owner(c)
  BY <1>1 DEF Owner
<1>11. ConnOwned(own, c)'
  BY <1>1, <1>2, <1>4, <1>6, <1>9, <1>10 DEF ConnOwned, Mine
<1>. QED BY <1>3, <1>5, <1>11 DEF Owned

LEMMA OwnedStep == TypeInv /\ PeerInv /\ RolesKnown /\ OwnedInv /\ [TaskNext]_taskVars => OwnedInv'
<1> SUFFICES ASSUME TypeInv, PeerInv, RolesKnown, OwnedInv, [TaskNext]_taskVars, ~ghost'.collided, ~ghost'.reused
             PROVE  AnswersOwned' /\ \E own \in Owners : Owned(own)'
  <2>1. Owners' = Owners
    BY DEF Owners, Clients
  <2>. QED BY <2>1 DEF OwnedInv
<1>1. CASE UNCHANGED taskVars
  <2>1. AnswersOwned /\ \E own \in Owners : Owned(own)
    BY <1>1 DEF taskVars, OwnedInv
  <2>2. PICK own \in Owners : Owned(own)
    BY <2>1
  <2>3. Owned(own)'
    <3>1. \A d \in Conn : Alike(d)
      BY <1>1 DEF taskVars, Alike
    <3>2. CookiesOwned(own)' /\ FilesOwned(own)'
      BY <1>1, <2>2 DEF taskVars, Owned, CookiesOwned, FilesOwned
    <3>3. workload' = workload /\ inbox' = inbox /\ ghost' = ghost
      BY <1>1 DEF taskVars
    <3>. QED BY <2>2, <3>1, <3>2, <3>3, OwnedAlike
  <2>4. AnswersOwned'
    BY <1>1, <2>1, AnswersSame DEF taskVars
  <2>. QED BY <2>3, <2>4
<1>2. CASE TaskNext
  <2>1. PICK c \in Conn : Send(c) \/ HangUp(c) \/ Accept(c) \/ TaskStep(c)
    BY <1>2 DEF TaskNext
  <2>2. CASE Send(c)
    <3>1. /\ ghost'.collided = ghost.collided /\ ghost'.reused = ghost.reused /\ ghost'.proved = ghost.proved
          /\ workload' = workload /\ outbox' = outbox
      BY <2>2 DEF Send, TypeInv, Shape, GhostFields
    <3>. QED BY <2>2, <3>1, OwnedSend, AnswersSame DEF OwnedInv
  <2>3. CASE ReadRequest(c)
    <3>1. ghost' = ghost
      BY <2>3 DEF ReadRequest
    <3>. QED BY <2>3, <3>1, OwnedReadRequest DEF OwnedInv
  <2>4. CASE ReadData(c)
    <3>1. ghost' = ghost /\ workload' = workload /\ outbox' = outbox
      BY <2>4 DEF ReadData
    <3>. QED BY <2>4, <3>1, OwnedReadData, AnswersSame DEF OwnedInv
  <2>5. CASE Load(c)
    <3>1. /\ ghost'.collided = ghost.collided /\ ghost'.reused = ghost.reused /\ ghost.proved \subseteq ghost'.proved
          /\ workload' = workload /\ outbox' = outbox
      <4>1. LoadGhost(c) /\ workload' = workload /\ outbox' = outbox
        BY <2>5, LoadOnly DEF TypeInv
      <4>. QED BY <4>1, GhostLoaded DEF TypeInv
    <3>. QED BY <2>5, <3>1, OwnedLoad, AnswersSame DEF OwnedInv
  <2>6. CASE StoreSession(c)
    <3>1. /\ ghost.collided => ghost'.collided
          /\ ghost'.reused = ghost.reused /\ ghost'.proved = ghost.proved
          /\ workload' = workload /\ outbox' = outbox
      <4>1. /\ \/ ghost' = [ghost EXCEPT !.collided = @ \/ ghost.named = now, !.named = now]
               \/ ghost' = ghost
            /\ workload' = workload /\ outbox' = outbox
        BY <2>6, StoreSessionOnly DEF TypeInv
      <4>. QED BY <4>1 DEF TypeInv, Shape, GhostFields
    <3>. QED BY <2>6, <3>1, OwnedStoreSession, AnswersSame DEF OwnedInv
  <2>7. CASE AlikeStep(c)
    <3>1. ~ghost.collided /\ ~ghost.reused /\ workload' = workload /\ ghost'.proved = ghost.proved
      BY <2>7, AlikeSteps
    <3>2. AnswersOwned /\ \E own \in Owners : Owned(own)
      BY <3>1 DEF OwnedInv
    <3>3. PICK own \in Owners : Owned(own)
      BY <3>2
    <3>4. CASE SendData(c)
      BY <3>1, <3>2, <3>3, <3>4, OwnedSendData
    <3>5. CASE Truncate(c) \/ Write(c)
      <4>1. outbox' = outbox
        BY <3>5 DEF Truncate, Write
      <4>. QED BY <3>1, <3>2, <3>3, <3>5, <4>1, OwnedTruncate, OwnedWrite, AnswersSame
    <3>6. CASE cookie' = cookie /\ store' = store /\ outbox' = outbox
      BY <2>7, <3>1, <3>2, <3>3, <3>6, OwnedQuiet, AnswersSame
    <3>. QED BY <2>7, <3>4, <3>5, <3>6 DEF AlikeStep, HangUp, Accept, TimeOut, EndOfFile, BindRequest, BindResponse,
                Invoke, PhaseTwoStep, Close, CloseAgain
  <2>. QED BY <2>1, <2>2, <2>3, <2>4, <2>5, <2>6, <2>7 DEF TaskStep, AlikeStep
<1>. QED BY <1>1, <1>2

LEMMA OwnedInit == TaskInit => OwnedInv
<1> SUFFICES ASSUME TaskInit PROVE AnswersOwned /\ \E own \in Owners : Owned(own)
  BY DEF OwnedInv
<1>1. AnswersOwned
  <2>1. <<>> \in Seq({}) /\ DOMAIN <<>> = {}
    OBVIOUS
  <2>2. DOMAIN outbox = Conn /\ \A c \in Conn : outbox[c] = <<>>
    BY DEF TaskInit
  <2>. QED BY <2>1, <2>2 DEF AnswersOwned
<1> DEFINE own == [n \in 1 .. MaxClock |-> None]
<1>2. own \in Owners
  BY DEF Owners
<1>3. CookiesOwned(own) /\ FilesOwned(own)
  <2>1. DOMAIN <<>> = {}
    OBVIOUS
  <2>. QED BY <2>1 DEF TaskInit, CookiesOwned, FilesOwned
<1>4. ASSUME NEW c \in Conn PROVE ConnOwned(own, c)
  <2>1. task[c].pc = "new" /\ task[c].buffer = <<>> /\ inbox[c] = <<>>
    BY DEF TaskInit, Idle
  <2>2. \A S : <<>> \in Seq(S)
    OBVIOUS
  <2>. QED BY <2>1, <2>2 DEF ConnOwned, Active, Later
<1>. QED BY <1>1, <1>2, <1>3, <1>4 DEF Owned

\* SessionsStayApart: what a request finds in its session was put there by
\* requests of the client it answers to, as long as no two sessions got one name
\* and no descriptor that is closed twice was used again.
THEOREM SessionsApart == TaskSpec => []SessionsStayApart
<1>1. OwnedInv => SessionsStayApart
  <2> SUFFICES ASSUME OwnedInv, ~ghost.collided, ~ghost.reused, NEW r \in Served
               PROVE  \A i \in r.a.sess.items : i[1] = Owner(r.on)
    BY DEF SessionsStayApart
  <2>1. r \in Answers /\ r.a # Refused
    BY DEF Served
  <2>2. PICK c \in Conn : r \in {[on |-> c, a |-> outbox[c][i]] : i \in DOMAIN outbox[c]}
    BY <2>1 DEF Answers
  <2>3. PICK i \in DOMAIN outbox[c] : r = [on |-> c, a |-> outbox[c][i]]
    BY <2>2
  <2>4. AnswerOwned(outbox[c][i], c)
    BY DEF OwnedInv, AnswersOwned
  <2>. QED BY <2>1, <2>3, <2>4 DEF AnswerOwned, SessOf
<1>. QED BY <1>1, TypeInit, TypeStep, PeerInit, PeerStep, RolesInit, RolesStep, OwnedInit, OwnedStep, PTL DEF TaskSpec

-----------------------------------------------------------------------------
(* Updates.  What answered requests and requests about to be answered have *)
(* put into a session is in its file, or in the hands of the task that is  *)
(* writing it; and the one task that has the session loaded has it too.    *)
Sending(c, id) == task[c].pc = "send" /\ task[c].id = id
Promised(id, x) == x \in At(acked, id, {}) \/ \E c \in Conn : Sending(c, id) /\ x \in task[c].adds

UpdOK(id) ==
  /\ \A c, d \in Conn : InSession(c, id) /\ InSession(d, id) => c = d
  /\ Saving(id) \/ \A x : Promised(id, x) => x \in At(store, id, Blank2).items
  /\ \A c \in Conn : InSession(c, id) => \A x : Promised(id, x) => x \in task[c].sess.items

AddsInv == \A c \in Conn : task[c].pc \in Later => task[c].adds \subseteq task[c].sess.items
UpdInv == ~ghost.collided => \A id \in 1 .. MaxClock \ ghost.overlapped : UpdOK(id)

\* Nothing of what the task d has to do with the session id is added.
Steady(d, id) ==
  /\ InSession(d, id)' => InSession(d, id) /\ task'[d].sess = task[d].sess
  /\ task[d].pc = "write" /\ task[d].id = id => task'[d].pc = "write" /\ task'[d].id = id
  /\ Sending(d, id)' => task'[d].adds = {} \/ (Sending(d, id) /\ task'[d].adds = task[d].adds)

LEMMA PromisesStay ==
  ASSUME NEW id, At(acked, id, {})' \subseteq At(acked, id, {}),
         \A d \in Conn : Sending(d, id)' => task'[d].adds = {} \/ (Sending(d, id) /\ task'[d].adds = task[d].adds)
  PROVE  \A x : Promised(id, x)' => Promised(id, x)
BY DEF Promised

LEMMA UpdKeeps ==
  ASSUME NEW id, UpdOK(id), \A x : Promised(id, x)' => Promised(id, x), At(store, id, Blank2)' = At(store, id, Blank2),
         \A d \in Conn : Steady(d, id)
  PROVE  UpdOK(id)'
<1>1. \A x : Promised(id, x)' => Promised(id, x)
  OBVIOUS
<1>2. Saving(id) => Saving(id)'
  BY DEF Saving, Steady
<1>3. (\A c, d \in Conn : InSession(c, id) /\ InSession(d, id) => c = d)'
  BY DEF UpdOK, Steady
<1>4. (Saving(id) \/ \A x : Promised(id, x) => x \in At(store, id, Blank2).items)'
  <2>1. CASE Saving(id)
    BY <1>2, <2>1
  <2>2. CASE \A x : Promised(id, x) => x \in At(store, id, Blank2).items
    <3>1. \A x : Promised(id, x)' => x \in At(store, id, Blank2)'.items
      BY <1>1, <2>2
    <3>. QED BY <3>1
  <2>. QED BY <2>1, <2>2 DEF UpdOK
<1>5. ASSUME NEW c \in Conn, InSession(c, id)', NEW x, Promised(id, x)' PROVE x \in task'[c].sess.items
  <2>1. InSession(c, id) /\ task'[c].sess = task[c].sess /\ Promised(id, x)
    BY <1>1, <1>5 DEF Steady
  <2>. QED BY <2>1 DEF UpdOK
<1>. QED BY <1>3, <1>4, <1>5 DEF UpdOK

LEMMA SteadyOnly ==
  ASSUME TypeInv, NEW c \in Conn, NEW F, Only(c, F), F \cap {"sess", "id"} = {}, NEW id,
         task[c].pc # "write", task'[c].pc # "send",
         InSession(c, id)' => InSession(c, id)
  PROVE  \A d \in Conn : Steady(d, id)
<1>1. task'[c].sess = task[c].sess /\ task'[c].id = task[c].id
  BY DEF Only, TaskFields
<1>2. Steady(c, id)
  BY <1>1 DEF Steady, Sending
<1>3. ASSUME NEW d \in Conn \ {c} PROVE Steady(d, id)
  BY DEF Only, Steady, InSession, Sending
<1>. QED BY <1>2, <1>3

LEMMA UpdTruncate ==
  ASSUME TypeInv, NEW id, UpdOK(id), NEW c \in Conn, Truncate(c)
  PROVE  UpdOK(id)'
<1>1. /\ task[c].pc = "trunc" /\ Only(c, {"pc"}) /\ task'[c].pc = "write"
      /\ store' = Put(store, task[c].id, Blank2) /\ acked' = acked
  BY GotoOnly DEF Truncate, TypeInv
<1>2. task'[c].id = task[c].id /\ task'[c].sess = task[c].sess
  BY <1>1 DEF Only, TaskFields
<1>3. InSession(c, id)' => InSession(c, id)
  BY <1>1, <1>2 DEF InSession
<1>4. \A d \in Conn : Steady(d, id)
  BY <1>1, <1>3, SteadyOnly
<1>5. CASE task[c].id # id
  <2>1. At(store, id, Blank2)' = At(store, id, Blank2)
    BY <1>1, <1>5 DEF At, Put
  <2>2. At(acked, id, {})' = At(acked, id, {})
    BY <1>1 DEF At
  <2>3. \A x : Promised(id, x)' => Promised(id, x)
    BY <1>4, <2>2, PromisesStay DEF Steady
  <2>. QED BY <1>4, <2>1, <2>3, UpdKeeps
<1>6. CASE task[c].id = id
  <2>1. Saving(id)'
    BY <1>1, <1>2, <1>6 DEF Saving
  <2>2. At(acked, id, {})' = At(acked, id, {})
    BY <1>1 DEF At
  <2>3. \A x : Promised(id, x)' => Promised(id, x)
    BY <1>4, <2>2, PromisesStay DEF Steady
  <2>4. \A d \in Conn : InSession(d, id)' => InSession(d, id) /\ task'[d].sess = task[d].sess
    BY <1>4 DEF Steady
  <2>5. ASSUME NEW d \in Conn, InSession(d, id)', NEW x, Promised(id, x)' PROVE x \in task'[d].sess.items
    BY <2>3, <2>4, <2>5 DEF UpdOK
  <2>6. \A d, e \in Conn : InSession(d, id)' /\ InSession(e, id)' => d = e
    BY <2>4 DEF UpdOK
  <2>. QED BY <2>1, <2>5, <2>6 DEF UpdOK
<1>. QED BY <1>5, <1>6

LEMMA UpdWrite ==
  ASSUME TypeInv, AddsInv, NEW id, UpdOK(id), NEW c \in Conn, Write(c)
  PROVE  UpdOK(id)'
<1>1. /\ task[c].pc = "write" /\ Only(c, {"pc"}) /\ task'[c].pc = "send"
      /\ store' = Put(store, task[c].id, task[c].sess) /\ acked' = acked
  BY GotoOnly DEF Write, TypeInv
<1>2. /\ task'[c].id = task[c].id /\ task'[c].sess = task[c].sess /\ task'[c].adds = task[c].adds
      /\ \A d \in Conn \ {c} : task'[d] = task[d]
  BY <1>1 DEF Only, TaskFields
<1>3. At(acked, id, {})' = At(acked, id, {})
  BY <1>1 DEF At
<1>4. CASE task[c].id # id
  <2>1. At(store, id, Blank2)' = At(store, id, Blank2)
    BY <1>1, <1>4 DEF At, Put
  <2>2. ASSUME NEW d \in Conn PROVE Steady(d, id)
    <3>1. CASE d = c
      BY <1>2, <1>4, <3>1 DEF Steady, InSession, Sending
    <3>2. CASE d # c
      BY <1>2, <3>2 DEF Steady, InSession, Sending
    <3>. QED BY <3>1, <3>2
  <2>3. \A x : Promised(id, x)' => Promised(id, x)
    BY <1>3, <2>2, PromisesStay DEF Steady
  <2>. QED BY <2>1, <2>2, <2>3, UpdKeeps
<1>5. CASE task[c].id = id
  <2>1. InSession(c, id)
    BY <1>1, <1>5 DEF InSession
  <2>2. At(store, id, Blank2)' = task[c].sess
    BY <1>1, <1>5 DEF At, Put
  <2>3. ASSUME NEW d \in Conn PROVE ~InSession(d, id)'
    <3>1. CASE d = c
      BY <1>1, <3>1 DEF InSession
    <3>2. CASE d # c
      <4>1. ~InSession(d, id)
        BY <2>1, <3>2 DEF UpdOK
      <4>. QED BY <1>2, <3>2, <4>1 DEF InSession
    <3>. QED BY <3>1, <3>2
  <2>4. ASSUME NEW x, Promised(id, x)' PROVE x \in task[c].sess.items
    <3>1. Promised(id, x) \/ x \in task[c].adds
      <4>1. CASE x \in At(acked, id, {})'
        BY <1>3, <4>1 DEF Promised
      <4>2. CASE \E d \in Conn : Sending(d, id)' /\ x \in task'[d].adds
        <5>1. PICK d \in Conn : Sending(d, id)' /\ x \in task'[d].adds
          BY <4>2
        <5>2. CASE d = c
          BY <1>2, <5>1, <5>2
        <5>3. CASE d # c
          <6>1. Sending(d, id) /\ x \in task[d].adds
            BY <1>2, <5>1, <5>3 DEF Sending
          <6>. QED BY <6>1 DEF Promised
        <5>. QED BY <5>2, <5>3
      <4>. QED BY <2>4, <4>1, <4>2 DEF Promised
    <3>2. task[c].adds \subseteq task[c].sess.items
      BY <1>1 DEF AddsInv, Later, Active
    <3>. QED BY <2>1, <3>1, <3>2 DEF UpdOK
  <2>. QED BY <2>2, <2>3, <2>4 DEF UpdOK
<1>. QED BY <1>4, <1>5

LEMMA UpdSteady ==
  ASSUME NEW id, UpdOK(id), store' = store, acked' = acked, \A d \in Conn : Steady(d, id)
  PROVE  UpdOK(id)'
<1>1. At(acked, id, {})' = At(acked, id, {}) /\ At(store, id, Blank2)' = At(store, id, Blank2)
  BY DEF At
<1>2. \A x : Promised(id, x)' => Promised(id, x)
  BY <1>1, PromisesStay DEF Steady
<1>. QED BY <1>1, <1>2, UpdKeeps

LEMMA UpdSendData ==
  ASSUME TypeInv, NEW id, UpdOK(id), NEW c \in Conn, SendData(c)
  PROVE  UpdOK(id)'
<1>1. /\ task[c].pc = "send" /\ store' = store /\ task'[c].pc \in {"wait", "close"}
      /\ \A d \in Conn \ {c} : task'[d] = task[d]
      /\ \/ acked' = acked
         \/ acked' = Put(acked, task[c].id, At(acked, task[c].id, {}) \cup task[c].adds)
  BY SendDataOnly DEF TypeInv, Only
<1>2. ASSUME NEW d \in Conn PROVE Steady(d, id)
  <2>1. CASE d = c
    BY <1>1, <2>1 DEF Steady, InSession, Sending
  <2>2. CASE d # c
    BY <1>1, <2>2 DEF Steady, InSession, Sending
  <2>. QED BY <2>1, <2>2
<1>3. CASE acked' = acked
  BY <1>1, <1>2, <1>3, UpdSteady
<1>4. CASE acked' = Put(acked, task[c].id, At(acked, task[c].id, {}) \cup task[c].adds)
  <2>1. ASSUME NEW x, Promised(id, x)' PROVE Promised(id, x)
    <3>1. CASE x \in At(acked, id, {})'
      <4>1. x \in At(acked, id, {}) \/ (task[c].id = id /\ x \in task[c].adds)
        BY <1>4, <3>1 DEF At, Put
      <4>. QED BY <1>1, <4>1 DEF Promised, Sending
    <3>2. CASE \E d \in Conn : Sending(d, id)' /\ x \in task'[d].adds
      <4>1. PICK d \in Conn : Sending(d, id)' /\ x \in task'[d].adds
        BY <3>2
      <4>2. d # c
        BY <1>1, <4>1 DEF Sending
      <4>3. Sending(d, id) /\ x \in task[d].adds
        BY <1>1, <4>1, <4>2 DEF Sending
      <4>. QED BY <4>3 DEF Promised
    <3>. QED BY <2>1, <3>1, <3>2 DEF Promised
  <2>2. At(store, id, Blank2)' = At(store, id, Blank2)
    BY <1>1 DEF At
  <2>. QED BY <1>2, <2>1, <2>2, UpdKeeps
<1>. QED BY <1>1, <1>3, <1>4

LEMMA UpdStoreSession ==
  ASSUME TypeInv, ~ghost'.collided, NEW id \in 1 .. MaxClock, UpdOK(id), NEW c \in Conn, StoreSession(c)
  PROVE  UpdOK(id)'
<1>1. /\ task[c].pc = "store" /\ task'[c].pc = IF task[c].dirty THEN "trunc" ELSE "send"
      /\ Only(c, {"pc", "id"})
      /\ \/ /\ task[c].id = None
            /\ task'[c].id = now
            /\ ghost' = [ghost EXCEPT !.collided = @ \/ ghost.named = now, !.named = now]
         \/ /\ task[c].id # None
            /\ task'[c].id = task[c].id
      /\ store' = store /\ acked' = acked
  BY StoreSessionOnly DEF TypeInv
<1>2. /\ task'[c].sess = task[c].sess /\ task'[c].adds = task[c].adds
      /\ \A d \in Conn \ {c} : task'[d] = task[d]
  BY <1>1 DEF Only, TaskFields
<1>3. task'[c].pc = "send" => task'[c].adds = {}
  BY <1>1, <1>2 DEF TypeInv, TaskOK, Later, Active
<1>4. ASSUME task'[c].id = id => task[c].id = id PROVE UpdOK(id)'
  <2>1. ASSUME NEW d \in Conn PROVE Steady(d, id)
    <3>1. CASE d = c
      BY <1>1, <1>2, <1>3, <1>4, <3>1 DEF Steady, InSession, Sending
    <3>2. CASE d # c
      BY <1>2, <3>2 DEF Steady, InSession, Sending
    <3>. QED BY <3>1, <3>2
  <2>. QED BY <1>1, <2>1, UpdSteady
<1>5. CASE /\ task[c].id = None /\ task'[c].id = now /\ id = now
           /\ ghost' = [ghost EXCEPT !.collided = @ \/ ghost.named = now, !.named = now]
  <2>1. ghost.named # now
    BY <1>5 DEF TypeInv, Shape, GhostFields
  <2>2. ghost.named \in Nat /\ now \in Nat /\ ghost.named < now
    BY <2>1, TaskAssumption DEF TypeInv, OthersOK
  <2>3. id \notin 1 .. ghost.named /\ id # None
    BY <1>5, <2>2, NoneApart
  <2>4. \A d \in Conn : task[d].id # id
    BY <2>3 DEF TypeInv, TaskOK, Given
  <2>5. \A d \in Conn \ {c} : task'[d].id # id
    BY <1>2, <2>4
  <2>6. id \notin DOMAIN acked
    BY <2>3 DEF TypeInv, OthersOK
  <2>7. \A x : ~Promised(id, x)'
    BY <1>1, <1>3, <2>5, <2>6 DEF Promised, At, Sending
  <2>8. \A d, e \in Conn : InSession(d, id)' /\ InSession(e, id)' => d = e
    BY <2>5 DEF InSession
  <2>. QED BY <2>7, <2>8 DEF UpdOK
<1>6. CASE task[c].id = None /\ task'[c].id = now /\ id # now
  BY <1>4, <1>6
<1>7. CASE task'[c].id = task[c].id
  BY <1>4, <1>7
<1>. QED BY <1>1, <1>5, <1>6, <1>7

LEMMA UpdLoad ==
  ASSUME TypeInv, NEW id \in 1 .. MaxClock, UpdOK(id), NEW c \in Conn, Load(c), id \notin ghost'.overlapped
  PROVE  UpdOK(id)'
<1>1. /\ task[c].pc = "load"
      /\ Only(c, {"pc", "rs", "dirty", "adds", "call", "sess"})
      /\ task'[c].sess.items = Session(task[c].id).items \cup AddsOf(c)
      /\ task'[c].pc \in {"wait", "request", "store"}
      /\ LoadGhost(c)
      /\ store' = store /\ acked' = acked
  BY LoadOnly DEF TypeInv
<1>2. task'[c].id = task[c].id /\ \A d \in Conn \ {c} : task'[d] = task[d]
  BY <1>1 DEF Only, TaskFields
<1>3. CASE task[c].id # id
  <2>1. ASSUME NEW d \in Conn PROVE Steady(d, id)
    <3>1. CASE d = c
      BY <1>1, <1>2, <1>3, <3>1 DEF Steady, InSession, Sending
    <3>2. CASE d # c
      BY <1>2, <3>2 DEF Steady, InSession, Sending
    <3>. QED BY <3>1, <3>2
  <2>. QED BY <1>1, <2>1, UpdSteady
<1>4. CASE task[c].id = id
  <2>1. id # None
    BY NoneApart
  <2>2. ~Overlapping(c)
    BY <1>1, <1>4, GhostLoaded DEF TypeInv
  <2>3. \A d \in Conn \ {c} : ~InSession(d, id)
    BY <1>4, <2>1, <2>2 DEF Overlapping
  <2>4. \A d \in Conn \ {c} : ~InSession(d, id)'
    BY <1>2, <2>3 DEF InSession
  <2>5. ~Saving(id)
    BY <1>1, <2>3 DEF Saving, InSession
  <2>6. At(acked, id, {})' = At(acked, id, {}) /\ At(store, id, Blank2)' = At(store, id, Blank2)
    BY <1>1 DEF At
  <2>7. \A d \in Conn : Sending(d, id)' => Sending(d, id) /\ task'[d].adds = task[d].adds
    BY <1>1, <1>2 DEF Sending
  <2>8. \A x : Promised(id, x)' => Promised(id, x)
    BY <2>6, <2>7, PromisesStay
  <2>9. \A x : Promised(id, x)' => x \in At(store, id, Blank2)'.items
    BY <2>5, <2>6, <2>8 DEF UpdOK
  <2>10. Session(task[c].id) = At(store, id, Blank2)
    BY <1>4, <2>1 DEF Session
  <2>11. \A x : Promised(id, x)' => x \in task'[c].sess.items
    BY <1>1, <2>6, <2>9, <2>10
  <2>12. \A d, e \in Conn : InSession(d, id)' /\ InSession(e, id)' => d = e
    BY <2>4
  <2>13. \A d \in Conn : InSession(d, id)' => \A x : Promised(id, x)' => x \in task'[d].sess.items
    BY <2>4, <2>11
  <2>. QED BY <2>9, <2>12, <2>13 DEF UpdOK
<1>. QED BY <1>3, <1>4

\* The steps that load no session and save none.
OtherStep(c) ==
  \/ Send(c) \/ HangUp(c) \/ Accept(c) \/ TimeOut(c) \/ EndOfFile(c) \/ ReadRequest(c) \/ ReadData(c)
  \/ BindRequest(c) \/ BindResponse(c) \/ Invoke(c) \/ PhaseTwoStep(c) \/ Close(c) \/ CloseAgain(c)

LEMMA OtherSteps ==
  ASSUME TypeInv, NEW c \in Conn, OtherStep(c)
  PROVE  /\ store' = store /\ acked' = acked
         /\ ghost'.collided = ghost.collided /\ ghost'.overlapped = ghost.overlapped
         /\ \A d \in Conn : task'[d].pc \in Later => /\ task[d].pc \in Later /\ task'[d].sess = task[d].sess
                                                     /\ task'[d].adds = task[d].adds
         /\ \A id \in 1 .. MaxClock : \A d \in Conn : Steady(d, id)
<1>1. store' = store /\ acked' = acked
  BY DEF OtherStep, Send, HangUp, Accept, TimeOut, EndOfFile, ReadRequest, ReadData, BindRequest, BindResponse,
         Invoke, PhaseTwoStep, Close, CloseAgain
<1>2. CASE Send(c)
  <2>1. task' = task /\ ghost'.collided = ghost.collided /\ ghost'.overlapped = ghost.overlapped
    BY <1>2 DEF Send, TypeInv, Shape, GhostFields
  <2>. QED BY <1>1, <2>1 DEF Steady, InSession, Sending
<1>3. CASE ReadRequest(c)
  <2>1. /\ task[c].pc = "wait" /\ task'[c].pc \in {"body", "load", "close"} /\ ghost' = ghost
        /\ \A d \in Conn \ {c} : task'[d] = task[d]
    BY <1>3, ReadRequestOnly DEF TypeInv, HeadRead, BodyRefused, Only
  <2>. QED BY <1>1, <2>1 DEF Steady, InSession, Sending, Later, Active
<1>4. CASE ReadData(c)
  <2>1. /\ task[c].pc = "body" /\ task'[c].pc \in {"body", "load"} /\ ghost' = ghost
        /\ \A d \in Conn \ {c} : task'[d] = task[d]
    BY <1>4, ReadDataOnly DEF TypeInv, Only
  <2>. QED BY <1>1, <2>1 DEF Steady, InSession, Sending, Later, Active
<1>5. CASE AlikeStep(c) /\ ~Truncate(c) /\ ~Write(c) /\ ~SendData(c)
  <2>1. /\ ghost'.collided = ghost.collided /\ ghost'.overlapped = ghost.overlapped
        /\ \A d \in Conn : Alike(d)
    BY <1>5, AlikeSteps
  <2>2. ASSUME NEW d \in Conn
        PROVE  \/ task'[d].pc = task[d].pc /\ task'[d].id = task[d].id
               \/ task[d].pc \in {"new", "wait", "body", "close", "reclose"} /\ task'[d].pc \in {"wait", "close", "reclose", "done"}
               \/ /\ task[d].pc \in {"request", "response", "invoke", "two"}
                  /\ task'[d].pc \in {"wait", "response", "invoke", "two", "store"}
    <3>1. CASE HangUp(c)
      BY <3>1 DEF HangUp
    <3>2. CASE Accept(c) \/ TimeOut(c) \/ EndOfFile(c) \/ Close(c) \/ CloseAgain(c)
      <4>1. /\ task[c].pc \in {"new", "wait", "body", "close", "reclose"}
            /\ task'[c].pc \in {"wait", "close", "reclose", "done"}
            /\ \A e \in Conn \ {c} : task'[e] = task[e]
        <5>1. CASE Accept(c)
          BY <5>1, AcceptOnly DEF TypeInv, Accept, Only
        <5>2. CASE TimeOut(c) \/ EndOfFile(c) \/ Close(c) \/ CloseAgain(c)
          <6>1. /\ task[c].pc \in {"new", "wait", "body", "close", "reclose"}
                /\ \E pc \in {"close", "reclose", "done"} : Goto(c, pc)
            BY <5>2 DEF TimeOut, EndOfFile, Close, CloseAgain
          <6>. QED BY <6>1, GotoOnly DEF TypeInv, Only
        <5>. QED BY <3>2, <5>1, <5>2
      <4>. QED BY <4>1
    <3>3. CASE BindRequest(c) \/ BindResponse(c) \/ PhaseTwoStep(c)
      <4>1. /\ task[c].pc \in {"request", "response", "invoke", "two"}
            /\ task'[c].pc \in {"wait", "response", "invoke", "two", "store"}
            /\ \A e \in Conn \ {c} : task'[e] = task[e]
        <5>1. CASE PhaseTwoStep(c)
          BY <5>1, PhaseTwoOnly DEF TypeInv, Only
        <5>2. CASE BindRequest(c) \/ BindResponse(c)
          <6>1. /\ task[c].pc \in {"request", "response"}
                /\ \E pc \in {"response", "invoke"} : Goto(c, pc)
            BY <5>2 DEF BindRequest, BindResponse
          <6>. QED BY <6>1, GotoOnly DEF TypeInv, Only
        <5>. QED BY <3>3, <5>1, <5>2
      <4>. QED BY <4>1
    <3>4. CASE Invoke(c)
      BY <3>4, InvokeOnly DEF TypeInv, TaskFields
    <3>. QED BY <1>5, <3>1, <3>2, <3>3, <3>4 DEF AlikeStep
  <2>3. ASSUME NEW id, NEW d \in Conn PROVE Steady(d, id)
    <3>1. Alike(d)
      BY <2>1
    <3>2. CASE task'[d].pc = task[d].pc /\ task'[d].id = task[d].id
      BY <3>1, <3>2 DEF Steady, Alike, InSession, Sending, Later, Active
    <3>3. CASE /\ task[d].pc \in {"new", "wait", "body", "close", "reclose"}
               /\ task'[d].pc \in {"wait", "close", "reclose", "done"}
      BY <3>3 DEF Steady, InSession, Sending
    <3>4. CASE /\ task[d].pc \in {"request", "response", "invoke", "two"}
               /\ task'[d].pc \in {"wait", "response", "invoke", "two", "store"}
      BY <3>1, <3>4 DEF Steady, Alike, InSession, Sending, Later, Active
    <3>. QED BY <2>2, <3>2, <3>3, <3>4
  <2>. QED BY <1>1, <2>1, <2>3 DEF Alike
<1>. QED BY <1>2, <1>3, <1>4, <1>5 DEF OtherStep, AlikeStep, Send, HangUp, Accept, TimeOut, EndOfFile, BindRequest,
            BindResponse, Invoke, PhaseTwoStep, Truncate, Write, SendData, Close, CloseAgain, Goto

LEMMA AddsStep == TypeInv /\ AddsInv /\ [TaskNext]_taskVars => AddsInv'
<1> SUFFICES ASSUME TypeInv, AddsInv, [TaskNext]_taskVars PROVE AddsInv'
  OBVIOUS
<1> SUFFICES ASSUME NEW d \in Conn, task'[d].pc \in Later PROVE task'[d].adds \subseteq task'[d].sess.items
  BY DEF AddsInv
<1>1. CASE UNCHANGED taskVars
  BY <1>1 DEF taskVars, AddsInv
<1>2. CASE TaskNext
  <2>1. PICK c \in Conn : Send(c) \/ HangUp(c) \/ Accept(c) \/ TaskStep(c)
    BY <1>2 DEF TaskNext
  <2>2. CASE OtherStep(c)
    BY <2>2, OtherSteps DEF AddsInv
  <2>3. CASE Truncate(c) \/ Write(c) \/ SendData(c)
    <3>1. Alike(d)
      BY <2>3, AlikeSteps DEF AlikeStep
    <3>. QED BY <3>1 DEF AddsInv, Alike
  <2>4. CASE StoreSession(c)
    <3>1. Only(c, {"pc", "id"}) /\ task[c].pc = "store"
      BY <2>4, StoreSessionOnly DEF TypeInv
    <3>2. task'[d].adds = task[d].adds /\ task'[d].sess = task[d].sess
      BY <3>1 DEF Only, TaskFields
    <3>3. task[d].pc \in Later
      BY <3>1 DEF Only, Later, Active
    <3>. QED BY <3>2, <3>3 DEF AddsInv
  <2>5. CASE Load(c)
    <3>1. CASE d = c
      BY <2>5, <3>1, LoadOnly DEF TypeInv
    <3>2. CASE d # c
      <4>1. task'[d] = task[d]
        BY <2>5, <3>2, LoadOnly DEF TypeInv, Only
      <4>. QED BY <4>1 DEF AddsInv
    <3>. QED BY <3>1, <3>2
  <2>. QED BY <2>1, <2>2, <2>3, <2>4, <2>5 DEF TaskStep, OtherStep
<1>. QED BY <1>1, <1>2

LEMMA UpdStep == TypeInv /\ AddsInv /\ UpdInv /\ [TaskNext]_taskVars => UpdInv'
<1> SUFFICES ASSUME TypeInv, AddsInv, UpdInv, [TaskNext]_taskVars, ~ghost'.collided,
                    NEW id \in 1 .. MaxClock, id \notin ghost'.overlapped
             PROVE  UpdOK(id)'
  BY DEF UpdInv
<1>1. CASE UNCHANGED taskVars
  <2>1. UpdOK(id)
    BY <1>1 DEF taskVars, UpdInv
  <2>2. \A d \in Conn : Steady(d, id)
    BY <1>1 DEF taskVars, Steady, InSession, Sending
  <2>3. store' = store /\ acked' = acked
    BY <1>1 DEF taskVars
  <2>. QED BY <2>1, <2>2, <2>3, UpdSteady
<1>2. CASE TaskNext
  <2>1. PICK c \in Conn : Send(c) \/ HangUp(c) \/ Accept(c) \/ TaskStep(c)
    BY <1>2 DEF TaskNext
  <2>2. CASE OtherStep(c)
    <3>1. UpdOK(id)
      BY <2>2, OtherSteps DEF UpdInv
    <3>. QED BY <2>2, <3>1, OtherSteps, UpdSteady
  <2>3. CASE Truncate(c) \/ Write(c) \/ SendData(c)
    <3>1. UpdOK(id)
      BY <2>3, AlikeSteps DEF AlikeStep, UpdInv
    <3>. QED BY <2>3, <3>1, UpdTruncate, UpdWrite, UpdSendData
  <2>4. CASE StoreSession(c)
    <3>1. /\ ghost.collided => ghost'.collided
          /\ ghost'.overlapped = ghost.overlapped
      <4>1. \/ ghost' = [ghost EXCEPT !.collided = @ \/ ghost.named = now, !.named = now]
            \/ ghost' = ghost
        BY <2>4, StoreSessionOnly DEF TypeInv
      <4>. QED BY <4>1 DEF TypeInv, Shape, GhostFields
    <3>2. UpdOK(id)
      BY <3>1 DEF UpdInv
    <3>. QED BY <2>4, <3>2, UpdStoreSession
  <2>5. CASE Load(c)
    <3>1. /\ ghost'.collided = ghost.collided
          /\ ghost.overlapped \subseteq ghost'.overlapped
      <4>1. LoadGhost(c)
        BY <2>5, LoadOnly DEF TypeInv
      <4>. QED BY <4>1, GhostLoaded DEF TypeInv
    <3>2. UpdOK(id)
      BY <3>1 DEF UpdInv
    <3>. QED BY <2>5, <3>2, UpdLoad
  <2>. QED BY <2>1, <2>2, <2>3, <2>4, <2>5 DEF TaskStep, OtherStep
<1>. QED BY <1>1, <1>2

LEMMA UpdInit == TaskInit => AddsInv /\ UpdInv
<1> SUFFICES ASSUME TaskInit PROVE AddsInv /\ UpdInv
  OBVIOUS
<1>1. \A c \in Conn : task[c].pc = "new"
  BY DEF TaskInit, Idle
<1>2. AddsInv
  BY <1>1 DEF AddsInv, Later, Active
<1>3. ASSUME NEW id PROVE UpdOK(id)
  <2>1. acked = <<>> /\ DOMAIN <<>> = {}
    BY DEF TaskInit
  <2>2. \A x : ~Promised(id, x)
    BY <1>1, <2>1 DEF Promised, At, Sending
  <2>3. \A c \in Conn : ~InSession(c, id)
    BY <1>1 DEF InSession
  <2>. QED BY <2>2, <2>3 DEF UpdOK
<1>. QED BY <1>2, <1>3 DEF UpdInv

\* UpdatesSurvive: what an answered request has put into its session stays in the
\* file, as long as no two sessions got one name and no two requests of that
\* session were between loading and saving it at once.
THEOREM UpdatesKept == TaskSpec => []UpdatesSurvive
<1>1. TypeInv /\ UpdInv => UpdatesSurvive
  <2> SUFFICES ASSUME TypeInv, UpdInv, NEW id \in DOMAIN acked, ~ghost.collided, id \notin ghost.overlapped, ~Saving(id)
               PROVE  acked[id] \subseteq At(store, id, Blank2).items
    BY DEF UpdatesSurvive
  <2>1. id \in 1 .. MaxClock
    <3>1. now \in Nat /\ MaxClock \in Nat /\ ghost.named \in Nat /\ ghost.named <= now /\ now <= MaxClock
      BY TaskAssumption DEF TypeInv, OthersOK
    <3>2. id \in 1 .. ghost.named
      BY DEF TypeInv, OthersOK
    <3>. QED BY <3>1, <3>2
  <2>2. \A x : Promised(id, x) => x \in At(store, id, Blank2).items
    BY <2>1 DEF UpdInv, UpdOK
  <2>. QED BY <2>2 DEF Promised, At
<1>. QED BY <1>1, TypeInit, TypeStep, UpdInit, AddsStep, UpdStep, PTL DEF TaskSpec
-----------------------------------------------------------------------------
(* Controllers.  Unless two requests were in a controller at once, each task *)
(* has the answer its request would have alone, as far as it has come: the   *)
(* object of the controller writes to the response of the one that calls it. *)
AsAlone(t, role) ==
  LET x == Handled[t.rq][role]
  IN  /\ t.sess.role = x.role
      /\ t.pc \in {"request", "response", "invoke"} => t.rs = x.rs /\ t.call = x.call /\ x.call # NoCall /\ ~x.threw
      /\ t.pc = "two" => t.rs = Invoked(x.rs, x.call) /\ x.call # NoCall /\ ~x.threw
      /\ t.pc \in {"store", "trunc", "write", "send"} => t.rs = Alone(t.rq, role).rs /\ ~Alone(t.rq, role).threw

HandledAlone(t) == t.pc \in Later => \E role \in Roles : AsAlone(t, role)

IsAlone(a, role) ==
  /\ ~Alone(a.rq, role).threw /\ a.sess.role = Handled[a.rq][role].role
  /\ a.answer = AnswerAlone(a.rq, role).answer /\ a.kept = AnswerAlone(a.rq, role).kept

AnsweredAlone(a) == a # Refused => a.rq \in DOMAIN Request /\ \E role \in Roles : IsAlone(a, role)

BeanInv ==
  /\ DOMAIN bean = {"request", "response"}
  /\ ~ghost.mixed =>
       /\ \A c, d \in Conn : task[c].pc \in {"response", "invoke"} /\ task[d].pc \in {"response", "invoke"} => c = d
       /\ \A c \in Conn : task[c].pc = "invoke" => bean.response = c

AloneInv ==
  ~ghost.mixed =>
    /\ \A c \in Conn : HandledAlone(task[c])
    /\ \A c \in Conn : \A i \in DOMAIN outbox[c] : AnsweredAlone(outbox[c][i])

LEMMA AloneIs ==
  ASSUME NEW r, NEW role, NEW x, x = Handled[r][role]
  PROVE  /\ x.threw \/ x.call = NoCall => Alone(r, role) = x
         /\ ~x.threw /\ x.call # NoCall => Alone(r, role) = Finished(Request[r], x.role, Invoked(x.rs, x.call))
BY DEF Alone

\* A task that moves on within a stage of the handling.
Stage(pc) ==
  CASE pc \in {"request", "response", "invoke"} -> 1
    [] pc = "two" -> 2
    [] OTHER -> 3

LEMMA StageKeeps ==
  ASSUME NEW t, NEW u, HandledAlone(t), t.pc \in Later, u.pc \in Later, Stage(u.pc) = Stage(t.pc),
         u.rq = t.rq, u.sess = t.sess, u.rs = t.rs, u.call = t.call
  PROVE  HandledAlone(u)
<1>1. PICK role \in Roles : AsAlone(t, role)
  BY DEF HandledAlone
<1>2. PICK x : x = Handled[t.rq][role]
  OBVIOUS
<1>3. /\ t.sess.role = x.role
      /\ t.pc \in {"request", "response", "invoke"} => t.rs = x.rs /\ t.call = x.call /\ x.call # NoCall /\ ~x.threw
      /\ t.pc = "two" => t.rs = Invoked(x.rs, x.call) /\ x.call # NoCall /\ ~x.threw
      /\ t.pc \in {"store", "trunc", "write", "send"} => t.rs = Alone(t.rq, role).rs /\ ~Alone(t.rq, role).threw
  BY <1>1, <1>2 DEF AsAlone
<1>4. CASE t.pc \in {"request", "response", "invoke"}
  <2>1. u.pc \in {"request", "response", "invoke"}
    BY <1>4 DEF Stage, Later, Active
  <2>2. AsAlone(u, role)
    BY <1>2, <1>3, <1>4, <2>1 DEF AsAlone
  <2>. QED BY <2>2 DEF HandledAlone
<1>5. CASE t.pc = "two"
  <2>1. u.pc = "two"
    BY <1>5 DEF Stage, Later, Active
  <2>2. AsAlone(u, role)
    BY <1>2, <1>3, <1>5, <2>1 DEF AsAlone
  <2>. QED BY <2>2 DEF HandledAlone
<1>6. CASE t.pc \in {"store", "trunc", "write", "send"}
  <2>1. u.pc \in {"store", "trunc", "write", "send"}
    BY <1>6 DEF Stage, Later, Active
  <2>2. AsAlone(u, role)
    BY <1>2, <1>3, <1>6, <2>1 DEF AsAlone
  <2>. QED BY <2>2 DEF HandledAlone
<1>. QED BY <1>4, <1>5, <1>6 DEF Later, Active

LEMMA PeerOf ==
  ASSUME TypeInv, NEW c \in Conn, Peer(c) # None, task[c].pc # "new" PROVE Peer(c) \in Conn
<1>1. TaskOK(c)
  BY DEF TypeInv
<1>. QED BY <1>1 DEF Peer, TypeInv, OthersOK, TaskOK

\* The steps that leave every request that is being handled as it is.
OutsideStep(c) ==
  \/ Send(c) \/ HangUp(c) \/ Accept(c) \/ TimeOut(c) \/ EndOfFile(c) \/ ReadRequest(c) \/ ReadData(c)
  \/ Close(c) \/ CloseAgain(c)

LEMMA OutsideSteps ==
  ASSUME TypeInv, NEW c \in Conn, OutsideStep(c)
  PROVE  /\ bean' = bean /\ ghost'.mixed = ghost.mixed
         /\ \A d \in Conn : task'[d].pc \in Later => task'[d] = task[d]
         /\ outbox' = outbox \/ (Peer(c) \in Conn /\ outbox' = [outbox EXCEPT ![Peer(c)] = Append(@, Refused)])
<1>1. bean' = bean
  BY DEF OutsideStep, Send, HangUp, Accept, TimeOut, EndOfFile, ReadRequest, ReadData, Close, CloseAgain
<1>2. CASE Send(c)
  <2>1. ghost'.mixed = ghost.mixed
    BY <1>2 DEF Send, TypeInv, Shape, GhostFields
  <2>. QED BY <1>1, <1>2, <2>1 DEF Send
<1>3. CASE HangUp(c)
  BY <1>1, <1>3 DEF HangUp
<1>4. CASE Accept(c)
  <2>1. PICK f \in Fd :
           /\ Only(c, {"pc", "fd"}) /\ task'[c].pc = "wait" /\ task'[c].fd = f
           /\ ghost' = [ghost EXCEPT !.reused = @ \/ \E d \in Conn : task[d].pc = "reclose" /\ task[d].fd = f]
    BY <1>4, AcceptOnly DEF TypeInv
  <2>2. ghost'.mixed = ghost.mixed /\ outbox' = outbox
    BY <1>4, <2>1 DEF Accept, TypeInv, Shape, GhostFields
  <2>. QED BY <1>1, <2>1, <2>2 DEF Only, Later, Active
<1>5. CASE TimeOut(c) \/ EndOfFile(c) \/ Close(c) \/ CloseAgain(c)
  <2>1. /\ ghost' = ghost /\ outbox' = outbox
        /\ \E pc \in {"close", "reclose", "done"} : Goto(c, pc)
    BY <1>5 DEF TimeOut, EndOfFile, Close, CloseAgain
  <2>2. Only(c, {"pc"}) /\ task'[c].pc \in {"close", "reclose", "done"}
    BY <2>1, GotoOnly DEF TypeInv
  <2>. QED BY <1>1, <2>1, <2>2 DEF Only, Later, Active
<1>6. CASE ReadRequest(c)
  <2>1. /\ task'[c].pc \in {"body", "load", "close"} /\ ghost' = ghost /\ Peer(c) # None
        /\ task[c].pc = "wait" /\ \A d \in Conn \ {c} : task'[d] = task[d]
        /\ outbox' = outbox \/ outbox' = [outbox EXCEPT ![Peer(c)] = Append(@, Refused)]
    BY <1>6, ReadRequestOnly DEF TypeInv, HeadRead, BodyRefused, Only
  <2>2. Peer(c) \in Conn
    BY <2>1, PeerOf
  <2>. QED BY <1>1, <2>1, <2>2 DEF Later, Active
<1>7. CASE ReadData(c)
  <2>1. /\ task'[c].pc \in {"body", "load"} /\ ghost' = ghost /\ outbox' = outbox
        /\ \A d \in Conn \ {c} : task'[d] = task[d]
    BY <1>7, ReadDataOnly DEF TypeInv, Only
  <2>. QED BY <1>1, <2>1 DEF Later, Active
<1>. QED BY <1>2, <1>3, <1>4, <1>5, <1>6, <1>7 DEF OutsideStep

\* The others.
InsideStep(c) ==
  \/ Load(c) \/ BindRequest(c) \/ BindResponse(c) \/ Invoke(c) \/ PhaseTwoStep(c)
  \/ StoreSession(c) \/ Truncate(c) \/ Write(c) \/ SendData(c)

LEMMA BindRequestMixes ==
  ASSUME TypeInv, NEW c \in Conn, BindRequest(c)
  PROVE  ghost'.mixed = (ghost.mixed \/ \E d \in Conn \ {c} : task[d].pc \in {"request", "response", "invoke"})
<1>1. PICK mixed : /\ mixed = (ghost.mixed \/ \E d \in Conn \ {c} : task[d].pc \in {"request", "response", "invoke"})
                   /\ ghost' = [ghost EXCEPT !.mixed = mixed]
  BY DEF BindRequest
<1>. QED BY <1>1 DEF TypeInv, Shape, GhostFields

LEMMA InsideGhost ==
  ASSUME TypeInv, NEW c \in Conn, InsideStep(c)
  PROVE  ghost.mixed => ghost'.mixed
<1>1. CASE Load(c)
  BY <1>1, LoadOnly, GhostLoaded DEF TypeInv
<1>2. CASE BindRequest(c)
  BY <1>2, BindRequestMixes
<1>3. CASE StoreSession(c)
  <2>1. \/ ghost' = [ghost EXCEPT !.collided = @ \/ ghost.named = now, !.named = now]
        \/ ghost' = ghost
    BY <1>3, StoreSessionOnly DEF TypeInv
  <2>. QED BY <2>1 DEF TypeInv, Shape, GhostFields
<1>4. CASE ghost' = ghost
  BY <1>4
<1>. QED BY <1>1, <1>2, <1>3, <1>4 DEF InsideStep, BindResponse, Invoke, PhaseTwoStep, Truncate, Write, SendData

LEMMA InsideBean ==
  ASSUME TypeInv, NEW c \in Conn, InsideStep(c), ~BindRequest(c), ~BindResponse(c)
  PROVE  /\ bean' = bean
         /\ \A d \in Conn : task'[d].pc \in {"response", "invoke"} => task'[d].pc = task[d].pc
<1>1. bean' = bean
  BY DEF InsideStep, Load, Invoke, PhaseTwoStep, StoreSession, Truncate, Write, SendData
<1>2. CASE Load(c)
  BY <1>1, <1>2, LoadOnly DEF TypeInv, Only
<1>3. CASE Invoke(c)
  BY <1>1, <1>3, InvokeOnly DEF TypeInv
<1>4. CASE PhaseTwoStep(c)
  BY <1>1, <1>4, PhaseTwoOnly DEF TypeInv, Only
<1>5. CASE StoreSession(c)
  BY <1>1, <1>5, StoreSessionOnly DEF TypeInv, Only
<1>6. CASE Truncate(c) \/ Write(c)
  <2>1. \E pc \in {"write", "send"} : Goto(c, pc)
    BY <1>6 DEF Truncate, Write
  <2>. QED BY <1>1, <2>1, GotoOnly DEF TypeInv, Only
<1>7. CASE SendData(c)
  BY <1>1, <1>7, SendDataOnly DEF TypeInv, Only
<1>. QED BY <1>2, <1>3, <1>4, <1>5, <1>6, <1>7 DEF InsideStep

LEMMA BeanStep == TypeInv /\ BeanInv /\ [TaskNext]_taskVars => BeanInv'
<1> SUFFICES ASSUME TypeInv, BeanInv, [TaskNext]_taskVars PROVE BeanInv'
  OBVIOUS
<1>1. CASE UNCHANGED taskVars
  BY <1>1 DEF taskVars, BeanInv
<1>2. CASE TaskNext
  <2>1. PICK c \in Conn : OutsideStep(c) \/ InsideStep(c)
    BY <1>2 DEF TaskNext, TaskStep, OutsideStep, InsideStep
  <2>2. CASE OutsideStep(c)
    <3>1. /\ bean' = bean /\ ghost'.mixed = ghost.mixed
          /\ \A d \in Conn : task'[d].pc \in {"response", "invoke"} => task'[d] = task[d]
      BY <2>2, OutsideSteps DEF Later, Active
    <3>. QED BY <3>1 DEF BeanInv
  <2>3. CASE InsideStep(c) /\ ~BindRequest(c) /\ ~BindResponse(c)
    BY <2>3, InsideGhost, InsideBean DEF BeanInv
  <2>4. CASE BindRequest(c)
    <3>1. /\ Only(c, {"pc"}) /\ task[c].pc = "request" /\ task'[c].pc = "response"
          /\ bean' = [bean EXCEPT !.request = c]
      BY <2>4, GotoOnly DEF TypeInv, BindRequest
    <3>2. DOMAIN bean' = {"request", "response"} /\ bean'.response = bean.response
      BY <3>1 DEF BeanInv
    <3>3. ~ghost'.mixed => ~ghost.mixed /\ \A d \in Conn \ {c} : task[d].pc \notin {"request", "response", "invoke"}
      BY <2>4, BindRequestMixes
    <3>4. \A d \in Conn \ {c} : task'[d] = task[d]
      BY <3>1 DEF Only
    <3>. QED BY <3>1, <3>2, <3>3, <3>4 DEF BeanInv
  <2>5. CASE BindResponse(c)
    <3>1. /\ Only(c, {"pc"}) /\ task[c].pc = "response" /\ task'[c].pc = "invoke"
          /\ bean' = [bean EXCEPT !.response = c] /\ ghost' = ghost
      BY <2>5, GotoOnly DEF TypeInv, BindResponse
    <3>2. DOMAIN bean' = {"request", "response"} /\ bean'.response = c
      BY <3>1 DEF BeanInv
    <3>3. \A d \in Conn \ {c} : task'[d] = task[d]
      BY <3>1 DEF Only
    <3>. QED BY <3>1, <3>2, <3>3 DEF BeanInv
  <2>. QED BY <2>1, <2>2, <2>3, <2>4, <2>5
<1>. QED BY <1>1, <1>2

\* What is written to the response of the task that calls.
LEMMA InvokeOwn ==
  ASSUME Shape, NEW c \in Conn, Invoke(c), bean.response = c
  PROVE  /\ Only(c, {"pc", "rs"}) /\ task'[c].pc = "two"
         /\ task'[c].rs = Invoked(task[c].rs, task[c].call)
<1> DEFINE live(d) == task[d].pc \in {"request", "response", "invoke", "two", "store"}
           t(e) == IF e = bean.response /\ live(bean.response) THEN [task[e] EXCEPT !.rs = Invoked(@, task[c].call)]
                   ELSE task[e]
<1>1. /\ task[c].pc = "invoke"
      /\ task' = [e \in Conn |-> IF e = c THEN [t(e) EXCEPT !.pc = "two"] ELSE t(e)]
  BY DEF Invoke
<1>2. PICK rs : rs = Invoked(task[c].rs, task[c].call)
  OBVIOUS
<1>3. t(c) = [task[c] EXCEPT !.rs = rs] /\ \A d \in Conn \ {c} : t(d) = task[d]
  BY <1>1, <1>2
<1> HIDE DEF t
<1>4. DOMAIN task' = Conn /\ task'[c] = [t(c) EXCEPT !.pc = "two"] /\ \A d \in Conn \ {c} : task'[d] = task[d]
  BY <1>1, <1>3
<1>5. DOMAIN t(c) = TaskFields /\ t(c).rs = rs /\ \A f \in TaskFields \ {"rs"} : t(c)[f] = task[c][f]
  BY <1>3 DEF Shape, TaskFields
<1>6. /\ DOMAIN task'[c] = TaskFields /\ task'[c].pc = "two" /\ task'[c].rs = rs
      /\ \A f \in TaskFields \ {"pc", "rs"} : task'[c][f] = task[c][f]
  BY <1>4, <1>5 DEF TaskFields
<1>. QED BY <1>2, <1>4, <1>6 DEF Only

LEMMA PhaseTwoResult ==
  ASSUME Shape, NEW c \in Conn, PhaseTwoStep(c)
  PROVE  LET x == Finished(Request[task[c].rq], task[c].sess.role, task[c].rs)
         IN  task'[c].rs = x.rs /\ task'[c].pc = IF x.threw THEN "wait" ELSE "store"
<1> DEFINE x == Finished(Request[task[c].rq], task[c].sess.role, task[c].rs)
           pc == IF x.threw THEN "wait" ELSE "store"
<1>1. PICK rs : rs = x.rs
  OBVIOUS
<1>2. task' = [task EXCEPT ![c].rs = rs, ![c].pc = pc]
  BY <1>1 DEF PhaseTwoStep
<1> HIDE DEF pc
<1>3. task'[c].rs = rs /\ task'[c].pc = pc
  BY <1>2 DEF Shape, TaskFields
<1>. QED BY <1>1, <1>3 DEF pc

\* What has been sent, and an answer more.
LEMMA AloneMore ==
  ASSUME OutboxOK, NEW d \in Conn, NEW a, AnsweredAlone(a), outbox' = [outbox EXCEPT ![d] = Append(@, a)],
         \A c \in Conn : \A i \in DOMAIN outbox[c] : AnsweredAlone(outbox[c][i])
  PROVE  \A c \in Conn : \A i \in DOMAIN outbox'[c] : AnsweredAlone(outbox'[c][i])
<1>1. PICK S : outbox[d] \in Seq(S)
  BY DEF OutboxOK
<1>2. outbox'[d] = Append(outbox[d], a) /\ \A c \in Conn \ {d} : outbox'[c] = outbox[c]
  BY DEF OutboxOK
<1>3. ASSUME NEW c \in Conn, NEW i \in DOMAIN outbox'[c] PROVE AnsweredAlone(outbox'[c][i])
  <2>1. CASE c = d
    <3>1. \/ i \in DOMAIN outbox[d] /\ outbox'[d][i] = outbox[d][i]
          \/ outbox'[d][i] = a
      BY <1>1, <1>2, <2>1, OneMore
    <3>. QED BY <2>1, <3>1
  <2>2. CASE c # d
    BY <1>2, <2>2
  <2>. QED BY <2>1, <2>2
<1>. QED BY <1>3

LEMMA LoadAlone ==
  ASSUME TypeInv, RolesKnown, NEW c \in Conn, Load(c)
  PROVE  HandledAlone(task'[c])
<1>1. /\ task[c].pc = "load" /\ Only(c, {"pc", "rs", "dirty", "adds", "call", "sess"})
      /\ task'[c].sess.role = Outcome(c).role /\ task'[c].rs = Outcome(c).rs /\ task'[c].call = Outcome(c).call
      /\ task'[c].pc = IF Outcome(c).threw THEN "wait" ELSE IF Outcome(c).call # NoCall THEN "request" ELSE "store"
  BY LoadOnly DEF TypeInv
<1>2. task'[c].rq = task[c].rq
  BY <1>1 DEF Only, TaskFields
<1>3. PICK role \in Roles : role = Session(task[c].id).role
  BY SessionRole
<1>4. PICK x : x = Handled[task[c].rq][role]
  OBVIOUS
<1>5. x = Outcome(c)
  BY <1>3, <1>4 DEF Outcome
<1>6. CASE x.threw
  BY <1>1, <1>5, <1>6 DEF HandledAlone, Later, Active
<1>7. CASE ~x.threw /\ x.call # NoCall
  <2>1. AsAlone(task'[c], role)
    BY <1>1, <1>2, <1>4, <1>5, <1>7 DEF AsAlone
  <2>. QED BY <2>1 DEF HandledAlone
<1>8. CASE ~x.threw /\ x.call = NoCall
  <2>1. Alone(task[c].rq, role) = x
    BY <1>4, <1>8, AloneIs
  <2>2. task'[c].pc = "store" /\ task'[c].rs = x.rs /\ task'[c].sess.role = x.role
    BY <1>1, <1>5, <1>8
  <2>3. AsAlone(task'[c], role)
    BY <1>2, <1>4, <1>8, <2>1, <2>2 DEF AsAlone
  <2>. QED BY <2>3 DEF HandledAlone
<1>. QED BY <1>6, <1>7, <1>8

LEMMA InvokeAlone ==
  ASSUME TypeInv, NEW c \in Conn, Invoke(c), bean.response = c, HandledAlone(task[c])
  PROVE  HandledAlone(task'[c])
<1>1. /\ task[c].pc = "invoke" /\ Only(c, {"pc", "rs"}) /\ task'[c].pc = "two"
      /\ task'[c].rs = Invoked(task[c].rs, task[c].call)
  BY InvokeOwn DEF TypeInv, Invoke
<1>2. task'[c].rq = task[c].rq /\ task'[c].sess = task[c].sess
  BY <1>1 DEF Only, TaskFields
<1>3. PICK role \in Roles : AsAlone(task[c], role)
  BY <1>1 DEF HandledAlone, Later, Active
<1>4. PICK x : x = Handled[task[c].rq][role]
  OBVIOUS
<1>5. task[c].sess.role = x.role /\ task[c].rs = x.rs /\ task[c].call = x.call /\ x.call # NoCall /\ ~x.threw
  BY <1>1, <1>3, <1>4 DEF AsAlone
<1>6. AsAlone(task'[c], role)
  BY <1>1, <1>2, <1>4, <1>5 DEF AsAlone
<1>. QED BY <1>6 DEF HandledAlone

LEMMA PhaseTwoAlone ==
  ASSUME TypeInv, NEW c \in Conn, PhaseTwoStep(c), HandledAlone(task[c])
  PROVE  HandledAlone(task'[c])
<1>1. task[c].pc = "two" /\ Only(c, {"pc", "rs"})
  BY PhaseTwoOnly DEF TypeInv
<1>2. task'[c].rq = task[c].rq /\ task'[c].sess = task[c].sess
  BY <1>1 DEF Only, TaskFields
<1>3. PICK role \in Roles : AsAlone(task[c], role)
  BY <1>1 DEF HandledAlone, Later, Active
<1>4. PICK x : x = Handled[task[c].rq][role]
  OBVIOUS
<1>5. task[c].sess.role = x.role /\ task[c].rs = Invoked(x.rs, x.call) /\ x.call # NoCall /\ ~x.threw
  BY <1>1, <1>3, <1>4 DEF AsAlone
<1>6. PICK y : y = Finished(Request[task[c].rq], task[c].sess.role, task[c].rs)
  OBVIOUS
<1>7. task'[c].rs = y.rs /\ task'[c].pc = IF y.threw THEN "wait" ELSE "store"
  BY <1>6, PhaseTwoResult DEF TypeInv
<1>8. Alone(task[c].rq, role) = y
  BY <1>4, <1>5, <1>6, AloneIs
<1>9. CASE y.threw
  BY <1>7, <1>9 DEF HandledAlone, Later, Active
<1>10. CASE ~y.threw
  <2>1. AsAlone(task'[c], role)
    BY <1>2, <1>4, <1>5, <1>7, <1>8, <1>10 DEF AsAlone
  <2>. QED BY <2>1 DEF HandledAlone
<1>. QED BY <1>9, <1>10

LEMMA InsideAlone ==
  ASSUME TypeInv, RolesKnown, BeanInv, ~ghost.mixed, \A d \in Conn : HandledAlone(task[d]), NEW c \in Conn, InsideStep(c)
  PROVE  \A d \in Conn : HandledAlone(task'[d])
<1>1. Invoke(c) => bean.response = c
  BY DEF BeanInv, Invoke
<1>2. ASSUME NEW F, Only(c, F), HandledAlone(task'[c])
      PROVE  \A d \in Conn : HandledAlone(task'[d])
  BY <1>2 DEF Only
<1>3. ASSUME NEW F, Only(c, F), F \subseteq {"pc", "id"}, task[c].pc \in Later, task'[c].pc \in Later,
             Stage(task'[c].pc) = Stage(task[c].pc)
      PROVE  HandledAlone(task'[c])
  <2>1. /\ task'[c].rq = task[c].rq /\ task'[c].sess = task[c].sess /\ task'[c].rs = task[c].rs
        /\ task'[c].call = task[c].call
    BY <1>3 DEF Only, TaskFields
  <2>. QED BY <1>3, <2>1, StageKeeps
<1>4. CASE Load(c)
  <2>1. Only(c, {"pc", "rs", "dirty", "adds", "call", "sess"})
    BY <1>4, LoadOnly DEF TypeInv
  <2>. QED BY <1>2, <1>4, <2>1, LoadAlone
<1>5. CASE BindRequest(c)
  <2>1. Only(c, {"pc"}) /\ task[c].pc = "request" /\ task'[c].pc = "response"
    BY <1>5, GotoOnly DEF TypeInv, BindRequest
  <2>2. HandledAlone(task'[c])
    BY <1>3, <2>1 DEF Stage, Later, Active
  <2>. QED BY <1>2, <2>1, <2>2
<1>6. CASE BindResponse(c)
  <2>1. Only(c, {"pc"}) /\ task[c].pc = "response" /\ task'[c].pc = "invoke"
    BY <1>6, GotoOnly DEF TypeInv, BindResponse
  <2>2. HandledAlone(task'[c])
    BY <1>3, <2>1 DEF Stage, Later, Active
  <2>. QED BY <1>2, <2>1, <2>2
<1>7. CASE Invoke(c)
  <2>1. Only(c, {"pc", "rs"})
    BY <1>1, <1>7, InvokeOwn DEF TypeInv
  <2>. QED BY <1>1, <1>2, <1>7, <2>1, InvokeAlone
<1>8. CASE PhaseTwoStep(c)
  <2>1. Only(c, {"pc", "rs"})
    BY <1>8, PhaseTwoOnly DEF TypeInv
  <2>. QED BY <1>2, <1>8, <2>1, PhaseTwoAlone
<1>9. CASE StoreSession(c)
  <2>1. Only(c, {"pc", "id"}) /\ task[c].pc = "store" /\ task'[c].pc \in {"trunc", "send"}
    BY <1>9, StoreSessionOnly DEF TypeInv
  <2>2. HandledAlone(task'[c])
    BY <1>3, <2>1 DEF Stage, Later, Active
  <2>. QED BY <1>2, <2>1, <2>2
<1>10. CASE Truncate(c) \/ Write(c)
  <2>1. /\ Only(c, {"pc"}) /\ task[c].pc \in {"trunc", "write"} /\ task'[c].pc \in {"write", "send"}
    BY <1>10, GotoOnly DEF TypeInv, Truncate, Write
  <2>2. HandledAlone(task'[c])
    BY <1>3, <2>1 DEF Stage, Later, Active
  <2>. QED BY <1>2, <2>1, <2>2
<1>11. CASE SendData(c)
  <2>1. task'[c].pc \in {"wait", "close"} /\ \A d \in Conn \ {c} : task'[d] = task[d]
    BY <1>11, SendDataOnly DEF TypeInv, Only
  <2>. QED BY <2>1 DEF HandledAlone, Later, Active
<1>. QED BY <1>4, <1>5, <1>6, <1>7, <1>8, <1>9, <1>10, <1>11 DEF InsideStep

\* What is sent is the answer the request would have alone.
LEMMA SentAlone ==
  ASSUME TypeInv, NEW c \in Conn, task[c].pc = "send", HandledAlone(task[c])
  PROVE  AnsweredAlone(Sent(c))
<1>1. PICK role \in Roles : AsAlone(task[c], role)
  BY DEF HandledAlone, Later, Active
<1>2. task[c].rq \in DOMAIN Request
  BY DEF TypeInv, TaskOK, Active
<1>3. PICK a : a = Sent(c)
  OBVIOUS
<1>4. /\ a.rq = task[c].rq /\ a.sess = task[c].sess
      /\ a.answer = GenerateResponse(task[c].rs, Request[task[c].rq].method)
      /\ a.kept = KeepsAlive(Request[task[c].rq], task[c].rs)
  BY <1>3 DEF Sent, Kept
<1>5. /\ task[c].sess.role = Handled[task[c].rq][role].role
      /\ task[c].rs = Alone(task[c].rq, role).rs /\ ~Alone(task[c].rq, role).threw
  BY <1>1 DEF AsAlone
<1>6. IsAlone(a, role)
  BY <1>4, <1>5 DEF IsAlone, AnswerAlone
<1>. QED BY <1>2, <1>3, <1>4, <1>6 DEF AnsweredAlone

LEMMA AloneStep == TypeInv /\ RolesKnown /\ BodyInv /\ BeanInv /\ AloneInv /\ [TaskNext]_taskVars => AloneInv'
<1> SUFFICES ASSUME TypeInv, RolesKnown, BodyInv, BeanInv, AloneInv, [TaskNext]_taskVars, ~ghost'.mixed
             PROVE  /\ \A d \in Conn : HandledAlone(task'[d])
                    /\ \A d \in Conn : \A i \in DOMAIN outbox'[d] : AnsweredAlone(outbox'[d][i])
  BY DEF AloneInv, HandledAlone, AnsweredAlone, AsAlone, IsAlone
<1>0. OutboxOK
  BY DEF BodyInv
<1>1. CASE UNCHANGED taskVars
  BY <1>1 DEF taskVars, AloneInv
<1>2. CASE TaskNext
  <2>1. PICK c \in Conn : OutsideStep(c) \/ InsideStep(c)
    BY <1>2 DEF TaskNext, TaskStep, OutsideStep, InsideStep
  <2>2. ~ghost.mixed
    BY <2>1, OutsideSteps, InsideGhost
  <2>3. /\ \A d \in Conn : HandledAlone(task[d])
        /\ \A d \in Conn : \A i \in DOMAIN outbox[d] : AnsweredAlone(outbox[d][i])
    BY <2>2 DEF AloneInv
  <2>4. CASE OutsideStep(c)
    <3>1. \A d \in Conn : HandledAlone(task'[d])
      BY <2>3, <2>4, OutsideSteps DEF HandledAlone
    <3>2. AnsweredAlone(Refused)
      BY DEF AnsweredAlone
    <3>3. \/ outbox' = outbox
          \/ Peer(c) \in Conn /\ outbox' = [outbox EXCEPT ![Peer(c)] = Append(@, Refused)]
      BY <2>4, OutsideSteps
    <3>. QED BY <1>0, <2>3, <3>1, <3>2, <3>3, AloneMore
  <2>5. CASE InsideStep(c)
    <3>1. \A d \in Conn : HandledAlone(task'[d])
      BY <2>2, <2>3, <2>5, InsideAlone
    <3>2. CASE outbox' = outbox
      BY <2>3, <3>1, <3>2
    <3>3. CASE SendData(c) /\ outbox' # outbox
      <4>1. /\ task[c].pc = "send" /\ Peer(c) # None
            /\ outbox' = [outbox EXCEPT ![Peer(c)] = Append(@, Sent(c))]
        BY <3>3, SendDataOnly DEF TypeInv
      <4>2. AnsweredAlone(Sent(c)) /\ Peer(c) \in Conn
        BY <2>3, <4>1, SentAlone, PeerOf
      <4>. QED BY <1>0, <2>3, <3>1, <4>1, <4>2, AloneMore
    <3>. QED BY <2>5, <3>2, <3>3 DEF InsideStep, Load, BindRequest, BindResponse, Invoke, PhaseTwoStep, StoreSession,
                Truncate, Write
  <2>. QED BY <2>1, <2>4, <2>5
<1>. QED BY <1>1, <1>2

LEMMA AloneInit == TaskInit => BeanInv /\ AloneInv
<1> SUFFICES ASSUME TaskInit PROVE BeanInv /\ AloneInv
  OBVIOUS
<1>1. \A c \in Conn : task[c].pc = "new" /\ outbox[c] = <<>>
  BY DEF TaskInit, Idle
<1>2. DOMAIN bean = {"request", "response"}
  BY DEF TaskInit
<1>3. DOMAIN <<>> = {}
  OBVIOUS
<1>. QED BY <1>1, <1>2, <1>3 DEF BeanInv, AloneInv, HandledAlone, Later, Active

\* An answer that was sent, of those that are served.
LEMMA ServedAlone ==
  ASSUME AloneInv, ~ghost.mixed, NEW r \in Served
  PROVE  r.a.rq \in DOMAIN Request /\ \E role \in Roles : IsAlone(r.a, role)
<1>1. r \in Answers /\ r.a # Refused
  BY DEF Served
<1>2. PICK c \in Conn : r \in {[on |-> c, a |-> outbox[c][i]] : i \in DOMAIN outbox[c]}
  BY <1>1 DEF Answers
<1>3. PICK i \in DOMAIN outbox[c] : r = [on |-> c, a |-> outbox[c][i]]
  BY <1>2
<1>4. AnsweredAlone(outbox[c][i])
  BY DEF AloneInv
<1>. QED BY <1>1, <1>3, <1>4 DEF AnsweredAlone

\* AnswersOwn: a request for a REST controller is answered with what its own call
\* gave, unless two requests were in the controller at once; for any application
\* in which that is what the request is answered when it is alone.
THEOREM CallsApart == CallsAnswer => (TaskSpec => []AnswersOwn)
<1> SUFFICES ASSUME CallsAnswer PROVE TaskSpec => []AnswersOwn
  OBVIOUS
<1>1. AloneInv => AnswersOwn
  <2> SUFFICES ASSUME AloneInv, NEW r \in Served, ~ghost.mixed PROVE OwnAnswer(r.a)
    BY DEF AnswersOwn
  <2>1. PICK role \in Roles : r.a.rq \in DOMAIN Request /\ IsAlone(r.a, role)
    BY ServedAlone
  <2>2. OwnAnswer(AnswerAlone(r.a.rq, role))
    BY <2>1 DEF CallsAnswer, IsAlone
  <2>3. r.a.answer = AnswerAlone(r.a.rq, role).answer /\ AnswerAlone(r.a.rq, role).rq = r.a.rq
    BY <2>1 DEF IsAlone, AnswerAlone
  <2>. QED BY <2>2, <2>3 DEF OwnAnswer
<1>. QED BY <1>1, TypeInit, TypeStep, PeerInit, PeerStep, BodyInit, BodyStep, RolesInit, RolesStep, AloneInit, BeanStep,
            AloneStep, PTL DEF TaskSpec

\* What a request is answered, when it is alone, ends where the client can tell.
LEMMA MadeAlone ==
  ASSUME SiteAnswers, NEW n \in DOMAIN Request, NEW role \in Roles PROVE Made(Alone(n, role), Request[n])
<1>1. PICK rq : rq = Request[n]
  OBVIOUS
<1>2. {"method", "paramSize"} \subseteq DOMAIN rq /\ rq.paramSize \in Int
  BY <1>1, TaskAssumption
<1>3. PICK y : y = PhaseOne(rq, role)
  OBVIOUS
<1>4. OnWay(y, rq)
  BY <1>2, <1>3, PhaseOneOnWay
<1>5. PICK x : x = Handled[n][role]
  OBVIOUS
<1>6. x = IF y.call = NoCall /\ ~y.threw THEN PhaseTwo(y) ELSE y
  BY <1>1, <1>3, <1>5, HandledRole DEF UnlessCalled
<1>7. CASE y.call = NoCall /\ ~y.threw
  <2>1. PhaseTwo(y).call = NoCall /\ Made(PhaseTwo(y), rq)
    BY <1>2, <1>4, <1>7, PhaseTwoSame, PhaseTwoMade DEF OnWay
  <2>2. Alone(n, role) = x
    BY <1>5, <1>6, <1>7, <2>1 DEF Alone
  <2>. QED BY <1>1, <1>6, <1>7, <2>1, <2>2
<1>8. CASE y.threw
  <2>1. Alone(n, role) = y
    BY <1>5, <1>6, <1>8 DEF Alone
  <2>. QED BY <1>1, <1>4, <2>1, OnWayMade
<1>9. CASE y.call # NoCall /\ ~y.threw
  <2>1. PICK rs : rs = Invoked(y.rs, y.call)
    OBVIOUS
  <2>2. Going(rs)
    BY <1>4, <2>1, InvokedGoing DEF OnWay
  <2>3. PICK s : s = [Serving(rq, y.role) EXCEPT !.rs = rs]
    OBVIOUS
  <2>4. DOMAIN s = XFields /\ s.rq = rq /\ s.rs = rs /\ s.call = NoCall
    BY <2>3, ServingFields, AnswerSame DEF Same
  <2>5. OnWay(s, rq)
    BY <1>2, <2>2, <2>4, NoCallText DEF OnWay, Asks
  <2>6. Made(PhaseTwo(s), rq)
    BY <1>2, <2>5, PhaseTwoMade
  <2>7. Alone(n, role) = PhaseTwo(s)
    BY <1>1, <1>5, <1>6, <1>9, <2>1, <2>3 DEF Alone, Finished
  <2>. QED BY <1>1, <2>6, <2>7
<1>. QED BY <1>7, <1>8, <1>9

LEMMA EndsAlone ==
  ASSUME SiteAnswers, NEW n \in DOMAIN Request, NEW role \in Roles, ~Alone(n, role).threw
  PROVE  EndIsKnown(AnswerAlone(n, role))
<1>1. PICK rq : rq = Request[n]
  OBVIOUS
<1>2. PICK rs : rs = Alone(n, role).rs
  OBVIOUS
<1>3. Bodiless(rq) \/ Whole(rs)
  BY <1>1, <1>2, MadeAlone DEF Made
<1>4. PICK answer : answer = GenerateResponse(rs, rq.method)
  OBVIOUS
<1>5. PICK a : a = AnswerAlone(n, role)
  OBVIOUS
<1>6. a.answer = answer /\ a.rq = n /\ a.kept = KeepsAlive(rq, rs)
  BY <1>1, <1>2, <1>4, <1>5 DEF AnswerAlone
<1>7. CASE Bodiless(rq)
  BY <1>1, <1>5, <1>6, <1>7 DEF Bodiless, EndIsKnown, Delimited
<1>8. CASE Whole(rs) /\ ~Bodiless(rq)
  <2>1. EndsAt(rs, answer)
    BY <1>4, <1>8, AnswerEnds DEF Bodiless
  <2>2. answer.status = rs.status
    BY <1>4, <1>8, GeneratedStatus DEF Whole
  <2>3. a.kept => rs.status <= 307
    BY <1>6 DEF KeepsAlive
  <2>4. rs.status \in Nat
    BY <1>8 DEF Whole
  <2>. QED BY <1>5, <1>6, <2>1, <2>2, <2>3, <2>4 DEF EndsAt, EndIsKnown, Delimited
<1>. QED BY <1>3, <1>7, <1>8

\* AnswersDelimited: on a connection that is kept the client can tell where each
\* answer ends, but for those that EndIsKnown names, unless two requests were in a
\* controller at once; for any application whose own answers do, and whose pages
\* are texts.
THEOREM AnswersEnd == SiteAnswers => (TaskSpec => []AnswersDelimited)
<1> SUFFICES ASSUME SiteAnswers PROVE TaskSpec => []AnswersDelimited
  OBVIOUS
<1>1. AloneInv => AnswersDelimited
  <2> SUFFICES ASSUME AloneInv, NEW r \in Served, ~ghost.mixed PROVE EndIsKnown(r.a)
    BY DEF AnswersDelimited
  <2>1. PICK role \in Roles : r.a.rq \in DOMAIN Request /\ IsAlone(r.a, role)
    BY ServedAlone
  <2>2. EndIsKnown(AnswerAlone(r.a.rq, role))
    BY <2>1, EndsAlone DEF IsAlone
  <2>3. /\ r.a.answer = AnswerAlone(r.a.rq, role).answer /\ AnswerAlone(r.a.rq, role).rq = r.a.rq
        /\ r.a.kept = AnswerAlone(r.a.rq, role).kept
    BY <2>1 DEF IsAlone, AnswerAlone
  <2>. QED BY <2>2, <2>3 DEF EndIsKnown, Delimited
<1>. QED BY <1>1, TypeInit, TypeStep, PeerInit, PeerStep, BodyInit, BodyStep, RolesInit, RolesStep, AloneInit, BeanStep,
            AloneStep, PTL DEF TaskSpec

\* What a request for a page of another role is answered, when it is alone.
LEMMA RefusedAlone ==
  ASSUME NEW n \in DOMAIN Request, NEW role \in Roles, Protects(Request[n]), RoleOf(Request[n]) \notin {"", Anonymous},
         Handled[n][role].role # RoleOf(Request[n])
  PROVE  NotServed(AnswerAlone(n, role).answer)
<1>1. PICK rq : rq = Request[n]
  OBVIOUS
<1>2. PICK x : x = Handled[n][role]
  OBVIOUS
<1>3. x = UnlessCalled(PhaseOne(rq, role))
  BY <1>1, <1>2, HandledRole
<1>4. RoleOf(rq) \notin {"", Anonymous} /\ Protects(rq) /\ UnlessCalled(PhaseOne(rq, role)).role # RoleOf(rq)
  BY <1>1, <1>2, <1>3
<1>5. x.call = NoCall /\ ~x.threw /\ NotServed(x.rs) /\ DOMAIN x.rs = RsFields
  <2>1. UnlessCalled(PhaseOne(rq, role)).call = NoCall /\ ~UnlessCalled(PhaseOne(rq, role)).threw
    BY <1>4, RefusedOthers
  <2>2. NotServed(UnlessCalled(PhaseOne(rq, role)).rs)
    BY <1>4, RefusedOthers
  <2>3. DOMAIN UnlessCalled(PhaseOne(rq, role)).rs = RsFields
    BY <1>4, RefusedOthers
  <2>. QED BY <1>3, <2>1, <2>2, <2>3
<1>6. Alone(n, role) = x
  BY <1>2, <1>5 DEF Alone
<1>7. AnswerAlone(n, role).answer = GenerateResponse(x.rs, rq.method)
  BY <1>1, <1>6 DEF AnswerAlone
<1>8. DOMAIN x.rs = RsFields
  BY <1>5
<1>9. GenerateResponse(x.rs, rq.method).status = x.rs.status
  BY <1>8, GeneratedStatus
<1>. QED BY ZenonT(60), <1>5, <1>7, <1>9 DEF NotServed

\* The role that the session was left with by a page's answer.
LEMMA PageAlone ==
  ASSUME NEW a, a.rq \in DOMAIN Request, Protects(Request[a.rq]), RoleOf(Request[a.rq]) \notin {"", Anonymous},
         \E role \in Roles : IsAlone(a, role), a.answer.status = 200
  PROVE  a.sess.role = RoleOf(Request[a.rq])
<1>1. PICK role \in Roles : IsAlone(a, role)
  OBVIOUS
<1>2. AnswerAlone(a.rq, role).answer.status = 200
  BY <1>1 DEF IsAlone
<1>3. Handled[a.rq][role].role = RoleOf(Request[a.rq])
  BY ZenonT(60), <1>2, RefusedAlone DEF NotServed
<1>. QED BY <1>1, <1>3 DEF IsAlone

LEMMA ServedOwned ==
  ASSUME OwnedInv, NEW r \in Served, ~ghost.collided, ~ghost.reused
  PROVE  SessOf(r.a.sess, Owner(r.on), ghost.proved)
<1>1. r \in Answers /\ r.a # Refused
  BY DEF Served
<1>2. PICK c \in Conn : r \in {[on |-> c, a |-> outbox[c][i]] : i \in DOMAIN outbox[c]}
  BY <1>1 DEF Answers
<1>3. PICK i \in DOMAIN outbox[c] : r = [on |-> c, a |-> outbox[c][i]]
  BY <1>2
<1>4. AnswerOwned(outbox[c][i], c)
  BY DEF OwnedInv, AnswersOwned
<1>. QED BY <1>1, <1>3, <1>4 DEF AnswerOwned

\* ProtectedNeedsLogin: a page that a role is needed for goes only to a client that
\* has named a user of that role with the right password, unless two sessions got
\* one name, a descriptor closed twice was used again, or two requests were in a
\* controller at once; where there are a provider and a login page.
THEOREM ProtectedPages == (\A r \in DOMAIN Request : Protects(Request[r])) => (TaskSpec => []ProtectedNeedsLogin)
<1> SUFFICES ASSUME \A r \in DOMAIN Request : Protects(Request[r]) PROVE TaskSpec => []ProtectedNeedsLogin
  OBVIOUS
<1>1. AloneInv /\ OwnedInv => ProtectedNeedsLogin
  <2> SUFFICES ASSUME AloneInv, OwnedInv, NEW p \in Served, RoleOf(Request[p.a.rq]) \notin {"", Anonymous},
                      p.a.answer.status = 200, ~ghost.collided, ~ghost.reused, ~ghost.mixed
               PROVE  <<Owner(p.on), RoleOf(Request[p.a.rq])>> \in ghost.proved
    BY DEF ProtectedNeedsLogin
  <2>1. p.a.rq \in DOMAIN Request /\ \E role \in Roles : IsAlone(p.a, role)
    BY ZenonT(60), ServedAlone
  <2>2. Protects(Request[p.a.rq])
    BY <2>1
  <2>3. p.a.sess.role = RoleOf(Request[p.a.rq])
    BY <2>1, <2>2, PageAlone
  <2>4. SessOf(p.a.sess, Owner(p.on), ghost.proved)
    BY ServedOwned
  <2>. QED BY <2>3, <2>4 DEF SessOf
<1>. QED BY <1>1, TypeInit, TypeStep, PeerInit, PeerStep, BodyInit, BodyStep, RolesInit, RolesStep, OwnedInit, OwnedStep,
            AloneInit, BeanStep, AloneStep, PTL DEF TaskSpec
=============================================================================
