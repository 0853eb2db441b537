--------------------------- MODULE CibernateProofs ---------------------------
(* TransactionsHold and RowsRead, for any number of sessions, connections    *)
(* and statements, and for any mapping of classes to tables.                 *)
EXTENDS Cibernate, FiniteSetTheorems, TLAPS

Write == Session \X Nat

Calls == {<<>>} \cup UNION {Program[s] : s \in Session}
ReadOf(class) == [class |-> class, fields |-> ReadRow(class)]
Reads == {NothingRead} \cup {ReadOf(class) : class \in Entity}
SessionType ==
  [pc : {"none", "ready", "allocated", "ended", "deleted"}, pool : BOOLEAN, conn : 0 .. reads,
   isTransaction : BOOLEAN, call : Calls, count : Nat, read : Reads]
TxType == [is : {"none", "open", "commit", "rollback"}, on : 0 .. reads, writes : SUBSET Write]

DbTypes ==
  /\ reads \in Nat \ {0} /\ readNumber \in 0 .. reads
  /\ link \in [1 .. reads -> [auto : BOOLEAN, pending : SUBSET Write]]
  /\ rows \in SUBSET Write
  /\ session \in [Session -> SessionType]
  /\ tx \in [Session -> TxType]
  /\ segfault \in BOOLEAN

\* A session at work has a connection and one of its calls; without the pool it has a
\* connection at any time.
Connected ==
  \A s \in Session :
    /\ session[s].pc = "allocated" => session[s].call \in Program[s]
    /\ session[s].pc \in {"allocated", "ended"} => session[s].conn \in 1 .. reads
    /\ session[s].pc = "ready" /\ ~session[s].pool => session[s].conn \in 1 .. reads

\* A write that was made: it is there, it waits on a connection, or it is remembered as
\* one of a transaction.
Made(w) ==
  \/ w \in rows
  \/ \E c \in 1 .. reads : w \in link[c].pending
  \/ \E s \in Session : w \in tx[s].writes

\* The next write of a session is none of those.
Numbered ==
  ~segfault =>
  /\ \A s \in Session : session[s].pc = "none" => session[s].count = 0
  /\ \A s \in Session, n \in Nat :
       Made(<<s, n>>) /\ session[s].pc # "deleted"
         => n <= session[s].count /\ (session[s].pc = "allocated" => n < session[s].count)

\* A write waits in one place, and is not there yet.
WaitsOnce ==
  \A c \in 1 .. reads :
    /\ link[c].pending \cap rows = {}
    /\ \A d \in 1 .. reads : c # d => link[c].pending \cap link[d].pending = {}

\* The writes of an open transaction wait on its connection, which does not commit by
\* itself; those that were rolled back wait nowhere.
TxHolds(s) ==
  /\ tx[s].is = "open" => /\ tx[s].on \in 1 .. reads /\ ~link[tx[s].on].auto
                          /\ tx[s].writes \subseteq link[tx[s].on].pending
                          /\ session[s].pc \notin {"ended", "deleted"}
  /\ tx[s].is = "commit" => tx[s].writes \subseteq rows
  /\ tx[s].is = "rollback" =>
       /\ tx[s].writes \cap rows = {}
       /\ \A c \in 1 .. reads : tx[s].writes \cap link[c].pending = {}

TxInv == \A s \in Session : TxHolds(s)

DbInv == DbTypes /\ Connected /\ Numbered /\ WaitsOnce /\ TxInv

LEMMA Constants == ReadConnections(0) = 1 /\ <<>> \in Calls /\ NothingRead \in Reads
  BY DEF Calls, Reads, ReadConnections

LEMMA InitInv == DbInit => DbInv
<1> SUFFICES ASSUME DbInit PROVE DbInv
  OBVIOUS
<1>1. PICK size \in PoolSize : reads = ReadConnections(size)
  BY DEF DbInit
<1>2. reads \in Nat \ {0}
  BY <1>1, CibernateAssumption DEF ReadConnections
<1>3. DbTypes
  <2>1. NoSession \in SessionType
    BY <1>2, Constants DEF NoSession, SessionType
  <2>2. NoTx \in TxType
    BY <1>2 DEF NoTx, TxType
  <2>3. link \in [1 .. reads -> [auto : BOOLEAN, pending : SUBSET Write]]
    BY DEF DbInit
  <2>4. session \in [Session -> SessionType] /\ tx \in [Session -> TxType]
    BY <2>1, <2>2 DEF DbInit
  <2>5. readNumber \in 0 .. reads /\ rows \in SUBSET Write
    BY <1>2 DEF DbInit
  <2>6. segfault \in BOOLEAN
    BY DEF DbInit
  <2> QED BY <1>2, <2>3, <2>4, <2>5, <2>6 DEF DbTypes
<1>4. \A w : ~Made(w)
  BY DEF DbInit, Made, NoTx
<1> QED BY <1>2, <1>3, <1>4 DEF DbInit, DbInv, Connected, Numbered, WaitsOnce, TxInv, TxHolds, NoSession, NoTx

\* The fields of a session that operations set.
LEMMA FieldSet ==
  ASSUME NEW me \in SessionType, NEW b \in BOOLEAN
  PROVE  /\ [me EXCEPT !.pool = b] \in SessionType
         /\ [me EXCEPT !.isTransaction = b] \in SessionType
         /\ [me EXCEPT !.pool = TRUE, !.isTransaction = b] \in SessionType
         /\ [me EXCEPT !.pc = "deleted"] \in SessionType
  BY DEF SessionType

LEMMA CallSet ==
  ASSUME NEW me \in SessionType, NEW call \in Calls
  PROVE  LET called == [me EXCEPT !.pc = "allocated", !.call = call, !.count = @ + 1]
         IN  called \in SessionType /\ called.pc = "allocated" /\ called.conn = me.conn
             /\ called.call = call /\ called.count = me.count + 1
<1> DEFINE called == [me EXCEPT !.pc = "allocated", !.call = call, !.count = @ + 1]
<1>1. me.count \in Nat
  BY DEF SessionType
<1>2. me.count + 1 \in Nat
  BY <1>1
<1> QED BY <1>2 DEF SessionType

LEMMA ConnSet ==
  ASSUME NEW me \in SessionType, NEW conn \in 0 .. reads
  PROVE  LET given == [me EXCEPT !.conn = conn, !.read = NothingRead]
         IN  given \in SessionType /\ given.pool = me.pool /\ given.conn = conn /\ given.count = me.count
  BY Constants DEF SessionType

\* What Return does to the sessions.
LEMMA Returned ==
  ASSUME NEW s \in Session, NEW me \in SessionType, session \in [Session -> SessionType], Return(s, me)
  PROVE  /\ session' \in [Session -> SessionType]
         /\ session'[s].pc = "ready" /\ session'[s].pool = me.pool /\ session'[s].conn = me.conn
         /\ session'[s].count = me.count
         /\ \A t \in Session : t # s => session'[t] = session[t]
  BY Constants DEF Return, SessionType

LEMMA NewInv == ASSUME NEW s \in Session, DbInv, ~segfault, NewCibernate(s) PROVE DbInv'
<1> USE DEF NewCibernate, DbInv, DbTypes
<1>1. PICK b \in BOOLEAN : Return(s, [NoSession EXCEPT !.pool = TRUE, !.isTransaction = b])
  OBVIOUS
<1>2. NoSession \in SessionType
  BY Constants DEF NoSession, SessionType
<1>3. /\ session' \in [Session -> SessionType]
      /\ session'[s].pc = "ready" /\ session'[s].pool = TRUE
      /\ session'[s].count = 0
      /\ \A t \in Session : t # s => session'[t] = session[t]
  BY ZenonT(60), <1>1, <1>2, FieldSet, Returned DEF NoSession
<1>4. DbTypes'
  BY <1>3 DEF SessionType, TxType
<1>5. Connected'
  BY <1>3 DEF Connected
<1>6. Numbered'
  BY <1>3 DEF Numbered, Made
<1>7. WaitsOnce' /\ TxInv'
  BY <1>3 DEF WaitsOnce, TxInv, TxHolds
<1> QED BY <1>4, <1>5, <1>6, <1>7

\* A step of a session that writes nothing, commits nothing, and at most forgets its
\* transaction.
Quiet(s) ==
  /\ UNCHANGED <<reads, link, rows, segfault>> /\ readNumber' \in 0 .. reads
  /\ session' \in [Session -> SessionType] /\ \A t \in Session : t # s => session'[t] = session[t]
  /\ session[s].pc \in {"ready", "allocated"}
  /\ \/ tx' = tx /\ session'[s].pc \in {"ready", "allocated"}
     \/ tx' = [tx EXCEPT ![s] = NoTx] /\ session'[s].pc \in {"ready", "deleted"}
  /\ session'[s].pc = "allocated" => session'[s].conn \in 1 .. reads /\ session'[s].call \in Program[s]
  /\ session'[s].pc = "ready" /\ ~session'[s].pool => session'[s].conn \in 1 .. reads
  /\ session'[s].pc # "deleted" => session'[s].count >= session[s].count
  /\ session'[s].pc = "allocated" => session'[s].count > session[s].count

LEMMA QuietInv == ASSUME NEW s \in Session, DbInv, ~segfault, Quiet(s) PROVE DbInv'
<1> USE DEF Quiet, DbInv, DbTypes
<1>1. DbTypes'
  <2>1. NoTx \in TxType
    BY DEF NoTx, TxType
  <2>2. tx' \in [Session -> TxType]
    BY <2>1
  <2> QED BY <2>2 DEF SessionType, TxType
<1>2. Connected'
  BY DEF Connected
<1>3. \A w : Made(w)' => Made(w)
  BY DEF Made, NoTx
<1>4. Numbered'
  <2>1. session[s].count \in Nat /\ session'[s].count \in Nat
    BY DEF SessionType
  <2>2. \A r \in Session : session'[r].pc = "none" => session'[r].count = 0
    BY DEF Numbered
  <2>3. ASSUME NEW r \in Session, NEW n \in Nat, Made(<<r, n>>), session'[r].pc # "deleted"
        PROVE  n <= session'[r].count /\ (session'[r].pc = "allocated" => n < session'[r].count)
    <3>1. CASE r = s
      BY <2>1, <2>3, <3>1 DEF Numbered
    <3>2. CASE r # s
      BY <2>3, <3>2 DEF Numbered
    <3> QED BY <3>1, <3>2
  <2> QED BY <1>3, <2>2, <2>3 DEF Numbered
<1>5. WaitsOnce'
  BY DEF WaitsOnce
<1>6. TxInv'
  BY DEF TxInv, TxHolds, NoTx
<1> QED BY <1>1, <1>2, <1>4, <1>5, <1>6

\* Once the process has died nothing is asked of its sessions.
LEMMA DieInv ==
  ASSUME NEW s \in Session, DbInv, Die, UNCHANGED <<reads, readNumber, link, rows>>,
         tx' = tx \/ tx' = [tx EXCEPT ![s] = NoTx]
  PROVE  DbInv'
<1> USE DEF DbInv, DbTypes, Die
<1>1. DbTypes'
  <2>1. NoSession \in SessionType
    BY Constants DEF NoSession, SessionType
  <2>2. NoTx \in TxType
    BY DEF NoTx, TxType
  <2>3. tx' \in [Session -> TxType]
    BY <2>2
  <2> QED BY <2>1, <2>3 DEF SessionType, TxType
<1>2. Connected' /\ Numbered' /\ WaitsOnce' /\ TxInv'
  BY SMTT(30) DEF Connected, Numbered, WaitsOnce, TxInv, TxHolds, NoSession, NoTx
<1> QED BY <1>1, <1>2

LEMMA DeleteInv == ASSUME NEW s \in Session, DbInv, ~segfault, DeleteCibernate(s) PROVE DbInv'
<1>1. CASE session[s].conn = 0
  BY <1>1, DieInv DEF DeleteCibernate
<1>2. CASE session[s].conn # 0
  <2> DEFINE deleted == [NoSession EXCEPT !.pc = "deleted"]
  <2>1. deleted \in SessionType /\ deleted.pc = "deleted"
    <3>1. NoSession \in SessionType
      BY Constants DEF NoSession, SessionType, DbInv, DbTypes
    <3> QED BY <3>1, FieldSet DEF SessionType
  <2> HIDE DEF deleted
  <2>3. session' = [session EXCEPT ![s] = deleted]
    BY <1>2 DEF DeleteCibernate, deleted
  <2>2. Quiet(s)
    BY <1>2, <2>1, <2>3 DEF Quiet, DeleteCibernate, DbInv, DbTypes
  <2> QED BY <2>2, QuietInv
<1> QED BY <1>1, <1>2

\* A session is given a connection of the pool, unless it has no pool any more.
LEMMA AllocateInv == ASSUME NEW s \in Session, DbInv, ~segfault, AllocateStmt(s) PROVE DbInv'
<1> USE DEF DbInv, DbTypes
<1> DEFINE conn == IF session[s].pool THEN GetReadConnection ELSE session[s].conn
           me == [session[s] EXCEPT !.conn = conn, !.read = NothingRead]
<1>1. PICK call \in Program[s], granted \in BOOLEAN :
        IF ~me.pool /\ call[1] \in {"insert", "read"} THEN Die /\ UNCHANGED readNumber
        ELSE /\ readNumber' = IF me.pool THEN conn ELSE readNumber
             /\ IF granted
                THEN session' = [session EXCEPT ![s] = [me EXCEPT !.pc = "allocated", !.call = call, !.count = @ + 1]]
                ELSE Return(s, me)
             /\ UNCHANGED segfault
  BY DEF AllocateStmt
<1>2. conn \in 1 .. reads
  BY DEF AllocateStmt, GetReadConnection, Connected
<1>3. /\ me \in SessionType /\ me.pool = session[s].pool /\ me.conn = conn 
      /\ me.count = session[s].count /\ me.count \in Nat
  <2> HIDE DEF conn
  <2>1. session[s] \in SessionType /\ conn \in 0 .. reads
    BY <1>2
  <2>2. session[s].count \in Nat
    BY <2>1 DEF SessionType
  <2> QED BY <2>1, <2>2, ConnSet
<1>4. UNCHANGED <<reads, link, rows, tx>> /\ session[s].pc = "ready"
  BY DEF AllocateStmt
<1> HIDE DEF me, conn
<1>5. CASE ~me.pool /\ call[1] \in {"insert", "read"}
  BY <1>1, <1>4, <1>5, DieInv DEF AllocateStmt
<1>6. CASE ~(~me.pool /\ call[1] \in {"insert", "read"}) /\ granted
  <2>1. call \in Calls
    BY DEF Calls
  <2> DEFINE called == [me EXCEPT !.pc = "allocated", !.call = call, !.count = @ + 1]
  <2>2. called \in SessionType /\ called.pc = "allocated" /\ called.conn = conn
       /\ called.call = call /\ called.count = me.count + 1
    BY <1>3, <2>1, CallSet
  <2>3. session' = [session EXCEPT ![s] = called] /\ UNCHANGED segfault
    BY <1>1, <1>6
  <2> HIDE DEF called
  <2>4. readNumber' \in 0 .. reads
    BY <1>1, <1>2, <1>6
  <2>5. Quiet(s)
    BY <1>2, <1>3, <1>4, <2>2, <2>3, <2>4 DEF Quiet
  <2> QED BY <2>5, QuietInv
<1>7. CASE ~(~me.pool /\ call[1] \in {"insert", "read"}) /\ ~granted
  <2>1. Quiet(s)
    BY <1>1, <1>2, <1>3, <1>4, <1>7, Returned DEF Quiet
  <2> QED BY <2>1, QuietInv
<1> QED BY <1>5, <1>6, <1>7

\* A session that returns what it was, or closed, without a write.
LEMMA ClosedType ==
  ASSUME NEW me \in SessionType
  PROVE  /\ Closed(me) \in SessionType /\ ClosedUnless(me) \in SessionType
         /\ Closed(me).conn = me.conn /\ ClosedUnless(me).conn = me.conn
         /\ Closed(me).count = me.count /\ ClosedUnless(me).count = me.count
  BY FieldSet DEF Closed, ClosedUnless, SessionType

LEMMA ReturnInv ==
  ASSUME NEW s \in Session, DbInv, ~segfault, session[s].pc = "allocated",
         NEW me \in SessionType, me.conn = session[s].conn, me.count = session[s].count,
         Return(s, me), UNCHANGED <<reads, readNumber, link, rows, segfault>>,
         tx' = tx \/ tx' = [tx EXCEPT ![s] = NoTx]
  PROVE  DbInv'
<1>1. session[s].conn \in 1 .. reads /\ session[s].count \in Nat
  BY DEF DbInv, DbTypes, Connected, SessionType
<1>2. Quiet(s)
  BY <1>1, Returned DEF Quiet, DbInv, DbTypes
<1> QED BY <1>2, QuietInv

LEMMA ReadSet ==
  ASSUME NEW me \in SessionType, NEW read \in Reads
  PROVE  LET got == [me EXCEPT !.read = read]
         IN  got \in SessionType /\ got.conn = me.conn /\ got.count = me.count
  BY DEF SessionType

\* What is left of the transactions once a session has changed something on a
\* connection: an open one is its own, on that connection, or on another.
LEMMA SeenTx ==
  ASSUME NEW s \in Session, NEW c, tx \in [Session -> TxType], reads \in Nat \ {0}
  PROVE  /\ Seen(s, c) \in [Session -> TxType]
         /\ \A t \in Session :
              \/ Seen(s, c)[t] = NoTx
              \/ Seen(s, c)[t] = tx[t] /\ (tx[t].is = "open" => (t = s <=> tx[t].on = c))
<1>1. NoTx \in TxType
  BY DEF NoTx, TxType
<1>2. ASSUME NEW t \in Session
      PROVE  \/ Seen(s, c)[t] = NoTx
             \/ Seen(s, c)[t] = tx[t] /\ (tx[t].is = "open" => (t = s <=> tx[t].on = c))
  BY DEF Seen
<1> QED BY <1>1, <1>2 DEF Seen

\* A step that changes something on a connection: it leaves the numbers of the writes
\* alone, unless it makes the next one.
Changes(s) ==
  /\ UNCHANGED <<reads, readNumber, segfault>>
  /\ session' \in [Session -> SessionType] /\ \A t \in Session : t # s => session'[t] = session[t]
  /\ session[s].pc \in {"allocated", "ended"} /\ session'[s].pc \in {"ready", "ended"}
  /\ session'[s].conn = session[s].conn /\ session'[s].count = session[s].count

NextWrite(s) == <<s, session[s].count>>

LEMMA NextWriteNew ==
  ASSUME NEW s \in Session, DbInv, ~segfault, session[s].pc = "allocated"
  PROVE  NextWrite(s) \in Write /\ ~Made(NextWrite(s))
<1>1. session[s].count \in Nat
  BY DEF DbInv, DbTypes, SessionType
<1>2. ~(session[s].count < session[s].count)
  BY <1>1
<1> QED BY <1>1, <1>2 DEF DbInv, Numbered, NextWrite, Write

LEMMA ChangesNumbered ==
  ASSUME NEW s \in Session, DbInv, ~segfault, Changes(s),
         \A w : Made(w)' => Made(w) \/ (w = NextWrite(s) /\ session[s].pc = "allocated")
  PROVE  Connected' /\ Numbered'
<1> USE DEF Changes, DbInv, DbTypes
<1>1. Connected'
  BY DEF Connected
<1>2. \A r \in Session : session'[r].pc = "none" => session'[r].count = 0
  BY DEF Numbered
<1>3. ASSUME NEW r \in Session, NEW n \in Nat, Made(<<r, n>>)', session'[r].pc # "deleted"
      PROVE  n <= session'[r].count /\ (session'[r].pc = "allocated" => n < session'[r].count)
  <2>1. session[r].count \in Nat /\ session[s].count \in Nat
    BY DEF SessionType
  <2>2. CASE r # s
    <3>1. Made(<<r, n>>)
      BY <1>3, <2>2 DEF NextWrite
    <3> QED BY <1>3, <2>2, <3>1 DEF Numbered
  <2>3. CASE r = s /\ Made(<<r, n>>)
    BY <1>3, <2>1, <2>3 DEF Numbered
  <2>4. CASE r = s /\ n = session[s].count
    BY <1>3, <2>1, <2>4
  <2> QED BY <1>3, <2>2, <2>3, <2>4 DEF NextWrite
<1> QED BY <1>1, <1>2, <1>3 DEF Numbered

LEMMA TxSet ==
  ASSUME NEW old \in TxType, NEW w \in Write
  PROVE  LET new == [old EXCEPT !.writes = @ \cup {w}]
         IN  new \in TxType /\ new.is = old.is /\ new.on = old.on /\ new.writes = old.writes \cup {w}
  BY DEF TxType

\* What a connection does with what waits on it.
LEMMA PendingSet ==
  ASSUME NEW c \in 1 .. reads, NEW w \in Write,
         link \in [1 .. reads -> [auto : BOOLEAN, pending : SUBSET Write]],
         NEW l, l = [link EXCEPT ![c].pending = @ \cup {w}]
  PROVE  /\ l \in [1 .. reads -> [auto : BOOLEAN, pending : SUBSET Write]]
         /\ l[c].auto = link[c].auto /\ l[c].pending = link[c].pending \cup {w}
         /\ \A d \in 1 .. reads : d # c => l[d] = link[d]
<1>1. link[c] \in [auto : BOOLEAN, pending : SUBSET Write]
  OBVIOUS
<1>2. l[c] = [link[c] EXCEPT !.pending = link[c].pending \cup {w}]
  OBVIOUS
<1>3. /\ l[c] \in [auto : BOOLEAN, pending : SUBSET Write]
      /\ l[c].auto = link[c].auto /\ l[c].pending = link[c].pending \cup {w}
  BY <1>1, <1>2
<1> QED BY <1>3

\* A write on a connection that commits by itself is there at once, and no transaction
\* is open on that connection; on another it waits with the others of its transaction.
LEMMA PutInv ==
  ASSUME NEW s \in Session, DbInv, ~segfault, session[s].pc = "allocated", Put(s), Changes(s),
         session'[s].pc = "ready"
  PROVE  DbInv'
<1> DEFINE c == session[s].conn
           w == NextWrite(s)
<1> USE DEF DbInv, DbTypes, Changes
<1>1. w \in Write /\ ~Made(w)
  BY NextWriteNew
<1>2. c \in 1 .. reads
  BY DEF Connected
<1>3. \A t \in Session :
        \/ Seen(s, c)[t] = NoTx
        \/ Seen(s, c)[t] = tx[t] /\ (tx[t].is = "open" => (t = s <=> tx[t].on = c))
  BY SeenTx
<1>4. Seen(s, c) \in [Session -> TxType]
  BY SeenTx
<1>5. tx' = [Seen(s, c) EXCEPT ![s].writes = IF tx[s].is = "open" THEN @ \cup {w} ELSE @]
  BY DEF Put, NextWrite
<1> HIDE DEF c, w
<1>6. ASSUME NEW t \in Session
      PROVE  /\ tx'[t] \in TxType /\ tx'[t].is = Seen(s, c)[t].is /\ tx'[t].on = Seen(s, c)[t].on
             /\ t # s \/ tx[s].is # "open" => tx'[t] = Seen(s, c)[t]
             /\ \A v \in tx'[t].writes : v \in Seen(s, c)[t].writes \/ v = w
  <2>1. Seen(s, c)[t] \in TxType
    BY <1>4
  <2>2. CASE t # s
    BY <1>4, <1>5, <2>1, <2>2
  <2>3. CASE t = s
    <3>1. tx'[s] = [Seen(s, c)[s] EXCEPT !.writes = IF tx[s].is = "open" THEN @ \cup {w} ELSE @]
      BY <1>4, <1>5
    <3>2. CASE tx[s].is = "open"
      <4> DEFINE old == Seen(s, c)[s]
      <4>1. tx'[s] = [old EXCEPT !.writes = @ \cup {w}]
        BY <3>1, <3>2
      <4>2. old \in TxType /\ w \in Write
        BY <1>1, <2>1, <2>3
      <4> HIDE DEF old
      <4>3. /\ tx'[s] \in TxType /\ tx'[s].is = old.is /\ tx'[s].on = old.on
            /\ tx'[s].writes = old.writes \cup {w}
        BY <4>1, <4>2, TxSet
      <4> QED BY <2>3, <3>2, <4>3 DEF old
    <3>3. CASE tx[s].is # "open"
      <4>1. tx'[s] = [Seen(s, c)[s] EXCEPT !.writes = @]
        BY <3>1, <3>3
      <4> QED BY <2>1, <2>3, <4>1 DEF TxType
    <3> QED BY <3>2, <3>3
  <2> QED BY <2>2, <2>3
<1>7. tx' \in [Session -> TxType]
  <2>1. tx' = [t \in Session |-> tx'[t]]
    BY <1>4, <1>5
  <2> QED BY <1>6, <2>1
<1>8. \A v : v \in rows' <=> v \in rows \/ (v = w /\ link[c].auto)
  BY DEF Put, NextWrite, c, w
<1>9. \/ link[c].auto /\ link' = link
      \/ ~link[c].auto /\ link' = [link EXCEPT ![c].pending = @ \cup {w}]
  BY DEF Put, NextWrite, c, w
<1>10. /\ link' \in [1 .. reads -> [auto : BOOLEAN, pending : SUBSET Write]]
       /\ \A d \in 1 .. reads :
            /\ link'[d].auto = link[d].auto
            /\ \A v : v \in link'[d].pending <=> v \in link[d].pending \/ (v = w /\ d = c /\ ~link[c].auto)
  BY <1>1, <1>2, <1>9, PendingSet
<1>11. \A d \in 1 .. reads :
         /\ link'[d].auto <=> link[d].auto
         /\ \A v : v \in link'[d].pending <=> v \in link[d].pending \/ (v = w /\ d = c /\ ~link[c].auto)
  BY <1>10
<1>12. DbTypes'
  BY <1>1, <1>7, <1>8, <1>10 DEF SessionType, TxType
<1>13. \A v : Made(v)' => Made(v) \/ v = w
  BY <1>2, <1>3, <1>6, <1>8, <1>10 DEF Made, NoTx
<1>14. Connected' /\ Numbered'
  BY <1>13, ChangesNumbered DEF w
<1>15. WaitsOnce'
  BY <1>1, <1>2, <1>8, <1>11 DEF WaitsOnce, Made
<1>16. TxInv'
  BY <1>1, <1>2, <1>3, <1>6, <1>8, <1>11 DEF TxInv, TxHolds, Made, NoTx
<1> QED BY <1>12, <1>14, <1>15, <1>16

LEMMA WriteInv ==
  ASSUME NEW s \in Session, DbInv, ~segfault, session[s].pc = "allocated", Put(s),
         NEW me \in SessionType, me.conn = session[s].conn, me.count = session[s].count,
         Return(s, me), UNCHANGED <<reads, readNumber, segfault>>
  PROVE  DbInv'
<1>1. Changes(s) /\ session'[s].pc = "ready"
  BY Returned DEF Changes, DbInv, DbTypes
<1> QED BY <1>1, PutInv

\* What the calls that begin and end a transaction have in common: the fields of the
\* session, and the connection.
LEMMA StartInv == ASSUME NEW s \in Session, DbInv, ~segfault, StartTransaction(s) PROVE DbInv'
<1> DEFINE c == session[s].conn
           me == [session[s] EXCEPT !.isTransaction = TRUE]
<1> USE DEF DbInv, DbTypes
<1>1. /\ me \in SessionType /\ me.conn = c /\ me.count = session[s].count
      /\ session[s].pc = "allocated" /\ Return(s, me)
  <2>1. session[s] \in SessionType
    OBVIOUS
  <2> QED BY <2>1, FieldSet DEF StartTransaction, Calling, SessionType
<1>2. c \in 1 .. reads
  BY <1>1 DEF Connected
<1>3. UNCHANGED <<reads, readNumber, rows, segfault>>
  BY DEF StartTransaction
<1> HIDE DEF c, me
<1>4. CASE tx' = [tx EXCEPT ![s] = NoTx] /\ UNCHANGED link
  BY <1>1, <1>3, <1>4, ReturnInv DEF c
<1>5. CASE /\ link' = [link EXCEPT ![c].auto = FALSE]
           /\ tx' = [Seen(s, c) EXCEPT ![s] = IF link[c].auto THEN [is |-> "open", on |-> c, writes |-> {}]
                                              ELSE NoTx]
  <2>1. /\ Seen(s, c) \in [Session -> TxType]
        /\ \A t \in Session : 
             \/ Seen(s, c)[t] = NoTx
             \/ Seen(s, c)[t] = tx[t] /\ (tx[t].is = "open" => (t = s <=> tx[t].on = c))
    BY SeenTx
  <2>2. NoTx \in TxType /\ [is |-> "open", on |-> c, writes |-> {}] \in TxType
    BY <1>2 DEF NoTx, TxType
  <2>3. tx' \in [Session -> TxType] /\ \A t \in Session : t # s => tx'[t] = Seen(s, c)[t]
    BY <1>5, <2>1, <2>2
  <2>4. tx'[s] = NoTx \/ tx'[s] = [is |-> "open", on |-> c, writes |-> {}]
    BY <1>5, <2>1
  <2>5. /\ link' \in [1 .. reads -> [auto : BOOLEAN, pending : SUBSET Write]]
        /\ ~link'[c].auto
        /\ \A d \in 1 .. reads : link'[d].pending = link[d].pending /\ (d # c => link'[d] = link[d])
    <3>1. link[c] \in [auto : BOOLEAN, pending : SUBSET Write]
      BY <1>2
    <3>2. link'[c] = [link[c] EXCEPT !.auto = FALSE]
      BY <1>2, <1>5
    <3>3. /\ link'[c] \in [auto : BOOLEAN, pending : SUBSET Write]
          /\ ~link'[c].auto /\ link'[c].pending = link[c].pending
      BY <3>1, <3>2
    <3> QED BY <1>2, <1>5, <3>3
  <2>6. Changes(s) /\ session'[s].pc = "ready"
    BY <1>1, <1>3, Returned DEF Changes, c
  <2>7. DbTypes'
    BY <1>3, <2>3, <2>5, <2>6 DEF Changes, SessionType, TxType
  <2>8. \A w : Made(w)' => Made(w)
    BY <1>3, <2>1, <2>3, <2>4, <2>5 DEF Made, NoTx
  <2>9. Connected' /\ Numbered'
    BY <2>6, <2>8, ChangesNumbered
  <2>10. WaitsOnce'
    BY <1>3, <2>5 DEF WaitsOnce
  <2>11. TxInv'
    <3>1. ASSUME NEW t \in Session, t # s, tx'[t] = tx[t], tx[t].is = "open" => tx[t].on # c
          PROVE  TxHolds(t)'
      BY <1>3, <2>5, <2>6, <3>1 DEF TxInv, TxHolds, Changes
    <3>2. ASSUME NEW t \in Session PROVE t = s \/ tx'[t] = NoTx \/ (tx'[t] = tx[t] /\ (tx[t].is = "open" => tx[t].on # c))
      BY <2>1, <2>3
    <3> QED BY <1>2, <1>3, <2>4, <2>5, <2>6, <3>1, <3>2 DEF TxInv, TxHolds, NoTx
  <2> QED BY <2>7, <2>9, <2>10, <2>11
<1> QED BY <1>4, <1>5 DEF StartTransaction, c

\* What waits on a connection is written, or forgotten.
LEMMA PendingEnds ==
  ASSUME NEW c \in 1 .. reads, NEW l,
         link \in [1 .. reads -> [auto : BOOLEAN, pending : SUBSET Write]],
         \/ l = [link EXCEPT ![c].pending = {}]
         \/ l = [link EXCEPT ![c] = [auto |-> TRUE, pending |-> {}]]
  PROVE  /\ l \in [1 .. reads -> [auto : BOOLEAN, pending : SUBSET Write]] /\ l[c].pending = {}
         /\ \A d \in 1 .. reads : d # c => l[d] = link[d]
<1>1. link[c] \in [auto : BOOLEAN, pending : SUBSET Write]
  OBVIOUS
<1>2. l[c] = [link[c] EXCEPT !.pending = {}] \/ l[c] = [auto |-> TRUE, pending |-> {}]
  OBVIOUS
<1>3. l[c] \in [auto : BOOLEAN, pending : SUBSET Write] /\ l[c].pending = {}
  <2>1. CASE l[c] = [link[c] EXCEPT !.pending = {}]
    BY <1>1, <2>1
  <2>2. CASE l[c] = [auto |-> TRUE, pending |-> {}]
    BY <2>2
  <2> QED BY <1>2, <2>1, <2>2
<1> QED BY <1>3

\* A commit or a rollback of a connection concerns the transaction of the session that
\* makes it, if that was begun there, and no other that is still followed.
LEMMA EndInv ==
  ASSUME NEW s \in Session, NEW op \in {"commit", "rollback"}, DbInv, ~segfault, EndTransaction(s, op)
  PROVE  DbInv'
<1> DEFINE c == session[s].conn
<1> USE DEF DbInv, DbTypes
<1>1. /\ session[s].pc = "allocated" /\ UNCHANGED <<reads, readNumber, segfault>>
      /\ session' = [session EXCEPT ![s].isTransaction = FALSE, ![s].pc = "ended"]
  BY DEF EndTransaction, Calling
<1>2. Changes(s) /\ session'[s].pc = "ended"
  <2>1. session[s] \in SessionType
    OBVIOUS
  <2>2. session'[s] = [session[s] EXCEPT !.isTransaction = FALSE, !.pc = "ended"]
    BY <1>1
  <2>3. /\ session'[s] \in SessionType /\ session'[s].pc = "ended"
        /\ session'[s].conn = session[s].conn /\ session'[s].count = session[s].count
    BY <2>1, <2>2 DEF SessionType
  <2>4. session' \in [Session -> SessionType] /\ \A t \in Session : t # s => session'[t] = session[t]
    BY <1>1, <2>3
  <2> QED BY <1>1, <2>3, <2>4 DEF Changes
<1>3. c \in 1 .. reads
  BY <1>1 DEF Connected
<1>4. /\ Seen(s, c) \in [Session -> TxType]
      /\ \A t \in Session : 
           \/ Seen(s, c)[t] = NoTx
           \/ Seen(s, c)[t] = tx[t] /\ (tx[t].is = "open" => (t = s <=> tx[t].on = c))
  BY SeenTx
<1>5. NoTx \in TxType
  BY DEF NoTx, TxType
<1>6. CASE tx' = [Seen(s, c) EXCEPT ![s] = NoTx] /\ UNCHANGED <<rows, link>>
  <2>1. tx' \in [Session -> TxType] /\ \A t \in Session : tx'[t] = NoTx \/ (t # s /\ tx'[t] = tx[t])
    BY <1>4, <1>5, <1>6
  <2>2. DbTypes'
    BY <1>1, <1>2, <1>6, <2>1 DEF Changes, SessionType, TxType
  <2>3. \A w : Made(w)' => Made(w)
    BY <1>1, <1>6, <2>1 DEF Made, NoTx
  <2>4. Connected' /\ Numbered'
    BY <1>2, <2>3, ChangesNumbered
  <2>5. WaitsOnce'
    BY <1>1, <1>6 DEF WaitsOnce
  <2>6. ASSUME NEW t \in Session PROVE TxHolds(t)'
    BY <1>1, <1>2, <1>6, <2>1 DEF TxInv, TxHolds, NoTx, Changes
  <2> QED BY <2>2, <2>4, <2>5, <2>6 DEF TxInv
<1>7. CASE /\ rows' = IF op = "commit" THEN rows \cup link[c].pending ELSE rows
           /\ link' = [link EXCEPT ![c].pending = {}]
           /\ tx' = [Seen(s, c) EXCEPT ![s].is = IF @ = "open" THEN op ELSE @]
  <2>1. /\ link' \in [1 .. reads -> [auto : BOOLEAN, pending : SUBSET Write]] /\ link'[c].pending = {}
        /\ \A d \in 1 .. reads : d # c => link'[d] = link[d]
    BY <1>3, <1>7, PendingEnds
  <2>2. /\ rows' \in SUBSET Write
        /\ \A w : w \in rows' <=> w \in rows \/ (op = "commit" /\ w \in link[c].pending)
    BY <1>3, <1>7
  <2>3. \A t \in Session : t # s => tx'[t] = Seen(s, c)[t]
    BY <1>4, <1>7
  <2>4. /\ tx'[s] \in TxType /\ tx'[s].writes = Seen(s, c)[s].writes
        /\ tx'[s].is = IF Seen(s, c)[s].is = "open" THEN op ELSE Seen(s, c)[s].is
    <3> DEFINE old == Seen(s, c)[s]
    <3>1. tx'[s] = [old EXCEPT !.is = IF @ = "open" THEN op ELSE @] /\ old \in TxType
      BY <1>4, <1>7
    <3> HIDE DEF old
    <3>2. /\ tx'[s] \in TxType /\ tx'[s].writes = old.writes
          /\ tx'[s].is = IF old.is = "open" THEN op ELSE old.is
      BY <3>1 DEF TxType
    <3> QED BY <3>2 DEF old
  <2>5. tx' \in [Session -> TxType]
    <3>1. tx' = [t \in Session |-> tx'[t]]
      BY <1>4, <1>7
    <3> QED BY <1>4, <2>3, <2>4, <3>1
  <2>6. DbTypes'
    BY <1>1, <1>2, <2>1, <2>2, <2>5 DEF Changes, SessionType, TxType
  <2>7. \A w : Made(w)' => Made(w)
    BY <1>1, <1>3, <1>4, <2>1, <2>2, <2>3, <2>4 DEF Made, NoTx
  <2>8. Connected' /\ Numbered'
    BY <1>2, <2>7, ChangesNumbered
  <2>9. WaitsOnce'
    BY <1>1, <1>3, <2>1, <2>2 DEF WaitsOnce
  <2>10. ASSUME NEW t \in Session, t # s PROVE TxHolds(t)'
    BY SMTT(30), <1>1, <1>2, <1>3, <1>4, <2>1, <2>2, <2>3, <2>10 DEF TxInv, TxHolds, NoTx, Changes, WaitsOnce
  <2>11. TxHolds(s)'
    <3>1. CASE Seen(s, c)[s] = NoTx
      BY <2>4, <3>1 DEF TxHolds, NoTx
    <3>2. CASE Seen(s, c)[s] = tx[s] /\ tx[s].is = "open" /\ tx[s].on = c
      <4>1. tx[s].writes \subseteq link[c].pending /\ tx'[s].is = op /\ tx'[s].writes = tx[s].writes
        BY <2>4, <3>2 DEF TxInv, TxHolds
      <4>2. op = "commit" => tx'[s].writes \subseteq rows'
        BY <2>2, <4>1
      <4>3. op = "rollback" => /\ tx'[s].writes \cap rows' = {}
                               /\ \A d \in 1 .. reads : tx'[s].writes \cap link'[d].pending = {}
        BY <1>3, <2>1, <2>2, <4>1 DEF WaitsOnce
      <4> QED BY <1>1, <4>1, <4>2, <4>3 DEF TxHolds
    <3>3. CASE Seen(s, c)[s] = tx[s] /\ tx[s].is # "open"
      <4>1. tx'[s].is = tx[s].is /\ tx'[s].writes = tx[s].writes
        BY <2>4, <3>3
      <4>2. tx[s].is = "commit" => tx[s].writes \subseteq rows'
        BY <2>2 DEF TxInv, TxHolds
      <4>3. tx[s].is = "rollback" => /\ tx[s].writes \cap rows' = {}
                                    /\ \A d \in 1 .. reads : tx[s].writes \cap link'[d].pending = {}
        BY <1>3, <2>1, <2>2 DEF TxInv, TxHolds
      <4> QED BY <1>1, <3>3, <4>1, <4>2, <4>3 DEF TxHolds
    <3> QED BY <1>4, <3>1, <3>2, <3>3
  <2> QED BY <2>6, <2>8, <2>9, <2>10, <2>11 DEF TxInv
<1> QED BY <1>6, <1>7 DEF EndTransaction

\* The connection commits by itself again: what still waits on it was of no transaction
\* that is followed and open.
LEMMA AutocommitInv == ASSUME NEW s \in Session, DbInv, ~segfault, EndAutocommit(s) PROVE DbInv'
<1> DEFINE c == session[s].conn
<1> USE DEF DbInv, DbTypes
<1>1. /\ session[s].pc = "ended" /\ UNCHANGED <<reads, readNumber, segfault>>
      /\ tx' = Seen(s, c) /\ rows' = rows \cup link[c].pending
      /\ link' = [link EXCEPT ![c] = [auto |-> TRUE, pending |-> {}]]
  BY DEF EndAutocommit, AutocommitOn
<1>2. Changes(s)
  <2>1. Closed(session[s]) \in SessionType /\ Return(s, Closed(session[s]))
    BY ClosedType DEF EndAutocommit
  <2> QED BY <1>1, <2>1, ClosedType, Returned DEF Changes
<1>3. c \in 1 .. reads /\ rows' \in SUBSET Write
  BY <1>1 DEF Connected
<1>4. /\ tx' \in [Session -> TxType]
      /\ \A t \in Session : 
           \/ tx'[t] = NoTx
           \/ tx'[t] = tx[t] /\ (tx[t].is = "open" => (t = s <=> tx[t].on = c))
  BY <1>1, SeenTx
<1>5. /\ link' \in [1 .. reads -> [auto : BOOLEAN, pending : SUBSET Write]] /\ link'[c].pending = {}
      /\ \A d \in 1 .. reads : d # c => link'[d] = link[d]
  BY <1>1, <1>3, PendingEnds
<1>6. DbTypes'
  BY <1>1, <1>2, <1>3, <1>4, <1>5 DEF Changes, SessionType, TxType
<1>7. \A w : Made(w)' => Made(w)
  BY <1>1, <1>3, <1>4, <1>5 DEF Made, NoTx
<1>8. Connected' /\ Numbered'
  BY <1>2, <1>7, ChangesNumbered
<1>9. WaitsOnce'
  BY <1>1, <1>3, <1>5 DEF WaitsOnce
<1>10. ASSUME NEW t \in Session, tx'[t] = tx[t], tx[t].is = "open" => (t = s <=> tx[t].on = c)
       PROVE  TxHolds(t)'
  <2>1. tx[t].is = "open" => t # s /\ tx[t].on # c
    BY <1>1, <1>10 DEF TxInv, TxHolds
  <2>2. tx[t].is = "commit" => tx[t].writes \subseteq rows'
    BY <1>1 DEF TxInv, TxHolds
  <2>3. tx[t].is = "rollback" => /\ tx[t].writes \cap rows' = {}
                                 /\ \A d \in 1 .. reads : tx[t].writes \cap link'[d].pending = {}
    BY <1>1, <1>3, <1>5 DEF TxInv, TxHolds
  <2> QED BY <1>1, <1>2, <1>5, <1>10, <2>1, <2>2, <2>3 DEF TxInv, TxHolds, Changes
<1>11. ASSUME NEW t \in Session, tx'[t] = NoTx PROVE TxHolds(t)'
  BY <1>11 DEF TxHolds, NoTx
<1> QED BY <1>4, <1>6, <1>8, <1>9, <1>10, <1>11 DEF TxInv

LEMMA UpdateInv == ASSUME NEW s \in Session, DbInv, ~segfault, ExecuteUpdate(s) PROVE DbInv'
<1>1. session[s] \in SessionType /\ session[s].pc = "allocated"
  BY DEF DbInv, DbTypes, ExecuteUpdate, Calling
<1>2. CASE /\ Put(s) /\ Return(s, ClosedUnless(session[s]))
           /\ UNCHANGED <<reads, readNumber, segfault>>
  BY <1>1, <1>2, WriteInv, ClosedType
<1>3. CASE StatementFails(s)
  BY <1>1, <1>3, ReturnInv, ClosedType DEF StatementFails
<1>4. CASE Return(s, session[s]) /\ UNCHANGED <<reads, readNumber, link, rows, tx, segfault>>
  BY <1>1, <1>4, ReturnInv
<1> QED BY <1>2, <1>3, <1>4 DEF ExecuteUpdate

LEMMA QueryInv == ASSUME NEW s \in Session, DbInv, ~segfault, ExecuteQuery(s) PROVE DbInv'
<1>1. session[s] \in SessionType /\ session[s].pc = "allocated"
  BY DEF DbInv, DbTypes, ExecuteQuery, Calling
<1>2. CASE StatementFails(s)
  BY <1>1, <1>2, ReturnInv, ClosedType DEF StatementFails
<1>3. CASE Return(s, ClosedUnless(session[s])) /\ UNCHANGED <<reads, readNumber, link, rows, tx, segfault>>
  BY <1>1, <1>3, ReturnInv, ClosedType
<1> DEFINE class == session[s].call[2]
           me == [session[s] EXCEPT !.read = ReadOf(class)]
<1>4. CASE Return(s, session[s]) /\ UNCHANGED <<reads, readNumber, link, rows, tx, segfault>>
  BY <1>1, <1>4, ReturnInv
<1>5. CASE Die /\ UNCHANGED <<reads, readNumber, link, rows, tx>>
  BY <1>5, DieInv
<1>6. CASE /\ Calling(s, "read") /\ Return(s, ClosedUnless(me))
           /\ UNCHANGED <<reads, readNumber, link, rows, tx, segfault>>
  <2>1. session[s].call \in Program[s] /\ session[s].call[1] = "read"
    BY <1>1, <1>6 DEF DbInv, Connected, Calling
  <2>2. ReadOf(class) \in Reads
    BY <2>1, CibernateAssumption DEF Reads
  <2>3. me \in SessionType /\ me.conn = session[s].conn /\ me.count = session[s].count
    BY <1>1, <2>2, ReadSet
  <2> QED BY <1>1, <1>6, <2>3, ReturnInv, ClosedType
<1>7. CASE Return(s, ClosedUnless(session[s])) /\ UNCHANGED <<segfault, reads, readNumber, link, rows, tx>>
  BY <1>3, <1>7
<1>8. CASE /\ Calling(s, "read")
           /\ CASE ReadOutcome[class] = "dies" -> Die
                [] ReadOutcome[class] = "throws" -> Return(s, session[s]) /\ UNCHANGED segfault
                [] OTHER -> Return(s, ClosedUnless(me)) /\ UNCHANGED segfault
           /\ UNCHANGED <<reads, readNumber, link, rows, tx>>
  BY <1>4, <1>5, <1>6, <1>8
<1> QED BY <1>2, <1>3, <1>8 DEF ExecuteQuery, ReadOf

LEMMA EmptyInv == ASSUME NEW s \in Session, DbInv, ~segfault, Empty(s) PROVE DbInv'
<1>1. session[s] \in SessionType /\ session[s].pc = "allocated"
  BY DEF DbInv, DbTypes, Empty, Calling
<1> QED BY <1>1, DieInv, ReturnInv, ClosedType DEF Empty, StatementFails

LEMMA ProcedureInv == ASSUME NEW s \in Session, DbInv, ~segfault, ProcedureCall(s) PROVE DbInv'
<1>1. session[s] \in SessionType /\ session[s].pc = "allocated"
  BY DEF DbInv, DbTypes, ProcedureCall, Calling
<1>2. CASE StatementFails(s)
  BY <1>1, <1>2, ReturnInv, ClosedType DEF StatementFails
<1>3. ASSUME NEW me \in {Closed(session[s]), ClosedUnless(session[s])},
             Put(s), Return(s, me), UNCHANGED <<reads, readNumber, segfault>>
      PROVE  DbInv'
  BY <1>1, <1>3, WriteInv, ClosedType
<1> QED BY <1>2, <1>3 DEF ProcedureCall

LEMMA NextInv == DbInv /\ [DbNext]_dbVars => DbInv'
<1>1. CASE UNCHANGED dbVars
  BY <1>1 DEF dbVars, DbInv, DbTypes, SessionType, TxType, Connected, Numbered, Made, WaitsOnce, TxInv, TxHolds
<1>2. ASSUME DbInv, ~segfault, NEW s \in Session,
             \/ NewCibernate(s) \/ DeleteCibernate(s) \/ AllocateStmt(s) \/ StartTransaction(s)
             \/ EndTransaction(s, "commit") \/ EndTransaction(s, "rollback") \/ EndAutocommit(s)
             \/ ExecuteUpdate(s) \/ ExecuteQuery(s) \/ Empty(s) \/ ProcedureCall(s)
      PROVE  DbInv'
  BY <1>2, NewInv, DeleteInv, AllocateInv, StartInv, EndInv, AutocommitInv, UpdateInv, QueryInv,
     EmptyInv, ProcedureInv
<1> QED BY <1>1, <1>2 DEF DbNext

\* Whatever the sessions do that share a read connection, and with it the transaction
\* that is open on it, a transaction whose writes were all made on the connection it was
\* begun on, and among no others there, is atomic: nothing of it is in the tables while
\* it is open, all of it after a commit that returned true, nothing after a rollback.
THEOREM TransactionsAtomic == DbSpec => []TransactionsHold
<1>1. DbInv => TransactionsHold
  BY DEF DbInv, WaitsOnce, TxInv, TxHolds, TransactionsHold
<1> QED BY InitInv, NextInv, <1>1, PTL DEF DbSpec

----------------------------------------------------------------------------
(* What is read.                                                           *)

\* The table of a class is one of the mapping.
LEMMA TableKnown ==
  ASSUME NEW class \in Entity
  PROVE  \E k \in DOMAIN Table : TableOf(class) = Table[k]
  BY DEF Entity, TableOf

\* Every column of a plain class is its own property's, all of them are stored, and the
\* place of each among the values is its place among the columns.
LEMMA PlainColumns ==
  ASSUME NEW class \in Entity, PlainClass(class)
  PROVE  \E n, cols :
           /\ n \in Nat /\ cols = TableOf(class).cols /\ cols = ColumnsRead(class) /\ DOMAIN cols = 1..n
           /\ \A i, j \in 1..n : cols[i].name = cols[j].name => i = j
           /\ \A i \in 1..n : /\ Owner(class, i) = class /\ Property(class, i) = cols[i]
                              /\ cols[i].type \in ReadTypes
<1>1. PICK k \in DOMAIN Table : TableOf(class) = Table[k]
  BY TableKnown
<1>2. PICK cols, n : cols = TableOf(class).cols /\ n = Len(cols)
  OBVIOUS
<1>3. /\ n \in Nat /\ DOMAIN cols = 1..n
      /\ \A i, j \in 1..n : cols[i].name = cols[j].name => i = j
  BY <1>1, <1>2, CibernateAssumption
<1>4. ColumnsRead(class) = cols
  BY <1>2 DEF PlainClass, ColumnsRead
<1>5. \A i \in 1..n : cols[i].column = cols[i].name /\ cols[i].type \in ReadTypes
  BY <1>2, <1>3 DEF PlainClass
<1>6. ASSUME NEW i \in 1..n
      PROVE  Owner(class, i) = class /\ Property(class, i) = cols[i]
  <2>1. cols[i].name \in ColumnNames(class)
    BY <1>2, <1>3, <1>5 DEF ColumnNames
  <2>2. Owner(class, i) = class
    BY <1>4, <2>1 DEF Owner
  <2>3. ToSet(cols) = {cols[j] : j \in 1..n}
    BY <1>3 DEF ToSet
  <2>4. cols[i] \in ToSet(cols) /\ cols[i].column = cols[i].name
    BY <1>5, <2>3
  <2>5. \A col \in ToSet(cols) : col.column = cols[i].name => col = cols[i]
    BY <1>3, <1>5, <2>3
  <2>6. Property(class, i) = CHOOSE col \in ToSet(cols) : col.column = cols[i].name
    BY <1>2, <1>4, <2>2 DEF Property
  <2> QED BY <2>2, <2>4, <2>5, <2>6
<1> QED BY <1>2, <1>3, <1>4, <1>5, <1>6

\* An entity of a plain class has every column of its row in its own property.
LEMMA PlainRowRead ==
  ASSUME NEW class \in Entity, PlainClass(class), NEW i \in DOMAIN TableOf(class).cols
  PROVE  LET field == <<class, TableOf(class).cols[i].name>>
         IN  field \in DOMAIN ReadRow(class) /\ ReadRow(class)[field] = RowOf[class][i]
<1>1. PICK n, cols :
        /\ n \in Nat /\ cols = TableOf(class).cols /\ cols = ColumnsRead(class) /\ DOMAIN cols = 1..n
        /\ \A k, j \in 1..n : cols[k].name = cols[j].name => k = j
        /\ \A j \in 1..n : /\ Owner(class, j) = class /\ Property(class, j) = cols[j]
                           /\ cols[j].type \in ReadTypes
  BY PlainColumns
<1>2. i \in 1..n
  BY <1>1
<1>3. StoredColumns(class) = 1..n
  BY <1>1 DEF StoredColumns
<1>4. \A j \in 1..n : FieldRead(class, j) = <<class, cols[j].name>>
  BY <1>1 DEF FieldRead
<1>5. PICK field : field = <<class, cols[i].name>>
  OBVIOUS
<1>6. FieldRead(class, i) = field /\ \A j \in 1..n : FieldRead(class, j) = field => j = i
  BY <1>1, <1>2, <1>4, <1>5
<1>7. LastFor(class, field) = i
  BY <1>2, <1>3, <1>6 DEF LastFor
<1>8. Position(class, i) = i
  <2>1. i \in Nat /\ i >= 1 /\ 1..i \subseteq 1..n
    BY <1>1, <1>2
  <2>2. {j \in 1..i : j \in StoredColumns(class)} = 1..i
    BY <1>3, <2>1
  <2>3. Cardinality(1..i) = i
    BY <2>1, FS_Interval
  <2> QED BY <2>2, <2>3 DEF Position
<1>9. Fetched(cols[i].type, RowOf[class][i]) = RowOf[class][i]
  BY <1>1, <1>2 DEF Fetched, PlainClass
<1>10. field \in {FieldRead(class, j) : j \in StoredColumns(class)}
  BY <1>2, <1>3, <1>6
<1>11. ReadRow(class)[field] = Fetched(Property(class, i).type, RowOf[class][Position(class, i)])
  BY <1>7, <1>10 DEF ReadRow
<1>12. field \in DOMAIN ReadRow(class) /\ ReadRow(class)[field] = RowOf[class][i]
  BY <1>1, <1>2, <1>8, <1>9, <1>10, <1>11 DEF ReadRow
<1> QED BY <1>1, <1>5, <1>12

\* An entity of a plain class is read as its row was, column by column and each in its own
\* property, for any mapping and any rows.
THEOREM PlainRowsAreRead == DbSpec => []RowsRead
<1>1. DbInv => RowsRead
  <2>1. SUFFICES ASSUME DbInv, NEW s \in Session, session[s].read # NothingRead,
                        PlainClass(session[s].read.class),
                        NEW i \in DOMAIN TableOf(session[s].read.class).cols
                 PROVE  LET read == session[s].read
                            field == <<read.class, TableOf(read.class).cols[i].name>>
                        IN  field \in DOMAIN read.fields /\ read.fields[field] = RowOf[read.class][i]
    BY DEF RowsRead
  <2>2. session[s].read \in Reads
    BY <2>1 DEF DbInv, DbTypes, SessionType
  <2>3. PICK class \in Entity : session[s].read = ReadOf(class)
    BY <2>1, <2>2 DEF Reads
  <2>4. session[s].read.class = class /\ session[s].read.fields = ReadRow(class)
    BY <2>3 DEF ReadOf
  <2> QED BY <2>1, <2>4, PlainRowRead
<1> QED BY InitInv, NextInv, <1>1, PTL DEF DbSpec
=============================================================================
