----------------------------- MODULE Cibernate ------------------------------
(***************************************************************************)
(* Cibernate and the pool of its connections.  A session is a Cibernate    *)
(* object with the thread that uses it; an operation takes a connection    *)
(* (allocateStmt) and then speaks to the database through it.  The         *)
(* database is external: a connection that does not commit by itself keeps *)
(* its writes until it is told to, or until it commits by itself again.    *)
(***************************************************************************)
EXTENDS Integers, Sequences, FiniteSets, SequencesExt, TLC

CONSTANTS
  Session,       \* Cibernate objects
  PoolSize,      \* the pool sizes looked at
  Table,         \* the tables of cibernate.xml, in its order (TablesMapped)
  RowOf,         \* by class: a row, the values of its columns in their order
  Program,       \* by session: the calls it may make; those of procedures have their
                 \* parameters' modes, in the order of the names
  MaxStatements  \* the bound of the statements of each session

Entity == {Table[k].class : k \in DOMAIN Table}

\* A table: its class and its columns in the order of the properties' names
\* ([name, column, type]), the class it has one of, and whether it has many of one.
ASSUME CibernateAssumption ==
  /\ PoolSize \subseteq Nat
  /\ \A k \in DOMAIN Table :
       /\ {"class", "cols", "one", "many"} \subseteq DOMAIN Table[k]
       /\ Len(Table[k].cols) \in Nat /\ DOMAIN Table[k].cols = 1..Len(Table[k].cols)
       /\ \A i, j \in DOMAIN Table[k].cols :
            Table[k].cols[i].name = Table[k].cols[j].name => i = j
  /\ \A s \in Session : \A call \in Program[s] : call[1] \in {"insert", "read"} => call[2] \in Entity

VARIABLES
  reads,       \* the read connections of the pool
  readNumber,  \* the one to give out next, from 0
  link,        \* by connection: [auto, pending], whether it commits by itself and what waits
  rows,        \* what is written for good
  session,     \* by session: its fields and what it is about to do
  tx,          \* history, by session: its last transaction [is, on, writes], as long as its
               \* writes and no others are made on the connection it was begun on
  segfault     \* the process has died of a null pointer

dbVars == <<reads, readNumber, link, rows, session, tx, segfault>>

\* createPool: a fifth of the connections, at least one, for reading.
ReadConnections(size) == IF size \div 5 < 1 THEN 1 ELSE size \div 5

NoTx == [is |-> "none", on |-> 0, writes |-> {}]
NothingRead == [class |-> "", fields |-> <<>>]
NoSession == [pc |-> "none", pool |-> FALSE, conn |-> 0, isTransaction |-> FALSE,
              call |-> <<>>, count |-> 0, read |-> NothingRead]

DbInit ==
  /\ \E size \in PoolSize : reads = ReadConnections(size)
  /\ readNumber = 0
  /\ link = [c \in 1..reads |-> [auto |-> TRUE, pending |-> {}]]
  /\ rows = {}
  /\ session = [s \in Session |-> NoSession]
  /\ tx = [s \in Session |-> NoTx]
  /\ segfault = FALSE

----------------------------------------------------------------------------
(* Statements of entities, from the mapping.                               *)

TableOf(class) == Table[CHOOSE k \in DOMAIN Table : Table[k].class = class]
ColumnNames(class) == {TableOf(class).cols[i].column : i \in DOMAIN TableOf(class).cols}

\* The columns read for a class are also those read for the classes before it.
MappedNames(class) ==
  UNION {{Table[j].cols[i].name : i \in DOMAIN Table[j].cols} :
           j \in {k \in DOMAIN Table : \E n \in k..Len(Table) : Table[n].class = class}}

InsertTypes == {"short", "unsigned short", "int", "unsigned int", "long", "unsigned long",
                "double", "float", "string"}
ReadTypes == InsertTypes \cup {"long long", "unsigned long long", "bool", "Date", "BinaryData"}

Supported(class) == {i \in DOMAIN TableOf(class).cols : TableOf(class).cols[i].type \in InsertTypes}

\* Binding goes through the positions up to the number of values.
Binds(class) == Supported(class) = 1..Cardinality(Supported(class))

\* executeInsert and executeUpdate name the properties, as if they were columns, and
\* have a value for each of a type they know.
InsertOutcome == [class \in Entity |->
  IF ~Binds(class) THEN "throws"
  ELSE IF Cardinality(Supported(class)) < Len(TableOf(class).cols) THEN "fails"
  ELSE IF \E i \in Supported(class) : TableOf(class).cols[i].name \notin ColumnNames(class) THEN "fails"
  ELSE "runs"]

\* What executeQuery reads for a class, those of the class it has one of included.
SelectOutcome == [class \in Entity |->
  LET one == TableOf(class).one
      Knows(c) == MappedNames(c) \subseteq ColumnNames(c)
  IN  IF Knows(class) /\ (one # "" => Knows(one)) THEN "runs" ELSE "fails"]

\* Mutant of Fetched: a text that fills the first 23 characters loses its end too.
FetchedShort(type, value) == IF type # "string" \/ value < 23 THEN value ELSE value - 1

\* A text of more than 23 characters loses its end.
Fetched(type, value) ==
  IF type # "string" \/ value < 24 THEN value
  ELSE IF value = 24 THEN 23 ELSE value - 2

\* getElements.  The columns of a row: those of the class and of the class it has one of.
ColumnsRead(class) ==
  LET one == TableOf(class).one
  IN  IF one = "" THEN TableOf(class).cols ELSE TableOf(class).cols \o TableOf(one).cols

\* A column is one of the class if that has a column of this name, whichever table it
\* comes from.
Owner(class, i) ==
  IF ColumnsRead(class)[i].name \in ColumnNames(class) THEN class ELSE TableOf(class).one

Property(class, i) ==
  CHOOSE col \in ToSet(TableOf(Owner(class, i)).cols) : col.column = ColumnsRead(class)[i].name

FieldRead(class, i) == <<Owner(class, i), Property(class, i).name>>

\* storeProperty: a value of a type it does not know is not fetched, and the next column
\* gets it.
StoredColumns(class) == {i \in DOMAIN ColumnsRead(class) : Property(class, i).type \in ReadTypes}
Position(class, i) == Cardinality({j \in 1..i : j \in StoredColumns(class)})

\* The later of two values for a property stays.
LastFor(class, field) ==
  CHOOSE i \in StoredColumns(class) :
    FieldRead(class, i) = field /\ \A j \in StoredColumns(class) : FieldRead(class, j) = field => j <= i

ReadRow(class) ==
  [field \in {FieldRead(class, i) : i \in StoredColumns(class)} |->
     LET i == LastFor(class, field)
     IN  Fetched(Property(class, i).type, RowOf[class][Position(class, i)])]

\* A class that has many of one is given a null pointer for them; the text of a date is
\* none DateFormat can parse.
ReadOutcome == [class \in Entity |->
  IF \E i \in DOMAIN TableOf(class).cols : TableOf(class).cols[i].type = "Date" THEN "throws"
  ELSE IF TableOf(class).many THEN "dies"
  ELSE "runs"]

\* procedureCall binds by the number of the parameter, though only those of mode IN have
\* a place in the statement, and then reads the OUT ones, if there are any or not, which
\* may fail too.
ProcedureOutcome(params) ==
  LET out == {i \in DOMAIN params : params[i] # "in"}
  IN  IF \E i \in out, j \in DOMAIN params \ out : i < j THEN "fails"
      ELSE IF out = {} THEN "runs, then throws" ELSE "runs"

----------------------------------------------------------------------------
(* Operations.                                                             *)

\* close(true).  The connection is kept, the pool and the mapping are not.
Closed(me) == [me EXCEPT !.pool = FALSE]
ClosedUnless(me) == IF me.isTransaction THEN me ELSE Closed(me)

Return(s, me) == session' = [session EXCEPT ![s] = [me EXCEPT !.pc = "ready", !.call = <<>>]]
Die == segfault' = TRUE /\ session' = [s \in Session |-> NoSession]

\* The transactions when a session changes something on a connection.
Seen(s, c) ==
  [t \in Session |->
     IF tx[t].is = "open" /\ (t = s) # (tx[t].on = c) THEN NoTx ELSE tx[t]]

\* A write: there at once, or when the connection commits.
Put(s) ==
  LET c == session[s].conn
      w == <<s, session[s].count>>
  IN  /\ IF link[c].auto THEN rows' = rows \cup {w} /\ UNCHANGED link
         ELSE link' = [link EXCEPT ![c].pending = @ \cup {w}] /\ UNCHANGED rows
      /\ tx' = [Seen(s, c) EXCEPT ![s].writes = IF tx[s].is = "open" THEN @ \cup {w} ELSE @]

\* A connection that commits by itself again commits what still waits.
AutocommitOn(c) ==
  /\ rows' = rows \cup link[c].pending
  /\ link' = [link EXCEPT ![c] = [auto |-> TRUE, pending |-> {}]]

\* The constructor does not set isTransaction.
NewCibernate(s) ==
  /\ session[s].pc = "none"
  /\ \E b \in BOOLEAN :
       Return(s, [NoSession EXCEPT !.pool = TRUE, !.isTransaction = b])
  /\ UNCHANGED <<reads, readNumber, link, rows, tx, segfault>>

\* The destructor closes the connection, which may never have been taken.
DeleteCibernate(s) ==
  /\ session[s].pc = "ready"
  /\ IF session[s].conn = 0 THEN Die
     ELSE /\ session' = [session EXCEPT ![s] = [NoSession EXCEPT !.pc = "deleted"]]
          /\ UNCHANGED segfault
  /\ tx' = [tx EXCEPT ![s] = NoTx]
  /\ UNCHANGED <<reads, readNumber, link, rows>>

\* getReadConnection: round the read connections.
GetReadConnection == IF readNumber = reads THEN 1 ELSE readNumber + 1

\* allocateStmt: while it has the pool a session takes the next connection for each
\* operation, one for reading whatever it is for.  Without a statement most operations
\* return; procedureCall throws.  Inserts and reads look at the mapping before that.
AllocateStmt(s) ==
  /\ session[s].pc = "ready" /\ session[s].count < MaxStatements[s]
  /\ \E call \in Program[s], granted \in BOOLEAN :
       LET conn == IF session[s].pool THEN GetReadConnection ELSE session[s].conn
           me == [session[s] EXCEPT !.conn = conn, !.read = NothingRead]
       IN  IF ~me.pool /\ call[1] \in {"insert", "read"} THEN Die /\ UNCHANGED readNumber
           ELSE /\ readNumber' = IF me.pool THEN conn ELSE readNumber
                /\ IF granted
                   THEN session' = [session EXCEPT ![s] = [me EXCEPT !.pc = "allocated", !.call = call, !.count = @ + 1]]
                   ELSE Return(s, me)
                /\ UNCHANGED segfault
  /\ UNCHANGED <<reads, link, rows, tx>>

Calling(s, op) == session[s].pc = "allocated" /\ session[s].call[1] = op

\* startTransaction.  The session is in a transaction whether the connection heeds it
\* or not.
StartTransaction(s) ==
  /\ Calling(s, "start")
  /\ Return(s, [session[s] EXCEPT !.isTransaction = TRUE])
  /\ LET conn == session[s].conn
     IN  \/ /\ link' = [link EXCEPT ![conn].auto = FALSE]
            /\ tx' = [Seen(s, conn) EXCEPT ![s] =
                        IF link[conn].auto THEN [is |-> "open", on |-> conn, writes |-> {}]
                        ELSE NoTx]
         \/ tx' = [tx EXCEPT ![s] = NoTx] /\ UNCHANGED link
  /\ UNCHANGED <<reads, readNumber, rows, segfault>>

\* Mutant of EndTransaction: whatever it is, it commits.
CommitAnyway(s, op) ==
  /\ Calling(s, op)
  /\ rows' = rows \cup link[session[s].conn].pending
  /\ link' = [link EXCEPT ![session[s].conn].pending = {}]
  /\ tx' = [Seen(s, session[s].conn) EXCEPT ![s].is = IF @ = "open" THEN op ELSE @]
  /\ session' = [session EXCEPT ![s].isTransaction = FALSE, ![s].pc = "ended"]
  /\ UNCHANGED <<reads, readNumber, segfault>>

\* commit and rollback: SQLEndTran, which may fail.
EndTransaction(s, op) ==
  /\ Calling(s, op)
  /\ LET conn == session[s].conn
         Ended(is) == [Seen(s, conn) EXCEPT ![s].is = IF @ = "open" THEN is ELSE @]
     IN  \/ /\ rows' = IF op = "commit" THEN rows \cup link[conn].pending ELSE rows
            /\ link' = [link EXCEPT ![conn].pending = {}]
            /\ tx' = Ended(op)
         \/ tx' = [Seen(s, conn) EXCEPT ![s] = NoTx] /\ UNCHANGED <<rows, link>>
  /\ session' = [session EXCEPT ![s].isTransaction = FALSE, ![s].pc = "ended"]
  /\ UNCHANGED <<reads, readNumber, segfault>>

\* Then the connection commits by itself again, what still waits as well, and the
\* session is closed.
EndAutocommit(s) ==
  /\ session[s].pc = "ended"
  /\ AutocommitOn(session[s].conn)
  /\ tx' = Seen(s, session[s].conn)
  /\ Return(s, Closed(session[s]))
  /\ UNCHANGED <<reads, readNumber, segfault>>

\* A statement that cannot be prepared or executed closes the session.
StatementFails(s) ==
  /\ Return(s, Closed(session[s]))
  /\ UNCHANGED <<reads, readNumber, link, rows, tx, segfault>>

\* executeQuery of an update, executeInsert and executeUpdate.  What a parameter points
\* to has gone when the statement is executed: a write has no value here.
ExecuteUpdate(s) ==
  \/ /\ Calling(s, "write") \/ (Calling(s, "insert") /\ InsertOutcome[session[s].call[2]] = "runs")
     /\ Put(s)
     /\ Return(s, ClosedUnless(session[s]))
     /\ UNCHANGED <<reads, readNumber, segfault>>
  \/ /\ Calling(s, "write") \/ (Calling(s, "insert") /\ InsertOutcome[session[s].call[2]] # "throws")
     /\ StatementFails(s)
  \/ /\ Calling(s, "insert") /\ InsertOutcome[session[s].call[2]] = "throws"
     /\ Return(s, session[s])
     /\ UNCHANGED <<reads, readNumber, link, rows, tx, segfault>>

\* executeQuery, of no class or of the entities of one.
ExecuteQuery(s) ==
  \/ /\ Calling(s, "select") \/ Calling(s, "read")
     /\ StatementFails(s)
  \/ /\ \/ Calling(s, "select") /\ Return(s, ClosedUnless(session[s])) /\ UNCHANGED segfault
        \/ /\ Calling(s, "read") /\ SelectOutcome[session[s].call[2]] = "runs"
           /\ LET class == session[s].call[2]
                  me == [session[s] EXCEPT !.read = [class |-> class, fields |-> ReadRow(class)]]
              IN  CASE ReadOutcome[class] = "dies" -> Die
                    [] ReadOutcome[class] = "throws" -> Return(s, session[s]) /\ UNCHANGED segfault
                    [] OTHER -> Return(s, ClosedUnless(me)) /\ UNCHANGED segfault
     /\ UNCHANGED <<reads, readNumber, link, rows, tx>>

\* empty: its statement ("tuncate table") is none.
Empty(s) ==
  /\ Calling(s, "empty")
  /\ IF session[s].pool THEN StatementFails(s)
     ELSE Die /\ UNCHANGED <<reads, readNumber, link, rows, tx>>

ProcedureCall(s) ==
  /\ Calling(s, "procedure")
  /\ \/ StatementFails(s)
     \/ /\ ProcedureOutcome(session[s].call[2]) # "fails"
        /\ Put(s)
        /\ \E throws \in BOOLEAN :
             /\ ProcedureOutcome(session[s].call[2]) # "runs" => throws
             /\ Return(s, IF throws THEN Closed(session[s]) ELSE ClosedUnless(session[s]))
        /\ UNCHANGED <<reads, readNumber, segfault>>

DbNext ==
  /\ ~segfault
  /\ \E s \in Session :
       \/ NewCibernate(s)
       \/ DeleteCibernate(s)
       \/ AllocateStmt(s)
       \/ StartTransaction(s)
       \/ EndTransaction(s, "commit")
       \/ EndTransaction(s, "rollback")
       \/ EndAutocommit(s)
       \/ ExecuteUpdate(s)
       \/ ExecuteQuery(s)
       \/ Empty(s)
       \/ ProcedureCall(s)

\* The sessions by themselves.
DbSpec == DbInit /\ [][DbNext]_dbVars

----------------------------------------------------------------------------
(* Properties.                                                             *)

\* A transaction whose writes, and no others, were made on the connection it was begun
\* on is one: nothing of it is there while it is open, all of it once commit returned
\* true, nothing of it once rollback did.
TransactionsHold ==
  \A s \in Session :
    /\ tx[s].is = "open" => tx[s].writes \cap rows = {}
    /\ tx[s].is = "commit" => tx[s].writes \subseteq rows
    /\ tx[s].is = "rollback" => tx[s].writes \cap rows = {}

\* Plain: a first class of the mapping, without relations, with short texts, whose
\* columns have the names of its properties.
PlainClass(class) ==
  /\ class = Table[1].class /\ TableOf(class).one = ""
  /\ \A i \in DOMAIN TableOf(class).cols :
       /\ TableOf(class).cols[i].column = TableOf(class).cols[i].name
       /\ TableOf(class).cols[i].type \in ReadTypes
       /\ TableOf(class).cols[i].type = "string" => RowOf[class][i] < 24

\* An entity of a plain class is read as its row was: every column in its own property,
\* across the types of columns the mapping knows.
RowsRead ==
  \A s \in Session :
    LET read == session[s].read
    IN  read # NothingRead /\ PlainClass(read.class) =>
          \A i \in DOMAIN TableOf(read.class).cols :
            LET field == <<read.class, TableOf(read.class).cols[i].name>>
            IN  field \in DOMAIN read.fields /\ read.fields[field] = RowOf[read.class][i]
=============================================================================
