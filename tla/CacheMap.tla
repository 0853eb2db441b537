------------------------------ MODULE CacheMap ------------------------------
(***************************************************************************)
(* The server of the distributed cache: sessions, one thread for each      *)
(* connection (DistoCacheServiceHandler::run), that call the methods of    *)
(* the one CacheMap.                                                       *)
(*                                                                         *)
(* A method that works on a container runs in lock regions, each a step:   *)
(* checkExistance() under CacheMap::mutex; the pointer out of cacheMap     *)
(* under it again; the look-up of valueLocks[cacheKey], which no lock      *)
(* protects; lock(); the work and unlock().  Between them another session  *)
(* may deallocate the key.  What the code then does is undefined: the      *)
(* model records it as a fault and stops.                                  *)
(***************************************************************************)
EXTENDS CacheContainers, FiniteSets

CONSTANTS
  Session,    \* the connections, each with its thread
  Key,        \* the cache keys
  Obj,        \* the addresses allocate() may get: it gets each of them once
  Request,    \* the queries clients send
  MaxRequests,\* how many of them each session serves
  Nothing,    \* no such key, no object, no holder, not a number
  Null        \* the null pointer operator[] enters for an absent key

NoValue == -1  \* a query without a second packet

ASSUME CacheAssumption ==
  /\ MaxRequests \in [Session -> Nat]
  /\ Obj \subseteq Nat
  /\ Nothing \notin Obj /\ Nothing \notin Session /\ Nothing \notin ContainerTypes
  /\ Null \notin Obj /\ Null # Nothing
  /\ \A r \in Request :
       /\ {"op", "key", "type", "mkey", "val", "pos", "rep"} = DOMAIN r
       /\ r.op \in Methods /\ r.key \in Key
       /\ r.mkey \in Int /\ r.val \in Int
       /\ r.pos \in Int \cup {Nothing} /\ r.rep \in Int \cup {Nothing}

VARIABLES
  entry,      \* cacheMap and valueLocks: the object of each key
  typeOf,     \* valueTypes: the type of each allocated object
  contents,   \* what the container of each object holds
  freed,      \* the objects deallocate() has deleted
  holder,     \* the session that holds the lock of each object
  spc,        \* where each session is
  req,        \* the query it serves
  method,     \* the CacheMap method it is in: size() first if positional
  seen,       \* the container type its last check found
  ptr,        \* the container pointer it fetched
  lck,        \* the lock it fetched
  served,     \* how many queries it has answered
  reply,      \* its last answer
  raced,      \* the sessions whose key was erased or replaced during their
              \* method (history)
  leaked,     \* the objects whose lock an exception left locked (history)
  added,      \* what add has put in each object (history)
  taken,      \* what pop has taken out of it (history)
  fault       \* the session that met undefined behaviour

mapVars == <<entry, typeOf, contents, freed, holder>>
callVars == <<req, method, seen, ptr, lck, served, reply>>
sessionVars == <<spc, callVars>>
historyVars == <<raced, leaked, added, taken>>
vars == <<mapVars, sessionVars, historyVars, fault>>

\* An answer: the error, "" for SUCCESS, and the value, -1 for none.
Replied(err, val) == [err |-> err, val |-> val]

Init ==
  /\ entry = [k \in Key |-> Nothing]
  /\ typeOf = [o \in Obj |-> Nothing]
  /\ contents = [o \in Obj |-> <<>>]
  /\ freed = {}
  /\ holder = [o \in Obj |-> Nothing]
  /\ spc = [s \in Session |-> "idle"]
  /\ req = [s \in Session |-> Nothing]
  /\ method = [s \in Session |-> Nothing]
  /\ seen = [s \in Session |-> ""]
  /\ ptr = [s \in Session |-> Nothing]
  /\ lck = [s \in Session |-> Nothing]
  /\ served = [s \in Session |-> 0]
  /\ reply = [s \in Session |-> Replied("", -1)]
  /\ raced = {} /\ leaked = {}
  /\ added = [o \in Obj |-> <<>>]
  /\ taken = [o \in Obj |-> <<>>]
  /\ fault = Nothing

-----------------------------------------------------------------------------
\* Session s is there, and nothing has gone wrong yet.
At(s, pc) == spc[s] = pc /\ fault = Nothing

Goto(s, from, to) == At(s, from) /\ spc' = [spc EXCEPT ![s] = to]

\* The answer goes out and the session waits for its next query.
Answer(s, err, val) ==
  /\ spc' = [spc EXCEPT ![s] = "idle"]
  /\ reply' = [reply EXCEPT ![s] = Replied(err, val)]
  /\ served' = [served EXCEPT ![s] = @ + 1]
  /\ req' = [req EXCEPT ![s] = Nothing]
  /\ method' = [method EXCEPT ![s] = Nothing]
  /\ seen' = [seen EXCEPT ![s] = ""]
  /\ ptr' = [ptr EXCEPT ![s] = Nothing]
  /\ lck' = [lck EXCEPT ![s] = Nothing]

\* The answer to an error: around a positional query catch(...) turns whatever
\* was thrown into one of the errors of lexical_cast.
Caught(r, err) ==
  IF r.op \notin Positional THEN err
  ELSE IF r.op = "insertrep" /\ r.pos \notin {-1, Nothing} THEN "ERR_REPNOTNUM"
  ELSE "ERR_POSNOTNUM"

\* The other sessions that are in a method on this key.
InMethodOn(s, k) == {x \in Session \ {s} : spc[x] # "idle" /\ req[x].key = k}

ValueError(r) == IF r.op \in TakesValue /\ r.val = NoValue THEN "ERR_NOVALUESPEC" ELSE ""

\* Bound: no more allocations are under way than there are addresses left.
AddressesLeft ==
  Cardinality({o \in Obj : typeOf[o] = Nothing})
    > Cardinality({s \in Session : method[s] = "allocate"})

\* A query arrives.  Without the value it needs it is refused here, unless it is
\* positional: then the size comes first.
Receive(s, r) ==
  /\ At(s, "idle") /\ served[s] < MaxRequests[s]
  /\ r.op = "allocate" => AddressesLeft
  /\ req' = [req EXCEPT ![s] = r]
  /\ method' = [method EXCEPT ![s] = IF r.op \in Positional THEN "size" ELSE r.op]
  /\ spc' = [spc EXCEPT ![s] = "check"]
  /\ raced' = raced \ {s}
  /\ UNCHANGED <<mapVars, seen, ptr, lck, served, reply, leaked, added, taken, fault>>

\* checkExistance() or checkExistanceAndGetType(), under CacheMap::mutex, and
\* the exceptions that follow from its answer.
TypeSeen(k) == IF entry[k] \in Obj THEN typeOf[entry[k]] ELSE ""

AllocateError(k, type) ==
  IF entry[k] # Nothing THEN "ERR_ALLOCENTEXISTS"
  ELSE IF type \notin ContainerTypes THEN "ERR_INVCONTAINER" ELSE ""

DeallocateError(k) == IF entry[k] = Nothing THEN "ERR_NOKEYCACHEMAP" ELSE ""

\* What lexical_cast or the missing second packet stop before CacheMap is called.
QueryError(r, m) ==
  IF m = "size" /\ r.op \in Positional /\ Nothing \in {r.pos, r.rep} THEN "bad_lexical_cast"
  ELSE IF m \notin Positional \cup {"size"} THEN ValueError(r) ELSE ""

Check(s) ==
  LET k == req[s].key
      m == method[s]
      err == IF QueryError(req[s], m) # "" THEN QueryError(req[s], m)
             ELSE CASE m = "allocate"   -> AllocateError(k, req[s].type)
                    [] m = "deallocate" -> DeallocateError(k)
                    [] OTHER            -> CheckError(m, TypeSeen(k))
      next == CASE m = "allocate"   -> "create"
                [] m = "deallocate" -> "erase"
                [] OTHER            -> "fetch"
  IN
  /\ At(s, "check")
  /\ IF err # "" THEN Answer(s, Caught(req[s], err), -1)
     ELSE /\ spc' = [spc EXCEPT ![s] = next]
          /\ seen' = [seen EXCEPT ![s] = TypeSeen(k)]
          /\ UNCHANGED <<req, method, ptr, lck, served, reply>>
  /\ UNCHANGED <<mapVars, historyVars, fault>>

\* allocate(): the entry is written whatever another session has put there
\* since the check.
Create(s) ==
  LET k == req[s].key IN
  /\ At(s, "create")
  /\ \E o \in Obj :
       /\ typeOf[o] = Nothing
       /\ \A p \in Obj : typeOf[p] = Nothing => o <= p
       /\ entry' = [entry EXCEPT ![k] = o]
       /\ typeOf' = [typeOf EXCEPT ![o] = req[s].type]
  /\ raced' = raced \cup InMethodOn(s, k)
  /\ Answer(s, "", -1)
  /\ UNCHANGED <<contents, freed, holder, leaked, added, taken, fault>>

\* deallocate(): the lock and the container are deleted, held or not; if
\* another session erased the key since the check, delete gets a null pointer.
Erase(s) ==
  LET k == req[s].key IN
  /\ At(s, "erase")
  /\ freed' = freed \cup ({entry[k]} \cap Obj)
  /\ entry' = [entry EXCEPT ![k] = Nothing]
  /\ raced' = raced \cup InMethodOn(s, k)
  /\ Answer(s, "", -1)
  /\ UNCHANGED <<typeOf, contents, holder, leaked, added, taken, fault>>

\* instance->cacheMap[cacheKey]: operator[] enters a null pointer for a key that
\* is gone.
Fetch(s) ==
  LET k == req[s].key IN
  /\ Goto(s, "fetch", "getlock")
  /\ entry' = [entry EXCEPT ![k] = IF @ = Nothing THEN Null ELSE @]
  /\ ptr' = [ptr EXCEPT ![s] = entry'[k]]
  /\ UNCHANGED <<typeOf, contents, freed, holder, req, method, seen, lck, served, reply,
                 historyVars, fault>>

\* Another session is about to insert into valueLocks, or to erase from it: a
\* look-up outside CacheMap::mutex may run into its changes to the tree.
Rebalancing(s) == \E x \in Session \ {s} : spc[x] \in {"create", "erase"}

\* instance->valueLocks[cacheKey], outside any lock.
GetLock(s) ==
  LET k == req[s].key IN
  /\ Goto(s, "getlock", "lock")
  /\ \/ entry[k] \in Obj /\ lck' = [lck EXCEPT ![s] = entry[k]] /\ UNCHANGED fault
     \/ (entry[k] \notin Obj \/ Rebalancing(s)) /\ fault' = s /\ UNCHANGED lck
  /\ UNCHANGED <<mapVars, req, method, seen, ptr, served, reply, historyVars>>

\* Mutant of Lock: it does not wait.
LockNoWait(s) ==
  /\ Goto(s, "lock", "work")
  /\ holder' = [holder EXCEPT ![lck[s]] = s]
  /\ UNCHANGED <<entry, typeOf, contents, freed, callVars, historyVars, fault>>

\* ->lock(), on a mutex that may have been deleted.
Lock(s) ==
  LET l == lck[s] IN
  /\ Goto(s, "lock", "work")
  /\ IF l \in freed
     THEN fault' = s /\ UNCHANGED holder
     ELSE /\ holder[l] = Nothing
          /\ holder' = [holder EXCEPT ![l] = s]
          /\ UNCHANGED fault
  /\ UNCHANGED <<entry, typeOf, contents, freed, callVars, historyVars>>

\* The container is gone or is one of another type, another session is at it
\* under another lock, or the unlock() looks up another lock than lock() did.
WorkFaults(s) ==
  ptr[s] \in Obj \ freed =>
    \/ typeOf[ptr[s]] # seen[s]
    \/ \E x \in Session \ {s} : spc[x] = "work" /\ ptr[x] = ptr[s]
    \/ entry[req[s].key] # lck[s]

\* The tests that the service makes between size() and a positional method.
SizeError(r, size) ==
  IF size <= r.pos THEN "ERR_INDGRTCONTSIZ"
  ELSE IF r.pos < 0 THEN "ERR_NEGATIVEPOS"
  ELSE IF r.op = "insertrep" /\ r.rep < 0 THEN "ERR_NEGATIVEREP" ELSE ""

\* Mutant of StaysLocked: size() does not unlock.
StaysLockedSize(m, err) == m = "size" \/ (err # "" /\ m \in ThrowsInside)

StaysLocked(m, err) == err # "" /\ m \in ThrowsInside

\* The work under the lock and the unlock().
\* After the size() of a positional query the service decides whether to go on.
Work(s) ==
  LET r == req[s]
      m == method[s]
      o == ptr[s]
      c == contents[o]
      sizing == m = "size" /\ r.op \in Positional
      err == BoundsError(m, c, r)
      refused == IF SizeError(r, Len(c)) # "" THEN SizeError(r, Len(c))
                 ELSE ValueError(r)
  IN
  /\ At(s, "work") /\ ~WorkFaults(s)
  /\ holder' = IF StaysLocked(m, err) THEN holder
               ELSE [holder EXCEPT ![lck[s]] = Nothing]
  /\ leaked' = IF err # "" /\ m \in ThrowsInside THEN leaked \cup {lck[s]} ELSE leaked
  /\ contents' = IF err # "" THEN contents
                 ELSE [contents EXCEPT ![o] = Changed(m, typeOf[o], c, r, r.pos + 1)]
  /\ added' = IF m = "add" THEN [added EXCEPT ![o] = Append(@, r.val)] ELSE added
  /\ taken' = IF m \in {"pop", "popget"} /\ err = ""
              THEN [taken EXCEPT ![o] = Append(@, Head(c))] ELSE taken
  /\ CASE sizing /\ refused = "" -> /\ spc' = [spc EXCEPT ![s] = "check"]
                                    /\ method' = [method EXCEPT ![s] = r.op]
                                    /\ UNCHANGED <<req, seen, ptr, lck, served, reply>>
       [] sizing /\ refused # "" -> Answer(s, refused, -1)
       [] ~sizing /\ err # ""    -> Answer(s, Caught(r, err), -1)
       [] OTHER                  -> Answer(s, "", Returned(m, c, r, r.pos + 1))
  /\ UNCHANGED <<entry, typeOf, freed, raced, fault>>

WorkFault(s) ==
  /\ At(s, "work") /\ (WorkFaults(s) \/ Rebalancing(s))
  /\ fault' = s
  /\ UNCHANGED <<mapVars, sessionVars, historyVars>>

Step(s) == Check(s) \/ Create(s) \/ Erase(s) \/ Fetch(s) \/ GetLock(s) \/ Lock(s)
           \/ Work(s) \/ WorkFault(s)

Next == \E s \in Session : Step(s) \/ \E r \in Request : Receive(s, r)

Spec == Init /\ [][Next]_vars

\* Every session that can go on goes on.  Nothing is assumed of the mutexes: a
\* session waits for a lock at most while the others use up their requests.
FairSpec == Spec /\ \A s \in Session : WF_vars(Step(s))

-----------------------------------------------------------------------------
(* Properties.                                                             *)

\* Undefined behaviour is met only by a session whose key another session
\* deallocated, or allocated a second time, during its method, or that looks up
\* a lock while another session allocates or deallocates any key.
FaultNeedsRace == fault # Nothing => fault \in raced \/ Rebalancing(fault)

\* Two sessions work on one container at a time only after such a race.
ExclusiveWork ==
  \A s, x \in Session :
    s # x /\ spc[s] = "work" /\ spc[x] = "work" /\ ptr[s] = ptr[x] =>
      s \in raced \/ x \in raced

\* Every query is answered, unless an exception left its lock locked.
Answered ==
  \A s \in Session :
    spc[s] # "idle" ~> spc[s] = "idle" \/ fault # Nothing \/ lck[s] \in leaked

\* A queue gives its values out in the order in which they came.
QueueFIFO ==
  \A o \in Obj : typeOf[o] = "queue" => taken[o] \o contents[o] = added[o]

\* The elements of a set, and the keys of a map, stay distinct and in order.
Increasing(q) == \A i, j \in DOMAIN q : i < j => q[i] < q[j]

DistinctAndSorted ==
  \A o \in Obj :
    /\ typeOf[o] = "set" => Increasing(contents[o])
    /\ typeOf[o] = "map" => Increasing([i \in DOMAIN contents[o] |-> contents[o][i][1]])
=============================================================================
