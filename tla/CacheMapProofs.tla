--------------------------- MODULE CacheMapProofs ---------------------------
(***************************************************************************)
(* Theorems about CacheMap, for every number of sessions, keys, addresses  *)
(* and requests: a session that is not raced never meets undefined         *)
(* behaviour, a queue gives its values out in their order, and a set and a *)
(* map keep theirs.                                                        *)
(***************************************************************************)
EXTENDS CacheMap, SequenceTheorems, FiniteSetTheorems, WellFoundedInduction, TLAPS

InMethod == {"fetch", "getlock", "lock", "work"}
Places == InMethod \cup {"idle", "check", "create", "erase"}

MapTypes ==
  /\ entry \in [Key -> Obj \cup {Nothing, Null}]
  /\ typeOf \in [Obj -> ContainerTypes \cup {Nothing}]
  /\ freed \in SUBSET Obj
  /\ holder \in [Obj -> Session \cup {Nothing}]

SessionTypes ==
  /\ spc \in [Session -> Places]
  /\ req \in [Session -> Request \cup {Nothing}]
  /\ method \in [Session -> Methods \cup {Nothing}]
  /\ seen \in [Session -> ContainerTypes \cup {"", Nothing}]
  /\ ptr \in [Session -> Obj \cup {Nothing, Null}]
  /\ lck \in [Session -> Obj \cup {Nothing}]

HistoryTypes == raced \in SUBSET Session /\ fault \in Session \cup {Nothing}

TypeInv == MapTypes /\ SessionTypes /\ HistoryTypes

\* What the entry of a key points to is allocated, alive and its own.
EntryInv ==
  /\ \A k \in Key : entry[k] \in Obj =>
       /\ entry[k] \notin freed /\ typeOf[entry[k]] # Nothing
       /\ \A j \in Key : entry[j] = entry[k] => j = k
  /\ \A o \in freed : typeOf[o] # Nothing

\* A pointer that a session fetched belongs to its key, or to none any more; the
\* lock it fetched afterwards is the one of the container, if that is still there.
PtrOk(s) ==
  ptr[s] \in Obj =>
    /\ typeOf[ptr[s]] # Nothing
    /\ \A k \in Key : entry[k] = ptr[s] => req[s].key = k
    /\ spc[s] \in {"lock", "work"} /\ entry[req[s].key] = ptr[s] => lck[s] = ptr[s]

\* A session that works holds the lock that it looked up, unless that is deleted.
LockOk(s) ==
  /\ spc[s] \in {"lock", "work"} => lck[s] \in Obj
  /\ spc[s] = "work" /\ lck[s] \notin freed => holder[lck[s]] = s

\* The query that a session serves and the type that its check let through.
CallOk(s) ==
  /\ spc[s] = "idle" => ptr[s] = Nothing
  /\ spc[s] # "idle" => req[s] \in Request /\ method[s] \in Methods
  /\ spc[s] = "create" => req[s].type \in ContainerTypes
  /\ spc[s] \in InMethod => /\ method[s] \in DOMAIN Supported
                            /\ seen[s] \in Supported[method[s]]

\* For a session that nobody raced, the entry of its key is as it found it.
StillThere(s) ==
  s \notin raced =>
    /\ spc[s] \in InMethod => /\ entry[req[s].key] \in Obj
                              /\ seen[s] = typeOf[entry[req[s].key]]
    /\ spc[s] \in {"getlock", "lock", "work"} => ptr[s] = entry[req[s].key]
    /\ spc[s] \in {"lock", "work"} => lck[s] = entry[req[s].key]

SessionOk(s) == PtrOk(s) /\ LockOk(s) /\ CallOk(s) /\ StillThere(s)

\* What holds until a fault: no step follows one.
SafeInv == EntryInv /\ \A s \in Session : SessionOk(s)

Values == {r.val : r \in Request}

\* What add() has put in a queue is what pop() has taken out and what is left.
InOrder(o) == /\ contents[o] \in Seq(Values) /\ taken[o] \in Seq(Values)
              /\ added[o] = taken[o] \o contents[o]

Empty(o) == contents[o] = <<>> /\ added[o] = <<>> /\ taken[o] = <<>>

\* An address that was never allocated is empty.
QueueInv ==
  /\ DOMAIN contents = Obj /\ DOMAIN added = Obj /\ DOMAIN taken = Obj
  /\ \A o \in Obj : /\ typeOf[o] = Nothing => Empty(o)
                    /\ typeOf[o] = "queue" => InOrder(o)

-----------------------------------------------------------------------------
(* The methods and the types they are made for.                            *)

\* No method is made for a key unknown, and the methods that a queue has do not
\* put anything into its middle nor take it from there.
LEMMA SupportedTypes ==
  ASSUME NEW m \in DOMAIN Supported
  PROVE  /\ "" \notin Supported[m]
         /\ Supported[m] \subseteq ContainerTypes
         /\ "queue" \in Supported[m] =>
              m \in {"add", "size", "isempty", "pop", "popget", "getfront", "getback"}
PROOF
  BY DEF Supported, ContainerTypes, Collections, MapMethods, EndMethods

\* A check that passes has found a type that the method is made for.
LEMMA CheckPasses ==
  ASSUME NEW m, NEW t, CheckError(m, t) = ""
  PROVE  t \in Supported[m]
PROOF
  BY DEF CheckError, MapMethods

\* size() and the method of a query are methods.
LEMMA MethodKnown ==
  ASSUME NEW r \in Request
  PROVE  /\ r.key \in Key /\ r.op \in Methods /\ "size" \in Methods /\ r.val \in Values
PROOF
  BY CacheAssumption DEF Methods, Supported, Values

-----------------------------------------------------------------------------
(* What a step of session s leaves of the others.                          *)

Others(s) ==
  \A x \in Session \ {s} :
    /\ spc'[x] = spc[x] /\ req'[x] = req[x] /\ method'[x] = method[x]
    /\ seen'[x] = seen[x] /\ ptr'[x] = ptr[x] /\ lck'[x] = lck[x]

Ended(s) == spc'[s] = "idle" /\ ptr'[s] = Nothing

\* Every object stays under its key: only absent keys may have changed.
SameObjects ==
  /\ \A k \in Key, o \in Obj : entry'[k] = o <=> entry[k] = o
  /\ typeOf' = typeOf /\ freed' = freed

\* An answer ends the call of its session and touches no other.
LEMMA AnswerEnds ==
  ASSUME SessionTypes, NEW s \in Session, NEW e, NEW v, Answer(s, e, v)
  PROVE  SessionTypes' /\ Others(s) /\ Ended(s)
PROOF
  BY DEF SessionTypes, Answer, Others, Ended, Places

\* A session that has ended its call is in order.
LEMMA EndedOk ==
  ASSUME CacheAssumption, NEW s \in Session, Ended(s)
  PROVE  SessionOk(s)'
PROOF
  BY DEF CacheAssumption, Ended, SessionOk, PtrOk, LockOk, CallOk, StillThere, InMethod

LEMMA EntriesKept ==
  ASSUME TypeInv, TypeInv', EntryInv, SameObjects
  PROVE  EntryInv'
PROOF
  BY DEF TypeInv, MapTypes, EntryInv, SameObjects

\* A step that moves no object, and takes no lock from x, leaves x in order.
LEMMA OthersKept ==
  ASSUME CacheAssumption, TypeInv, TypeInv', NEW s \in Session, NEW x \in Session \ {s},
         SessionOk(x), Others(s), SameObjects, x \in raced => x \in raced',
         spc[x] = "work" /\ lck[x] \notin freed /\ holder[lck[x]] = x => holder'[lck[x]] = x
  PROVE  SessionOk(x)'
PROOF
  <1>1. /\ spc'[x] = spc[x] /\ req'[x] = req[x] /\ method'[x] = method[x]
        /\ seen'[x] = seen[x] /\ ptr'[x] = ptr[x] /\ lck'[x] = lck[x]
    BY DEF Others
  <1>2. spc[x] # "idle" => req[x].key \in Key
    BY MethodKnown DEF SessionOk, CallOk
  <1>3. PtrOk(x)'
    <2>1. ptr[x] \in Obj => spc[x] # "idle"
      BY CacheAssumption DEF SessionOk, CallOk, CacheAssumption
    <2> QED
      BY <1>1, <1>2, <2>1 DEF SessionOk, PtrOk, SameObjects
  <1>4. LockOk(x)'
    BY <1>1 DEF SessionOk, LockOk, SameObjects
  <1>5. CallOk(x)'
    BY <1>1 DEF SessionOk, CallOk
  <1>6. StillThere(x)'
    <2>1. SUFFICES ASSUME x \notin raced', spc[x] \in InMethod
                   PROVE  StillThere(x)'
      BY <1>1 DEF StillThere, InMethod
    <2>2. entry[req[x].key] \in Obj /\ entry'[req[x].key] = entry[req[x].key]
      BY <1>2, <2>1 DEF SessionOk, StillThere, SameObjects, InMethod
    <2> QED
      BY <1>1, <2>1, <2>2 DEF SessionOk, StillThere, SameObjects
  <1> QED
    BY <1>3, <1>4, <1>5, <1>6 DEF SessionOk

\* Session s writes or erases the entry of its key: x is raced if it is its key too.
LEMMA OthersRaced ==
  ASSUME CacheAssumption, TypeInv, TypeInv', EntryInv,
         NEW s \in Session, NEW x \in Session \ {s}, SessionOk(x), Others(s),
         NEW k \in Key, NEW e \in Obj \cup {Nothing}, entry' = [entry EXCEPT ![k] = e],
         e \in Obj => typeOf[e] = Nothing, raced' = raced \cup InMethodOn(s, k),
         \A o \in Obj : typeOf[o] # Nothing => typeOf'[o] = typeOf[o],
         freed \subseteq freed', \A o \in freed' \ freed : o = entry[k], holder' = holder
  PROVE  SessionOk(x)'
PROOF
  <1>1. /\ spc'[x] = spc[x] /\ req'[x] = req[x] /\ method'[x] = method[x]
        /\ seen'[x] = seen[x] /\ ptr'[x] = ptr[x] /\ lck'[x] = lck[x]
    BY DEF Others
  <1>2. spc[x] # "idle" => req[x].key \in Key
    BY MethodKnown DEF SessionOk, CallOk
  <1>3. \A j \in Key : j # k => entry'[j] = entry[j]
    BY DEF TypeInv, MapTypes
  <1>4. entry'[k] = e
    BY DEF TypeInv, MapTypes
  <1>5. PtrOk(x)'
    <2>1. SUFFICES ASSUME ptr[x] \in Obj PROVE PtrOk(x)'
      BY <1>1 DEF PtrOk
    <2>2. spc[x] # "idle" /\ typeOf[ptr[x]] # Nothing /\ ptr[x] # e
      BY <2>1, CacheAssumption DEF SessionOk, CallOk, PtrOk, CacheAssumption
    <2>3. \A j \in Key : entry'[j] = ptr[x] => entry[j] = ptr[x]
      BY <1>3, <1>4, <2>2
    <2> QED
      BY ZenonT(60), <1>1, <1>2, <2>1, <2>2, <2>3 DEF SessionOk, PtrOk
  <1>6. LockOk(x)'
    BY <1>1 DEF SessionOk, LockOk
  <1>7. CallOk(x)'
    BY <1>1 DEF SessionOk, CallOk
  <1>8. StillThere(x)'
    <2>1. SUFFICES ASSUME x \notin raced', spc[x] \in InMethod
                   PROVE  StillThere(x)'
      BY <1>1 DEF StillThere, InMethod
    <2>2. x \notin raced /\ req[x].key # k
      BY <2>1 DEF InMethodOn, InMethod
    <2>3. entry'[req[x].key] = entry[req[x].key] /\ entry[req[x].key] \in Obj
      BY <1>2, <1>3, <2>1, <2>2 DEF SessionOk, StillThere, InMethod
    <2>4. typeOf'[entry[req[x].key]] = typeOf[entry[req[x].key]]
      BY <1>2, <2>1, <2>3 DEF InMethod, EntryInv
    <2> QED
      BY <1>1, <2>1, <2>2, <2>3, <2>4 DEF SessionOk, StillThere
  <1> QED
    BY <1>5, <1>6, <1>7, <1>8 DEF SessionOk

-----------------------------------------------------------------------------
(* Types.                                                                  *)

LEMMA TypesInitially == CacheAssumption /\ Init => TypeInv
PROOF
  <1> SUFFICES ASSUME Init PROVE TypeInv
    OBVIOUS
  <1>1. MapTypes
    BY DEF Init, MapTypes
  <1>2. SessionTypes
    BY DEF Init, SessionTypes, Places
  <1>3. HistoryTypes
    BY DEF Init, HistoryTypes
  <1> QED
    BY <1>1, <1>2, <1>3 DEF TypeInv

LEMMA TypesKept ==
  ASSUME CacheAssumption, TypeInv, fault = Nothing => SafeInv, [Next]_vars
  PROVE  TypeInv'
PROOF
  <1> USE DEF Places, InMethod
  <1>1. CASE UNCHANGED vars
    BY <1>1 DEF TypeInv, MapTypes, SessionTypes, HistoryTypes, vars, mapVars, sessionVars,
                callVars, historyVars
  <1>2. ASSUME NEW s \in Session, NEW r \in Request, Receive(s, r)
        PROVE  TypeInv'
    <2>1. "size" \in Methods /\ r.op \in Methods
      BY MethodKnown
    <2> QED
      BY <1>2, <2>1 DEF Receive, TypeInv, MapTypes, SessionTypes, HistoryTypes, mapVars
  <1>3. ASSUME NEW s \in Session, Check(s)
        PROVE  TypeInv'
    <2>1. MapTypes' /\ HistoryTypes'
      BY <1>3 DEF Check, TypeInv, MapTypes, HistoryTypes, mapVars, historyVars
    <2>2. CASE \E e : Answer(s, e, -1)
      BY <2>1, <2>2, AnswerEnds DEF TypeInv
    <2>3. CASE /\ \E pc \in {"create", "erase", "fetch"} : spc' = [spc EXCEPT ![s] = pc]
               /\ seen' = [seen EXCEPT ![s] = TypeSeen(req[s].key)]
               /\ UNCHANGED <<req, method, ptr, lck>>
      <3>1. TypeSeen(req[s].key) \in ContainerTypes \cup {"", Nothing}
        BY DEF TypeSeen, TypeInv, MapTypes
      <3> QED
        BY <2>1, <2>3, <3>1 DEF TypeInv, SessionTypes
    <2> QED
      BY <1>3, <2>2, <2>3 DEF Check, callVars
  <1>4. ASSUME NEW s \in Session, Create(s)
        PROVE  TypeInv'
    <2>1. req[s].type \in ContainerTypes
      BY <1>4 DEF Create, At, SafeInv, SessionOk, CallOk
    <2>2. SessionTypes'
      BY <1>4, AnswerEnds DEF Create, TypeInv
    <2>3. raced' \in SUBSET Session
      BY <1>4 DEF Create, TypeInv, HistoryTypes, InMethodOn
    <2>4. PICK o \in Obj : /\ entry' = [entry EXCEPT ![req[s].key] = o]
                           /\ typeOf' = [typeOf EXCEPT ![o] = req[s].type]
      BY <1>4 DEF Create
    <2>5. entry' \in [Key -> Obj \cup {Nothing, Null}]
      BY <2>4 DEF TypeInv, MapTypes
    <2>6. typeOf' \in [Obj -> ContainerTypes \cup {Nothing}]
      BY <2>1, <2>4 DEF TypeInv, MapTypes
    <2> QED
      BY <1>4, <2>2, <2>3, <2>5, <2>6 DEF Create, TypeInv, MapTypes, HistoryTypes
  <1>5. ASSUME NEW s \in Session, Erase(s)
        PROVE  TypeInv'
    <2>1. SessionTypes'
      BY <1>5, AnswerEnds DEF Erase, TypeInv
    <2>2. raced' \in SUBSET Session
      BY <1>5 DEF Erase, TypeInv, HistoryTypes, InMethodOn
    <2> QED
      BY <1>5, <2>1, <2>2 DEF Erase, TypeInv, MapTypes, HistoryTypes
  <1>6. ASSUME NEW s \in Session, Fetch(s)
        PROVE  TypeInv'
    <2>1. req[s].key \in Key
      BY <1>6, MethodKnown DEF Fetch, Goto, At, SafeInv, SessionOk, CallOk
    <2>2. entry' \in [Key -> Obj \cup {Nothing, Null}]
      BY <1>6 DEF Fetch, TypeInv, MapTypes
    <2>3. ptr' \in [Session -> Obj \cup {Nothing, Null}]
      BY <1>6, <2>1, <2>2 DEF Fetch, TypeInv, SessionTypes
    <2> QED
      BY <1>6, <2>2, <2>3 DEF Fetch, Goto, TypeInv, MapTypes, SessionTypes, HistoryTypes,
                              historyVars
  <1>7. ASSUME NEW s \in Session, GetLock(s)
        PROVE  TypeInv'
    BY <1>7 DEF GetLock, Goto, TypeInv, MapTypes, SessionTypes, HistoryTypes, mapVars,
                historyVars
  <1>8. ASSUME NEW s \in Session, Lock(s)
        PROVE  TypeInv'
    BY ZenonT(60), <1>8 DEF Lock, Goto, TypeInv, MapTypes, SessionTypes, HistoryTypes, callVars,
                historyVars
  <1>9. ASSUME NEW s \in Session, Work(s)
        PROVE  TypeInv'
    <2>1. MapTypes' /\ HistoryTypes'
      BY <1>9 DEF Work, TypeInv, MapTypes, HistoryTypes
    <2>2. req[s].op \in Methods
      BY <1>9, MethodKnown DEF Work, At, SafeInv, SessionOk, CallOk
    <2>3. CASE \E e, v : Answer(s, e, v)
      BY <2>1, <2>3, AnswerEnds DEF TypeInv
    <2>4. CASE /\ spc' = [spc EXCEPT ![s] = "check"]
               /\ method' = [method EXCEPT ![s] = req[s].op]
               /\ UNCHANGED <<req, seen, ptr, lck>>
      BY <2>1, <2>2, <2>4 DEF TypeInv, SessionTypes
    <2> QED
      BY <1>9, <2>3, <2>4 DEF Work
  <1>10. ASSUME NEW s \in Session, WorkFault(s)
         PROVE  TypeInv'
    BY <1>10 DEF WorkFault, TypeInv, MapTypes, SessionTypes, HistoryTypes, mapVars,
                 sessionVars, callVars, historyVars
  <1> QED
    BY <1>1, <1>2, <1>3, <1>4, <1>5, <1>6, <1>7, <1>8, <1>9, <1>10 DEF Next, Step

-----------------------------------------------------------------------------
(* What holds until a fault is kept by every step that is none.            *)

\* A session that waits, or works, serves a query on a key.
LEMMA ServesAKey ==
  ASSUME CacheAssumption, NEW s \in Session, SessionOk(s), spc[s] # "idle"
  PROVE  req[s] \in Request /\ req[s].key \in Key /\ req[s].op \in Methods
PROOF
  BY MethodKnown DEF SessionOk, CallOk

LEMMA ReceiveSafe ==
  ASSUME CacheAssumption, TypeInv, TypeInv', SafeInv,
         NEW s \in Session, NEW r \in Request, Receive(s, r)
  PROVE  SafeInv'
PROOF
  <1>1. Others(s) /\ SameObjects /\ holder' = holder
    BY ZenonT(60) DEF Receive, Others, SameObjects, TypeInv, SessionTypes, mapVars
  <1>2. EntryInv'
    BY <1>1, EntriesKept DEF SafeInv
  <1>3. ASSUME NEW x \in Session \ {s} PROVE SessionOk(x)'
    <2>1. x \in raced => x \in raced'
      BY DEF Receive
    <2> QED
      BY <1>1, <2>1, OthersKept DEF SafeInv
  <1>4. SessionOk(s)'
    <2>1. spc'[s] = "check" /\ req'[s] = r /\ ptr'[s] = Nothing
      BY DEF Receive, At, SafeInv, SessionOk, CallOk, TypeInv, SessionTypes
    <2>2. method'[s] \in Methods
      <3>1. "size" \in Methods /\ r.op \in Methods
        BY MethodKnown
      <3> QED
        BY ZenonT(60), <3>1 DEF Receive, TypeInv, SessionTypes
    <2> QED
      BY <2>1, <2>2, CacheAssumption
         DEF SessionOk, PtrOk, LockOk, CallOk, StillThere, InMethod, CacheAssumption
  <1> QED
    BY <1>2, <1>3, <1>4 DEF SafeInv

LEMMA CheckSafe ==
  ASSUME CacheAssumption, TypeInv, TypeInv', SafeInv, NEW s \in Session, Check(s)
  PROVE  SafeInv'
PROOF
  <1> DEFINE k == req[s].key
             m == method[s]
  <1>1. SameObjects /\ holder' = holder /\ raced' = raced
    BY DEF Check, SameObjects, mapVars, historyVars
  <1>2. EntryInv'
    BY <1>1, EntriesKept DEF SafeInv
  <1>3. ASSUME NEW x \in Session \ {s}, Others(s) PROVE SessionOk(x)'
    BY <1>1, <1>3, OthersKept DEF SafeInv
  <1>4. CASE \E e : Answer(s, e, -1)
    <2>1. Others(s) /\ Ended(s)
      BY <1>4, AnswerEnds DEF TypeInv
    <2> QED
      BY <1>2, <1>3, <2>1, EndedOk DEF SafeInv
  <1>5. CASE /\ spc' = [spc EXCEPT ![s] = CASE m = "allocate"   -> "create"
                                            [] m = "deallocate" -> "erase"
                                            [] OTHER            -> "fetch"]
             /\ seen' = [seen EXCEPT ![s] = TypeSeen(k)]
             /\ UNCHANGED <<req, method, ptr, lck>>
             /\ CASE m = "allocate"   -> AllocateError(k, req[s].type) = ""
                  [] m = "deallocate" -> TRUE
                  [] OTHER            -> CheckError(m, TypeSeen(k)) = ""
    <2>1. Others(s)
      BY <1>5 DEF Others, TypeInv, SessionTypes
    <2>2. k \in Key /\ req[s] \in Request /\ m \in Methods
      BY ServesAKey DEF Check, At, SafeInv, SessionOk, CallOk
    <2>3. PtrOk(s)
      BY DEF SafeInv, SessionOk
    <2>4. /\ spc'[s] = CASE m = "allocate"   -> "create"
                         [] m = "deallocate" -> "erase"
                         [] OTHER            -> "fetch"
          /\ seen'[s] = TypeSeen(k)
      BY <1>5 DEF TypeInv, SessionTypes
    <2>5. spc'[s] \in {"create", "erase", "fetch"}
      BY <2>4
    <2>6. PtrOk(s)'
      BY <1>1, <1>5, <2>3, <2>5 DEF PtrOk, Check, mapVars
    <2>7. LockOk(s)'
      BY <2>5 DEF LockOk
    <2>8. ASSUME spc'[s] = "fetch"
          PROVE  /\ m \in DOMAIN Supported /\ seen'[s] \in Supported[m]
                 /\ entry[k] \in Obj /\ seen'[s] = typeOf[entry[k]]
      <3> m # "allocate" /\ m # "deallocate"
        BY <2>4, <2>8
      <3>1. m \in DOMAIN Supported /\ CheckError(m, TypeSeen(k)) = ""
        <4>1. m \in DOMAIN Supported
          BY <2>2 DEF Methods
        <4>2. CheckError(m, TypeSeen(k)) = ""
          BY <1>5
        <4> QED
          BY <4>1, <4>2
      <3>2. TypeSeen(k) \in Supported[m] /\ TypeSeen(k) # ""
        BY <3>1, CheckPasses, SupportedTypes
      <3> QED
        BY <2>4, <3>1, <3>2 DEF TypeSeen
    <2>9. spc'[s] = "create" => req[s].type \in ContainerTypes
      <3>1. spc'[s] = "create" => m = "allocate"
        BY <2>4
      <3>2. m = "allocate" => AllocateError(k, req[s].type) = ""
        BY <1>5
      <3> QED
        BY <3>1, <3>2 DEF AllocateError
    <2>10. CallOk(s)'
      BY <1>5, <2>2, <2>5, <2>8, <2>9 DEF CallOk, InMethod
    <2>11. StillThere(s)'
      BY <1>1, <1>5, <2>5, <2>8 DEF StillThere, InMethod, Check, mapVars
    <2>12. SessionOk(s)'
      BY <2>6, <2>7, <2>10, <2>11 DEF SessionOk
    <2> QED
      BY <1>2, <1>3, <2>1, <2>12 DEF SafeInv
  <1> QED
    BY <1>4, <1>5 DEF Check

LEMMA CreateSafe ==
  ASSUME CacheAssumption, TypeInv, TypeInv', SafeInv, NEW s \in Session, Create(s)
  PROVE  SafeInv'
PROOF
  <1> DEFINE k == req[s].key
  <1>1. k \in Key /\ req[s].type \in ContainerTypes
    BY ServesAKey DEF Create, At, SafeInv, SessionOk, CallOk
  <1>2. PICK o \in Obj : /\ typeOf[o] = Nothing
                         /\ entry' = [entry EXCEPT ![k] = o]
                         /\ typeOf' = [typeOf EXCEPT ![o] = req[s].type]
    BY DEF Create
  <1>3. Others(s) /\ Ended(s)
    BY AnswerEnds DEF Create, TypeInv
  <1>4. /\ \A p \in Obj : p # o => typeOf'[p] = typeOf[p]
        /\ typeOf'[o] # Nothing
    BY <1>1, <1>2, CacheAssumption DEF TypeInv, MapTypes, CacheAssumption
  <1>5. freed' = freed /\ holder' = holder /\ raced' = raced \cup InMethodOn(s, k)
    BY DEF Create
  <1>6. EntryInv'
    <2>1. entry'[k] = o /\ \A j \in Key : j # k => entry'[j] = entry[j]
      BY <1>1, <1>2 DEF TypeInv, MapTypes
    <2>2. \A j \in Key : entry[j] # o
      BY <1>2 DEF SafeInv, EntryInv
    <2>3. o \notin freed
      BY <1>2 DEF SafeInv, EntryInv
    <2>4. \A p \in freed' : typeOf'[p] # Nothing
      BY <1>4, <1>5 DEF SafeInv, EntryInv, TypeInv, MapTypes
    <2>5. ASSUME NEW j \in Key, entry'[j] \in Obj
          PROVE  /\ entry'[j] \notin freed' /\ typeOf'[entry'[j]] # Nothing
                 /\ \A i \in Key : entry'[i] = entry'[j] => i = j
      <3>1. CASE j = k
        BY <1>4, <1>5, <2>1, <2>2, <2>3, <3>1
      <3>2. CASE j # k
        <4>1. entry[j] \in Obj /\ entry'[j] = entry[j] /\ entry[j] # o
          BY <2>1, <2>2, <2>5, <3>2
        <4>2. /\ entry[j] \notin freed /\ typeOf[entry[j]] # Nothing
              /\ \A i \in Key : entry[i] = entry[j] => i = j
          BY <4>1 DEF SafeInv, EntryInv
        <4>3. ASSUME NEW i \in Key, entry'[i] = entry'[j] PROVE i = j
          BY <2>1, <4>1, <4>2, <4>3
        <4> QED
          BY <1>4, <1>5, <4>1, <4>2, <4>3
      <3> QED
        BY <3>1, <3>2
    <2> QED
      BY <2>4, <2>5 DEF EntryInv
  <1>7. ASSUME NEW x \in Session \ {s} PROVE SessionOk(x)'
    BY <1>1, <1>2, <1>3, <1>4, <1>5, OthersRaced DEF SafeInv
  <1> QED
    BY <1>3, <1>6, <1>7, EndedOk DEF SafeInv

LEMMA EraseSafe ==
  ASSUME CacheAssumption, TypeInv, TypeInv', SafeInv, NEW s \in Session, Erase(s)
  PROVE  SafeInv'
PROOF
  <1> DEFINE k == req[s].key
  <1>1. k \in Key
    BY ServesAKey DEF Erase, At, SafeInv
  <1>2. Others(s) /\ Ended(s)
    BY AnswerEnds DEF Erase, TypeInv
  <1>3. /\ entry' = [entry EXCEPT ![k] = Nothing] /\ typeOf' = typeOf /\ holder' = holder
        /\ freed' = freed \cup ({entry[k]} \cap Obj)
        /\ raced' = raced \cup InMethodOn(s, k)
    BY DEF Erase
  <1>4. Nothing \notin Obj
    BY CacheAssumption DEF CacheAssumption
  <1>5. entry'[k] = Nothing /\ \A j \in Key : j # k => entry'[j] = entry[j]
    BY <1>1, <1>3 DEF TypeInv, MapTypes
  <1>6. EntryInv'
    BY <1>1, <1>3, <1>4, <1>5 DEF SafeInv, EntryInv
  <1>7. ASSUME NEW x \in Session \ {s} PROVE SessionOk(x)'
    <2>1. freed \subseteq freed' /\ \A o \in freed' \ freed : o = entry[k]
      BY <1>3
    <2> QED
      BY <1>1, <1>2, <1>3, <1>4, <2>1, OthersRaced DEF SafeInv
  <1> QED
    BY <1>2, <1>6, <1>7, EndedOk DEF SafeInv

LEMMA FetchSafe ==
  ASSUME CacheAssumption, TypeInv, TypeInv', SafeInv, NEW s \in Session, Fetch(s)
  PROVE  SafeInv'
PROOF
  <1> DEFINE k == req[s].key
  <1>1. k \in Key /\ spc[s] = "fetch" /\ spc[s] # "idle"
    BY ServesAKey DEF Fetch, Goto, At, SafeInv
  <1>2. Others(s)
    BY DEF Fetch, Goto, Others, TypeInv, SessionTypes
  <1>3. /\ entry' = [entry EXCEPT ![k] = IF @ = Nothing THEN Null ELSE @]
        /\ typeOf' = typeOf /\ holder' = holder /\ freed' = freed /\ raced' = raced
        /\ req' = req /\ method' = method /\ seen' = seen /\ lck' = lck
    BY DEF Fetch, historyVars
  <1>4. spc'[s] = "getlock" /\ ptr'[s] = entry'[k]
    BY DEF Fetch, Goto, TypeInv, SessionTypes
  <1>5. SameObjects
    <2>1. /\ entry'[k] = IF entry[k] = Nothing THEN Null ELSE entry[k]
          /\ \A j \in Key : j # k => entry'[j] = entry[j]
      BY <1>1, <1>3 DEF TypeInv, MapTypes
    <2> QED
      BY <1>1, <1>3, <2>1, CacheAssumption DEF SameObjects, CacheAssumption
  <1>6. EntryInv'
    BY <1>5, EntriesKept DEF SafeInv
  <1>7. ASSUME NEW x \in Session \ {s} PROVE SessionOk(x)'
    BY <1>2, <1>3, <1>5, OthersKept DEF SafeInv
  <1>8. PtrOk(s)'
    BY <1>1, <1>3, <1>4, <1>6 DEF PtrOk, EntryInv
  <1>9. LockOk(s)'
    BY <1>4 DEF LockOk
  <1>10. CallOk(s)'
    BY <1>1, <1>3, <1>4 DEF SafeInv, SessionOk, CallOk, InMethod
  <1>11. StillThere(s)'
    BY <1>1, <1>3, <1>4, <1>5 DEF SafeInv, SessionOk, StillThere, InMethod, SameObjects
  <1> QED
    BY <1>6, <1>7, <1>8, <1>9, <1>10, <1>11 DEF SafeInv, SessionOk

LEMMA GetLockSafe ==
  ASSUME CacheAssumption, TypeInv, TypeInv', SafeInv, NEW s \in Session, GetLock(s),
         fault' = Nothing
  PROVE  SafeInv'
PROOF
  <1> DEFINE k == req[s].key
  <1>1. k \in Key /\ spc[s] = "getlock" /\ spc[s] # "idle"
    BY ServesAKey DEF GetLock, Goto, At, SafeInv
  <1>2. entry[k] \in Obj /\ lck' = [lck EXCEPT ![s] = entry[k]]
    BY CacheAssumption DEF GetLock, CacheAssumption
  <1>3. Others(s)
    BY <1>2 DEF GetLock, Goto, Others, TypeInv, SessionTypes
  <1>4. /\ SameObjects /\ entry' = entry /\ typeOf' = typeOf /\ freed' = freed
        /\ holder' = holder /\ raced' = raced
        /\ req' = req /\ method' = method /\ seen' = seen /\ ptr' = ptr
    BY DEF GetLock, SameObjects, mapVars, historyVars
  <1>5. spc'[s] = "lock" /\ lck'[s] = entry[k]
    BY <1>2 DEF GetLock, Goto, TypeInv, SessionTypes
  <1>6. EntryInv'
    BY <1>4, EntriesKept DEF SafeInv
  <1>7. ASSUME NEW x \in Session \ {s} PROVE SessionOk(x)'
    BY <1>3, <1>4, OthersKept DEF SafeInv
  <1>8. PtrOk(s)'
    BY <1>1, <1>4, <1>5 DEF SafeInv, SessionOk, PtrOk
  <1>9. LockOk(s)'
    BY <1>2, <1>5 DEF LockOk
  <1>10. CallOk(s)'
    BY <1>1, <1>4, <1>5 DEF SafeInv, SessionOk, CallOk, InMethod
  <1>11. StillThere(s)'
    BY <1>1, <1>4, <1>5 DEF SafeInv, SessionOk, StillThere, InMethod
  <1> QED
    BY <1>6, <1>7, <1>8, <1>9, <1>10, <1>11 DEF SafeInv, SessionOk

LEMMA LockSafe ==
  ASSUME CacheAssumption, TypeInv, TypeInv', SafeInv, NEW s \in Session, Lock(s),
         fault' = Nothing
  PROVE  SafeInv'
PROOF
  <1> DEFINE l == lck[s]
  <1>1. spc[s] = "lock" /\ l \in Obj
    BY DEF Lock, Goto, At, SafeInv, SessionOk, LockOk
  <1>2. holder[l] = Nothing /\ holder' = [holder EXCEPT ![l] = s]
    BY CacheAssumption DEF Lock, CacheAssumption
  <1>3. Others(s)
    BY DEF Lock, Goto, Others, callVars, TypeInv, SessionTypes
  <1>4. /\ SameObjects /\ entry' = entry /\ typeOf' = typeOf /\ freed' = freed
        /\ raced' = raced /\ req' = req /\ method' = method /\ seen' = seen
        /\ ptr' = ptr /\ lck' = lck
    BY DEF Lock, SameObjects, callVars, historyVars
  <1>5. spc'[s] = "work" /\ holder'[l] = s
    BY ZenonT(60), <1>1, <1>2 DEF Lock, Goto, TypeInv, MapTypes, SessionTypes
  <1>6. EntryInv'
    BY <1>4, EntriesKept DEF SafeInv
  <1>7. ASSUME NEW x \in Session \ {s} PROVE SessionOk(x)'
    <2>1. holder[lck[x]] = x => holder'[lck[x]] = x
      BY <1>1, <1>2, CacheAssumption DEF CacheAssumption, TypeInv, MapTypes
    <2>2. x \in raced => x \in raced'
      BY <1>4
    <2> QED
      BY <1>3, <1>4, <2>1, <2>2, OthersKept DEF SafeInv
  <1>8. PtrOk(s)'
    BY <1>1, <1>4, <1>5 DEF SafeInv, SessionOk, PtrOk
  <1>9. LockOk(s)'
    BY <1>1, <1>4, <1>5 DEF LockOk
  <1>10. CallOk(s)'
    BY <1>1, <1>4, <1>5 DEF SafeInv, SessionOk, CallOk, InMethod
  <1>11. StillThere(s)'
    BY <1>1, <1>4, <1>5 DEF SafeInv, SessionOk, StillThere, InMethod
  <1> QED
    BY <1>6, <1>7, <1>8, <1>9, <1>10, <1>11 DEF SafeInv, SessionOk

LEMMA WorkSafe ==
  ASSUME CacheAssumption, TypeInv, TypeInv', SafeInv, NEW s \in Session, Work(s)
  PROVE  SafeInv'
PROOF
  <1>1. spc[s] = "work" /\ lck[s] \in Obj /\ (lck[s] \notin freed => holder[lck[s]] = s)
    BY DEF Work, At, SafeInv, SessionOk, LockOk
  <1>2. /\ SameObjects /\ entry' = entry /\ typeOf' = typeOf /\ freed' = freed
        /\ raced' = raced
        /\ holder' = holder \/ holder' = [holder EXCEPT ![lck[s]] = Nothing]
    BY DEF Work, SameObjects
  <1>3. req[s] \in Request /\ req[s].op \in Methods
    BY <1>1, ServesAKey DEF SafeInv
  <1>4. EntryInv'
    BY <1>2, EntriesKept DEF SafeInv
  <1>5. ASSUME NEW x \in Session \ {s}, Others(s) PROVE SessionOk(x)'
    <2>1. spc[x] = "work" /\ lck[x] \notin freed /\ holder[lck[x]] = x => holder'[lck[x]] = x
      <3>1. spc[x] = "work" => lck[x] \in Obj
        BY DEF SafeInv, SessionOk, LockOk
      <3> QED
        BY <1>1, <1>2, <3>1 DEF TypeInv, MapTypes
    <2>2. x \in raced => x \in raced'
      BY <1>2
    <2> QED
      BY <1>2, <1>5, <2>1, <2>2, OthersKept DEF SafeInv
  <1>6. CASE \E e, v : Answer(s, e, v)
    <2>1. Others(s) /\ Ended(s)
      BY <1>6, AnswerEnds DEF TypeInv
    <2> QED
      BY <1>4, <1>5, <2>1, EndedOk DEF SafeInv
  <1>7. CASE /\ spc' = [spc EXCEPT ![s] = "check"]
             /\ method' = [method EXCEPT ![s] = req[s].op]
             /\ UNCHANGED <<req, seen, ptr, lck>>
    <2>1. Others(s)
      BY <1>7 DEF Others, TypeInv, SessionTypes
    <2>2. spc'[s] = "check" /\ method'[s] = req[s].op
      BY <1>7 DEF TypeInv, SessionTypes
    <2>3. PtrOk(s)'
      BY <1>2, <1>7, <2>2 DEF SafeInv, SessionOk, PtrOk
    <2>4. LockOk(s)' /\ CallOk(s)' /\ StillThere(s)'
      BY <1>3, <1>7, <2>2 DEF LockOk, CallOk, StillThere, InMethod
    <2> QED
      BY <1>4, <1>5, <2>1, <2>3, <2>4 DEF SafeInv, SessionOk
  <1> QED
    BY <1>6, <1>7 DEF Work

LEMMA SafeKept ==
  ASSUME CacheAssumption, TypeInv, TypeInv', SafeInv, [Next]_vars, fault' = Nothing
  PROVE  SafeInv'
PROOF
  <1>1. CASE UNCHANGED vars
    BY <1>1 DEF SafeInv, EntryInv, SessionOk, PtrOk, LockOk, CallOk, StillThere, vars,
                mapVars, sessionVars, callVars, historyVars
  <1>2. ASSUME NEW s \in Session, WorkFault(s)
        PROVE  FALSE
    BY <1>2, CacheAssumption DEF WorkFault, CacheAssumption
  <1> QED
    BY <1>1, <1>2, ReceiveSafe, CheckSafe, CreateSafe, EraseSafe, FetchSafe, GetLockSafe,
       LockSafe, WorkSafe DEF Next, Step

-----------------------------------------------------------------------------
(* Faults.                                                                 *)

\* A session that nobody raced works on its container alone: another that had
\* the same pointer would have looked up the same lock.
LEMMA WorksAlone ==
  ASSUME CacheAssumption, TypeInv, SafeInv, NEW s \in Session, NEW x \in Session \ {s},
         s \notin raced, spc[s] = "work", spc[x] = "work"
  PROVE  ptr[x] # ptr[s]
PROOF
  <1>1. SUFFICES ASSUME ptr[x] = ptr[s] PROVE FALSE
    OBVIOUS
  <1>2. req[s].key \in Key /\ req[x].key \in Key
    BY ServesAKey DEF SafeInv
  <1>3. /\ entry[req[s].key] \in Obj
        /\ ptr[s] = entry[req[s].key] /\ lck[s] = entry[req[s].key]
    BY DEF SafeInv, SessionOk, StillThere, InMethod
  <1>4. entry[req[s].key] \notin freed
    BY <1>2, <1>3 DEF SafeInv, EntryInv
  <1>5. req[x].key = req[s].key
    BY <1>1, <1>2, <1>3 DEF SafeInv, SessionOk, PtrOk
  <1>6. lck[x] = lck[s]
    BY <1>1, <1>3, <1>5 DEF SafeInv, SessionOk, PtrOk
  <1> QED
    BY <1>3, <1>4, <1>6 DEF SafeInv, SessionOk, LockOk

LEMMA SafeExclusive == TypeInv /\ SafeInv => ExclusiveWork
PROOF
  BY CacheAssumption, WorksAlone DEF ExclusiveWork

\* It never meets undefined behaviour in its work, but for the unlock()'s look-up.
LEMMA WorksOnItsOwn ==
  ASSUME CacheAssumption, TypeInv, SafeInv, NEW s \in Session, s \notin raced,
         spc[s] = "work"
  PROVE  ~WorkFaults(s)
PROOF
  <1>1. /\ entry[req[s].key] \in Obj /\ seen[s] = typeOf[entry[req[s].key]]
        /\ ptr[s] = entry[req[s].key] /\ lck[s] = entry[req[s].key]
    BY DEF SafeInv, SessionOk, StillThere, InMethod
  <1>2. req[s].key \in Key
    BY ServesAKey DEF SafeInv
  <1>3. entry[req[s].key] \notin freed
    BY <1>1, <1>2 DEF SafeInv, EntryInv
  <1>4. ~\E x \in Session \ {s} : spc[x] = "work" /\ ptr[x] = ptr[s]
    BY WorksAlone
  <1> QED
    BY <1>1, <1>3, <1>4 DEF WorkFaults

\* A step that is a fault is one of a session that is raced, or that looks up a
\* lock while another session changes the tree.
LEMMA FaultKept ==
  ASSUME CacheAssumption, TypeInv, SafeInv, NEW s \in Session, Step(s), fault = Nothing,
         fault' # Nothing
  PROVE  /\ fault' = s /\ raced' = raced /\ ptr' = ptr
         /\ \A x \in Session \ {s} : spc'[x] = spc[x]
         /\ s \in raced \/ Rebalancing(s)
         /\ spc'[s] = "work" => s \in raced \/ spc[s] = "work"
PROOF
  <1>1. ~Check(s) /\ ~Create(s) /\ ~Erase(s) /\ ~Fetch(s) /\ ~Work(s)
    BY DEF Check, Create, Erase, Fetch, Work, historyVars
  <1>2. CASE GetLock(s)
    <2>1. spc[s] = "getlock" /\ spc' = [spc EXCEPT ![s] = "lock"]
      BY <1>2 DEF GetLock, Goto, At
    <2>2. fault' = s /\ raced' = raced /\ ptr' = ptr
      BY <1>2 DEF GetLock, historyVars
    <2>3. entry[req[s].key] \notin Obj \/ Rebalancing(s)
      BY <1>2 DEF GetLock
    <2>4. s \notin raced => entry[req[s].key] \in Obj
      BY <2>1 DEF SafeInv, SessionOk, StillThere, InMethod
    <2> QED
      BY <2>1, <2>2, <2>3, <2>4 DEF TypeInv, SessionTypes
  <1>3. CASE Lock(s)
    <2>1. spc[s] = "lock" /\ spc' = [spc EXCEPT ![s] = "work"]
      BY <1>3 DEF Lock, Goto, At
    <2>2. fault' = s /\ raced' = raced /\ ptr' = ptr /\ lck[s] \in freed
      BY <1>3 DEF Lock, historyVars, callVars
    <2>3. req[s].key \in Key
      BY <2>1, ServesAKey DEF SafeInv
    <2>4. s \notin raced => lck[s] \notin freed
      BY <2>1, <2>3 DEF SafeInv, SessionOk, StillThere, EntryInv, InMethod
    <2> QED
      BY <2>1, <2>2, <2>4 DEF TypeInv, SessionTypes
  <1>4. CASE WorkFault(s)
    <2>1. s \in raced \/ Rebalancing(s)
      BY <1>4, WorksOnItsOwn DEF WorkFault, At
    <2> QED
      BY <1>4, <2>1 DEF WorkFault, At, sessionVars, callVars, historyVars
  <1> QED
    BY <1>1, <1>2, <1>3, <1>4 DEF Step

FaultInv ==
  /\ TypeInv /\ FaultNeedsRace /\ ExclusiveWork
  /\ fault = Nothing => SafeInv

LEMMA FaultInvInitially == CacheAssumption /\ Init => FaultInv
PROOF
  <1> SUFFICES ASSUME CacheAssumption, Init PROVE FaultInv
    OBVIOUS
  <1>1. TypeInv
    BY TypesInitially
  <1>2. FaultNeedsRace /\ ExclusiveWork
    BY DEF Init, FaultNeedsRace, ExclusiveWork
  <1>3. EntryInv
    BY CacheAssumption DEF Init, EntryInv, CacheAssumption
  <1>4. ASSUME NEW s \in Session PROVE SessionOk(s)
    BY CacheAssumption DEF Init, SessionOk, PtrOk, LockOk, CallOk, StillThere, InMethod,
                           CacheAssumption
  <1> QED
    BY <1>1, <1>2, <1>3, <1>4 DEF FaultInv, SafeInv

LEMMA FaultInvKept == CacheAssumption /\ FaultInv /\ [Next]_vars => FaultInv'
PROOF
  <1> SUFFICES ASSUME CacheAssumption, FaultInv, [Next]_vars PROVE FaultInv'
    OBVIOUS
  <1>1. TypeInv'
    BY TypesKept DEF FaultInv
  <1>2. CASE UNCHANGED vars
    <2>1. FaultNeedsRace' /\ ExclusiveWork'
      BY <1>2 DEF FaultInv, FaultNeedsRace, ExclusiveWork, Rebalancing, vars, mapVars,
                  sessionVars, callVars, historyVars
    <2>2. fault' = fault
      BY <1>2 DEF vars
    <2> QED
      BY <1>1, <2>1, <2>2, SafeKept DEF FaultInv
  <1>3. CASE Next /\ fault' = Nothing
    <2>1. fault = Nothing
      BY ZenonT(60), <1>3 DEF Next, Step, Receive, Check, Create, Erase, Fetch, GetLock, Lock, Work,
                  WorkFault, Goto, At
    <2>2. SafeInv'
      BY <1>1, <1>3, <2>1, SafeKept DEF FaultInv
    <2>3. ExclusiveWork'
      BY <1>1, <2>2, SafeExclusive, PTL
    <2> QED
      BY <1>1, <1>3, <2>2, <2>3 DEF FaultInv, FaultNeedsRace
  <1>4. CASE Next /\ fault' # Nothing
    <2>1. fault = Nothing
      BY ZenonT(60), <1>4 DEF Next, Step, Receive, Check, Create, Erase, Fetch, GetLock, Lock, Work,
                  WorkFault, Goto, At
    <2>2. PICK s \in Session : Step(s)
      BY <1>4, <2>1 DEF Next, Receive
    <2>3. /\ fault' = s /\ raced' = raced /\ ptr' = ptr
          /\ \A x \in Session \ {s} : spc'[x] = spc[x]
          /\ s \in raced \/ Rebalancing(s)
          /\ spc'[s] = "work" => s \in raced \/ spc[s] = "work"
      BY <1>4, <2>1, <2>2, FaultKept DEF FaultInv
    <2>4. FaultNeedsRace'
      BY <2>3 DEF FaultNeedsRace, Rebalancing
    <2>5. ExclusiveWork'
      BY <2>3 DEF FaultInv, ExclusiveWork
    <2> QED
      BY <1>1, <1>4, <2>4, <2>5 DEF FaultInv
  <1> QED
    BY <1>2, <1>3, <1>4

LEMMA FaultInvCorrect == Spec => []FaultInv
PROOF
  BY CacheAssumption, FaultInvInitially, FaultInvKept, PTL DEF Spec

\* Undefined behaviour is met only by a session that another one raced, or that
\* looks up a lock while another one allocates or deallocates, with any number of
\* sessions, keys and containers.
THEOREM FaultsNeedRaces == Spec => []FaultNeedsRace
PROOF
  <1>1. FaultInv => FaultNeedsRace
    BY DEF FaultInv
  <1> QED
    BY <1>1, FaultInvCorrect, PTL

\* Two sessions that nobody raced never work on one container at a time.
THEOREM WorkIsExclusive == Spec => []ExclusiveWork
PROOF
  <1>1. FaultInv => ExclusiveWork
    BY DEF FaultInv
  <1> QED
    BY <1>1, FaultInvCorrect, PTL

-----------------------------------------------------------------------------
(* Queues.                                                                 *)

\* An element added to the second of two sequences is added to their whole.
LEMMA AppendToWhole ==
  ASSUME NEW S, NEW t \in Seq(S), NEW c \in Seq(S), NEW v \in S
  PROVE  t \o Append(c, v) = Append(t \o c, v)
PROOF
  <1>1. Append(c, v) \in Seq(S) /\ Len(Append(c, v)) = Len(c) + 1
    OBVIOUS
  <1>2. t \o c \in Seq(S) /\ Len(t \o c) = Len(t) + Len(c)
    BY ConcatProperties
  <1>3. /\ t \o Append(c, v) \in Seq(S)
        /\ Len(t \o Append(c, v)) = Len(t) + Len(c) + 1
    BY <1>1, ConcatProperties
  <1>4. /\ Append(t \o c, v) \in Seq(S)
        /\ Len(Append(t \o c, v)) = Len(t) + Len(c) + 1
    BY <1>2
  <1>5. ASSUME NEW i \in 1 .. Len(t \o Append(c, v))
        PROVE  (t \o Append(c, v))[i] = Append(t \o c, v)[i]
    OBVIOUS
  <1> QED
    BY <1>3, <1>4, <1>5, SeqEqual

\* Moving the head of the second to the end of the first leaves the whole as it was.
LEMMA MoveHead ==
  ASSUME NEW S, NEW t \in Seq(S), NEW c \in Seq(S), c # <<>>
  PROVE  /\ Append(t, Head(c)) \in Seq(S) /\ Tail(c) \in Seq(S)
         /\ Append(t, Head(c)) \o Tail(c) = t \o c
PROOF
  <1>1. Head(c) \in S /\ Tail(c) \in Seq(S) /\ Len(Tail(c)) = Len(c) - 1
    BY HeadTailProperties
  <1>2. Append(t, Head(c)) \in Seq(S) /\ Len(Append(t, Head(c))) = Len(t) + 1
    BY <1>1
  <1>3. /\ Append(t, Head(c)) \o Tail(c) \in Seq(S)
        /\ Len(Append(t, Head(c)) \o Tail(c)) = Len(t) + Len(c)
    BY <1>1, <1>2, ConcatProperties
  <1>4. t \o c \in Seq(S) /\ Len(t \o c) = Len(t) + Len(c)
    BY ConcatProperties
  <1>5. ASSUME NEW i \in 1 .. Len(t \o c)
        PROVE  (Append(t, Head(c)) \o Tail(c))[i] = (t \o c)[i]
    OBVIOUS
  <1> QED
    BY <1>1, <1>2, <1>3, <1>4, <1>5, SeqEqual

\* What a method leaves in a queue, and when it fails.
QueueMethod(m, c, v, left, err) ==
  /\ m = "add" => err = "" /\ left = Append(c, v)
  /\ m \in {"pop", "popget"} => (err = "" <=> c # <<>>) /\ left = Tail(c)
  /\ m \in {"size", "isempty", "getfront", "getback"} => left = c

LEMMA QueueMethods ==
  ASSUME NEW m, NEW c, NEW r, NEW i
  PROVE  QueueMethod(m, c, r.val, Changed(m, "queue", c, r, i), BoundsError(m, c, r))
PROOF
  BY DEF QueueMethod, BoundsError, Changed, Positional, AddCollectionEntry, PopValueQueue,
         PopGetValueQueue

\* A session works on one container, which is allocated and of a type its method
\* is made for.
LEMMA WorksOnType ==
  ASSUME CacheAssumption, SafeInv, NEW s \in Session, Work(s)
  PROVE  /\ ptr[s] \in Obj /\ method[s] \in DOMAIN Supported
         /\ typeOf[ptr[s]] \in Supported[method[s]] /\ typeOf[ptr[s]] # Nothing
PROOF
  <1>1. ptr[s] \in Obj /\ typeOf[ptr[s]] = seen[s]
    BY DEF Work, WorkFaults
  <1>2. method[s] \in DOMAIN Supported /\ seen[s] \in Supported[method[s]]
    BY DEF Work, At, SafeInv, SessionOk, CallOk, InMethod
  <1> QED
    BY <1>1, <1>2, SupportedTypes, CacheAssumption DEF CacheAssumption

\* The elements that a method puts in a container and takes out of it.
Puts(o, m, c, v, left, err) ==
  /\ contents' = IF err # "" THEN contents ELSE [contents EXCEPT ![o] = left]
  /\ added' = IF m = "add" THEN [added EXCEPT ![o] = Append(@, v)] ELSE added
  /\ taken' = IF m \in {"pop", "popget"} /\ err = ""
              THEN [taken EXCEPT ![o] = Append(@, Head(c))] ELSE taken

LEMMA QueueStaysInOrder ==
  ASSUME QueueInv, NEW o \in Obj, NEW m, NEW c, NEW v \in Values, NEW left, NEW err,
         m \in {"add", "size", "isempty", "pop", "popget", "getfront", "getback"},
         InOrder(o), c = contents[o], QueueMethod(m, c, v, left, err),
         Puts(o, m, c, v, left, err)
  PROVE  InOrder(o)'
PROOF
  <1> PICK t : t = taken[o]
    OBVIOUS
  <1>1. c \in Seq(Values) /\ t \in Seq(Values) /\ added[o] = t \o c
    BY DEF InOrder
  <1>2. \A a, b \in Seq(Values), w \in Values : a \o Append(b, w) = Append(a \o b, w)
    BY AppendToWhole
  <1>3. \A a, b \in Seq(Values) : b # <<>> =>
          /\ Append(a, Head(b)) \in Seq(Values) /\ Tail(b) \in Seq(Values)
          /\ Append(a, Head(b)) \o Tail(b) = a \o b
    BY MoveHead
  <1>4. CASE m = "add"
    <2>1. /\ contents'[o] = Append(c, v) /\ added'[o] = Append(added[o], v)
          /\ taken'[o] = t
      BY <1>4 DEF QueueInv, QueueMethod, Puts
    <2>2. t \o Append(c, v) = Append(t \o c, v)
      BY <1>1, <1>2
    <2>3. Append(c, v) \in Seq(Values)
      BY <1>1
    <2> QED
      BY <1>1, <2>1, <2>2, <2>3 DEF InOrder
  <1>5. CASE m \in {"pop", "popget"} /\ err = ""
    <2>1. c # <<>> /\ left = Tail(c)
      BY <1>5 DEF QueueMethod
    <2>2. /\ contents'[o] = Tail(c) /\ added'[o] = added[o]
          /\ taken'[o] = Append(t, Head(c))
      BY <1>5, <2>1 DEF QueueInv, Puts
    <2>3. /\ Append(t, Head(c)) \in Seq(Values) /\ Tail(c) \in Seq(Values)
          /\ Append(t, Head(c)) \o Tail(c) = t \o c
      BY <1>1, <1>3, <2>1
    <2> QED
      BY <1>1, <2>2, <2>3 DEF InOrder
  <1>6. CASE \/ m \in {"pop", "popget"} /\ err # ""
             \/ m \in {"size", "isempty", "getfront", "getback"}
    <2>1. contents'[o] = c /\ added'[o] = added[o] /\ taken'[o] = t
      BY <1>6 DEF QueueInv, QueueMethod, Puts
    <2> QED
      BY <1>1, <2>1 DEF InOrder
  <1> QED
    BY <1>4, <1>5, <1>6

LEMMA WorkKeepsOrder ==
  ASSUME CacheAssumption, SafeInv, QueueInv, NEW s \in Session, Work(s)
  PROVE  QueueInv'
PROOF
  <1>1. PICK o \in Obj : o = ptr[s] /\ typeOf[o] # Nothing
    BY WorksOnType
  <1>2. PICK m \in DOMAIN Supported : m = method[s] /\ typeOf[o] \in Supported[m]
    BY <1>1, WorksOnType
  <1>3. PICK r \in Request : r = req[s] /\ r.val \in Values
    BY MethodKnown DEF Work, At, SafeInv, SessionOk, CallOk
  <1>4. PICK c, v, left, err :
          /\ c = contents[o] /\ v = r.val
          /\ left = Changed(m, typeOf[o], c, r, r.pos + 1) /\ err = BoundsError(m, c, r)
    OBVIOUS
  <1>5. v \in Values
    BY <1>3, <1>4
  <1>6. Puts(o, m, c, v, left, err) /\ typeOf' = typeOf
    BY <1>1, <1>2, <1>3, <1>4 DEF Work, Puts
  <1>7. DOMAIN contents' = Obj /\ DOMAIN added' = Obj /\ DOMAIN taken' = Obj
    BY <1>6 DEF QueueInv, Puts
  <1>8. ASSUME NEW p \in Obj, p # o
        PROVE  contents'[p] = contents[p] /\ added'[p] = added[p] /\ taken'[p] = taken[p]
    BY <1>6, <1>8 DEF QueueInv, Puts
  <1>9. ASSUME typeOf[o] = "queue" PROVE InOrder(o)'
    <2>1. m \in {"add", "size", "isempty", "pop", "popget", "getfront", "getback"}
      BY <1>2, <1>9, SupportedTypes
    <2>2. InOrder(o)
      BY <1>9 DEF QueueInv
    <2>3. QueueMethod(m, c, v, left, err)
      BY <1>4, <1>9, QueueMethods
    <2> QED
      BY <1>4, <1>5, <1>6, <2>1, <2>2, <2>3, QueueStaysInOrder
  <1>10. ASSUME NEW p \in Obj
         PROVE  /\ typeOf'[p] = Nothing => Empty(p)'
                /\ typeOf'[p] = "queue" => InOrder(p)'
    <2>1. CASE p = o
      BY <1>1, <1>6, <1>9, <2>1
    <2>2. CASE p # o
      BY <1>6, <1>8, <2>2 DEF QueueInv, InOrder, Empty
    <2> QED
      BY <2>1, <2>2
  <1> QED
    BY <1>7, <1>10 DEF QueueInv

LEMMA QueueKept ==
  ASSUME CacheAssumption, FaultInv, QueueInv, [Next]_vars
  PROVE  QueueInv'
PROOF
  <1>1. CASE UNCHANGED <<typeOf, contents, added, taken>>
    BY <1>1 DEF QueueInv, InOrder, Empty
  <1>2. ASSUME NEW s \in Session, Create(s)
        PROVE  QueueInv'
    <2>1. PICK o \in Obj : typeOf[o] = Nothing /\ typeOf' = [typeOf EXCEPT ![o] = req[s].type]
      BY <1>2 DEF Create
    <2>2. contents' = contents /\ added' = added /\ taken' = taken
      BY <1>2 DEF Create
    <2>3. Empty(o) /\ \A p \in Obj : p # o => typeOf'[p] = typeOf[p]
      BY <2>1 DEF QueueInv, FaultInv, TypeInv, MapTypes
    <2>4. Empty(o)' /\ InOrder(o)'
      <3>1. <<>> \in Seq(Values) /\ <<>> \o <<>> = <<>>
        OBVIOUS
      <3> QED
        BY <2>2, <2>3, <3>1 DEF Empty, InOrder
    <2>5. ASSUME NEW p \in Obj, p # o
          PROVE  /\ typeOf'[p] = Nothing => Empty(p)'
                 /\ typeOf'[p] = "queue" => InOrder(p)'
      BY <2>2, <2>3, <2>5 DEF QueueInv, Empty, InOrder
    <2> QED
      BY <2>2, <2>4, <2>5 DEF QueueInv
  <1>3. ASSUME NEW s \in Session, Work(s)
        PROVE  QueueInv'
    BY <1>3, WorkKeepsOrder DEF FaultInv, Work, At
  <1> QED
    BY <1>1, <1>2, <1>3 DEF Next, Step, Receive, Check, Erase, Fetch, GetLock, Lock,
       WorkFault, vars, mapVars, sessionVars, callVars, historyVars

LEMMA QueueInvInitially == Init => QueueInv
PROOF
  <1>1. "queue" \in ContainerTypes
    BY DEF ContainerTypes, Collections
  <1>2. Nothing # "queue"
    BY <1>1, CacheAssumption DEF CacheAssumption
  <1> QED
    BY ZenonT(60), <1>2 DEF Init, QueueInv, Empty

\* A queue gives its values out in the order in which they came, whatever number of
\* sessions fill and empty it, and whatever they do to its key meanwhile.
THEOREM QueueOrder == Spec => []QueueFIFO
PROOF
  <1>1. Init => QueueInv
    BY QueueInvInitially
  <1>2. FaultInv /\ QueueInv /\ [Next]_vars => QueueInv'
    BY CacheAssumption, QueueKept
  <1>3. QueueInv => QueueFIFO
    BY DEF QueueInv, InOrder, QueueFIFO
  <1> QED
    BY <1>1, <1>2, <1>3, FaultInvCorrect, PTL DEF Spec

-----------------------------------------------------------------------------
(* Sets and maps.                                                          *)

\* A set of numbers that is not empty has a least one.
LEMMA LeastNatural ==
  ASSUME NEW S \in SUBSET Nat, S # {}
  PROVE  \E m \in S : \A n \in S : m <= n
PROOF
  <1>1. PICK m \in S : \A n \in S : <<n, m>> \notin OpToRel(<, Nat)
    BY NatLessThanWellFounded, WFMin
  <1>2. \A n \in S : ~(n < m)
    BY <1>1 DEF OpToRel
  <1> QED
    BY <1>2

\* The keys less than one that is not there are the first ones, and there are as
\* many as their number says.
LEMMA PlaceOfKey ==
  ASSUME NEW n \in Nat, NEW q \in [1 .. n -> Int], Increasing(q), NEW v \in Int,
         \A i \in 1 .. n : q[i] # v
  PROVE  \E p \in 0 .. n : /\ Cardinality({i \in 1 .. n : q[i] < v}) = p
                           /\ \A i \in 1 .. n : i <= p <=> q[i] < v
PROOF
  <1> DEFINE Above == {i \in 1 .. n + 1 : i = n + 1 \/ v < q[i]}
  <1>1. n + 1 \in Above /\ Above \subseteq Nat
    OBVIOUS
  <1>2. PICK m \in Above : \A i \in Above : m <= i
    BY <1>1, LeastNatural
  <1>3. m \in 1 .. n + 1
    OBVIOUS
  <1>4. ASSUME NEW i \in 1 .. n
        PROVE  i <= m - 1 <=> q[i] < v
    <2>1. CASE i < m
      <3>1. i \notin Above
        BY <1>2, <1>3, <2>1
      <3> QED
        BY <1>3, <2>1, <3>1
    <2>2. CASE i = m
      BY <1>3, <2>2
    <2>3. CASE m < i
      <3>1. m \in 1 .. n /\ v < q[m] /\ q[m] < q[i]
        BY <1>3, <2>3 DEF Increasing
      <3> QED
        BY <1>3, <2>3, <3>1
    <2> QED
      BY <1>3, <2>1, <2>2, <2>3
  <1>5. {i \in 1 .. n : q[i] < v} = 1 .. m - 1
    BY <1>3, <1>4
  <1>6. Cardinality(1 .. m - 1) = m - 1
    BY <1>3, FS_Interval
  <1>7. m - 1 \in 0 .. n
    BY <1>3
  <1> QED
    BY <1>4, <1>5, <1>6, <1>7

\* r is c, of n elements, with e behind its first p.
Inserted(S, c, n, e, p, r) ==
  /\ r \in Seq(S) /\ Len(r) = n + 1
  /\ \A i \in 1 .. n + 1 :
       r[i] = IF i <= p THEN c[i] ELSE IF i = p + 1 THEN e ELSE c[i - 1]

LEMMA InsertedAt ==
  ASSUME NEW S, NEW c \in Seq(S), NEW n \in Nat, n = Len(c), NEW e \in S, NEW p \in 0 .. n
  PROVE  Inserted(S, c, n, e, p, InsertAt(c, p + 1, e))
PROOF
  <1>1. PICK a, b : a = SubSeq(c, 1, p) /\ b = SubSeq(c, p + 1, n)
    OBVIOUS
  <1>2. a \in Seq(S) /\ Len(a) = p /\ \A i \in 1 .. p : a[i] = c[i]
    BY <1>1, SubSeqProperties
  <1>3. /\ b \in Seq(S) /\ Len(b) = n - p
        /\ \A i \in 1 .. n - p : b[i] = c[p + i]
    BY <1>1, SubSeqProperties
  <1>4. <<e>> \in Seq(S) /\ Len(<<e>>) = 1 /\ <<e>>[1] = e
    OBVIOUS
  <1>5. PICK ae : ae = a \o <<e>>
    OBVIOUS
  <1>6. /\ ae \in Seq(S) /\ Len(ae) = p + 1
        /\ \A i \in 1 .. p + 1 : ae[i] = IF i <= p THEN c[i] ELSE e
    BY <1>2, <1>4, <1>5, ConcatProperties
  <1>7. InsertAt(c, p + 1, e) = ae \o b
    <2>1. (p + 1) - 1 = p
      OBVIOUS
    <2> QED
      BY <1>1, <1>5, <2>1 DEF InsertAt
  <1>8. PICK r : r = ae \o b
    OBVIOUS
  <1>10. /\ r \in Seq(S) /\ Len(r) = n + 1
         /\ \A i \in 1 .. n + 1 : r[i] = IF i <= p + 1 THEN ae[i] ELSE b[i - (p + 1)]
    <2>1. /\ ae \o b \in Seq(S) /\ Len(ae \o b) = Len(ae) + Len(b)
          /\ \A i \in 1 .. Len(ae) + Len(b) :
               (ae \o b)[i] = IF i <= Len(ae) THEN ae[i] ELSE b[i - Len(ae)]
      BY <1>3, <1>6, ConcatProperties
    <2>2. Len(ae) + Len(b) = n + 1
      BY <1>3, <1>6
    <2> QED
      BY ONLY <1>6, <1>8, <2>1, <2>2
  <1>11. ASSUME NEW i \in 1 .. n + 1
         PROVE  r[i] = IF i <= p THEN c[i] ELSE IF i = p + 1 THEN e ELSE c[i - 1]
    <2>1. i > p + 1 => b[i - (p + 1)] = c[i - 1]
      <3>1. i > p + 1 => i - (p + 1) \in 1 .. n - p /\ p + (i - (p + 1)) = i - 1
        OBVIOUS
      <3> QED
        BY <1>3, <3>1
    <2> QED
      BY <1>6, <1>10, <2>1
  <1> QED
    BY <1>7, <1>8, <1>10, <1>11 DEF Inserted

\* r is c, of n elements, without the j-th.
Removed(S, c, n, j, r) ==
  /\ r \in Seq(S) /\ Len(r) = n - 1
  /\ \A i \in 1 .. n - 1 : r[i] = IF i < j THEN c[i] ELSE c[i + 1]

LEMMA RemovedAt ==
  ASSUME NEW S, NEW c \in Seq(S), NEW n \in Nat, n = Len(c), NEW j \in 1 .. n
  PROVE  Removed(S, c, n, j, RemoveAt(c, j))
PROOF
  <1>1. PICK a, b : a = SubSeq(c, 1, j - 1) /\ b = SubSeq(c, j + 1, n)
    OBVIOUS
  <1>2. a \in Seq(S) /\ Len(a) = j - 1 /\ \A i \in 1 .. j - 1 : a[i] = c[i]
    BY <1>1, SubSeqProperties
  <1>3. /\ b \in Seq(S) /\ Len(b) = n - j
        /\ \A i \in 1 .. n - j : b[i] = c[j + i]
    BY <1>1, SubSeqProperties
  <1>4. RemoveAt(c, j) = a \o b
    BY <1>1 DEF RemoveAt
  <1>5. PICK r : r = a \o b
    OBVIOUS
  <1>7. /\ r \in Seq(S) /\ Len(r) = n - 1
        /\ \A i \in 1 .. n - 1 : r[i] = IF i <= j - 1 THEN a[i] ELSE b[i - (j - 1)]
    <2>1. /\ a \o b \in Seq(S) /\ Len(a \o b) = Len(a) + Len(b)
          /\ \A i \in 1 .. Len(a) + Len(b) :
               (a \o b)[i] = IF i <= Len(a) THEN a[i] ELSE b[i - Len(a)]
      BY <1>2, <1>3, ConcatProperties
    <2>2. Len(a) + Len(b) = n - 1
      BY <1>2, <1>3
    <2> QED
      BY ONLY <1>2, <1>5, <2>1, <2>2
  <1>8. ASSUME NEW i \in 1 .. n - 1
        PROVE  r[i] = IF i < j THEN c[i] ELSE c[i + 1]
    <2>1. i >= j => b[i - (j - 1)] = c[i + 1]
      <3>1. i >= j => i - (j - 1) \in 1 .. n - j /\ j + (i - (j - 1)) = i + 1
        OBVIOUS
      <3> QED
        BY <1>3, <3>1
    <2>2. r[i] = IF i <= j - 1 THEN a[i] ELSE b[i - (j - 1)]
      BY <1>7
    <2>3. i <= j - 1 => i \in 1 .. j - 1
      OBVIOUS
    <2> QED
      BY <1>2, <2>1, <2>2, <2>3
  <1> QED
    BY <1>4, <1>5, <1>7, <1>8 DEF Removed

\* A new key at its place among increasing ones leaves them increasing.
LEMMA IncreasingWithKey ==
  ASSUME NEW n \in Nat, NEW q \in [1 .. n -> Int], Increasing(q), NEW v \in Int,
         NEW p \in 0 .. n, \A i \in 1 .. n : q[i] # v /\ (i <= p <=> q[i] < v),
         NEW r, DOMAIN r = 1 .. n + 1,
         \A i \in 1 .. n + 1 : r[i] = IF i <= p THEN q[i] ELSE IF i = p + 1 THEN v ELSE q[i - 1]
  PROVE  Increasing(r)
PROOF
  <1>1. SUFFICES ASSUME NEW i \in 1 .. n + 1, NEW j \in 1 .. n + 1, i < j
                 PROVE  r[i] < r[j]
    BY DEF Increasing
  <1>2. \A x, y \in 1 .. n : x < y => q[x] < q[y]
    BY DEF Increasing
  <1>3. CASE j <= p
    BY <1>1, <1>2, <1>3
  <1>4. CASE j = p + 1
    BY <1>1, <1>4
  <1>5. CASE j > p + 1
    <2>1. r[j] = q[j - 1] /\ j - 1 \in 1 .. n /\ v < q[j - 1]
      BY <1>5
    <2>2. CASE i <= p
      BY <1>1, <1>2, <1>5, <2>1, <2>2
    <2>3. CASE i = p + 1
      BY <1>1, <2>1, <2>3
    <2>4. CASE i > p + 1
      <3>1. r[i] = q[i - 1] /\ i - 1 \in 1 .. n /\ i - 1 < j - 1
        BY <1>1, <1>5, <2>4
      <3> QED
        BY <1>2, <2>1, <3>1
    <2> QED
      BY <2>2, <2>3, <2>4
  <1> QED
    BY <1>3, <1>4, <1>5

\* Without one of them they stay increasing.
LEMMA IncreasingWithoutKey ==
  ASSUME NEW n \in Nat, NEW q, DOMAIN q = 1 .. n, Increasing(q), NEW j \in 1 .. n,
         NEW r, DOMAIN r = 1 .. n - 1,
         \A i \in 1 .. n - 1 : r[i] = IF i < j THEN q[i] ELSE q[i + 1]
  PROVE  Increasing(r)
PROOF
  <1>1. SUFFICES ASSUME NEW i \in 1 .. n - 1, NEW k \in 1 .. n - 1, i < k
                 PROVE  r[i] < r[k]
    BY DEF Increasing
  <1>2. \A x, y \in 1 .. n : x < y => q[x] < q[y]
    BY DEF Increasing
  <1> QED
    BY <1>1, <1>2

\* The keys of a map; what stays true of the contents of a set and of a map.
KeysOf(c) == [i \in DOMAIN c |-> c[i][1]]

SortedSet(c) == c \in Seq(Int) /\ Increasing(c)
SortedMap(c) == c \in Seq(Int \X Int) /\ Increasing(KeysOf(c))

\* An insertion leaves a set sorted, and a map.
LEMMA SetInsertSorted ==
  ASSUME NEW c, SortedSet(c), NEW v \in Int
  PROVE  SortedSet(SetInsert(c, v))
PROOF
  <1>1. SUFFICES ASSUME v \notin ToSet(c)
                 PROVE  SortedSet(InsertAt(c, Cardinality({i \in DOMAIN c : c[i] < v}) + 1, v))
    BY DEF SetInsert
  <1>2. PICK n \in Nat : n = Len(c)
    BY DEF SortedSet
  <1>3. c \in Seq(Int) /\ c \in [1 .. n -> Int] /\ DOMAIN c = 1 .. n /\ Increasing(c)
    BY <1>2 DEF SortedSet
  <1>4. \A i \in 1 .. n : c[i] # v
    BY <1>1, <1>3 DEF ToSet
  <1>5. PICK p \in 0 .. n : /\ Cardinality({i \in 1 .. n : c[i] < v}) = p
                            /\ \A i \in 1 .. n : i <= p <=> c[i] < v
    BY <1>3, <1>4, PlaceOfKey
  <1>6. PICK r : r = InsertAt(c, p + 1, v)
    OBVIOUS
  <1>7. /\ r \in Seq(Int) /\ Len(r) = n + 1
        /\ \A i \in 1 .. n + 1 : r[i] = IF i <= p THEN c[i] ELSE IF i = p + 1 THEN v ELSE c[i - 1]
    <2>1. Inserted(Int, c, n, v, p, r)
      BY Zenon, <1>2, <1>3, <1>6, InsertedAt
    <2> QED
      BY <2>1 DEF Inserted
  <1>8. DOMAIN r = 1 .. n + 1
    BY <1>7
  <1>9. Increasing(r)
    <2>1. \A i \in 1 .. n : c[i] # v /\ (i <= p <=> c[i] < v)
      BY <1>4, <1>5
    <2> QED
      BY <1>3, <1>7, <1>8, <2>1, IncreasingWithKey
  <1> QED
    BY <1>3, <1>5, <1>6, <1>7, <1>9 DEF SortedSet

LEMMA MapInsertSorted ==
  ASSUME NEW c, SortedMap(c), NEW k \in Int, NEW v \in Int
  PROVE  SortedMap(MapInsert(c, k, v))
PROOF
  <1>1. SUFFICES ASSUME ~HasKey(c, k)
                 PROVE  SortedMap(InsertAt(c, Cardinality({i \in DOMAIN c : c[i][1] < k}) + 1,
                                           <<k, v>>))
    BY DEF MapInsert
  <1>2. PICK n \in Nat : n = Len(c)
    BY DEF SortedMap
  <1>3. c \in Seq(Int \X Int) /\ DOMAIN c = 1 .. n /\ \A i \in 1 .. n : c[i] \in Int \X Int
    BY <1>2 DEF SortedMap
  <1>4. PICK q : q = KeysOf(c)
    OBVIOUS
  <1>5. q \in [1 .. n -> Int] /\ \A i \in 1 .. n : q[i] = c[i][1]
    BY <1>3, <1>4 DEF KeysOf
  <1>6. Increasing(q) /\ \A i \in 1 .. n : q[i] # k
    BY <1>1, <1>3, <1>4, <1>5 DEF SortedMap, HasKey
  <1>7. PICK p \in 0 .. n : /\ Cardinality({i \in 1 .. n : q[i] < k}) = p
                            /\ \A i \in 1 .. n : i <= p <=> q[i] < k
    BY <1>5, <1>6, PlaceOfKey
  <1>8. {i \in DOMAIN c : c[i][1] < k} = {i \in 1 .. n : q[i] < k}
    BY <1>3, <1>5
  <1>9. PICK r : r = InsertAt(c, p + 1, <<k, v>>)
    OBVIOUS
  <1>10. <<k, v>> \in Int \X Int /\ <<k, v>>[1] = k
    OBVIOUS
  <1>11. /\ r \in Seq(Int \X Int) /\ Len(r) = n + 1
         /\ \A i \in 1 .. n + 1 :
              r[i] = IF i <= p THEN c[i] ELSE IF i = p + 1 THEN <<k, v>> ELSE c[i - 1]
    <2>1. Inserted(Int \X Int, c, n, <<k, v>>, p, r)
      BY Zenon, <1>2, <1>3, <1>9, <1>10, InsertedAt
    <2> QED
      BY <2>1 DEF Inserted
  <1>12. DOMAIN r = 1 .. n + 1 /\ DOMAIN KeysOf(r) = 1 .. n + 1
    BY <1>11 DEF KeysOf
  <1>13. ASSUME NEW i \in 1 .. n + 1
         PROVE  KeysOf(r)[i] = IF i <= p THEN q[i] ELSE IF i = p + 1 THEN k ELSE q[i - 1]
    <2>1. KeysOf(r)[i] = r[i][1]
      BY <1>12 DEF KeysOf
    <2>2. i > p + 1 => i - 1 \in 1 .. n
      OBVIOUS
    <2>3. r[i] = IF i <= p THEN c[i] ELSE IF i = p + 1 THEN <<k, v>> ELSE c[i - 1]
      BY <1>11
    <2> QED
      BY <1>5, <1>10, <2>1, <2>2, <2>3
  <1>14. Increasing(KeysOf(r))
    <2>1. PICK rk : rk = KeysOf(r)
      OBVIOUS
    <2>2. /\ DOMAIN rk = 1 .. n + 1
          /\ \A i \in 1 .. n + 1 :
               rk[i] = IF i <= p THEN q[i] ELSE IF i = p + 1 THEN k ELSE q[i - 1]
      BY <1>12, <1>13, <2>1
    <2>3. \A i \in 1 .. n : q[i] # k /\ (i <= p <=> q[i] < k)
      BY <1>6, <1>7
    <2>4. Increasing(rk)
      BY ZenonT(30), <1>5, <1>6, <2>2, <2>3, IncreasingWithKey
    <2> QED
      BY <2>1, <2>4
  <1> QED
    BY <1>7, <1>8, <1>9, <1>11, <1>14 DEF SortedMap

\* Removing an element leaves the others in order.
LEMMA RemovedSorted ==
  ASSUME NEW c, NEW j \in 1 .. Len(c)
  PROVE  /\ SortedSet(c) => SortedSet(RemoveAt(c, j))
         /\ SortedMap(c) => SortedMap(RemoveAt(c, j))
PROOF
  <1>1. PICK r : r = RemoveAt(c, j)
    OBVIOUS
  <1>2. ASSUME SortedSet(c)
        PROVE  SortedSet(r)
    <2>1. PICK n \in Nat : n = Len(c)
      BY <1>2 DEF SortedSet
    <2>2. c \in Seq(Int) /\ DOMAIN c = 1 .. n /\ Increasing(c)
      BY <1>2, <2>1 DEF SortedSet
    <2>3. Removed(Int, c, n, j, r)
      BY Zenon, <1>1, <2>1, <2>2, RemovedAt
    <2>4. r \in Seq(Int) /\ DOMAIN r = 1 .. n - 1
      BY <2>3 DEF Removed
    <2>5. Increasing(r)
      BY <2>1, <2>2, <2>3, <2>4, IncreasingWithoutKey DEF Removed
    <2> QED
      BY <2>4, <2>5 DEF SortedSet
  <1>3. ASSUME SortedMap(c)
        PROVE  SortedMap(r)
    <2>1. PICK n \in Nat : n = Len(c)
      BY <1>3 DEF SortedMap
    <2>2. c \in Seq(Int \X Int) /\ DOMAIN c = 1 .. n
      BY <1>3, <2>1 DEF SortedMap
    <2>3. Removed(Int \X Int, c, n, j, r)
      BY Zenon, <1>1, <2>1, <2>2, RemovedAt
    <2>4. r \in Seq(Int \X Int) /\ DOMAIN r = 1 .. n - 1
      BY <2>3 DEF Removed
    <2>5. PICK q, rk : q = KeysOf(c) /\ rk = KeysOf(r)
      OBVIOUS
    <2>6. /\ DOMAIN q = 1 .. n /\ DOMAIN rk = 1 .. n - 1 /\ Increasing(q)
          /\ \A i \in 1 .. n : q[i] = c[i][1]
          /\ \A i \in 1 .. n - 1 : rk[i] = r[i][1]
      BY <1>3, <2>2, <2>4, <2>5 DEF KeysOf, SortedMap
    <2>7. \A i \in 1 .. n - 1 : rk[i] = IF i < j THEN q[i] ELSE q[i + 1]
      <3>1. SUFFICES ASSUME NEW i \in 1 .. n - 1
                     PROVE  rk[i] = IF i < j THEN q[i] ELSE q[i + 1]
        OBVIOUS
      <3>2. i \in 1 .. n /\ i + 1 \in 1 .. n
        BY <2>1
      <3>3. rk[i] = r[i][1] /\ q[i] = c[i][1] /\ q[i + 1] = c[i + 1][1]
        BY <2>6, <3>2
      <3>4. r[i] = IF i < j THEN c[i] ELSE c[i + 1]
        BY <2>3 DEF Removed
      <3> QED
        BY <3>3, <3>4
    <2>8. Increasing(rk)
      <3>1. j \in 1 .. n
        BY <2>1
      <3>2. DOMAIN q = 1 .. n /\ DOMAIN rk = 1 .. n - 1 /\ Increasing(q)
        BY <2>6
      <3> QED
        BY ZenonT(30), <2>7, <3>1, <3>2, IncreasingWithoutKey
    <2> QED
      BY <2>4, <2>5, <2>8 DEF SortedMap
  <1> QED
    BY <1>1, <1>2, <1>3

\* A value put at a position of a map keeps its key.
LEMMA MapSetSorted ==
  ASSUME NEW c, SortedMap(c), NEW i \in 1 .. Len(c), NEW v \in Int
  PROVE  SortedMap(SetMapEntryValueByPosition(c, i, v))
PROOF
  <1>1. PICK r : r = SetMapEntryValueByPosition(c, i, v)
    OBVIOUS
  <1>2. c \in Seq(Int \X Int) /\ DOMAIN c = 1 .. Len(c) /\ c[i] \in Int \X Int
    BY DEF SortedMap
  <1>3. <<c[i][1], v>> \in Int \X Int
    BY <1>2
  <1>4. /\ r \in Seq(Int \X Int) /\ DOMAIN r = DOMAIN c
        /\ \A j \in DOMAIN c : r[j] = IF j = i THEN <<c[i][1], v>> ELSE c[j]
    BY <1>1, <1>2, <1>3 DEF SetMapEntryValueByPosition
  <1>5. \A j \in DOMAIN c : r[j][1] = c[j][1]
    BY <1>4
  <1>6. KeysOf(r) = KeysOf(c)
    BY <1>4, <1>5 DEF KeysOf
  <1> QED
    BY <1>1, <1>4, <1>6 DEF SortedMap

\* A position that passes the test of the bounds.
LEMMA SortedBounds ==
  ASSUME NEW c, SortedSet(c) \/ SortedMap(c)
  PROVE  /\ DOMAIN c = 1 .. Len(c)
         /\ \A p \in Nat : p < Len(c) => p + 1 \in 1 .. Len(c)
PROOF
  <1>1. c \in Seq(Int) \/ c \in Seq(Int \X Int)
    BY DEF SortedSet, SortedMap
  <1>2. DOMAIN c = 1 .. Len(c) /\ Len(c) \in Nat
    BY <1>1
  <1> QED
    BY <1>2

LEMMA EmptySorted == SortedSet(<<>>) /\ SortedMap(<<>>)
PROOF
  BY DEF SortedSet, SortedMap, Increasing, KeysOf

\* The methods of a set and of a map.
LEMMA KeyedMethods ==
  ASSUME NEW m \in DOMAIN Supported
  PROVE  /\ "set" \in Supported[m] =>
              m \in {"add", "getat", "removeat", "insert", "size", "isempty", "clear"}
         /\ "map" \in Supported[m] => m \in MapMethods \cup {"size", "isempty", "clear"}
PROOF
  BY DEF Supported, ContainerTypes, Collections, MapMethods, EndMethods

\* Every method of a set, and every one of a map, leaves it sorted.
LEMMA SetStaysSorted ==
  ASSUME NEW m \in {"add", "getat", "removeat", "insert", "size", "isempty", "clear"},
         NEW c, SortedSet(c), NEW r, r.val \in Int, m \in Positional => r.pos \in Nat,
         BoundsError(m, c, r) = ""
  PROVE  SortedSet(Changed(m, "set", c, r, r.pos + 1))
PROOF
  <1>1. CASE m \in {"add", "insert"}
    <2>1. Changed(m, "set", c, r, r.pos + 1) = SetInsert(c, r.val)
      BY <1>1 DEF Changed, AddCollectionEntry, InsertValue
    <2> QED
      BY <2>1, SetInsertSorted
  <1>2. CASE m = "removeat"
    <2>1. r.pos \in Nat /\ r.pos < Len(c)
      BY <1>2 DEF BoundsError, Positional
    <2>2. Changed(m, "set", c, r, r.pos + 1) = RemoveAt(c, r.pos + 1)
      BY <1>2 DEF Changed, RemoveCollectionEntryAt
    <2>3. r.pos + 1 \in 1 .. Len(c)
      BY Zenon, <2>1, SortedBounds
    <2> QED
      BY <2>2, <2>3, RemovedSorted
  <1>3. CASE m \in {"getat", "size", "isempty"}
    BY <1>3 DEF Changed
  <1>4. CASE m = "clear"
    BY <1>4, EmptySorted DEF Changed, Clear
  <1> QED
    BY <1>1, <1>2, <1>3, <1>4

LEMMA MapStaysSorted ==
  ASSUME NEW m \in MapMethods \cup {"size", "isempty", "clear"},
         NEW c, SortedMap(c), NEW r, r.val \in Int, r.mkey \in Int,
         m \in Positional => r.pos \in Nat, BoundsError(m, c, r) = ""
  PROVE  SortedMap(Changed(m, "map", c, r, r.pos + 1))
PROOF
  <1>1. CASE m = "addmap"
    <2>1. Changed(m, "map", c, r, r.pos + 1) = MapInsert(c, r.mkey, r.val)
      BY <1>1 DEF Changed, AddMapEntry
    <2> QED
      BY <2>1, MapInsertSorted
  <1>2. CASE m = "removemap"
    <2>1. Changed(m, "map", c, r, r.pos + 1) = RemoveMapEntry(c, r.mkey)
      BY <1>2 DEF Changed
    <2>2. CASE HasKey(c, r.mkey)
      <3>1. KeyAt(c, r.mkey) \in DOMAIN c
        BY <2>2 DEF HasKey, KeyAt
      <3>2. DOMAIN c = 1 .. Len(c)
        BY SortedBounds
      <3> QED
        BY <2>1, <2>2, <3>1, <3>2, RemovedSorted DEF RemoveMapEntry
    <2>3. CASE ~HasKey(c, r.mkey)
      BY <2>1, <2>3 DEF RemoveMapEntry
    <2> QED
      BY <2>2, <2>3
  <1>3. CASE m = "setmappos"
    <2>1. r.pos \in Nat /\ r.pos < Len(c)
      BY <1>3 DEF BoundsError, Positional
    <2>2. Changed(m, "map", c, r, r.pos + 1) = SetMapEntryValueByPosition(c, r.pos + 1, r.val)
      BY <1>3 DEF Changed
    <2>3. r.pos + 1 \in 1 .. Len(c)
      BY Zenon, <2>1, SortedBounds
    <2> QED
      BY <2>2, <2>3, MapSetSorted
  <1>4. CASE m \in {"getmap", "getmappos", "size", "isempty"}
    BY <1>4 DEF Changed
  <1>5. CASE m = "clear"
    BY <1>5, EmptySorted DEF Changed, Clear
  <1> QED
    BY <1>1, <1>2, <1>3, <1>4, <1>5 DEF MapMethods

\* A query is in size() or in its own method, and its position is one by then.
PositionOk(s) ==
  spc[s] # "idle" =>
    /\ method[s] \in {"size", req[s].op}
    /\ req[s].op \in Positional =>
         /\ method[s] = "size" /\ spc[s] \in InMethod => req[s].pos \in Int
         /\ method[s] # "size" => req[s].pos \in Nat

\* What the container of an address holds is sorted if its type is a keyed one.
Keyed(o) ==
  /\ typeOf[o] = "set" => SortedSet(contents[o])
  /\ typeOf[o] = "map" => SortedMap(contents[o])

KeyedInv == (\A s \in Session : PositionOk(s)) /\ \A o \in Obj : Keyed(o)

\* The check of a positional query refuses what is no number; the look at size()
\* refuses what is negative.
LEMMA CheckPosition ==
  ASSUME CacheAssumption, FaultInv, NEW s \in Session, PositionOk(s), Check(s)
  PROVE  PositionOk(s)'
PROOF
  <1>1. PICK m, r, err :
          /\ m = method[s] /\ r = req[s]
          /\ err = IF QueryError(r, m) # "" THEN QueryError(r, m)
                   ELSE CASE m = "allocate"   -> AllocateError(r.key, r.type)
                          [] m = "deallocate" -> DeallocateError(r.key)
                          [] OTHER            -> CheckError(m, TypeSeen(r.key))
    OBVIOUS
  <1>2. r \in Request /\ m \in Methods /\ spc[s] = "check" /\ fault = Nothing
    BY <1>1 DEF Check, At, FaultInv, SafeInv, SessionOk, CallOk
  <1>3. CASE err # ""
    <2>1. Answer(s, Caught(r, err), -1)
      BY <1>1, <1>3 DEF Check
    <2>2. spc'[s] = "idle"
      BY <2>1 DEF Answer, FaultInv, TypeInv, SessionTypes
    <2> QED
      BY <2>2 DEF PositionOk
  <1>4. CASE err = ""
    <2>1. QueryError(r, m) = ""
      BY <1>1, <1>4
    <2>2. req' = req /\ method' = method
      BY <1>1, <1>4 DEF Check
    <2>3. m = "size" /\ r.op \in Positional => r.pos \in Int
      <3>1. r.pos \in Int \cup {Nothing}
        BY <1>2, CacheAssumption DEF CacheAssumption
      <3> QED
        BY <2>1, <3>1 DEF QueryError
    <2> QED
      BY <1>1, <1>2, <2>2, <2>3 DEF PositionOk
  <1> QED
    BY <1>3, <1>4

LEMMA WorkPosition ==
  ASSUME CacheAssumption, FaultInv, NEW s \in Session, PositionOk(s), Work(s)
  PROVE  PositionOk(s)'
PROOF
  <1>1. PICK m, r, c :
          m = method[s] /\ r = req[s] /\ c = contents[ptr[s]]
    OBVIOUS
  <1>2. spc[s] = "work"
    BY DEF Work, At
  <1>3. CASE \E e, v : Answer(s, e, v)
    <2>1. spc'[s] = "idle"
      BY <1>3 DEF Answer, FaultInv, TypeInv, SessionTypes
    <2> QED
      BY <2>1 DEF PositionOk
  <1>4. CASE /\ m = "size" /\ r.op \in Positional /\ SizeError(r, Len(c)) = ""
             /\ method' = [method EXCEPT ![s] = r.op] /\ req' = req
    <2>1. method'[s] = r.op
      BY <1>4 DEF FaultInv, TypeInv, SessionTypes
    <2>2. r.pos \in Int
      BY <1>1, <1>2, <1>4 DEF PositionOk, InMethod
    <2>3. r.pos \in Nat
      BY <1>4, <2>2 DEF SizeError
    <2> QED
      BY <1>1, <1>4, <2>1, <2>3 DEF PositionOk, Positional
  <1>5. \/ \E e, v : Answer(s, e, v)
        \/ /\ m = "size" /\ r.op \in Positional /\ SizeError(r, Len(c)) = ""
           /\ method' = [method EXCEPT ![s] = r.op] /\ req' = req
    BY <1>1 DEF Work
  <1> QED
    BY <1>3, <1>4, <1>5

LEMMA CheckOthers ==
  ASSUME SessionTypes, NEW s \in Session, Check(s)
  PROVE  Others(s)
PROOF
  <1>1. CASE \E e, v : Answer(s, e, v)
    BY <1>1, AnswerEnds
  <1>2. CASE ~\E e, v : Answer(s, e, v)
    BY <1>2 DEF Check, SessionTypes, Others
  <1> QED
    BY <1>1, <1>2

LEMMA WorkOthers ==
  ASSUME SessionTypes, NEW s \in Session, Work(s)
  PROVE  Others(s)
PROOF
  <1>1. CASE \E e, v : Answer(s, e, v)
    BY <1>1, AnswerEnds
  <1>2. CASE ~\E e, v : Answer(s, e, v)
    BY <1>2 DEF Work, SessionTypes, Others
  <1> QED
    BY <1>1, <1>2

LEMMA PositionsKept ==
  ASSUME CacheAssumption, FaultInv, \A s \in Session : PositionOk(s), [Next]_vars
  PROVE  (\A s \in Session : PositionOk(s))'
PROOF
  <1>1. SUFFICES ASSUME NEW x \in Session PROVE PositionOk(x)'
    OBVIOUS
  <1>2. CASE spc'[x] = spc[x] /\ req'[x] = req[x] /\ method'[x] = method[x]
    BY <1>2 DEF PositionOk
  <1>3. CASE spc'[x] = "idle"
    BY <1>3 DEF PositionOk
  <1>4. CASE UNCHANGED vars
    BY <1>2, <1>4 DEF vars, sessionVars, callVars
  <1>5. ASSUME NEW s \in Session, NEW r \in Request, Receive(s, r)
        PROVE  PositionOk(x)'
    <2>1. CASE x = s
      <3>1. /\ req'[x] = r /\ spc'[x] = "check"
            /\ method'[x] = IF r.op \in Positional THEN "size" ELSE r.op
        BY <1>5, <2>1 DEF Receive, FaultInv, TypeInv, SessionTypes
      <3> QED
        BY <3>1 DEF PositionOk, InMethod
    <2>2. CASE x # s
      BY <1>2, <1>5, <2>2 DEF Receive, FaultInv, TypeInv, SessionTypes
    <2> QED
      BY <2>1, <2>2
  <1>6. ASSUME NEW s \in Session, Check(s) \/ Work(s), x # s
        PROVE  PositionOk(x)'
    <2>1. Others(s)
      BY <1>6, CheckOthers, WorkOthers DEF FaultInv, TypeInv
    <2> QED
      BY <1>2, <1>6, <2>1 DEF Others
  <1>7. ASSUME NEW s \in Session, Create(s) \/ Erase(s)
        PROVE  PositionOk(x)'
    <2>1. PICK e, v : Answer(s, e, v)
      BY <1>7 DEF Create, Erase
    <2> QED
      BY <1>2, <1>3, <2>1 DEF Answer, FaultInv, TypeInv, SessionTypes
  <1>8. ASSUME NEW s \in Session, Fetch(s) \/ GetLock(s) \/ Lock(s)
        PROVE  PositionOk(x)'
    <2>1. /\ spc[s] \in InMethod /\ spc'[s] \in InMethod /\ req' = req /\ method' = method
          /\ x # s => spc'[x] = spc[x]
      BY <1>8 DEF Fetch, GetLock, Lock, Goto, At, FaultInv, TypeInv, SessionTypes, callVars,
                  InMethod
    <2> QED
      BY <2>1 DEF PositionOk, InMethod
  <1>9. ASSUME NEW s \in Session, WorkFault(s)
        PROVE  PositionOk(x)'
    BY <1>2, <1>9 DEF WorkFault, sessionVars, callVars
  <1> QED
    BY <1>4, <1>5, <1>6, <1>7, <1>8, <1>9, CheckPosition, WorkPosition DEF Next, Step

\* The work leaves the container that it works on sorted.
LEMMA WorkKeepsSorted ==
  ASSUME CacheAssumption, FaultInv, QueueInv, KeyedInv, NEW s \in Session, Work(s)
  PROVE  (\A o \in Obj : Keyed(o))'
PROOF
  <1>1. SafeInv
    BY DEF FaultInv, Work, At
  <1>2. PICK o \in Obj : o = ptr[s]
    BY <1>1, WorksOnType
  <1>3. PICK m \in DOMAIN Supported : m = method[s] /\ typeOf[o] \in Supported[m]
    BY <1>1, <1>2, WorksOnType
  <1>4. PICK r \in Request : r = req[s]
    BY <1>1 DEF Work, At, SafeInv, SessionOk, CallOk
  <1>5. r.val \in Int /\ r.mkey \in Int
    BY CacheAssumption DEF CacheAssumption
  <1>6. m \in Positional => r.pos \in Nat
    BY <1>3, <1>4 DEF KeyedInv, PositionOk, Work, At, Positional
  <1>7. PICK c, err : c = contents[o] /\ err = BoundsError(m, c, r)
    OBVIOUS
  <1>8. /\ typeOf' = typeOf
        /\ contents' = IF err # "" THEN contents
                       ELSE [contents EXCEPT ![o] = Changed(m, typeOf[o], c, r, r.pos + 1)]
    BY <1>2, <1>3, <1>4, <1>7 DEF Work
  <1>9. \A p \in Obj : p # o => contents'[p] = contents[p]
    BY <1>8 DEF QueueInv
  <1>10. CASE err # ""
    BY <1>8, <1>10 DEF KeyedInv, Keyed
  <1>11. CASE err = ""
    <2>1. contents'[o] = Changed(m, typeOf[o], c, r, r.pos + 1)
      BY <1>8, <1>11 DEF QueueInv
    <2>2. ASSUME typeOf[o] = "set"
          PROVE  SortedSet(contents'[o])
      <3>1. m \in {"add", "getat", "removeat", "insert", "size", "isempty", "clear"}
        BY <1>3, <2>2, KeyedMethods
      <3>2. SortedSet(c)
        BY <1>7, <2>2 DEF KeyedInv, Keyed
      <3>3. SortedSet(Changed(m, "set", c, r, r.pos + 1))
        BY <1>5, <1>6, <1>7, <1>11, <3>1, <3>2, SetStaysSorted
      <3> QED
        BY <2>1, <2>2, <3>3
    <2>3. ASSUME typeOf[o] = "map"
          PROVE  SortedMap(contents'[o])
      <3>1. m \in MapMethods \cup {"size", "isempty", "clear"}
        BY <1>3, <2>3, KeyedMethods
      <3>2. SortedMap(c)
        BY <1>7, <2>3 DEF KeyedInv, Keyed
      <3>3. SortedMap(Changed(m, "map", c, r, r.pos + 1))
        BY <1>5, <1>6, <1>7, <1>11, <3>1, <3>2, MapStaysSorted
      <3> QED
        BY <2>1, <2>3, <3>3
    <2> QED
      BY <1>8, <1>9, <2>2, <2>3 DEF KeyedInv, Keyed
  <1> QED
    BY <1>10, <1>11

LEMMA KeyedKept ==
  ASSUME CacheAssumption, FaultInv, QueueInv, KeyedInv, [Next]_vars
  PROVE  KeyedInv'
PROOF
  <1>1. CASE UNCHANGED <<typeOf, contents>>
    BY <1>1, PositionsKept DEF KeyedInv, Keyed
  <1>2. ASSUME NEW s \in Session, Create(s)
        PROVE  KeyedInv'
    <2>1. PICK o \in Obj : typeOf[o] = Nothing /\ typeOf' = [typeOf EXCEPT ![o] = req[s].type]
      BY <1>2 DEF Create
    <2>2. contents' = contents /\ contents[o] = <<>>
      BY <1>2, <2>1 DEF Create, QueueInv, Empty
    <2>3. \A p \in Obj : p # o => typeOf'[p] = typeOf[p]
      BY <2>1 DEF FaultInv, TypeInv, MapTypes
    <2>4. ASSUME NEW p \in Obj PROVE Keyed(p)'
      BY <2>2, <2>3, EmptySorted DEF KeyedInv, Keyed
    <2> QED
      BY <2>4, PositionsKept DEF KeyedInv
  <1>3. ASSUME NEW s \in Session, Work(s)
        PROVE  KeyedInv'
    BY <1>3, WorkKeepsSorted, PositionsKept DEF KeyedInv
  <1> QED
    BY <1>1, <1>2, <1>3 DEF Next, Step, Receive, Check, Erase, Fetch, GetLock, Lock,
       WorkFault, vars, mapVars, sessionVars, callVars, historyVars

\* The elements of every set and the keys of every map stay distinct and in order,
\* whatever number of sessions work on them and whatever they do to their keys.
THEOREM KeysStaySorted == Spec => []DistinctAndSorted
PROOF
  <1>1. Init => QueueInv
    BY QueueInvInitially
  <1>2. FaultInv /\ QueueInv /\ [Next]_vars => QueueInv'
    BY CacheAssumption, QueueKept
  <1>3. Init => KeyedInv
    <2>1. "set" \in ContainerTypes /\ "map" \in ContainerTypes
      BY DEF ContainerTypes, Collections
    <2>2. Nothing # "set" /\ Nothing # "map"
      BY <2>1, CacheAssumption DEF CacheAssumption
    <2> QED
      BY ZenonT(60), <2>2 DEF Init, KeyedInv, PositionOk, Keyed
  <1>4. FaultInv /\ QueueInv /\ KeyedInv /\ [Next]_vars => KeyedInv'
    BY CacheAssumption, KeyedKept
  <1>5. KeyedInv => DistinctAndSorted
    BY DEF KeyedInv, Keyed, SortedSet, SortedMap, KeysOf, DistinctAndSorted
  <1> QED
    BY <1>1, <1>2, <1>3, <1>4, <1>5, FaultInvCorrect, PTL DEF Spec
=============================================================================
