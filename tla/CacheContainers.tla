-------------------------- MODULE CacheContainers --------------------------
(***************************************************************************)
(* What the methods of CacheMap (src/src/modules/distocache/CacheMap.cpp)  *)
(* do to a container while they hold its lock.  A container of any type is *)
(* a sequence in iteration order: a set is sorted, a map is a sequence of  *)
(* key-value pairs sorted by key.  Strings are numbers, compared by <.     *)
(*                                                                         *)
(* A method m is named by the words of the query that selects it.          *)
(***************************************************************************)
EXTENDS Integers, Sequences, SequencesExt

Collections == {"vector", "list", "set", "queue", "deque"}
ContainerTypes == Collections \cup {"map"}

MapMethods == {"addmap", "removemap", "getmap", "getmappos", "setmappos"}

\* The methods that the service calls after a look at size().
Positional == {"insert", "insertrep", "setat", "getat", "removeat", "setmappos",
               "getmappos"}

\* The methods that need the query's second packet, the value.
TakesValue == {"add", "addmap", "pushfront", "pushback", "insert", "insertrep",
               "setat", "setmappos"}

\* The methods that work at the ends of a container.
EndMethods == {"pushback", "pushfront", "popfront", "popback", "popfrontget", "popbackget"}

\* The container types each method has a branch for.
Supported ==
  [m \in MapMethods \cup EndMethods
         \cup {"add", "setat", "getat", "removeat", "insert", "insertrep", "size",
               "isempty", "clear", "pop", "popget", "getfront", "getback"} |->
     CASE m \in MapMethods                       -> {"map"}
       [] m \in EndMethods                       -> {"list", "deque"}
       [] m = "add"                              -> Collections
       [] m \in {"setat", "insertrep"}           -> {"vector", "list", "deque"}
       [] m \in {"getat", "removeat", "insert"}  -> {"vector", "list", "set", "deque"}
       [] m \in {"size", "isempty"}              -> ContainerTypes
       [] m = "clear"                            -> ContainerTypes \ {"queue"}
       [] m \in {"pop", "popget"}                -> {"queue"}
       [] m \in {"getfront", "getback"}          -> Collections \ {"set"}]

\* The types a method names only to refuse them: it throws ERR_OPNOTSUPP.
Refused ==
  [m \in MapMethods \cup {"add", "size", "isempty", "clear"} |-> {}]
  @@ [m \in {"setat", "getat", "removeat", "insert", "insertrep"} |-> {"queue"}]
  @@ [m \in {"pop", "popget"} |-> Collections \ {"queue"}]
  @@ [m \in {"getfront", "getback"} |-> {"set"}]
  @@ [m \in EndMethods |-> {"queue", "vector", "set"}]

Methods == DOMAIN Supported \cup {"allocate", "deallocate"}

\* Mutant of CheckError: a key that is not there is let through.
CheckErrorNoKey(m, type) ==
  IF type \in Supported[m] \cup {""} THEN "" ELSE "ERR_INVCONTAINER"

\* checkExistance() and the branches on the type; type "" is a key unknown.
CheckError(m, type) ==
  IF type \in Supported[m] THEN ""
  ELSE CASE m \in {"addmap", "removemap"}         -> "ERR_NOTAMAPCONT"
         [] m \in MapMethods \/ type = ""         -> "ERR_NOKEYCACHEMAP"
         [] type \in Refused[m]                   -> "ERR_OPNOTSUPP"
         [] OTHER                                 -> "ERR_INVCONTAINER"

-----------------------------------------------------------------------------
\* A set and a map insert a new element behind those that are less.
SetInsert(c, v) ==
  IF v \in ToSet(c) THEN c
  ELSE InsertAt(c, Cardinality({i \in DOMAIN c : c[i] < v}) + 1, v)

HasKey(c, k) == \E i \in DOMAIN c : c[i][1] = k
KeyAt(c, k) == CHOOSE i \in DOMAIN c : c[i][1] = k
ValueAt(c, k) == c[KeyAt(c, k)][2]

\* Mutant of MapInsert: a multimap, unsorted.
MapAppend(c, k, v) == Append(c, <<k, v>>)

\* map::insert leaves a binding that is there alone.
MapInsert(c, k, v) ==
  IF HasKey(c, k) THEN c
  ELSE InsertAt(c, Cardinality({i \in DOMAIN c : c[i][1] < k}) + 1, <<k, v>>)

\* The methods, by their names in CacheMap: what each one leaves in the
\* container, what it returns, or both.  A position i counts from 1.
AddCollectionEntry(type, c, v) == IF type = "set" THEN SetInsert(c, v) ELSE Append(c, v)

AddMapEntry(c, k, v) == MapInsert(c, k, v)
RemoveMapEntry(c, k) == IF HasKey(c, k) THEN RemoveAt(c, KeyAt(c, k)) ELSE c

GetMapEntryValue(c, k)              == ValueAt(c, k)
GetMapEntryValueByPosition(c, i)    == c[i][2]
SetMapEntryValueByPosition(c, i, v) == [c EXCEPT ![i] = <<@[1], v>>]

\* In a set the position is tested and is then only a hint to insert().
InsertValue(type, c, i, v) == IF type = "set" THEN SetInsert(c, v) ELSE InsertAt(c, i, v)

InsertRepeat(c, i, v, n) ==
  SubSeq(c, 1, i - 1) \o [j \in 1 .. n |-> v] \o SubSeq(c, i, Len(c))

SetCollectionEntryAt(c, i, v) == [c EXCEPT ![i] = v]
GetCollectionEntryAt(c, i)    == c[i]
RemoveCollectionEntryAt(c, i) == RemoveAt(c, i)

Size(c)    == Len(c)
IsEmpty(c) == IF c = <<>> THEN 1 ELSE 0
Clear      == <<>>

PushBackValue(c, v)  == Append(c, v)
PushFrontValue(c, v) == <<v>> \o c
PopValueQueue(c)     == Tail(c)
PopFrontValue(c)     == Tail(c)
PopBackValue(c)      == Front(c)
GetFrontValue(c)     == Head(c)
GetBackValue(c)      == Last(c)

\* What is taken out, and what stays.
PopGetValueQueue(c) == <<Head(c), Tail(c)>>
PopGetFrontValue(c) == <<Head(c), Tail(c)>>
PopGetBackValue(c)  == <<Last(c), Front(c)>>

\* Mutant of Changed: pop() takes the newest element.
ChangedPopsBack(m, type, c, r, i) ==
  CASE m = "add"                -> Append(c, r.val)
    [] m \in {"pop", "popget"}  -> Front(c)
    [] m = "addmap"             -> MapInsert(c, r.mkey, r.val)
    [] OTHER                    -> c

\* What the method selected by the query leaves in a container of this type,
\* when its bounds check succeeds.
Changed(m, type, c, r, i) ==
  CASE m = "add"         -> AddCollectionEntry(type, c, r.val)
    [] m = "insert"      -> InsertValue(type, c, i, r.val)
    [] m = "insertrep"   -> InsertRepeat(c, i, r.val, r.rep)
    [] m = "setat"       -> SetCollectionEntryAt(c, i, r.val)
    [] m = "setmappos"   -> SetMapEntryValueByPosition(c, i, r.val)
    [] m = "removeat"    -> RemoveCollectionEntryAt(c, i)
    [] m = "clear"       -> Clear
    [] m = "pushback"    -> PushBackValue(c, r.val)
    [] m = "pushfront"   -> PushFrontValue(c, r.val)
    [] m = "pop"         -> PopValueQueue(c)
    [] m = "popget"      -> PopGetValueQueue(c)[2]
    [] m = "popfront"    -> PopFrontValue(c)
    [] m = "popfrontget" -> PopGetFrontValue(c)[2]
    [] m = "popback"     -> PopBackValue(c)
    [] m = "popbackget"  -> PopGetBackValue(c)[2]
    [] m = "addmap"      -> AddMapEntry(c, r.mkey, r.val)
    [] m = "removemap"   -> RemoveMapEntry(c, r.mkey)
    [] OTHER             -> c

\* What it returns, -1 for nothing.
Returned(m, c, r, i) ==
  CASE m = "size"        -> Size(c)
    [] m = "isempty"     -> IsEmpty(c)
    [] m = "getat"       -> GetCollectionEntryAt(c, i)
    [] m = "getmappos"   -> GetMapEntryValueByPosition(c, i)
    [] m = "getmap"      -> GetMapEntryValue(c, r.mkey)
    [] m = "popget"      -> PopGetValueQueue(c)[1]
    [] m = "popfrontget" -> PopGetFrontValue(c)[1]
    [] m = "popbackget"  -> PopGetBackValue(c)[1]
    [] m = "getfront"    -> GetFrontValue(c)
    [] m = "getback"     -> GetBackValue(c)
    [] OTHER             -> -1

\* The error a method finds out under the lock.
BoundsError(m, c, r) ==
  CASE m \in Positional /\ ~(r.pos < Len(c)) -> "ERR_INDGRTCONTSIZ"
    [] m = "getmap" /\ ~HasKey(c, r.mkey)     -> "ERR_NOVALUEFOUND"
    [] m \in {"pop", "popget", "popfront", "popback", "popfrontget", "popbackget",
              "getfront", "getback"} /\ c = <<>> -> "ERR_NOELEMENTS"
    [] OTHER                                  -> ""

\* The three methods that throw from inside the lock region; the others set a
\* flag, unlock and throw afterwards.
ThrowsInside == {"getmap", "getmappos", "setmappos"}
=============================================================================
