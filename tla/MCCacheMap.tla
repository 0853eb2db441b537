----------------------------- MODULE MCCacheMap -----------------------------
(* Instances of CacheMap for TLC: one key, two addresses. *)
EXTENDS CacheMap

CONSTANTS s1, s2, k1, k2

\* The bounds of the requests of a session alone, and of two.
MCAlone == s1 :> 5
MCBoth == (s1 :> 3) @@ (s2 :> 2)

Query(op, type, mkey, val, pos, rep) ==
  [op |-> op, key |-> k1, type |-> type, mkey |-> mkey, val |-> val, pos |-> pos,
   rep |-> rep]

\* Two sessions: what they do to a map and to a queue behind each other's back.
MCRaces ==
  {[Query("allocate", "map", 0, NoValue, 0, 0) EXCEPT !.key = k2],
   Query("allocate", "map", 0, NoValue, 0, 0), Query("allocate", "queue", 0, NoValue, 0, 0),
   Query("deallocate", "", 0, NoValue, 0, 0),
   Query("addmap", "", 1, 1, 0, 0), Query("getmap", "", 1, NoValue, 0, 0),
   Query("add", "", 0, 1, 0, 0), Query("add", "", 0, 2, 0, 0),
   Query("popget", "", 0, NoValue, 0, 0),
   Query("setmappos", "", 0, 2, 0, 0)}

\* One session: every method, on containers of every type.
MCMethods ==
  {Query("allocate", t, 0, NoValue, 0, 0) : t \in ContainerTypes \cup {"stack"}}
  \cup {Query(m, "", 0, v, 0, 0) : m \in {"add", "pushback", "pushfront"}, v \in {NoValue, 1, 2}}
  \cup {Query(m, "", 0, 3, p, 2) : m \in Positional, p \in {-1, 0, 1, Nothing}}
  \cup {Query("insertrep", "", 0, 3, 0, -1)}
  \cup {Query("addmap", "", k, v, 0, 0) : k \in {1, 2}, v \in {1, 2}}
  \cup {Query(m, "", 1, NoValue, 0, 0) :
          m \in {"getmap", "removemap", "size", "isempty", "clear", "pop", "popget",
                 "popfront", "popback", "popfrontget", "popbackget", "getfront",
                 "getback", "deallocate"}}
=============================================================================
