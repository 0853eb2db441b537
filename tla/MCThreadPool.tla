---------------------------- MODULE MCThreadPool ----------------------------
(* Instances of ThreadPool for TLC. *)
EXTENDS ThreadPool

CONSTANTS t1, t2, t3, t4

\* t1 has the highest priority, t2 and t3 share a lower one, t4 has none.
MCPriority ==
  [t \in Task |-> IF t = t1 THEN 2 ELSE IF t \in {t2, t3} THEN 1 ELSE -1]

\* The pool does not tell these two tasks apart.
MCSymmetry == Permutations({t2, t3})
=============================================================================
