------------------------------- MODULE Mutex -------------------------------
(***************************************************************************)
(* The waiting of a thread (Mutex.cpp ConditionMutex, Thread.cpp).  wait() *)
(* locks, waits on the condition variable and unlocks: there is no         *)
(* predicate, so it always blocks, and interrupt() is a broadcast that     *)
(* only a thread already blocked can feel.  The state of the waiter is its *)
(* program counter: "toWait" before wait(), "waiting" in it, "woken" after.*)
(***************************************************************************)
CONSTANT Spurious  \* may pthread_cond_wait return without a broadcast?

ASSUME SpuriousAssumption == Spurious \in BOOLEAN

\* interrupt(): what it does to the thread whose program counter is pc.
Interrupted(pc) == IF pc = "waiting" THEN "woken" ELSE pc
=============================================================================
