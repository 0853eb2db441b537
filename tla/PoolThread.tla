----------------------------- MODULE PoolThread -----------------------------
(***************************************************************************)
(* The worker threads of the thread pool (src/src/PoolThread.cpp) and the  *)
(* part of a task object they touch (Task.h, FutureTask.h/.cpp).           *)
(*                                                                         *)
(* A worker blocks on its own condition variable (Thread::wait), takes the *)
(* task that checkout() left in its slot, runs it, releases itself and     *)
(* starts again.  Thread::wait has no predicate, so a broadcast sent while *)
(* the worker is not waiting is lost.                                      *)
(***************************************************************************)
EXTENDS FutureTask, Mutex

CONSTANT NumThreads  \* initThreads: the size of tpool

ASSUME NumThreadsAssumption == NumThreads \in Nat \ {0}

Worker == 1 .. NumThreads

VARIABLES
  wpc,        \* where each worker is
  idle,       \* PoolThread::idle
  slot,       \* PoolThread::task
  local,      \* the worker's own copy of the pointer
  wRunFlag,   \* PoolThread::runFlag
  wComplete   \* PoolThread::complete

workerVars == <<wpc, idle, slot, local, wRunFlag, wComplete>>

WorkerPC == {"check", "toWait", "waiting", "woken", "run", "release", "exit",
             "done"}

PoolThreadTypeOK ==
  /\ wpc \in [Worker -> WorkerPC]
  /\ idle \in [Worker -> BOOLEAN]
  /\ slot \in [Worker -> Task \cup {NoTask}]
  /\ local \in [Worker -> Task \cup {NoTask}]
  /\ wRunFlag \in [Worker -> BOOLEAN]
  /\ wComplete \in [Worker -> BOOLEAN]

\* The workers exist and have not run.
PoolThreadInit ==
  /\ wpc = [w \in Worker |-> "check"]
  /\ idle = [w \in Worker |-> TRUE]
  /\ slot = [w \in Worker |-> NoTask]
  /\ local = [w \in Worker |-> NoTask]
  /\ wRunFlag = [w \in Worker |-> TRUE]
  /\ wComplete = [w \in Worker |-> FALSE]

WorkerGoto(w, from, to) == wpc[w] = from /\ wpc' = [wpc EXCEPT ![w] = to]

-----------------------------------------------------------------------------
(* What other threads do to a worker, each under its m_mutex.              *)

\* checkout(): the broadcast is sent inside the lock region.
Checkout(w, t) ==
  /\ idle' = [idle EXCEPT ![w] = FALSE]
  /\ slot' = [slot EXCEPT ![w] = t]
  /\ wpc' = [wpc EXCEPT ![w] = Interrupted(@)]
  /\ UNCHANGED <<local, wRunFlag, wComplete>>

\* ~PoolThread(): runFlag is cleared, without the lock, before its loop.
StopWorker(w) ==
  /\ wRunFlag' = [wRunFlag EXCEPT ![w] = FALSE]
  /\ UNCHANGED <<wpc, idle, slot, local, wComplete>>

\* Mutant of InterruptWorker: the destructor only polls the flag.
InterruptWorkerNot(w) == UNCHANGED workerVars

\* mthread->interrupt(), as the destructor's loop repeats it.
InterruptWorker(w) ==
  /\ wpc' = [wpc EXCEPT ![w] = Interrupted(@)]
  /\ UNCHANGED <<idle, slot, local, wRunFlag, wComplete>>

-----------------------------------------------------------------------------
(* The worker thread: PoolThread::run.                                     *)

\* fl = runFlag, read before the loop and at the end of every turn.
WorkerReadFlag(w) ==
  /\ WorkerGoto(w, "check", IF wRunFlag[w] THEN "toWait" ELSE "exit")
  /\ UNCHANGED <<idle, slot, local, wRunFlag, wComplete, taskVars>>

\* mthread->wait()
WorkerWait(w) ==
  /\ WorkerGoto(w, "toWait", "waiting")
  /\ UNCHANGED <<idle, slot, local, wRunFlag, wComplete, taskVars>>

WorkerSpuriousWake(w) ==
  /\ Spurious
  /\ WorkerGoto(w, "waiting", "woken")
  /\ UNCHANGED <<idle, slot, local, wRunFlag, wComplete, taskVars>>

\* getTask(): NULL takes the worker straight to release().
WorkerGetTask(w) ==
  /\ WorkerGoto(w, "woken", IF slot[w] = NoTask THEN "release" ELSE "run")
  /\ local' = [local EXCEPT ![w] = slot[w]]
  /\ UNCHANGED <<idle, slot, wRunFlag, wComplete, taskVars>>

\* The task runs, and ends or throws.
WorkerRun(w) ==
  /\ WorkerGoto(w, "run", "release")
  /\ RunTask(local[w]) \/ RunTaskThrows(local[w])
  /\ UNCHANGED <<idle, slot, local, wRunFlag, wComplete>>

\* Mutants of WorkerRelease: the task is left in the slot; idle is not set.
WorkerReleaseKeeps(w) ==
  /\ WorkerGoto(w, "release", "check")
  /\ idle' = [idle EXCEPT ![w] = TRUE]
  /\ local' = [local EXCEPT ![w] = NoTask]
  /\ UNCHANGED <<slot, wRunFlag, wComplete, taskVars>>

WorkerReleaseBusy(w) ==
  /\ WorkerGoto(w, "release", "check")
  /\ slot' = [slot EXCEPT ![w] = NoTask]
  /\ local' = [local EXCEPT ![w] = NoTask]
  /\ UNCHANGED <<idle, wRunFlag, wComplete, taskVars>>

\* release()
WorkerRelease(w) ==
  /\ WorkerGoto(w, "release", "check")
  /\ slot' = [slot EXCEPT ![w] = NoTask]
  /\ idle' = [idle EXCEPT ![w] = TRUE]
  /\ local' = [local EXCEPT ![w] = NoTask]
  /\ UNCHANGED <<wRunFlag, wComplete, taskVars>>

WorkerExit(w) ==
  /\ WorkerGoto(w, "exit", "done")
  /\ wComplete' = [wComplete EXCEPT ![w] = TRUE]
  /\ UNCHANGED <<idle, slot, local, wRunFlag, taskVars>>

WorkerStep(w) ==
  \/ WorkerReadFlag(w) \/ WorkerWait(w) \/ WorkerGetTask(w) \/ WorkerRun(w)
  \/ WorkerRelease(w) \/ WorkerExit(w)
=============================================================================
