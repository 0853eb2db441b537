----------------------------- MODULE FutureTask -----------------------------
(***************************************************************************)
(* The task objects that the threads of a pool share (Task.h/.cpp and      *)
(* FutureTask.h/.cpp).  tunit, type and priority are set by submit() and   *)
(* schedule() before the pool sees the task and never change afterwards:   *)
(* they are the constants Scheduled and Priority.  Each object is given to *)
(* the pool once.                                                          *)
(***************************************************************************)
EXTENDS Integers, FiniteSets

CONSTANTS
  Task,       \* the task objects
  NoTask,     \* the null Task pointer
  Scheduled,  \* the tasks handed to schedule() with a valid type and tunit
  Priority,   \* Task::priority: the argument of submit(), -1 without one
  Future,     \* the tasks that are FutureTask objects
  CleanUp     \* the tasks the pool deletes after running (setCleanUp)

\* setCleanUp is a public member of a private base of FutureTask, so it
\* cannot be called on a future.
ASSUME TaskAssumption ==
  /\ NoTask \notin Task
  /\ Scheduled \subseteq Task
  /\ Priority \in [Task -> Int]
  /\ Future \subseteq Task
  /\ CleanUp \subseteq Task \ Future

VARIABLES
  isFuture,   \* Task::isFuture, set by submit() after the task is published
  isComplete, \* FutureTask::isComplete
  over,       \* the scheduled tasks whose Timer has run for tunit
  runs,       \* how often each task has been run (history)
  deleted     \* the task objects the workers have deleted

objectVars == <<isFuture, isComplete, runs, deleted>>
taskVars == <<objectVars, over>>

TaskTypeOK ==
  /\ isFuture \in [Task -> BOOLEAN]
  /\ isComplete \in [Task -> BOOLEAN]
  /\ over \subseteq Task
  /\ runs \in [Task -> Nat]
  /\ deleted \subseteq Task

\* No constructor of FutureTask sets isComplete: it holds what its memory held.
TaskInit ==
  /\ isFuture = [t \in Task |-> FALSE]
  /\ isComplete \in {f \in [Task -> BOOLEAN] : \A t \in Task \ Future : ~f[t]}
  /\ over = {}
  /\ runs = [t \in Task |-> 0]
  /\ deleted = {}

\* FutureTask : Task is private inheritance, and a dynamic_cast from a private
\* base yields NULL, for a friend too.
CastToFuture(t) == FALSE

\* Task::isWaitOver
IsWaitOver(t) == t \in over

\* The body of the try block in PoolThread::run when nothing is thrown: call()
\* and taskComplete() if the cast yields the future, run() otherwise (which
\* FutureTask leaves empty), then the delete.
RunTask(t) ==
  /\ runs' = [runs EXCEPT ![t] = @ + 1]
  /\ isComplete' = [isComplete EXCEPT ![t] = @ \/ (isFuture[t] /\ CastToFuture(t))]
  /\ deleted' = IF t \in CleanUp THEN deleted \cup {t} ELSE deleted
  /\ UNCHANGED <<isFuture, over>>

\* run() throws: the handlers swallow the exception and skip the delete.
RunTaskThrows(t) ==
  /\ runs' = [runs EXCEPT ![t] = @ + 1]
  /\ isComplete' = [isComplete EXCEPT ![t] = @ \/ (isFuture[t] /\ CastToFuture(t))]
  /\ UNCHANGED <<isFuture, over, deleted>>

\* task.isFuture = true
MarkFuture(t) ==
  /\ isFuture' = [isFuture EXCEPT ![t] = TRUE]
  /\ UNCHANGED <<isComplete, over, runs, deleted>>
=============================================================================
