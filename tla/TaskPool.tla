------------------------------ MODULE TaskPool ------------------------------
(***************************************************************************)
(* The work pool of the thread pool (src/src/TaskPool.cpp): two queues of  *)
(* tasks that are ready, the list of scheduled tasks with their timers,    *)
(* and the thread that moves a scheduled task to the ready queue when its  *)
(* wait is over.                                                           *)
(*                                                                         *)
(* Every region under m_mutex is one step.  The operators AddTask ...      *)
(* TasksPPending are the bodies of the methods other threads call; the     *)
(* scheduler thread (TaskPool::run) has actions of its own, one per lock   *)
(* region, and a program counter spc.                                      *)
(***************************************************************************)
EXTENDS FutureTask, Mutex, Sequences, SequencesExt

VARIABLES
  tasks,          \* std::queue<Task*>: ready tasks, first in first out
  ptasks,         \* list<Task*>: ready tasks of a priority pool
  scheduledtasks, \* vector<Task*>: tasks that wait for their timer
  spc,            \* where the scheduler thread is
  si,             \* its loop index i (from 1)
  total,          \* its copy of scheduledtasks->size()
  tobeRemoved,    \* its queue of the indices it moved in this pass
  counter,        \* how many of them it has erased
  wpRunFlag,      \* TaskPool::runFlag
  wpComplete      \* TaskPool::complete

queueVars == <<tasks, ptasks, scheduledtasks>>
wpFlags == <<wpRunFlag, wpComplete>>
schedVars == <<spc, si, total, tobeRemoved, counter>>
taskPoolVars == <<queueVars, schedVars, wpFlags>>

SchedPC == {"check", "toWait", "waiting", "woken", "scan", "exit", "done"}

TaskPoolTypeOK ==
  /\ tasks \in Seq(Task)
  /\ ptasks \in Seq(Task)
  /\ scheduledtasks \in Seq(Task)
  /\ spc \in SchedPC
  /\ si \in Nat
  /\ total \in Nat
  /\ tobeRemoved \in Seq(Nat)
  /\ counter \in Nat
  /\ wpRunFlag \in BOOLEAN
  /\ wpComplete \in BOOLEAN

\* The constructor and start(): the scheduler thread exists and has not run.
TaskPoolInit ==
  /\ tasks = <<>> /\ ptasks = <<>> /\ scheduledtasks = <<>>
  /\ spc = "check" /\ si = 1 /\ total = 0 /\ tobeRemoved = <<>> /\ counter = 0
  /\ wpRunFlag = TRUE /\ wpComplete = FALSE

-----------------------------------------------------------------------------
(* The methods other threads call, each the body of one lock region.       *)

\* addTask(): a scheduled task joins the list of timers, another the queue.
AddTask(t) ==
  /\ IF t \in Scheduled
     THEN /\ scheduledtasks' = Append(scheduledtasks, t)
          /\ UNCHANGED tasks
     ELSE /\ tasks' = Append(tasks, t)
          /\ UNCHANGED scheduledtasks
  /\ UNCHANGED ptasks

\* addPTask(): the same for a priority pool.
AddPTask(t) ==
  /\ IF t \in Scheduled
     THEN /\ scheduledtasks' = Append(scheduledtasks, t)
          /\ UNCHANGED ptasks
     ELSE /\ ptasks' = Append(ptasks, t)
          /\ UNCHANGED scheduledtasks
  /\ UNCHANGED tasks

\* m_mutex->interrupt(), after the lock region of addTask() / addPTask().
InterruptScheduler ==
  /\ spc' = Interrupted(spc)
  /\ UNCHANGED <<si, total, tobeRemoved, counter>>

\* getTask(): the front of the queue, or NULL.
FrontTask == IF tasks = <<>> THEN NoTask ELSE Head(tasks)

GetTask ==
  /\ tasks' = IF tasks = <<>> THEN tasks ELSE Tail(tasks)
  /\ UNCHANGED <<ptasks, scheduledtasks>>

\* Mutants of Electable: >= for > when comparing priorities; currpri from -2.
ElectableLast(q) == {i \in DOMAIN q :
                       /\ Priority[q[i]] > 0
                       /\ \A j \in DOMAIN q : Priority[q[j]] <= Priority[q[i]]
                       /\ \A j \in i+1 .. Len(q) : Priority[q[j]] < Priority[q[i]]}

ElectableAny(q) == {i \in DOMAIN q :
                      /\ \A j \in DOMAIN q : Priority[q[j]] <= Priority[q[i]]
                      /\ \A j \in 1 .. i-1 : Priority[q[j]] < Priority[q[i]]}

\* getPTask() starts from currpri = 0 and takes the first of the tasks with
\* the highest priority above it: a task of priority 0 or less is never taken.
Electable(q) == {i \in DOMAIN q :
                   /\ Priority[q[i]] > 0
                   /\ \A j \in DOMAIN q : Priority[q[j]] <= Priority[q[i]]
                   /\ \A j \in 1 .. i-1 : Priority[q[j]] < Priority[q[i]]}

TopIndex == CHOOSE i \in Electable(ptasks) : TRUE

TopPTask == IF Electable(ptasks) = {} THEN NoTask ELSE ptasks[TopIndex]

\* Mutant of GetPTask: the task stays in the list.
GetPTaskKeeps == UNCHANGED queueVars

\* list::remove(); a task is in the list at most once.
GetPTask ==
  /\ ptasks' = IF Electable(ptasks) = {} THEN ptasks ELSE RemoveAt(ptasks, TopIndex)
  /\ UNCHANGED <<tasks, scheduledtasks>>

\* Mutant of TasksPending: the timers are forgotten.
TasksPendingNoTimers == tasks # <<>>

TasksPending == tasks # <<>>  \/ scheduledtasks # <<>>
TasksPPending == ptasks # <<>> \/ scheduledtasks # <<>>

-----------------------------------------------------------------------------
(* The scheduler thread: TaskPool::run.                                    *)

SchedGoto(from, to) == spc = from /\ spc' = to

\* fl = runFlag, read before the loop and at the end of every turn.
SchedReadFlag ==
  /\ SchedGoto("check", IF wpRunFlag THEN "toWait" ELSE "exit")
  /\ UNCHANGED <<queueVars, si, total, tobeRemoved, counter, wpFlags>>

\* m_mutex->wait()
SchedWait ==
  /\ SchedGoto("toWait", "waiting")
  /\ UNCHANGED <<queueVars, si, total, tobeRemoved, counter, wpFlags>>

SchedSpuriousWake ==
  /\ Spurious
  /\ SchedGoto("waiting", "woken")
  /\ UNCHANGED <<queueVars, si, total, tobeRemoved, counter, wpFlags>>

\* total = scheduledtasks->size()
SchedSize ==
  /\ SchedGoto("woken", "scan")
  /\ total' = Len(scheduledtasks)
  /\ UNCHANGED <<queueVars, si, tobeRemoved, counter, wpFlags>>

\* Mutant of SchedScan: the last entry is never looked at.
SchedScanTooFew ==
  /\ spc = "scan" /\ si < total
  /\ si' = si + 1
  /\ IF IsWaitOver(scheduledtasks[si])
     THEN /\ tasks' = Append(tasks, scheduledtasks[si])
          /\ tobeRemoved' = Append(tobeRemoved, si)
     ELSE UNCHANGED <<tasks, tobeRemoved>>
  /\ UNCHANGED <<ptasks, scheduledtasks, spc, total, counter, wpFlags>>

\* One turn of the for loop.  Only this thread removes entries, so entry i is
\* the same in the region that reads it and in the region that pushes it.
SchedScan ==
  /\ spc = "scan" /\ si <= total
  /\ si' = si + 1
  /\ IF IsWaitOver(scheduledtasks[si])
     THEN /\ tasks' = Append(tasks, scheduledtasks[si])
          /\ tobeRemoved' = Append(tobeRemoved, si)
     ELSE UNCHANGED <<tasks, tobeRemoved>>
  /\ UNCHANGED <<ptasks, scheduledtasks, spc, total, counter, wpFlags>>

\* Mutants of SchedErase: counter goes down, stays 0, the entry stays.
SchedEraseCountsDown ==
  /\ spc = "scan" /\ si > total /\ tobeRemoved # <<>>
  /\ scheduledtasks' = RemoveAt(scheduledtasks, Head(tobeRemoved) - counter)
  /\ tobeRemoved' = Tail(tobeRemoved)
  /\ counter' = counter - 1
  /\ UNCHANGED <<tasks, ptasks, spc, si, total, wpFlags>>

SchedEraseNoCounter ==
  /\ spc = "scan" /\ si > total /\ tobeRemoved # <<>>
  /\ scheduledtasks' = RemoveAt(scheduledtasks, Head(tobeRemoved))
  /\ tobeRemoved' = Tail(tobeRemoved)
  /\ UNCHANGED <<tasks, ptasks, spc, si, total, counter, wpFlags>>

SchedEraseKeeps ==
  /\ spc = "scan" /\ si > total /\ tobeRemoved # <<>>
  /\ tobeRemoved' = Tail(tobeRemoved)
  /\ counter' = counter + 1
  /\ UNCHANGED <<queueVars, spc, si, total, wpFlags>>

\* After the for loop, index = tobeRemoved.front() - counter++: the entries
\* before it are gone.
SchedErase ==
  /\ spc = "scan" /\ si > total /\ tobeRemoved # <<>>
  /\ scheduledtasks' = RemoveAt(scheduledtasks, Head(tobeRemoved) - counter)
  /\ tobeRemoved' = Tail(tobeRemoved)
  /\ counter' = counter + 1
  /\ UNCHANGED <<tasks, ptasks, spc, si, total, wpFlags>>

\* The turn ends and its local variables with it.
SchedTurnEnds ==
  /\ si > total /\ tobeRemoved = <<>>
  /\ SchedGoto("scan", "check")
  /\ si' = 1 /\ total' = 0 /\ counter' = 0
  /\ UNCHANGED <<queueVars, tobeRemoved, wpFlags>>

SchedExit ==
  /\ SchedGoto("exit", "done")
  /\ wpComplete' = TRUE
  /\ UNCHANGED <<queueVars, si, total, tobeRemoved, counter, wpRunFlag>>

SchedulerStep ==
  \/ SchedReadFlag \/ SchedWait \/ SchedSize \/ SchedScan \/ SchedErase
  \/ SchedTurnEnds \/ SchedExit

\* Time passes: the timer of a scheduled task reaches tunit.
Elapse(t) ==
  /\ t \notin over /\ t \in ToSet(scheduledtasks)
  /\ over' = over \cup {t}
  /\ UNCHANGED objectVars
=============================================================================
