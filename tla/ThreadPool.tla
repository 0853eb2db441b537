----------------------------- MODULE ThreadPool -----------------------------
(***************************************************************************)
(* The thread pool (src/src/ThreadPool.cpp) around its parts: clients that *)
(* submit and schedule tasks, the poller thread that hands ready tasks to  *)
(* idle workers, the worker threads (PoolThread), the scheduler thread     *)
(* (TaskPool) and the thread that owns the pool, which calls joinAll() and *)
(* the destructor.                                                         *)
(***************************************************************************)
EXTENDS TaskPool, PoolThread

CONSTANTS
  Client,          \* the threads that submit
  PriorityPooling  \* prioritypooling: which constructor made the pool

ASSUME PriorityPoolingAssumption == PriorityPooling \in BOOLEAN

VARIABLES
  ppc, hand, pvar,            \* the poller: where, task in hand, loop index
  runFlag, complete,          \* ThreadPool::runFlag, ThreadPool::complete
  joinComplete,               \* ThreadPool::joinComplete
  opc, oret, ovar, oidle,     \* the owner: where, where joinAll returns to,
                              \* its loop index and its count i of idle workers
  cpc, ccur,                  \* each client: where, the task in its call
  submitted,                  \* the tasks the pool has accepted (history)
  joinSet                     \* those accepted when joinAll last began (history)

pollVars == <<ppc, hand, pvar>>
poolFlags == <<runFlag, complete, joinComplete>>
ownerVars == <<opc, oret, ovar, oidle, joinSet>>
clientVars == <<cpc, ccur, submitted>>
vars == <<taskVars, taskPoolVars, workerVars, pollVars, poolFlags, ownerVars,
          clientVars>>

PollPC == {"pending", "get", "scan", "checkout", "check", "exit", "done"}
OwnerPC == {"open", "join", "count", "stop", "waitPoller", "waitPool",
            "stopWorker", "waitWorker", "gone"}
ClientPC == {"ready", "interrupt", "mark"}

PollTypeOK ==
  /\ ppc \in PollPC /\ hand \in Task \cup {NoTask} /\ pvar \in Worker
  /\ runFlag \in BOOLEAN /\ complete \in BOOLEAN /\ joinComplete \in BOOLEAN

OwnerTypeOK ==
  /\ opc \in OwnerPC /\ oret \in {"open", "stop"} /\ ovar \in Nat /\ oidle \in Nat
  /\ joinSet \subseteq Task

ClientTypeOK ==
  /\ cpc \in [Client -> ClientPC] /\ ccur \in [Client -> Task \cup {NoTask}]
  /\ submitted \subseteq Task

TypeOK == TaskTypeOK /\ TaskPoolTypeOK /\ PoolThreadTypeOK
          /\ PollTypeOK /\ OwnerTypeOK /\ ClientTypeOK

\* initializeThreads() and start(): every thread exists and none has run.
Init ==
  /\ TaskInit /\ TaskPoolInit /\ PoolThreadInit
  /\ ppc = "check" /\ hand = NoTask /\ pvar = 1
  /\ runFlag = TRUE /\ complete = FALSE /\ joinComplete = FALSE
  /\ opc = "open" /\ oret = "open" /\ ovar = 1 /\ oidle = 0
  /\ cpc = [c \in Client |-> "ready"] /\ ccur = [c \in Client |-> NoTask]
  /\ submitted = {} /\ joinSet = {}

Pending == IF PriorityPooling THEN TasksPPending ELSE TasksPending

-----------------------------------------------------------------------------
(* Clients: submit() and schedule().  The pool takes calls until its owner *)
(* begins to destroy it.                                                   *)

ClientGoto(c, from, to) == cpc[c] = from /\ cpc' = [cpc EXCEPT ![c] = to]

\* What a call still has to do once the task is in the queue.
AfterAdd(t)       == IF t \in Scheduled THEN "interrupt"
                     ELSE IF t \in Future THEN "mark" ELSE "ready"
AfterInterrupt(t) == IF t \in Future THEN "mark" ELSE "ready"

Submit(c, t) ==
  /\ t \notin submitted
  /\ oret = "open"
  /\ ClientGoto(c, "ready", AfterAdd(t))
  /\ ccur' = [ccur EXCEPT ![c] = t]
  /\ IF PriorityPooling THEN AddPTask(t) ELSE AddTask(t)
  /\ submitted' = submitted \cup {t}
  /\ UNCHANGED <<taskVars, schedVars, wpFlags, workerVars, pollVars, poolFlags,
                 ownerVars>>

ClientInterrupt(c) ==
  /\ ClientGoto(c, "interrupt", AfterInterrupt(ccur[c]))
  /\ InterruptScheduler
  /\ UNCHANGED <<taskVars, queueVars, wpFlags, workerVars, pollVars, poolFlags,
                 ownerVars, ccur, submitted>>

\* submit(FutureTask&) marks the task only after it is in the queue.
ClientMark(c) ==
  /\ ClientGoto(c, "mark", "ready")
  /\ MarkFuture(ccur[c])
  /\ UNCHANGED <<taskPoolVars, workerVars, pollVars, poolFlags, ownerVars, ccur,
                 submitted>>

ClientReturns(c) == ClientInterrupt(c) \/ ClientMark(c)

-----------------------------------------------------------------------------
(* The poller: ThreadPool::poll and submitInternal.                        *)

PollGoto(from, to) == ppc = from /\ ppc' = to

PollReadFlag ==
  /\ PollGoto("check", IF runFlag THEN "pending" ELSE "exit")
  /\ UNCHANGED <<taskVars, taskPoolVars, workerVars, hand, pvar, poolFlags,
                 ownerVars, clientVars>>

PollPending ==
  /\ PollGoto("pending", IF Pending THEN "get" ELSE "check")
  /\ UNCHANGED <<taskVars, taskPoolVars, workerVars, hand, pvar, poolFlags,
                 ownerVars, clientVars>>

\* getTask() or getPTask(), which return NULL when only timers are left.
PollGet ==
  /\ hand' = IF PriorityPooling THEN TopPTask ELSE FrontTask
  /\ IF PriorityPooling THEN GetPTask ELSE GetTask
  /\ PollGoto("get", IF hand' = NoTask THEN "pending" ELSE "scan")
  /\ UNCHANGED <<taskVars, schedVars, wpFlags, workerVars, pvar, poolFlags,
                 ownerVars, clientVars>>

\* Mutant of PollScan: it does not ask isIdle().
PollScanTakesAny ==
  /\ PollGoto("scan", "checkout")
  /\ UNCHANGED <<taskVars, taskPoolVars, workerVars, hand, pvar, poolFlags,
                 ownerVars, clientVars>>

\* isIdle() of one worker after the other, round and round.
PollScan ==
  /\ PollGoto("scan", IF idle[pvar] THEN "checkout" ELSE "scan")
  /\ pvar' = IF idle[pvar] THEN pvar ELSE (pvar % NumThreads) + 1
  /\ UNCHANGED <<taskVars, taskPoolVars, workerVars, hand, poolFlags, ownerVars,
                 clientVars>>

PollCheckout ==
  /\ PollGoto("checkout", "pending")
  /\ Checkout(pvar, hand)
  /\ hand' = NoTask /\ pvar' = 1
  /\ UNCHANGED <<taskVars, taskPoolVars, poolFlags, ownerVars, clientVars>>

PollExit ==
  /\ PollGoto("exit", "done")
  /\ complete' = TRUE
  /\ UNCHANGED <<taskVars, taskPoolVars, workerVars, hand, pvar, runFlag,
                 joinComplete, ownerVars, clientVars>>

PollerStep == PollReadFlag \/ PollPending \/ PollGet \/ PollScan \/ PollCheckout
              \/ PollExit

-----------------------------------------------------------------------------
(* The owner: joinAll() and ~ThreadPool().                                 *)

OwnerGoto(from, to) == opc = from /\ opc' = to

\* The owner calls joinAll(), or destroys the pool when no client is in a
\* call; the destructor calls joinAll() unless one has completed before.
CallJoin(ret) ==
  /\ ret = "stop" => \A c \in Client : cpc[c] = "ready"
  /\ OwnerGoto("open", IF joinComplete THEN ret ELSE "join")
  /\ oret' = ret
  /\ joinSet' = IF joinComplete THEN joinSet ELSE submitted
  /\ UNCHANGED <<taskVars, taskPoolVars, workerVars, pollVars, poolFlags, ovar,
                 oidle, clientVars>>

\* while (wpool->tasksPending()), then the count of idle workers begins.
JoinPending ==
  /\ ~Pending
  /\ OwnerGoto("join", "count")
  /\ UNCHANGED <<taskVars, taskPoolVars, workerVars, pollVars, poolFlags, oret,
                 ovar, oidle, joinSet, clientVars>>

JoinCount ==
  LET i == IF idle[ovar] THEN oidle + 1 ELSE oidle
      last == ovar = NumThreads
  IN
  /\ OwnerGoto("count", IF ~last THEN "count" ELSE IF i = NumThreads THEN oret
                                                   ELSE "join")
  /\ joinComplete' = (last /\ i = NumThreads)
  /\ oidle' = IF last THEN 0 ELSE i
  /\ ovar' = IF last THEN 1 ELSE ovar + 1
  /\ UNCHANGED <<taskVars, taskPoolVars, workerVars, pollVars, runFlag, complete,
                 oret, joinSet, clientVars>>

StopPoller ==
  /\ OwnerGoto("stop", "waitPoller")
  /\ runFlag' = FALSE
  /\ UNCHANGED <<taskVars, taskPoolVars, workerVars, pollVars, complete,
                 joinComplete, oret, ovar, oidle, joinSet, clientVars>>

\* The poller has ended: ~TaskPool() clears the flag of the scheduler thread
\* and does not interrupt it.
StopTaskPool ==
  /\ complete
  /\ OwnerGoto("waitPoller", "waitPool")
  /\ wpRunFlag' = FALSE
  /\ UNCHANGED <<taskVars, queueVars, schedVars, wpComplete, workerVars, pollVars,
                 poolFlags, oret, ovar, oidle, joinSet, clientVars>>

TaskPoolStopped ==
  /\ wpComplete
  /\ OwnerGoto("waitPool", "stopWorker")
  /\ UNCHANGED <<taskVars, taskPoolVars, workerVars, pollVars, poolFlags, oret,
                 ovar, oidle, joinSet, clientVars>>

\* ~PoolThread() of one worker after the other.
StopNextWorker ==
  /\ OwnerGoto("stopWorker", "waitWorker")
  /\ StopWorker(ovar)
  /\ UNCHANGED <<taskVars, taskPoolVars, pollVars, poolFlags, oret, ovar, oidle,
                 joinSet, clientVars>>

WakeWorker ==
  /\ OwnerGoto("waitWorker", "waitWorker")
  /\ ~wComplete[ovar]
  /\ InterruptWorker(ovar)
  /\ UNCHANGED <<taskVars, taskPoolVars, pollVars, poolFlags, oret, ovar, oidle,
                 joinSet, clientVars>>

WorkerStopped ==
  /\ OwnerGoto("waitWorker", IF ovar = NumThreads THEN "gone" ELSE "stopWorker")
  /\ wComplete[ovar]
  /\ ovar' = ovar + 1
  /\ UNCHANGED <<taskVars, taskPoolVars, workerVars, pollVars, poolFlags, oret,
                 oidle, joinSet, clientVars>>

OwnerStep == JoinPending \/ JoinCount \/ StopPoller \/ StopTaskPool
             \/ TaskPoolStopped \/ StopNextWorker \/ WakeWorker \/ WorkerStopped

-----------------------------------------------------------------------------
Scheduler ==
  /\ SchedulerStep
  /\ UNCHANGED <<taskVars, workerVars, pollVars, poolFlags, ownerVars, clientVars>>

Tick(t) ==
  /\ Elapse(t)
  /\ UNCHANGED <<taskPoolVars, workerVars, pollVars, poolFlags, ownerVars,
                 clientVars>>

WorkerThread(w) ==
  /\ WorkerStep(w)
  /\ UNCHANGED <<taskPoolVars, pollVars, poolFlags, ownerVars, clientVars>>

SpuriousWake ==
  /\ \/ SchedSpuriousWake /\ UNCHANGED <<taskVars, workerVars>>
     \/ (\E w \in Worker : WorkerSpuriousWake(w)) /\ UNCHANGED taskPoolVars
  /\ UNCHANGED <<pollVars, poolFlags, ownerVars, clientVars>>

Next ==
  \/ \E c \in Client : ClientReturns(c) \/ \E t \in Task : Submit(c, t)
  \/ PollerStep
  \/ \E ret \in {"open", "stop"} : CallJoin(ret)
  \/ OwnerStep
  \/ Scheduler
  \/ \E t \in Scheduled : Tick(t)
  \/ \E w \in Worker : WorkerThread(w)
  \/ SpuriousWake

Spec == Init /\ [][Next]_vars

\* Every thread that can run gets to run; nobody has to submit, to call
\* joinAll(), to destroy the pool or to wake spuriously.
Fairness ==
  /\ WF_vars(PollerStep) /\ WF_vars(OwnerStep)
  /\ WF_vars(Scheduler)
  /\ WF_vars(\E t \in Scheduled : Tick(t))
  /\ \A c \in Client : WF_vars(ClientReturns(c))
  /\ \A w \in Worker : WF_vars(WorkerThread(w))

FairSpec == Spec /\ Fairness

-----------------------------------------------------------------------------
(* Properties.                                                             *)

Finished == {t \in Task : runs[t] > 0}
Handed   == {slot[w] : w \in Worker} \ ({NoTask} \cup Finished)
ReadyQ   == IF hand = NoTask THEN tasks ELSE <<hand>> \o tasks

\* A pool without priorities whose wake-ups are never spurious implements
\* WorkPool: the entry of scheduledtasks that the scheduler has pushed and not
\* yet erased, and the task in the poller's hand, are each in one place only.
Promised == INSTANCE WorkPool WITH
  Delayed  <- Scheduled,
  Size     <- NumThreads,
  delayed  <- ToSet(scheduledtasks) \ (ToSet(ReadyQ) \cup Handed \cup Finished),
  queue    <- ReadyQ,
  handed   <- Handed,
  finished <- Finished

ImplementsWorkPool == Promised!Spec

\* A worker is idle exactly when its slot is empty, and a worker that is at
\* work works on what is in its slot: checkout() never overwrites a task.
SlotMatchesIdle ==
  \A w \in Worker :
    /\ idle[w] <=> slot[w] = NoTask
    /\ wpc[w] = "run" => local[w] # NoTask /\ local[w] = slot[w]

\* No task is run twice, spurious wake-ups or not.
AtMostOnce == \A t \in Task : runs[t] <= 1

\* The indices of TaskPool::run stay inside the vectors while other threads
\* append: scheduledtasks->at(i) and at(index) never throw.
IndicesInRange ==
  spc = "scan" =>
    /\ si <= total => si \in DOMAIN scheduledtasks
    /\ \A k \in DOMAIN tobeRemoved :
         tobeRemoved[k] - counter - (k - 1) \in DOMAIN scheduledtasks

\* A pointer that some thread will still follow points to a live task: what the
\* queues, the poller and the slots hold, what the scheduler has yet to look
\* at, and the future a client has yet to mark.
ToFollow ==
  ToSet(tasks) \cup ToSet(ptasks) \cup Handed \cup ({hand} \ {NoTask})
  \cup {scheduledtasks[i] : i \in
          {j \in DOMAIN scheduledtasks :
             ~\E k \in DOMAIN tobeRemoved : tobeRemoved[k] - counter = j}}
  \cup {ccur[c] : c \in {d \in Client : cpc[d] = "mark"}}

NoUseAfterDelete == ToFollow \cap deleted = {}

\* joinAll() returns with at most one of the tasks accepted before it still to
\* run, the one in the poller's hand, which it does not count.
JoinLeavesAtMostOne ==
  joinComplete => Cardinality(joinSet \ Finished) <= 1

\* The poller of a priority pool takes, of the tasks that are queued, the one of
\* highest priority that came first.
TakesHighestFirst ==
  [][PriorityPooling /\ hand' \notin {hand, NoTask} =>
       \E i \in DOMAIN ptasks :
         /\ ptasks[i] = hand'
         /\ \A j \in DOMAIN ptasks : Priority[ptasks[j]] <= Priority[hand']
         /\ \A j \in 1 .. i-1 : Priority[ptasks[j]] < Priority[hand']]_vars

\* A priority pool never runs a task submitted without a positive priority (the
\* default is -1), nor a scheduled one: its scheduler pushes on the queue that
\* the poller of a priority pool does not read.
StarvesWithoutPriority ==
  PriorityPooling => \A t \in Finished : Priority[t] > 0 /\ t \notin Scheduled

\* What "Thread Pool Implementation with Futures" (README) offers: getResult(),
\* which returns once isComplete is set, returns when the pool has run the
\* future.
FinishedFutureIsComplete == \A t \in Future \cap Finished : isComplete[t]

\* A task is stranded when its worker sleeps with the task in its slot: the
\* broadcast came before the worker waited.
Stranded(w) == wpc[w] = "waiting" /\ slot[w] # NoTask

\* A ready task of a pool nobody destroys is run, unless a lost wake-up strands
\* it or has stranded every worker.
ReadyTaskRuns ==
  \A t \in Task :
    t \in ToSet(tasks) ~> \/ runs[t] > 0
                          \/ oret = "stop"
                          \/ \E w \in Worker : Stranded(w) /\ slot[w] = t
                          \/ \A w \in Worker : Stranded(w)

\* A scheduled task that is due when the scheduler wakes leaves the list.
DueTaskIsPromoted ==
  \A t \in Scheduled :
    (spc = "woken" /\ t \in over /\ t \in ToSet(scheduledtasks))
      ~> t \notin ToSet(scheduledtasks)

\* ~PoolThread() repeats its interrupt until the worker ends: once the poller
\* and the scheduler are gone the destructor returns.
WorkersStop == opc = "stopWorker" ~> opc = "gone"
=============================================================================
