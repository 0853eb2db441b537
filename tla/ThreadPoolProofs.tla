-------------------------- MODULE ThreadPoolProofs --------------------------
(***************************************************************************)
(* Theorems about ThreadPool, for every number of workers, clients and     *)
(* tasks, with and without priorities, with and without spurious wake-ups: *)
(* its types and indices, that no task is run twice, and what the pool     *)
(* promises the threads that use it.  No task object is followed after it  *)
(* was deleted, the poller of a priority pool takes the task of highest    *)
(* priority and starves the others, and, as long as no wake-up is          *)
(* spurious, no task is lost, joinAll() leaves one at most, and a pool     *)
(* without priorities implements WorkPool.                                 *)
(***************************************************************************)
EXTENDS ThreadPool, SequenceTheorems, FiniteSetTheorems, TLAPS

-----------------------------------------------------------------------------
(* Removing an entry of a sequence.                                        *)

\* A sequence without one of its entries is a sequence one shorter.
LEMMA RemoveAtType ==
  ASSUME NEW S, NEW s \in Seq(S), NEW i \in DOMAIN s
  PROVE  /\ RemoveAt(s, i) \in Seq(S)
         /\ Len(RemoveAt(s, i)) = Len(s) - 1
PROOF
  <1> DEFINE a == SubSeq(s, 1, i - 1)
             b == SubSeq(s, i + 1, Len(s))
  <1>1. i \in Int /\ 1 <= i /\ i <= Len(s)
    OBVIOUS
  <1>2. a \in Seq(S) /\ Len(a) = i - 1
    BY <1>1, SubSeqProperties
  <1>3. b \in Seq(S) /\ Len(b) = Len(s) - i
    BY <1>1, SubSeqProperties
  <1>4. RemoveAt(s, i) = a \o b
    BY DEF RemoveAt
  <1> HIDE DEF a, b
  <1>5. a \o b \in Seq(S) /\ Len(a \o b) = Len(a) + Len(b)
    BY <1>2, <1>3, ConcatProperties
  <1> QED
    BY <1>1, <1>2, <1>3, <1>4, <1>5

-----------------------------------------------------------------------------
(* Types, and the indices of TaskPool::run.                                *)

\* While the scheduler scans, counter is 0 and tobeRemoved holds increasing
\* indices below si; while it erases, each erased entry has moved the entries
\* that are left one down, which counter makes up for.
SchedInv ==
  /\ si \in 1 .. total + 1
  /\ spc # "scan" => si = 1
  /\ si <= total => counter = 0
  /\ counter + Len(tobeRemoved) < si
  /\ total <= Len(scheduledtasks) + counter
  /\ \A k \in DOMAIN tobeRemoved : counter + k <= tobeRemoved[k] /\ tobeRemoved[k] < si

\* The state of the scheduler's turn depends on its variables and on a list that
\* other threads only make longer.
LEMMA SchedInvStable ==
  ASSUME SchedInv, UNCHANGED <<si, total, tobeRemoved, counter>>,
         spc' # "scan" => spc # "scan",
         TaskPoolTypeOK, Len(scheduledtasks') >= Len(scheduledtasks),
         Len(scheduledtasks') \in Nat
  PROVE  SchedInv'
PROOF
  BY DEF SchedInv, TaskPoolTypeOK

\* The initial state satisfies both.
LEMMA InitTypes == Init => TypeOK /\ SchedInv
PROOF
  <1> SUFFICES ASSUME Init PROVE TypeOK /\ SchedInv
    OBVIOUS
  <1> USE DEF Init
  <1>1. TaskTypeOK
    BY DEF TaskInit, TaskTypeOK
  <1>2. TaskPoolTypeOK /\ SchedInv
    <2>1. TaskPoolTypeOK
      BY EmptySeq DEF TaskPoolInit, TaskPoolTypeOK, SchedPC
    <2>2. tobeRemoved = <<>> /\ scheduledtasks = <<>>
      BY DEF TaskPoolInit
    <2>3. Len(<<>>) = 0 /\ \A k \in DOMAIN <<>> : FALSE
      OBVIOUS
    <2>4. si = 1 /\ total = 0 /\ counter = 0 /\ spc = "check"
      BY DEF TaskPoolInit
    <2> QED
      BY <2>1, <2>2, <2>3, <2>4 DEF SchedInv
  <1>3. PoolThreadTypeOK
    BY DEF PoolThreadInit, PoolThreadTypeOK, WorkerPC
  <1>4. PollTypeOK
    <2>1. 1 \in Worker
      BY NumThreadsAssumption DEF Worker
    <2> QED
      BY <2>1 DEF PollTypeOK, PollPC
  <1>5. OwnerTypeOK /\ ClientTypeOK
    BY DEF OwnerTypeOK, ClientTypeOK, OwnerPC, ClientPC
  <1> QED
    BY <1>1, <1>2, <1>3, <1>4, <1>5 DEF TypeOK

\* Every step of the scheduler thread keeps the types and the indices.
LEMMA SchedulerTypes ==
  ASSUME TaskPoolTypeOK, SchedInv, SchedulerStep \/ SchedSpuriousWake
  PROVE  TaskPoolTypeOK' /\ SchedInv'
PROOF
  <1> USE DEF TaskPoolTypeOK, SchedPC, queueVars, wpFlags, SchedGoto
  <1>1. CASE SchedReadFlag
    BY <1>1 DEF SchedReadFlag, SchedInv
  <1>2. CASE SchedWait
    BY <1>2 DEF SchedWait, SchedInv
  <1>3. CASE SchedSpuriousWake
    BY <1>3 DEF SchedSpuriousWake, SchedInv
  <1>4. CASE SchedSize
    BY <1>4 DEF SchedSize, SchedInv
  <1>5. CASE SchedScan
    <2>1. si \in 1 .. Len(scheduledtasks) /\ counter = 0 /\ spc' = "scan"
      BY <1>5 DEF SchedScan, SchedInv
    <2>2. scheduledtasks[si] \in Task
      BY <2>1
    <2>3. CASE IsWaitOver(scheduledtasks[si])
      <3>1. /\ tasks' = Append(tasks, scheduledtasks[si])
            /\ tobeRemoved' = Append(tobeRemoved, si)
        BY <1>5, <2>3 DEF SchedScan
      <3>2. TaskPoolTypeOK'
        BY <1>5, <2>1, <2>2, <3>1 DEF SchedScan
      <3>3. \A k \in DOMAIN tobeRemoved' :
              counter + k <= tobeRemoved'[k] /\ tobeRemoved'[k] < si + 1
        BY <2>1, <3>1 DEF SchedInv
      <3> QED
        BY <1>5, <2>1, <3>1, <3>2, <3>3 DEF SchedScan, SchedInv
    <2>4. CASE ~IsWaitOver(scheduledtasks[si])
      BY <1>5, <2>1, <2>4 DEF SchedScan, SchedInv
    <2> QED
      BY <2>3, <2>4
  <1>6. CASE SchedErase
    <2> DEFINE index == Head(tobeRemoved) - counter
    <2>1. /\ spc = "scan" /\ si > total /\ tobeRemoved # <<>>
          /\ scheduledtasks' = RemoveAt(scheduledtasks, index)
          /\ tobeRemoved' = Tail(tobeRemoved) /\ counter' = counter + 1
          /\ UNCHANGED <<tasks, ptasks, spc, si, total, wpRunFlag, wpComplete>>
      BY <1>6 DEF SchedErase
    <2>2. index \in DOMAIN scheduledtasks
      BY <2>1 DEF SchedInv
    <2> HIDE DEF index
    <2>3. /\ scheduledtasks' \in Seq(Task)
          /\ Len(scheduledtasks') = Len(scheduledtasks) - 1
      BY <2>1, <2>2, RemoveAtType
    <2>4. /\ tobeRemoved' \in Seq(Nat) /\ Len(tobeRemoved') = Len(tobeRemoved) - 1
          /\ \A k \in DOMAIN tobeRemoved' :
               k + 1 \in DOMAIN tobeRemoved /\ tobeRemoved'[k] = tobeRemoved[k + 1]
      BY <2>1, HeadTailProperties
    <2>5. TaskPoolTypeOK'
      BY <2>1, <2>3, <2>4
    <2>6. \A k \in DOMAIN tobeRemoved' :
            counter' + k <= tobeRemoved'[k] /\ tobeRemoved'[k] < si'
      BY <2>1, <2>4 DEF SchedInv
    <2> QED
      BY <2>1, <2>3, <2>4, <2>5, <2>6 DEF SchedInv
  <1>7. CASE SchedTurnEnds
    BY <1>7 DEF SchedTurnEnds, SchedInv
  <1>8. CASE SchedExit
    BY <1>8 DEF SchedExit, SchedInv
  <1> QED
    BY <1>1, <1>2, <1>3, <1>4, <1>5, <1>6, <1>7, <1>8 DEF SchedulerStep

\* Every step of a worker keeps the types of its own state and of the tasks.
LEMMA WorkerTypes ==
  ASSUME TaskTypeOK, PoolThreadTypeOK, NEW w \in Worker,
         WorkerStep(w) \/ WorkerSpuriousWake(w)
  PROVE  TaskTypeOK' /\ PoolThreadTypeOK'
PROOF
  <1> USE DEF PoolThreadTypeOK, WorkerPC, WorkerGoto
  <1>1. CASE WorkerReadFlag(w)
    BY <1>1 DEF WorkerReadFlag, taskVars, objectVars, TaskTypeOK
  <1>2. CASE WorkerWait(w)
    BY <1>2 DEF WorkerWait, taskVars, objectVars, TaskTypeOK
  <1>3. CASE WorkerSpuriousWake(w)
    BY <1>3 DEF WorkerSpuriousWake, taskVars, objectVars, TaskTypeOK
  <1>4. CASE WorkerGetTask(w)
    BY <1>4 DEF WorkerGetTask, taskVars, objectVars, TaskTypeOK
  <1>5. CASE WorkerRun(w)
    <2>1. PoolThreadTypeOK'
      BY <1>5 DEF WorkerRun
    <2>2. TaskTypeOK'
      BY <1>5, TaskAssumption DEF WorkerRun, RunTask, RunTaskThrows, CastToFuture, TaskTypeOK
    <2> QED
      BY <2>1, <2>2
  <1>6. CASE WorkerRelease(w)
    BY <1>6 DEF WorkerRelease, taskVars, objectVars, TaskTypeOK
  <1>7. CASE WorkerExit(w)
    BY <1>7 DEF WorkerExit, taskVars, objectVars, TaskTypeOK
  <1> QED
    BY <1>1, <1>2, <1>3, <1>4, <1>5, <1>6, <1>7 DEF WorkerStep

\* A part of the state that a step leaves alone keeps its type.
LEMMA Frame ==
  ASSUME TypeOK, SchedInv
  PROVE  /\ UNCHANGED taskVars => TaskTypeOK'
         /\ UNCHANGED taskPoolVars => TaskPoolTypeOK' /\ SchedInv'
         /\ UNCHANGED workerVars => PoolThreadTypeOK'
         /\ UNCHANGED <<pollVars, poolFlags>> => PollTypeOK'
         /\ UNCHANGED ownerVars => OwnerTypeOK'
         /\ UNCHANGED clientVars => ClientTypeOK'
PROOF
  <1> USE DEF TypeOK
  <1>1. UNCHANGED taskVars => TaskTypeOK'
    BY DEF taskVars, objectVars, TaskTypeOK
  <1>2. UNCHANGED taskPoolVars => TaskPoolTypeOK' /\ SchedInv'
    BY DEF taskPoolVars, queueVars, schedVars, wpFlags, TaskPoolTypeOK, SchedInv
  <1>3. UNCHANGED workerVars => PoolThreadTypeOK'
    BY DEF workerVars, PoolThreadTypeOK
  <1>4. UNCHANGED <<pollVars, poolFlags>> => PollTypeOK'
    BY DEF pollVars, poolFlags, PollTypeOK
  <1>5. UNCHANGED ownerVars => OwnerTypeOK'
    BY DEF ownerVars, OwnerTypeOK
  <1>6. UNCHANGED clientVars => ClientTypeOK'
    BY DEF clientVars, ClientTypeOK
  <1> QED
    BY <1>1, <1>2, <1>3, <1>4, <1>5, <1>6

\* Every step of a client keeps the types and the indices.
LEMMA ClientTypes ==
  ASSUME TypeOK, SchedInv, NEW c \in Client,
         ClientReturns(c) \/ \E t \in Task : Submit(c, t)
  PROVE  TypeOK' /\ SchedInv'
PROOF
  <1> USE DEF TypeOK
  <1>1. ASSUME NEW t \in Task, Submit(c, t)
        PROVE  TypeOK' /\ SchedInv'
    <2>1. ClientTypeOK'
      BY <1>1 DEF Submit, ClientGoto, AfterAdd, ClientTypeOK, ClientPC
    <2>2. TaskPoolTypeOK' /\ Len(scheduledtasks') >= Len(scheduledtasks)
      <3>1. /\ Append(tasks, t) \in Seq(Task) /\ Append(ptasks, t) \in Seq(Task)
            /\ Append(scheduledtasks, t) \in Seq(Task)
            /\ Len(Append(scheduledtasks, t)) >= Len(scheduledtasks)
            /\ Len(scheduledtasks) >= Len(scheduledtasks)
        BY AppendProperties, LenProperties DEF TaskPoolTypeOK
      <3>2. /\ tasks' = tasks \/ tasks' = Append(tasks, t)
            /\ ptasks' = ptasks \/ ptasks' = Append(ptasks, t)
            /\ \/ scheduledtasks' = scheduledtasks
               \/ scheduledtasks' = Append(scheduledtasks, t)
            /\ UNCHANGED <<schedVars, wpFlags>>
        BY <1>1 DEF Submit, AddTask, AddPTask
      <3>3. /\ tasks' \in Seq(Task) /\ ptasks' \in Seq(Task) /\ scheduledtasks' \in Seq(Task)
            /\ Len(scheduledtasks') >= Len(scheduledtasks)
        BY <3>1, <3>2 DEF TaskPoolTypeOK
      <3> QED
        BY <3>2, <3>3 DEF TaskPoolTypeOK, schedVars, wpFlags
    <2>3. SchedInv'
      BY <1>1, <2>2, SchedInvStable DEF Submit, schedVars, TaskPoolTypeOK
    <2> QED
      BY <1>1, <2>1, <2>2, <2>3, Frame DEF Submit, pollVars, poolFlags
  <1>2. CASE ClientInterrupt(c)
    <2>1. ClientTypeOK'
      BY <1>2 DEF ClientInterrupt, ClientGoto, AfterInterrupt, ClientTypeOK, ClientPC
    <2>2. TaskPoolTypeOK' /\ scheduledtasks' = scheduledtasks
      BY <1>2 DEF ClientInterrupt, InterruptScheduler, Interrupted, TaskPoolTypeOK, SchedPC,
                  queueVars, wpFlags
    <2>3. SchedInv'
      BY <1>2, <2>2, SchedInvStable
      DEF ClientInterrupt, InterruptScheduler, Interrupted, TaskPoolTypeOK
    <2> QED
      BY <1>2, <2>1, <2>2, <2>3, Frame DEF ClientInterrupt
  <1>3. CASE ClientMark(c)
    <2>1. ClientTypeOK'
      BY <1>3 DEF ClientMark, ClientGoto, ClientTypeOK, ClientPC
    <2>2. TaskTypeOK'
      BY <1>3 DEF ClientMark, MarkFuture, TaskTypeOK
    <2> QED
      BY <1>3, <2>1, <2>2, Frame DEF ClientMark
  <1> QED
    BY <1>1, <1>2, <1>3 DEF ClientReturns

\* The task that getPTask() takes is an entry of the list.
LEMMA TopIsEntry ==
  ASSUME Electable(ptasks) # {}
  PROVE  TopIndex \in DOMAIN ptasks
PROOF
  <1>1. TopIndex \in Electable(ptasks)
    BY DEF TopIndex
  <1> QED
    BY <1>1 DEF Electable

\* Every step of the poller keeps the types and the indices.
LEMMA PollerTypes ==
  ASSUME TypeOK, SchedInv, PollerStep
  PROVE  TypeOK' /\ SchedInv'
PROOF
  <1> USE Frame DEF TypeOK, PollTypeOK, PollPC, PollGoto
  <1>1. CASE PollReadFlag
    BY <1>1 DEF PollReadFlag, poolFlags
  <1>2. CASE PollPending
    BY <1>2 DEF PollPending, poolFlags
  <1>3. CASE PollGet
    <2>1. hand' \in Task \cup {NoTask}
      BY <1>3, TopIsEntry DEF PollGet, TopPTask, FrontTask, TaskPoolTypeOK
    <2>2. PollTypeOK'
      BY <1>3, <2>1 DEF PollGet, poolFlags
    <2>3. CASE PriorityPooling
      <3>1. ptasks' \in Seq(Task) /\ UNCHANGED <<tasks, scheduledtasks>>
        BY <1>3, <2>3, TopIsEntry, RemoveAtType DEF PollGet, GetPTask, TaskPoolTypeOK
      <3>2. TaskPoolTypeOK' /\ SchedInv'
        BY <1>3, <3>1 DEF PollGet, TaskPoolTypeOK, SchedInv, schedVars, wpFlags
      <3> QED
        BY <1>3, <2>2, <3>2 DEF PollGet
    <2>4. CASE ~PriorityPooling
      <3>1. tasks' \in Seq(Task) /\ UNCHANGED <<ptasks, scheduledtasks>>
        BY <1>3, <2>4, HeadTailProperties DEF PollGet, GetTask, TaskPoolTypeOK
      <3>2. TaskPoolTypeOK' /\ SchedInv'
        BY <1>3, <3>1 DEF PollGet, TaskPoolTypeOK, SchedInv, schedVars, wpFlags
      <3> QED
        BY <1>3, <2>2, <3>2 DEF PollGet
    <2> QED
      BY <2>3, <2>4
  <1>4. CASE PollScan
    BY <1>4, NumThreadsAssumption DEF PollScan, poolFlags, Worker
  <1>5. CASE PollCheckout
    <2>1. PollTypeOK'
      BY <1>5, NumThreadsAssumption DEF PollCheckout, poolFlags, Worker
    <2>2. PoolThreadTypeOK'
      BY <1>5 DEF PollCheckout, Checkout, Interrupted, PoolThreadTypeOK, WorkerPC
    <2> QED
      BY <1>5, <2>1, <2>2 DEF PollCheckout
  <1>6. CASE PollExit
    BY <1>6 DEF PollExit
  <1> QED
    BY <1>1, <1>2, <1>3, <1>4, <1>5, <1>6 DEF PollerStep

\* Every step of the owner keeps the types and the indices.
LEMMA OwnerTypes ==
  ASSUME TypeOK, SchedInv, OwnerStep \/ \E ret \in {"open", "stop"} : CallJoin(ret)
  PROVE  TypeOK' /\ SchedInv'
PROOF
  <1> USE Frame DEF TypeOK, OwnerTypeOK, OwnerPC, OwnerGoto
  <1>1. ASSUME NEW ret \in {"open", "stop"}, CallJoin(ret)
        PROVE  TypeOK' /\ SchedInv'
    BY <1>1 DEF CallJoin, ClientTypeOK
  <1>2. CASE JoinPending
    BY <1>2 DEF JoinPending
  <1>3. CASE JoinCount
    <2>1. OwnerTypeOK'
      BY <1>3 DEF JoinCount
    <2>2. PollTypeOK'
      BY <1>3 DEF JoinCount, PollTypeOK, pollVars
    <2> QED
      BY <1>3, <2>1, <2>2 DEF JoinCount
  <1>4. CASE StopPoller
    BY <1>4 DEF StopPoller, PollTypeOK, pollVars
  <1>5. CASE StopTaskPool
    <2>1. TaskPoolTypeOK' /\ SchedInv'
      BY <1>5 DEF StopTaskPool, TaskPoolTypeOK, SchedInv, queueVars, schedVars
    <2> QED
      BY <1>5, <2>1 DEF StopTaskPool
  <1>6. CASE TaskPoolStopped
    BY <1>6 DEF TaskPoolStopped
  <1>7. CASE StopNextWorker
    <2>1. PoolThreadTypeOK'
      BY <1>7 DEF StopNextWorker, StopWorker, PoolThreadTypeOK
    <2> QED
      BY <1>7, <2>1 DEF StopNextWorker
  <1>8. CASE WakeWorker
    <2>1. PoolThreadTypeOK'
      BY <1>8 DEF WakeWorker, InterruptWorker, Interrupted, PoolThreadTypeOK, WorkerPC
    <2> QED
      BY <1>8, <2>1 DEF WakeWorker
  <1>9. CASE WorkerStopped
    BY <1>9 DEF WorkerStopped
  <1> QED
    BY <1>1, <1>2, <1>3, <1>4, <1>5, <1>6, <1>7, <1>8, <1>9 DEF OwnerStep

\* Every step keeps the types and the indices.
LEMMA StepTypes == TypeOK /\ SchedInv /\ [Next]_vars => TypeOK' /\ SchedInv'
PROOF
  <1> SUFFICES ASSUME TypeOK, SchedInv, [Next]_vars PROVE TypeOK' /\ SchedInv'
    OBVIOUS
  <1> USE Frame DEF TypeOK
  <1>1. CASE \E c \in Client : ClientReturns(c) \/ \E t \in Task : Submit(c, t)
    BY <1>1, ClientTypes
  <1>2. CASE PollerStep
    BY <1>2, PollerTypes
  <1>3. CASE OwnerStep \/ \E ret \in {"open", "stop"} : CallJoin(ret)
    BY <1>3, OwnerTypes
  <1>4. CASE Scheduler
    <2>1. TaskPoolTypeOK' /\ SchedInv'
      BY <1>4, SchedulerTypes DEF Scheduler
    <2> QED
      BY <1>4, <2>1 DEF Scheduler
  <1>5. ASSUME NEW t \in Scheduled, Tick(t)
        PROVE  TypeOK' /\ SchedInv'
    <2>1. TaskTypeOK'
      BY <1>5, TaskAssumption DEF Tick, Elapse, objectVars, TaskTypeOK
    <2> QED
      BY <1>5, <2>1 DEF Tick
  <1>6. ASSUME NEW w \in Worker, WorkerThread(w)
        PROVE  TypeOK' /\ SchedInv'
    <2>1. TaskTypeOK' /\ PoolThreadTypeOK'
      BY <1>6, WorkerTypes DEF WorkerThread
    <2> QED
      BY <1>6, <2>1 DEF WorkerThread
  <1>7. CASE SpuriousWake
    <2>1. CASE SchedSpuriousWake /\ UNCHANGED <<taskVars, workerVars>>
      <3>1. TaskPoolTypeOK' /\ SchedInv'
        BY <2>1, SchedulerTypes
      <3> QED
        BY <1>7, <2>1, <3>1 DEF SpuriousWake
    <2>2. ASSUME NEW w \in Worker, WorkerSpuriousWake(w), UNCHANGED taskPoolVars
          PROVE  TypeOK' /\ SchedInv'
      <3>1. TaskTypeOK' /\ PoolThreadTypeOK'
        BY <2>2, WorkerTypes
      <3> QED
        BY <1>7, <2>2, <3>1 DEF SpuriousWake
    <2> QED
      BY <1>7, <2>1, <2>2 DEF SpuriousWake
  <1>8. CASE UNCHANGED vars
    BY <1>8 DEF vars
  <1> QED
    BY <1>1, <1>2, <1>3, <1>4, <1>5, <1>6, <1>7, <1>8 DEF Next

\* Every variable of the pool keeps its type.
THEOREM TypeCorrect == Spec => []TypeOK
PROOF
  <1>1. Spec => [](TypeOK /\ SchedInv)
    BY InitTypes, StepTypes, PTL DEF Spec
  <1> QED
    BY <1>1, PTL

\* TaskPool::run never reads or erases outside the list of scheduled tasks,
\* however many tasks are scheduled while it scans and erases.
THEOREM IndicesCorrect == Spec => []IndicesInRange
PROOF
  <1>1. TypeOK /\ SchedInv => IndicesInRange
    <2> SUFFICES ASSUME TypeOK, SchedInv, spc = "scan" PROVE IndicesInRange
      BY DEF IndicesInRange
    <2>1. si <= total => si \in DOMAIN scheduledtasks
      BY DEF TypeOK, TaskPoolTypeOK, SchedInv
    <2>2. ASSUME NEW k \in DOMAIN tobeRemoved
          PROVE  tobeRemoved[k] - counter - (k - 1) \in DOMAIN scheduledtasks
      BY DEF TypeOK, TaskPoolTypeOK, SchedInv
    <2> QED
      BY <2>1, <2>2 DEF IndicesInRange
  <1>2. Spec => [](TypeOK /\ SchedInv)
    BY InitTypes, StepTypes, PTL DEF Spec
  <1> QED
    BY <1>1, <1>2, PTL

-----------------------------------------------------------------------------
(* Slots: the poller fills a slot only while it knows the worker idle.     *)

\* Between isIdle() and checkout() the worker stays idle, because only the poller
\* makes it busy; and the poller then has a task in hand.
SlotInv ==
  /\ SlotMatchesIdle
  /\ ppc \in {"scan", "checkout"} => hand \in Task
  /\ ppc = "checkout" => idle[pvar]

\* A step that changes neither a slot nor where the poller is keeps SlotInv, if
\* it sends no worker to run a task.
LEMMA SlotFrame ==
  ASSUME SlotInv, PoolThreadTypeOK, UNCHANGED <<idle, slot, local, ppc, hand, pvar>>,
         \A w \in Worker : wpc'[w] = "run" => wpc[w] = "run"
  PROVE  SlotInv'
PROOF
  BY DEF SlotInv, SlotMatchesIdle, PoolThreadTypeOK

\* Every step of a worker keeps it.
LEMMA SlotWorker ==
  ASSUME TypeOK, SlotInv, UNCHANGED <<ppc, hand, pvar>>, NEW w \in Worker,
         WorkerStep(w) \/ WorkerSpuriousWake(w)
  PROVE  SlotInv'
PROOF
  <1> USE DEF TypeOK, PoolThreadTypeOK, PollTypeOK, SlotInv, SlotMatchesIdle, WorkerGoto
  <1>1. CASE WorkerReadFlag(w)
    BY <1>1 DEF WorkerReadFlag
  <1>2. CASE WorkerWait(w)
    BY <1>2 DEF WorkerWait
  <1>3. CASE WorkerSpuriousWake(w)
    BY <1>3 DEF WorkerSpuriousWake
  <1>4. CASE WorkerGetTask(w)
    BY <1>4 DEF WorkerGetTask
  <1>5. CASE WorkerRun(w)
    BY <1>5 DEF WorkerRun
  <1>6. CASE WorkerRelease(w)
    BY <1>6 DEF WorkerRelease
  <1>7. CASE WorkerExit(w)
    BY <1>7 DEF WorkerExit
  <1> QED
    BY <1>1, <1>2, <1>3, <1>4, <1>5, <1>6, <1>7 DEF WorkerStep

\* Every step of the poller keeps it.
LEMMA SlotPoller ==
  ASSUME TypeOK, TypeOK', SlotInv, PollerStep
  PROVE  SlotInv'
PROOF
  <1> USE DEF TypeOK, PoolThreadTypeOK, PollTypeOK, SlotInv, SlotMatchesIdle, PollGoto
  <1>1. CASE PollReadFlag
    BY <1>1 DEF PollReadFlag, workerVars
  <1>2. CASE PollPending
    BY <1>2 DEF PollPending, workerVars
  <1>3. CASE PollGet
    BY <1>3 DEF PollGet, workerVars
  <1>4. CASE PollScan
    BY <1>4 DEF PollScan, workerVars
  <1>5. CASE PollCheckout
    <2>1. idle[pvar] /\ hand \in Task /\ slot[pvar] = NoTask /\ wpc[pvar] # "run"
      BY <1>5 DEF PollCheckout
    <2>2. \A w \in Worker : wpc'[w] = "run" => wpc[w] = "run"
      BY <1>5 DEF PollCheckout, Checkout, Interrupted
    <2> QED
      BY <1>5, <2>1, <2>2, TaskAssumption DEF PollCheckout, Checkout
  <1>6. CASE PollExit
    BY <1>6 DEF PollExit, workerVars
  <1> QED
    BY <1>1, <1>2, <1>3, <1>4, <1>5, <1>6 DEF PollerStep

\* Every step of the pool keeps it.
LEMMA SlotStep == TypeOK /\ TypeOK' /\ SlotInv /\ [Next]_vars => SlotInv'
PROOF
  <1> SUFFICES ASSUME TypeOK, TypeOK', SlotInv, [Next]_vars PROVE SlotInv'
    OBVIOUS
  <1> USE SlotFrame DEF TypeOK, workerVars, pollVars
  <1>1. ASSUME NEW c \in Client, ClientReturns(c) \/ \E t \in Task : Submit(c, t)
        PROVE  SlotInv'
    BY <1>1 DEF ClientReturns, ClientInterrupt, ClientMark, Submit
  <1>2. CASE PollerStep
    BY <1>2, SlotPoller
  <1>3. CASE OwnerStep \/ \E ret \in {"open", "stop"} : CallJoin(ret)
    <2>1. CASE StopNextWorker
      BY <2>1 DEF StopNextWorker, StopWorker
    <2>2. CASE WakeWorker
      BY <2>2 DEF WakeWorker, InterruptWorker, Interrupted, PoolThreadTypeOK
    <2>3. CASE UNCHANGED <<workerVars, pollVars>>
      BY <2>3
    <2> QED
      BY <1>3, <2>1, <2>2, <2>3
      DEF OwnerStep, CallJoin, JoinPending, JoinCount, StopPoller, StopTaskPool,
          TaskPoolStopped, WorkerStopped
  <1>4. CASE Scheduler
    BY <1>4 DEF Scheduler
  <1>5. ASSUME NEW t \in Scheduled, Tick(t)
        PROVE  SlotInv'
    BY <1>5 DEF Tick
  <1>6. ASSUME NEW w \in Worker, WorkerThread(w)
        PROVE  SlotInv'
    BY <1>6, SlotWorker DEF WorkerThread
  <1>7. CASE SpuriousWake
    BY <1>7, SlotWorker DEF SpuriousWake
  <1>8. CASE UNCHANGED vars
    BY <1>8 DEF vars
  <1> QED
    BY <1>1, <1>2, <1>3, <1>4, <1>5, <1>6, <1>7, <1>8 DEF Next

\* A worker is idle exactly when its slot is empty, and a worker that runs a task
\* runs the one in its slot: checkout() never overwrites a task.
THEOREM SlotsCorrect == Spec => []SlotMatchesIdle
PROOF
  <1>1. Init => SlotInv
    BY DEF Init, PoolThreadInit, SlotInv, SlotMatchesIdle
  <1>2. SlotInv => SlotMatchesIdle
    BY DEF SlotInv
  <1> QED
    BY <1>1, <1>2, SlotStep, TypeCorrect, PTL DEF Spec

-----------------------------------------------------------------------------
(* No task is run twice: at any time a task the pool has accepted is in    *)
(* one place only, and the scheduler's list keeps an entry it has already  *)
(* pushed marked by its index until it erases it.                          *)

\* The places a task can be in.
Queued(t)  == \E i \in DOMAIN tasks : tasks[i] = t
PQueued(t) == \E i \in DOMAIN ptasks : ptasks[i] = t
InSlot(t)  == \E w \in Worker : slot[w] = t
Listed(t)  == \E j \in DOMAIN scheduledtasks : scheduledtasks[j] = t
Ran(t)     == runs[t] > 0

\* Entry j of scheduledtasks has been pushed on the queue and not yet erased.
Pushed(j)  == \E k \in DOMAIN tobeRemoved : tobeRemoved[k] - counter = j
Delayed(t) == \E j \in DOMAIN scheduledtasks : scheduledtasks[j] = t /\ ~Pushed(j)

OnePlace(t) ==
  /\ Queued(t)  => ~PQueued(t) /\ hand # t /\ ~InSlot(t) /\ ~Delayed(t) /\ ~Ran(t)
  /\ PQueued(t) => hand # t /\ ~InSlot(t) /\ ~Delayed(t) /\ ~Ran(t)
  /\ hand = t   => ~InSlot(t) /\ ~Delayed(t) /\ ~Ran(t)
  /\ InSlot(t)  => ~Delayed(t)
  /\ Delayed(t) => ~Ran(t)
  /\ \A w \in Worker : slot[w] = t /\ Ran(t) => wpc[w] = "release"
  /\ runs[t] <= 1
  /\ Queued(t) \/ PQueued(t) \/ hand = t \/ InSlot(t) \/ Listed(t) \/ Ran(t)
       => t \in submitted

\* No container holds a task twice, and the scheduler's indices increase.
NoDuplicates ==
  /\ \A i, j \in DOMAIN tasks : tasks[i] = tasks[j] => i = j
  /\ \A i, j \in DOMAIN ptasks : ptasks[i] = ptasks[j] => i = j
  /\ \A i, j \in DOMAIN scheduledtasks : scheduledtasks[i] = scheduledtasks[j] => i = j
  /\ \A i, j \in DOMAIN tobeRemoved : i < j => tobeRemoved[i] < tobeRemoved[j]
  /\ \A v, w \in Worker : slot[v] = slot[w] /\ slot[v] # NoTask => v = w

OnceInv == NoDuplicates /\ \A t \in Task : OnePlace(t)

Inv == TypeOK /\ SchedInv /\ SlotInv /\ OnceInv

-----------------------------------------------------------------------------
(* Sequences.                                                              *)

\* Removing an entry keeps the order of the others.
LEMMA RemoveAtEntries ==
  ASSUME NEW S, NEW s \in Seq(S), NEW i \in DOMAIN s
  PROVE  \A j \in DOMAIN RemoveAt(s, i) :
           /\ j < i => j \in DOMAIN s /\ RemoveAt(s, i)[j] = s[j]
           /\ j >= i => j + 1 \in DOMAIN s /\ RemoveAt(s, i)[j] = s[j + 1]
PROOF
  <1> DEFINE a == SubSeq(s, 1, i - 1)
             b == SubSeq(s, i + 1, Len(s))
  <1>1. i \in Int /\ 1 <= i /\ i <= Len(s)
    OBVIOUS
  <1>2. /\ a \in Seq(S) /\ Len(a) = i - 1
        /\ \A j \in 1 .. i - 1 : a[j] = s[j]
    BY <1>1, SubSeqProperties
  <1>3. /\ b \in Seq(S) /\ Len(b) = Len(s) - i
        /\ \A j \in 1 .. Len(s) - i : b[j] = s[i + j]
    BY <1>1, SubSeqProperties
  <1>4. RemoveAt(s, i) = a \o b
    BY DEF RemoveAt
  <1> HIDE DEF a, b
  <1>5. /\ a \o b \in Seq(S) /\ Len(a \o b) = Len(a) + Len(b)
        /\ \A j \in 1 .. Len(a) + Len(b) :
             (a \o b)[j] = IF j <= Len(a) THEN a[j] ELSE b[j - Len(a)]
    BY <1>2, <1>3, ConcatProperties
  <1>6. DOMAIN (a \o b) = 1 .. Len(s) - 1 /\ Len(a) + Len(b) = Len(s) - 1
    BY SMTT(30), <1>1, <1>2, <1>3, <1>5
  <1>7. ASSUME NEW j \in 1 .. Len(s) - 1
        PROVE  /\ j < i => j \in DOMAIN s /\ (a \o b)[j] = s[j]
               /\ j >= i => j + 1 \in DOMAIN s /\ (a \o b)[j] = s[j + 1]
    <2>1. CASE j < i
      <3>1. j \in 1 .. i - 1 /\ j <= Len(a) /\ j \in 1 .. Len(a) + Len(b)
        BY <1>1, <1>2, <1>6, <2>1
      <3> QED
        BY <1>1, <1>2, <1>5, <2>1, <3>1
    <2>2. CASE j >= i
      <3>1. /\ j - Len(a) \in 1 .. Len(s) - i /\ i + (j - Len(a)) = j + 1
            /\ ~(j <= Len(a)) /\ j \in 1 .. Len(a) + Len(b) /\ j + 1 \in 1 .. Len(s)
        BY SMTT(30), <1>1, <1>2, <1>6, <2>2
      <3>2. (a \o b)[j] = b[j - Len(a)] /\ b[j - Len(a)] = s[i + (j - Len(a))]
        BY <1>3, <1>5, <3>1
      <3> QED
        BY <1>1, <2>2, <3>1, <3>2
    <2> QED
      BY <1>1, <2>1, <2>2
  <1> QED
    BY <1>4, <1>6, <1>7

\* A sequence without duplicates, less one of its entries, has none either and no
\* longer holds that entry's value.
LEMMA RemovedEntry ==
  ASSUME NEW S, NEW s \in Seq(S), NEW i \in DOMAIN s,
         \A j, k \in DOMAIN s : s[j] = s[k] => j = k
  PROVE  /\ \A j, k \in DOMAIN RemoveAt(s, i) :
              RemoveAt(s, i)[j] = RemoveAt(s, i)[k] => j = k
         /\ \A j \in DOMAIN RemoveAt(s, i) :
              \E k \in DOMAIN s : k # i /\ RemoveAt(s, i)[j] = s[k]
PROOF
  <1> DEFINE r == RemoveAt(s, i)
             old(j) == IF j < i THEN j ELSE j + 1
  <1>1. i \in Int /\ \A j \in DOMAIN r : j \in Int
    BY RemoveAtType
  <1>2. \A j \in DOMAIN r : old(j) \in DOMAIN s /\ r[j] = s[old(j)] /\ old(j) # i
    BY <1>1, RemoveAtEntries
  <1>3. \A j, k \in DOMAIN r : old(j) = old(k) => j = k
    BY <1>1
  <1> HIDE DEF r, old
  <1>4. /\ \A j, k \in DOMAIN r : r[j] = r[k] => j = k
        /\ \A j \in DOMAIN r : \E k \in DOMAIN s : k # i /\ r[j] = s[k]
    BY <1>2, <1>3
  <1> QED
    BY <1>4 DEF r

\* What is in a sequence that has got one more value.
LEMMA AppendEntries ==
  ASSUME NEW S, NEW s \in Seq(S), NEW v \in S
  PROVE  \A j \in DOMAIN Append(s, v) :
           \/ j \in DOMAIN s /\ Append(s, v)[j] = s[j]
           \/ j = Len(s) + 1 /\ Append(s, v)[j] = v
PROOF
  BY AppendProperties, LenProperties

\* A sequence without duplicates, with a new value, has none either.
LEMMA AppendedEntry ==
  ASSUME NEW S, NEW s \in Seq(S), NEW v \in S
  PROVE  /\ \A j \in DOMAIN Append(s, v) :
              Append(s, v)[j] = v \/ \E k \in DOMAIN s : Append(s, v)[j] = s[k]
         /\ (/\ \A j, k \in DOMAIN s : s[j] = s[k] => j = k
             /\ \A j \in DOMAIN s : s[j] # v)
            => \A j, k \in DOMAIN Append(s, v) : Append(s, v)[j] = Append(s, v)[k] => j = k
PROOF
  <1> DEFINE r == Append(s, v)
  <1>1. \A j \in DOMAIN r : \/ j \in DOMAIN s /\ r[j] = s[j]
                            \/ j = Len(s) + 1 /\ r[j] = v
    BY AppendEntries
  <1> HIDE DEF r
  <1>2. \A j \in DOMAIN r : r[j] = v \/ \E k \in DOMAIN s : r[j] = s[k]
    BY <1>1
  <1>3. ASSUME \A j, k \in DOMAIN s : s[j] = s[k] => j = k, \A j \in DOMAIN s : s[j] # v
        PROVE  \A j, k \in DOMAIN r : r[j] = r[k] => j = k
    BY <1>1, <1>3
  <1> QED
    BY <1>2, <1>3 DEF r

\* A greater number appended to an increasing sequence keeps it increasing.
LEMMA AppendIncreasing ==
  ASSUME NEW s \in Seq(Nat), NEW n \in Nat,
         \A i, j \in DOMAIN s : i < j => s[i] < s[j],
         \A i \in DOMAIN s : s[i] < n
  PROVE  /\ \A i, j \in DOMAIN Append(s, n) : i < j => Append(s, n)[i] < Append(s, n)[j]
         /\ \A k \in DOMAIN s : k \in DOMAIN Append(s, n) /\ Append(s, n)[k] = s[k]
         /\ \E k \in DOMAIN Append(s, n) : Append(s, n)[k] = n
PROOF
  <1> DEFINE a == Append(s, n)
  <1>1. Len(s) \in Nat /\ DOMAIN s = 1 .. Len(s)
    BY LenProperties
  <1>2. /\ a \in Seq(Nat) /\ Len(a) = Len(s) + 1
        /\ \A i \in 1 .. Len(s) : a[i] = s[i]
        /\ a[Len(s) + 1] = n
    BY AppendProperties
  <1>3. DOMAIN a = 1 .. Len(s) + 1
    BY <1>2, LenProperties
  <1> HIDE DEF a
  <1>4. ASSUME NEW i \in DOMAIN a, NEW j \in DOMAIN a, i < j
        PROVE  a[i] < a[j]
    <2>1. i \in DOMAIN s /\ a[i] = s[i]
      BY <1>1, <1>2, <1>3, <1>4
    <2>2. CASE j = Len(s) + 1
      BY <1>2, <2>1, <2>2
    <2>3. CASE j # Len(s) + 1
      <3>1. j \in DOMAIN s /\ a[j] = s[j]
        BY <1>1, <1>2, <1>3, <2>3
      <3> QED
        BY <1>4, <2>1, <3>1
    <2> QED
      BY <2>2, <2>3
  <1>5. /\ \A k \in DOMAIN s : k \in DOMAIN a /\ a[k] = s[k]
        /\ \E k \in DOMAIN a : a[k] = n
    BY <1>1, <1>2, <1>3
  <1> QED
    BY <1>4, <1>5 DEF a

\* The tail of an increasing sequence is increasing, and its entries are the
\* others, one place earlier.
LEMMA TailIncreasing ==
  ASSUME NEW s \in Seq(Nat), s # <<>>,
         \A i, j \in DOMAIN s : i < j => s[i] < s[j]
  PROVE  /\ \A i, j \in DOMAIN Tail(s) : i < j => Tail(s)[i] < Tail(s)[j]
         /\ \A k \in DOMAIN s : k # 1 => /\ s[1] < s[k]
                                        /\ k - 1 \in DOMAIN Tail(s)
                                        /\ Tail(s)[k - 1] = s[k]
PROOF
  <1> DEFINE r == Tail(s)
  <1>1. Len(s) \in Nat /\ DOMAIN s = 1 .. Len(s)
    BY LenProperties
  <1>2. /\ r \in Seq(Nat) /\ Len(r) = Len(s) - 1
        /\ \A i \in 1 .. Len(r) : r[i] = s[i + 1]
    BY HeadTailProperties
  <1>3. DOMAIN r = 1 .. Len(s) - 1
    BY <1>2, LenProperties
  <1> HIDE DEF r
  <1>4. ASSUME NEW i \in DOMAIN r, NEW j \in DOMAIN r, i < j
        PROVE  r[i] < r[j]
    <2>1. i \in Nat /\ j \in Nat /\ i \in 1 .. Len(r) /\ j \in 1 .. Len(r)
      BY SMTT(30), <1>1, <1>2, <1>3
    <2>2. r[i] = s[i + 1] /\ r[j] = s[j + 1]
      BY <1>2, <2>1
    <2>3. i + 1 \in DOMAIN s /\ j + 1 \in DOMAIN s
      <3>1. Len(s) \in Nat /\ Len(r) = Len(s) - 1
        BY <1>1, <1>2
      <3>2. i + 1 \in 1 .. Len(s) /\ j + 1 \in 1 .. Len(s)
        BY SMTT(30), <2>1, <3>1
      <3> QED
        BY <1>1, <3>2
    <2>4. i + 1 < j + 1
      BY <1>4, <2>1
    <2> QED
      BY <2>2, <2>3, <2>4
  <1>5. ASSUME NEW k \in DOMAIN s, k # 1
        PROVE  s[1] < s[k] /\ k - 1 \in DOMAIN r /\ r[k - 1] = s[k]
    <2>1. 1 \in DOMAIN s /\ 1 < k
      BY <1>1, <1>5
    <2>2. k - 1 \in DOMAIN r /\ r[k - 1] = s[k - 1 + 1] /\ k - 1 + 1 = k
      BY <1>1, <1>2, <1>3, <1>5
    <2> QED
      BY <2>1, <2>2
  <1> QED
    BY <1>4, <1>5 DEF r

-----------------------------------------------------------------------------
(* The steps.                                                              *)

\* A step that moves no task and takes no worker away from release().
LEMMA OnceFrame ==
  ASSUME OnceInv,
         UNCHANGED <<tasks, ptasks, scheduledtasks, tobeRemoved, counter, slot, hand, runs>>,
         submitted \subseteq submitted',
         \A w \in Worker : wpc[w] = "release" => wpc'[w] = "release"
  PROVE  OnceInv'
PROOF
  <1>1. NoDuplicates'
    BY DEF OnceInv, NoDuplicates
  <1>2. ASSUME NEW t \in Task
        PROVE  OnePlace(t)'
    <2>1. /\ Queued(t)' <=> Queued(t)
          /\ PQueued(t)' <=> PQueued(t)
          /\ InSlot(t)' <=> InSlot(t)
          /\ Listed(t)' <=> Listed(t)
          /\ Delayed(t)' <=> Delayed(t)
          /\ Ran(t)' <=> Ran(t)
      BY DEF Queued, PQueued, InSlot, Listed, Delayed, Pushed, Ran
    <2> QED
      BY <2>1 DEF OnceInv, OnePlace
  <1> QED
    BY <1>1, <1>2 DEF OnceInv

\* A client gives the pool a task that is nowhere yet.
LEMMA OnceSubmit ==
  ASSUME Inv, NEW c \in Client, NEW t0 \in Task, Submit(c, t0)
  PROVE  OnceInv'
PROOF
  <1> USE DEF Inv, TypeOK, TaskPoolTypeOK
  <1>1. /\ t0 \notin submitted /\ submitted' = submitted \cup {t0}
        /\ UNCHANGED <<tobeRemoved, counter, slot, hand, runs, wpc>>
    BY DEF Submit, schedVars, workerVars, pollVars, taskVars, objectVars
  <1>2. \/ tasks' = Append(tasks, t0) /\ UNCHANGED <<ptasks, scheduledtasks>>
        \/ ptasks' = Append(ptasks, t0) /\ UNCHANGED <<tasks, scheduledtasks>>
        \/ scheduledtasks' = Append(scheduledtasks, t0) /\ UNCHANGED <<tasks, ptasks>>
    BY DEF Submit, AddTask, AddPTask
  <1>3. ~Queued(t0) /\ ~PQueued(t0) /\ hand # t0 /\ ~InSlot(t0) /\ ~Listed(t0) /\ ~Ran(t0)
    BY <1>1 DEF OnceInv, OnePlace
  <1>4. NoDuplicates'
    <2>1. CASE tasks' = Append(tasks, t0) /\ UNCHANGED <<ptasks, scheduledtasks>>
      BY <1>1, <1>3, <2>1, AppendedEntry DEF OnceInv, NoDuplicates, Queued
    <2>2. CASE ptasks' = Append(ptasks, t0) /\ UNCHANGED <<tasks, scheduledtasks>>
      BY <1>1, <1>3, <2>2, AppendedEntry DEF OnceInv, NoDuplicates, PQueued
    <2>3. CASE scheduledtasks' = Append(scheduledtasks, t0) /\ UNCHANGED <<tasks, ptasks>>
      BY <1>1, <1>3, <2>3, AppendedEntry DEF OnceInv, NoDuplicates, Listed
    <2> QED
      BY <1>2, <2>1, <2>2, <2>3
  <1>5. ASSUME NEW t \in Task
        PROVE  /\ Queued(t)' => Queued(t) \/ (t = t0 /\ tasks' # tasks)
               /\ PQueued(t)' => PQueued(t) \/ (t = t0 /\ ptasks' # ptasks)
               /\ Delayed(t)' => Delayed(t) \/ (t = t0 /\ scheduledtasks' # scheduledtasks)
               /\ Listed(t)' => Listed(t) \/ t = t0
               /\ InSlot(t)' <=> InSlot(t)
               /\ Ran(t)' <=> Ran(t)
    <2>1. InSlot(t)' <=> InSlot(t)
      BY <1>1 DEF InSlot
    <2>2. Ran(t)' <=> Ran(t)
      BY <1>1 DEF Ran
    <2>3. CASE tasks' = Append(tasks, t0) /\ UNCHANGED <<ptasks, scheduledtasks>>
      <3>1. Queued(t)' => Queued(t) \/ t = t0
        BY <2>3, AppendedEntry DEF Queued
      <3>2. Queued(t0)' => tasks' # tasks
        BY <1>3 DEF Queued
      <3> QED
        BY <1>1, <2>1, <2>2, <2>3, <3>1, <3>2 DEF PQueued, Listed, Delayed, Pushed
    <2>4. CASE ptasks' = Append(ptasks, t0) /\ UNCHANGED <<tasks, scheduledtasks>>
      <3>1. PQueued(t)' => PQueued(t) \/ t = t0
        BY <2>4, AppendedEntry DEF PQueued
      <3>2. PQueued(t0)' => ptasks' # ptasks
        BY <1>3 DEF PQueued
      <3> QED
        BY <1>1, <2>1, <2>2, <2>4, <3>1, <3>2 DEF Queued, Listed, Delayed, Pushed
    <2>5. CASE scheduledtasks' = Append(scheduledtasks, t0) /\ UNCHANGED <<tasks, ptasks>>
      <3>1. Listed(t)' => Listed(t) \/ t = t0
        BY <2>5, AppendedEntry DEF Listed
      <3>2. Delayed(t)' => Delayed(t) \/ t = t0
        BY <1>1, <2>5, AppendEntries DEF Delayed, Pushed
      <3>3. Delayed(t0)' => scheduledtasks' # scheduledtasks
        BY <1>3 DEF Delayed, Listed
      <3> QED
        BY <1>1, <2>1, <2>2, <2>5, <3>1, <3>2, <3>3 DEF Queued, PQueued
    <2> QED
      BY <1>2, <2>3, <2>4, <2>5
  <1>6. Delayed(t0) => Listed(t0)
    BY DEF Delayed, Listed
  <1>7. ASSUME NEW t \in Task
        PROVE  OnePlace(t)'
    BY <1>1, <1>2, <1>3, <1>5, <1>6 DEF OnceInv, OnePlace
  <1> QED
    BY <1>4, <1>7 DEF OnceInv

\* The poller takes a task out of a queue into its hand.
LEMMA OncePollGet ==
  ASSUME Inv, PollGet
  PROVE  OnceInv'
PROOF
  <1> USE DEF Inv, TypeOK, TaskPoolTypeOK
  <1>1. UNCHANGED <<scheduledtasks, tobeRemoved, counter, slot, runs, wpc, submitted>>
    BY DEF PollGet, GetTask, GetPTask, schedVars, workerVars, taskVars, objectVars, clientVars
  <1>2. \/ hand' = NoTask /\ UNCHANGED <<tasks, ptasks>>
        \/ /\ tasks # <<>> /\ hand' = Head(tasks) /\ tasks' = Tail(tasks)
           /\ UNCHANGED ptasks
        \/ /\ Electable(ptasks) # {} /\ hand' = ptasks[TopIndex]
           /\ ptasks' = RemoveAt(ptasks, TopIndex) /\ UNCHANGED tasks
    BY DEF PollGet, GetTask, GetPTask, FrontTask, TopPTask
  <1>3. ASSUME NEW t \in Task
        PROVE  /\ InSlot(t)' <=> InSlot(t)
               /\ Ran(t)' <=> Ran(t)
               /\ Listed(t)' <=> Listed(t)
               /\ Delayed(t)' <=> Delayed(t)
    BY <1>1 DEF InSlot, Ran, Listed, Delayed, Pushed
  <1>4. CASE hand' = NoTask /\ UNCHANGED <<tasks, ptasks>>
    <2>1. NoDuplicates'
      BY <1>1, <1>4 DEF OnceInv, NoDuplicates
    <2>2. ASSUME NEW t \in Task
          PROVE  OnePlace(t)'
      <3>1. (Queued(t)' <=> Queued(t)) /\ (PQueued(t)' <=> PQueued(t)) /\ hand' # t
        BY <1>4, TaskAssumption DEF Queued, PQueued
      <3> QED
        BY <1>1, <1>3, <3>1 DEF OnceInv, OnePlace
    <2> QED
      BY <2>1, <2>2 DEF OnceInv
  <1>5. CASE /\ tasks # <<>> /\ hand' = Head(tasks) /\ tasks' = Tail(tasks)
             /\ UNCHANGED ptasks
    <2>1. /\ hand' = tasks[1] /\ 1 \in DOMAIN tasks
          /\ \A i \in DOMAIN tasks' : i + 1 \in DOMAIN tasks /\ tasks'[i] = tasks[i + 1]
                                      /\ i + 1 # 1
      BY <1>5, HeadTailProperties, LenProperties
    <2>2. NoDuplicates'
      BY <1>1, <1>5, <2>1 DEF OnceInv, NoDuplicates
    <2>3. ASSUME NEW t \in Task
          PROVE  /\ Queued(t)' => Queued(t) /\ t # hand'
                 /\ hand' = t => Queued(t)
                 /\ PQueued(t)' <=> PQueued(t)
      BY <1>5, <2>1 DEF OnceInv, NoDuplicates, Queued, PQueued
    <2>4. ASSUME NEW t \in Task
          PROVE  OnePlace(t)'
      BY <1>1, <1>3, <2>3 DEF OnceInv, OnePlace
    <2> QED
      BY <2>2, <2>4 DEF OnceInv
  <1>6. CASE /\ Electable(ptasks) # {} /\ hand' = ptasks[TopIndex]
             /\ ptasks' = RemoveAt(ptasks, TopIndex) /\ UNCHANGED tasks
    <2>1. TopIndex \in DOMAIN ptasks
      BY <1>6, TopIsEntry
    <2>2. /\ \A i, j \in DOMAIN ptasks' : ptasks'[i] = ptasks'[j] => i = j
          /\ \A i \in DOMAIN ptasks' :
               \E k \in DOMAIN ptasks : k # TopIndex /\ ptasks'[i] = ptasks[k]
      BY <1>6, <2>1, RemovedEntry DEF OnceInv, NoDuplicates
    <2>4. NoDuplicates'
      BY <1>1, <1>6, <2>2 DEF OnceInv, NoDuplicates
    <2>5. ASSUME NEW t \in Task
          PROVE  /\ PQueued(t)' => PQueued(t) /\ t # hand'
                 /\ hand' = t => PQueued(t)
                 /\ Queued(t)' <=> Queued(t)
      BY <1>6, <2>1, <2>2 DEF OnceInv, NoDuplicates, Queued, PQueued
    <2>6. ASSUME NEW t \in Task
          PROVE  OnePlace(t)'
      BY <1>1, <1>3, <2>5 DEF OnceInv, OnePlace
    <2> QED
      BY <2>4, <2>6 DEF OnceInv
  <1> QED
    BY <1>2, <1>4, <1>5, <1>6

\* The poller puts the task in its hand into the slot of an idle worker.
LEMMA OnceCheckout ==
  ASSUME Inv, PollCheckout
  PROVE  OnceInv'
PROOF
  <1> USE DEF Inv, TypeOK, PoolThreadTypeOK, PollTypeOK
  <1>1. /\ hand \in Task /\ pvar \in Worker /\ slot[pvar] = NoTask
        /\ slot' = [slot EXCEPT ![pvar] = hand] /\ hand' = NoTask
        /\ UNCHANGED <<tasks, ptasks, scheduledtasks, tobeRemoved, counter, runs, submitted>>
    BY DEF PollCheckout, PollGoto, Checkout, SlotInv, SlotMatchesIdle, taskPoolVars, queueVars,
           schedVars, taskVars, objectVars, clientVars
  <1>2. \A w \in Worker : wpc[w] = "release" => wpc'[w] = "release"
    BY DEF PollCheckout, Checkout, Interrupted
  <1>3. NoDuplicates'
    BY <1>1 DEF OnceInv, NoDuplicates, OnePlace, InSlot
  <1>4. ASSUME NEW t \in Task
        PROVE  OnePlace(t)'
    <2>1. /\ InSlot(t)' => InSlot(t) \/ t = hand
          /\ \A w \in Worker : slot'[w] = t => slot[w] = t \/ t = hand
      BY <1>1 DEF InSlot
    <2>2. /\ Queued(t)' <=> Queued(t)
          /\ PQueued(t)' <=> PQueued(t)
          /\ Listed(t)' <=> Listed(t)
          /\ Delayed(t)' <=> Delayed(t)
          /\ Ran(t)' <=> Ran(t)
          /\ hand' # t
      BY <1>1, TaskAssumption DEF Queued, PQueued, Listed, Delayed, Pushed, Ran
    <2> QED
      BY <1>1, <1>2, <2>1, <2>2 DEF OnceInv, OnePlace
  <1> QED
    BY <1>3, <1>4 DEF OnceInv

\* A worker takes the task in its slot, runs it, releases itself, wakes for
\* nothing, waits or ends.
LEMMA OnceWorker ==
  ASSUME Inv, NEW w \in Worker, WorkerStep(w) \/ WorkerSpuriousWake(w),
         UNCHANGED <<tasks, ptasks, scheduledtasks, tobeRemoved, counter, hand, submitted>>
  PROVE  OnceInv'
PROOF
  <1> USE DEF Inv, TypeOK, PoolThreadTypeOK, WorkerGoto
  <1>1. CASE WorkerReadFlag(w) \/ WorkerWait(w) \/ WorkerGetTask(w) \/ WorkerExit(w)
             \/ WorkerSpuriousWake(w)
    BY <1>1, OnceFrame
    DEF WorkerReadFlag, WorkerWait, WorkerGetTask, WorkerExit, WorkerSpuriousWake, taskVars,
        objectVars
  <1>2. CASE WorkerRun(w)
    <2>1. /\ slot[w] \in Task /\ wpc[w] = "run" /\ wpc' = [wpc EXCEPT ![w] = "release"]
          /\ runs' = [runs EXCEPT ![slot[w]] = @ + 1] /\ slot' = slot
      BY <1>2 DEF WorkerRun, RunTask, RunTaskThrows, SlotInv, SlotMatchesIdle
    <2>2. ~Ran(slot[w]) /\ runs[slot[w]] = 0
      BY <2>1 DEF OnceInv, OnePlace, Ran, TaskTypeOK
    <2>3. NoDuplicates'
      BY <2>1 DEF OnceInv, NoDuplicates
    <2>4. ASSUME NEW t \in Task
          PROVE  OnePlace(t)'
      <3>1. /\ Queued(t)' <=> Queued(t)
            /\ PQueued(t)' <=> PQueued(t)
            /\ InSlot(t)' <=> InSlot(t)
            /\ Listed(t)' <=> Listed(t)
            /\ Delayed(t)' <=> Delayed(t)
        BY <2>1 DEF Queued, PQueued, InSlot, Listed, Delayed, Pushed
      <3>2. CASE t = slot[w]
        <4>1. runs'[t] = 1 /\ InSlot(t) /\ \A v \in Worker : slot[v] = t => v = w
          BY <2>1, <2>2, <3>2, TaskAssumption DEF InSlot, TaskTypeOK, OnceInv, NoDuplicates
        <4> QED
          BY <2>1, <3>1, <4>1 DEF OnceInv, OnePlace
      <3>3. CASE t # slot[w]
        <4>1. runs'[t] = runs[t] /\ (Ran(t)' <=> Ran(t))
          BY <2>1, <3>3 DEF TaskTypeOK, Ran
        <4> QED
          BY <2>1, <3>1, <3>3, <4>1 DEF OnceInv, OnePlace
      <3> QED
        BY <3>2, <3>3
    <2> QED
      BY <2>3, <2>4 DEF OnceInv
  <1>3. CASE WorkerRelease(w)
    <2>1. /\ slot' = [slot EXCEPT ![w] = NoTask] /\ runs' = runs
          /\ \A v \in Worker : v # w => wpc'[v] = wpc[v]
      BY <1>3 DEF WorkerRelease, taskVars, objectVars
    <2>2. NoDuplicates'
      BY <2>1 DEF OnceInv, NoDuplicates
    <2>3. ASSUME NEW t \in Task
          PROVE  OnePlace(t)'
      <3>1. /\ InSlot(t)' => InSlot(t)
            /\ \A v \in Worker : slot'[v] = t => slot[v] = t /\ v # w
        BY <2>1, TaskAssumption DEF InSlot
      <3>2. /\ Queued(t)' <=> Queued(t)
            /\ PQueued(t)' <=> PQueued(t)
            /\ Listed(t)' <=> Listed(t)
            /\ Delayed(t)' <=> Delayed(t)
            /\ Ran(t)' <=> Ran(t)
        BY <2>1 DEF Queued, PQueued, Listed, Delayed, Pushed, Ran
      <3> QED
        BY <2>1, <3>1, <3>2 DEF OnceInv, OnePlace
    <2> QED
      BY <2>2, <2>3 DEF OnceInv
  <1> QED
    BY <1>1, <1>2, <1>3 DEF WorkerStep

\* The scheduler pushes an entry that is due, or erases one that it has pushed.
LEMMA OnceScheduler ==
  ASSUME Inv, Scheduler
  PROVE  OnceInv'
PROOF
  <1> USE DEF Inv, TypeOK, TaskPoolTypeOK
  <1>1. UNCHANGED <<ptasks, slot, hand, runs, wpc, submitted>>
    BY DEF Scheduler, SchedulerStep, SchedReadFlag, SchedWait, SchedSize, SchedScan, SchedErase,
           SchedTurnEnds, SchedExit, queueVars, taskVars, objectVars, workerVars, pollVars,
           clientVars
  <1>2. CASE SchedReadFlag \/ SchedWait \/ SchedSize \/ SchedExit
    BY <1>1, <1>2, OnceFrame DEF SchedReadFlag, SchedWait, SchedSize, SchedExit, queueVars
  <1>3. CASE SchedTurnEnds
    <2>1. tobeRemoved = <<>> /\ UNCHANGED <<tasks, scheduledtasks, tobeRemoved>>
      BY <1>3 DEF SchedTurnEnds, queueVars
    <2>2. \A k \in DOMAIN tobeRemoved : FALSE
      BY <2>1
    <2>3. NoDuplicates'
      BY <1>1, <2>1 DEF OnceInv, NoDuplicates
    <2>4. ASSUME NEW t \in Task
          PROVE  OnePlace(t)'
      <3>1. /\ Queued(t)' <=> Queued(t)
            /\ PQueued(t)' <=> PQueued(t)
            /\ InSlot(t)' <=> InSlot(t)
            /\ Listed(t)' <=> Listed(t)
            /\ Ran(t)' <=> Ran(t)
        BY <1>1, <2>1 DEF Queued, PQueued, InSlot, Listed, Ran
      <3>2. Delayed(t)' <=> Delayed(t)
        BY <2>1, <2>2 DEF Delayed, Pushed
      <3> QED
        BY <1>1, <3>1, <3>2 DEF OnceInv, OnePlace
    <2> QED
      BY <2>3, <2>4 DEF OnceInv
  <1>4. CASE SchedScan
    <2>1. CASE UNCHANGED <<tasks, tobeRemoved>>
      BY <1>1, <1>4, <2>1, OnceFrame DEF SchedScan
    <2> DEFINE t0 == scheduledtasks[si]
    <2>2. CASE tasks' = Append(tasks, t0) /\ tobeRemoved' = Append(tobeRemoved, si)
      <3>1. /\ si \in DOMAIN scheduledtasks /\ counter = 0 /\ t0 \in Task
            /\ UNCHANGED <<scheduledtasks, counter>>
        BY <1>4 DEF SchedScan, SchedInv
      <3>2. Delayed(t0)
        BY <3>1 DEF Delayed, Pushed, SchedInv
      <3> HIDE DEF t0
      <3>3. ~Queued(t0) /\ ~PQueued(t0) /\ hand # t0 /\ ~InSlot(t0) /\ ~Ran(t0)
            /\ t0 \in submitted
        BY <3>1, <3>2 DEF OnceInv, OnePlace, Delayed, Listed
      <3>4. /\ \A i, j \in DOMAIN tasks' : tasks'[i] = tasks'[j] => i = j
            /\ \A j \in DOMAIN tasks' : tasks'[j] = t0 \/ \E k \in DOMAIN tasks : tasks'[j] = tasks[k]
        <4>1. /\ \A i, j \in DOMAIN tasks : tasks[i] = tasks[j] => i = j
              /\ \A j \in DOMAIN tasks : tasks[j] # t0
          BY <3>3 DEF OnceInv, NoDuplicates, Queued
        <4> QED
          BY <2>2, <3>1, <4>1, AppendedEntry
      <3>5. /\ \A i, j \in DOMAIN tobeRemoved' : i < j => tobeRemoved'[i] < tobeRemoved'[j]
            /\ \A k \in DOMAIN tobeRemoved : k \in DOMAIN tobeRemoved' /\ tobeRemoved'[k] = tobeRemoved[k]
            /\ \E k \in DOMAIN tobeRemoved' : tobeRemoved'[k] = si
        <4>1. \A k \in DOMAIN tobeRemoved : tobeRemoved[k] < si
          BY DEF SchedInv
        <4>2. \A i, j \in DOMAIN tobeRemoved : i < j => tobeRemoved[i] < tobeRemoved[j]
          BY DEF OnceInv, NoDuplicates
        <4>3. tobeRemoved \in Seq(Nat) /\ si \in Nat
          OBVIOUS
        <4> QED
          BY <2>2, <4>1, <4>2, <4>3, AppendIncreasing
      <3>6. NoDuplicates'
        BY <1>1, <3>1, <3>4, <3>5 DEF OnceInv, NoDuplicates
      <3> PICK n \in Nat : n = si
        OBVIOUS
      <3>7. Pushed(n)' /\ \A j \in DOMAIN scheduledtasks : Pushed(j) => Pushed(j)'
        <4>1. n - counter' = n
          BY <3>1
        <4>2. PICK k \in DOMAIN tobeRemoved' : tobeRemoved'[k] = n
          BY <3>5
        <4>3. Pushed(n)'
          BY <4>1, <4>2 DEF Pushed
        <4>4. ASSUME NEW j \in DOMAIN scheduledtasks, Pushed(j)
              PROVE  Pushed(j)'
          BY <3>1, <3>5, <4>4 DEF Pushed
        <4> QED
          BY <4>3, <4>4
      <3>8. ASSUME NEW t \in Task
            PROVE  OnePlace(t)'
        <4>1. Queued(t)' => Queued(t) \/ t = t0
          BY <3>4 DEF Queued
        <4>2. Delayed(t)' => Delayed(t) /\ t # t0
          <5>1. \A j \in DOMAIN scheduledtasks : scheduledtasks[j] = t0 => j = si
            BY <3>1 DEF t0, OnceInv, NoDuplicates
          <5> SUFFICES ASSUME NEW j \in DOMAIN scheduledtasks, scheduledtasks[j] = t,
                              ~Pushed(j)'
                       PROVE  ~Pushed(j) /\ t # t0
            BY <3>1 DEF Delayed
          <5>2. ~Pushed(j)
            BY <3>7
          <5>3. j # n
            BY <3>7
          <5> QED
            BY <5>1, <5>2, <5>3
        <4>3. /\ PQueued(t)' <=> PQueued(t)
              /\ InSlot(t)' <=> InSlot(t)
              /\ Listed(t)' <=> Listed(t)
              /\ Ran(t)' <=> Ran(t)
          BY <1>1, <3>1 DEF PQueued, InSlot, Listed, Ran
        <4> QED
          BY <1>1, <3>3, <4>1, <4>2, <4>3 DEF OnceInv, OnePlace
      <3> QED
        BY <3>6, <3>8 DEF OnceInv
    <2> QED
      BY <1>4, <2>1, <2>2 DEF SchedScan
  <1>5. CASE SchedErase
    <2> DEFINE index == Head(tobeRemoved) - counter
    <2>1. /\ tobeRemoved # <<>> /\ tasks' = tasks /\ counter' = counter + 1
          /\ scheduledtasks' = RemoveAt(scheduledtasks, index)
          /\ tobeRemoved' = Tail(tobeRemoved)
      BY <1>5 DEF SchedErase
    <2>2. /\ index \in DOMAIN scheduledtasks /\ index = tobeRemoved[1] - counter
          /\ 1 \in DOMAIN tobeRemoved
      BY SMTT(30), <1>5, <2>1, HeadTailProperties, LenProperties DEF SchedErase, SchedInv
    <2> HIDE DEF index
    <2>3. \A k \in DOMAIN tobeRemoved : k \in Int /\ tobeRemoved[k] \in Int
      BY LenProperties
    <2>4. /\ \A i, j \in DOMAIN scheduledtasks' : scheduledtasks'[i] = scheduledtasks'[j] => i = j
          /\ \A j \in DOMAIN scheduledtasks' :
               \E k \in DOMAIN scheduledtasks : scheduledtasks'[j] = scheduledtasks[k]
      BY SMTT(30), <2>1, <2>2, RemovedEntry DEF OnceInv, NoDuplicates
    <2>5. /\ \A i, j \in DOMAIN tobeRemoved' : i < j => tobeRemoved'[i] < tobeRemoved'[j]
          /\ \A k \in DOMAIN tobeRemoved : k # 1 => /\ tobeRemoved[1] < tobeRemoved[k]
                                                   /\ k - 1 \in DOMAIN tobeRemoved'
                                                   /\ tobeRemoved'[k - 1] = tobeRemoved[k]
      BY <2>1, TailIncreasing DEF OnceInv, NoDuplicates
    <2>6. NoDuplicates'
      BY <1>1, <2>1, <2>4, <2>5 DEF OnceInv, NoDuplicates
    <2>8. ASSUME NEW j \in DOMAIN scheduledtasks', ~Pushed(j)'
          PROVE  \E i \in DOMAIN scheduledtasks :
                   scheduledtasks'[j] = scheduledtasks[i] /\ ~Pushed(i)
      <3>1. j \in Int /\ index \in Int
        <4>1. scheduledtasks \in Seq(Task)
          BY DEF TaskPoolTypeOK
        <4>2. scheduledtasks' \in Seq(Task)
          BY <2>1, <2>2, <4>1, RemoveAtType
        <4>3. \A s \in Seq(Task) : \A i \in DOMAIN s : i \in Int
          BY LenProperties
        <4> QED
          BY <2>2, <4>1, <4>2, <4>3
      <3>2. /\ j < index => j \in DOMAIN scheduledtasks /\ scheduledtasks'[j] = scheduledtasks[j]
            /\ j >= index => /\ j + 1 \in DOMAIN scheduledtasks
                             /\ scheduledtasks'[j] = scheduledtasks[j + 1]
        BY <2>1, <2>2, RemoveAtEntries
      <3>3. CASE j < index
        <4>1. ~Pushed(j)
          <5>1. ASSUME NEW k \in DOMAIN tobeRemoved, tobeRemoved[k] - counter = j
                PROVE  FALSE
            <6>1. counter \in Int /\ tobeRemoved[1] \in Int /\ tobeRemoved[k] \in Int
              BY <2>2, <2>3
            <6>2. tobeRemoved[1] <= tobeRemoved[k]
              BY <2>5, <6>1
            <6> QED
              BY <2>2, <3>1, <3>3, <5>1, <6>1, <6>2
          <5> QED
            BY <5>1 DEF Pushed
        <4> QED
          BY <3>2, <3>3, <4>1
      <3>4. CASE j >= index
        <4>1. ASSUME NEW k \in DOMAIN tobeRemoved, tobeRemoved[k] - counter = j + 1
              PROVE  FALSE
          <5>1. k # 1
            BY <2>2, <3>1, <3>4, <4>1
          <5>2. k - 1 \in DOMAIN tobeRemoved' /\ tobeRemoved'[k - 1] = tobeRemoved[k]
            BY <2>5, <5>1
          <5>3. tobeRemoved'[k - 1] - counter' = j
            <6>1. counter \in Int /\ tobeRemoved[k] \in Int
              BY <2>3
            <6>2. tobeRemoved[k] - (counter + 1) = j
              BY <3>1, <4>1, <6>1
            <6> QED
              BY <2>1, <5>2, <6>2
          <5> QED
            BY <2>8, <5>2, <5>3 DEF Pushed
        <4>2. ~Pushed(j + 1)
          BY <4>1 DEF Pushed
        <4> QED
          BY <3>2, <3>4, <4>2
      <3> QED
        BY <3>1, <3>3, <3>4
    <2>9. ASSUME NEW t \in Task
          PROVE  OnePlace(t)'
      <3>1. Delayed(t)' => Delayed(t)
        BY <2>8 DEF Delayed
      <3>2. Listed(t)' => Listed(t)
        BY <2>4 DEF Listed
      <3>3. /\ Queued(t)' <=> Queued(t)
            /\ PQueued(t)' <=> PQueued(t)
            /\ InSlot(t)' <=> InSlot(t)
            /\ Ran(t)' <=> Ran(t)
        BY <1>1, <2>1 DEF Queued, PQueued, InSlot, Ran
      <3> QED
        BY <1>1, <3>1, <3>2, <3>3 DEF OnceInv, OnePlace
    <2> QED
      BY <2>6, <2>9 DEF OnceInv
  <1> QED
    BY <1>2, <1>3, <1>4, <1>5 DEF Scheduler, SchedulerStep

\* Every step of the pool keeps each task in one place.
LEMMA OnceStep == Inv /\ [Next]_vars => OnceInv'
PROOF
  <1> SUFFICES ASSUME Inv, [Next]_vars PROVE OnceInv'
    OBVIOUS
  <1> USE OnceFrame
      DEF Inv, taskVars, objectVars, taskPoolVars, queueVars, schedVars, workerVars, pollVars,
          clientVars
  <1>1. ASSUME NEW c \in Client, NEW t \in Task, Submit(c, t)
        PROVE  OnceInv'
    BY <1>1, OnceSubmit
  <1>2. ASSUME NEW c \in Client, ClientReturns(c)
        PROVE  OnceInv'
    BY <1>2 DEF ClientReturns, ClientInterrupt, ClientMark, InterruptScheduler, MarkFuture
  <1>3. CASE PollerStep
    <2>1. CASE PollGet
      BY <2>1, OncePollGet
    <2>2. CASE PollCheckout
      BY <2>2, OnceCheckout
    <2>3. CASE PollReadFlag \/ PollPending \/ PollScan \/ PollExit
      BY <2>3 DEF PollReadFlag, PollPending, PollScan, PollExit
    <2> QED
      BY <1>3, <2>1, <2>2, <2>3 DEF PollerStep
  <1>4. CASE OwnerStep \/ \E ret \in {"open", "stop"} : CallJoin(ret)
    <2>1. CASE StopNextWorker
      BY <2>1 DEF StopNextWorker, StopWorker
    <2>2. CASE WakeWorker
      BY <2>2 DEF WakeWorker, InterruptWorker, Interrupted, TypeOK, PoolThreadTypeOK
    <2>3. CASE StopTaskPool
      BY <2>3 DEF StopTaskPool
    <2>4. CASE UNCHANGED <<taskVars, taskPoolVars, workerVars, pollVars, clientVars>>
      BY <2>4
    <2> QED
      BY <1>4, <2>1, <2>2, <2>3, <2>4
      DEF OwnerStep, CallJoin, JoinPending, JoinCount, StopPoller, TaskPoolStopped, WorkerStopped
  <1>5. CASE Scheduler
    BY <1>5, OnceScheduler
  <1>6. ASSUME NEW t \in Scheduled, Tick(t)
        PROVE  OnceInv'
    BY <1>6 DEF Tick, Elapse
  <1>7. ASSUME NEW w \in Worker, WorkerThread(w)
        PROVE  OnceInv'
    BY <1>7, OnceWorker DEF WorkerThread
  <1>8. CASE SpuriousWake
    <2>1. CASE SchedSpuriousWake /\ UNCHANGED <<taskVars, workerVars>>
      BY <1>8, <2>1 DEF SpuriousWake, SchedSpuriousWake
    <2>2. ASSUME NEW w \in Worker, WorkerSpuriousWake(w), UNCHANGED taskPoolVars
          PROVE  OnceInv'
      BY <1>8, <2>2, OnceWorker DEF SpuriousWake
    <2> QED
      BY <1>8, <2>1, <2>2 DEF SpuriousWake
  <1>9. CASE UNCHANGED vars
    BY <1>9 DEF vars
  <1> QED
    BY <1>1, <1>2, <1>3, <1>4, <1>5, <1>6, <1>7, <1>8, <1>9 DEF Next

\* The initial state satisfies the whole invariant.
LEMMA OnceInit == Init => Inv
PROOF
  <1> SUFFICES ASSUME Init PROVE Inv
    OBVIOUS
  <1>1. TypeOK /\ SchedInv
    BY InitTypes
  <1>2. SlotInv
    BY DEF Init, PoolThreadInit, SlotInv, SlotMatchesIdle
  <1>3. /\ tasks = <<>> /\ ptasks = <<>> /\ scheduledtasks = <<>> /\ tobeRemoved = <<>>
        /\ hand = NoTask /\ \A w \in Worker : slot[w] = NoTask
        /\ \A t \in Task : runs[t] = 0
    BY DEF Init, TaskInit, TaskPoolInit, PoolThreadInit
  <1>4. \A k \in DOMAIN <<>> : FALSE
    OBVIOUS
  <1>5. NoDuplicates
    BY <1>3, <1>4 DEF NoDuplicates
  <1>6. \A t \in Task : OnePlace(t)
    BY <1>3, <1>4, TaskAssumption
    DEF OnePlace, Queued, PQueued, InSlot, Listed, Delayed, Ran
  <1> QED
    BY <1>1, <1>2, <1>5, <1>6 DEF Inv, OnceInv

\* However the threads interleave, and however often a condition variable wakes
\* its thread for nothing, no task is run twice.
THEOREM RunsAtMostOnce == Spec => []AtMostOnce
PROOF
  <1>1. Inv /\ [Next]_vars => Inv'
    BY StepTypes, SlotStep, OnceStep DEF Inv
  <1>2. Inv => AtMostOnce
    BY DEF Inv, OnceInv, OnePlace, AtMostOnce
  <1> QED
    BY <1>1, <1>2, OnceInit, PTL DEF Spec

-----------------------------------------------------------------------------
(* What the pool promises its users.                                        *)

\* The invariant of RunsAtMostOnce, in one step.
LEMMA InvStep == Inv /\ [Next]_vars => Inv'
PROOF
  BY StepTypes, SlotStep, OnceStep DEF Inv

-----------------------------------------------------------------------------
(* Task objects.                                                           *)

\* Only a task that has been run is deleted, and what a client has yet to mark
\* is a future, which the pool never deletes.
DeleteInv ==
  /\ deleted \subseteq CleanUp
  /\ \A t \in deleted : Ran(t)
  /\ \A c \in Client : cpc[c] = "mark" => ccur[c] \in Future

\* A step that runs no task and makes no client go on to mark one.
LEMMA DeleteFrame ==
  ASSUME DeleteInv, UNCHANGED <<deleted, runs, cpc, ccur>>
  PROVE  DeleteInv'
PROOF
  BY DEF DeleteInv, Ran

\* Each step keeps it: RunTask runs what it deletes, and a client goes to mark
\* only the future it submitted.
LEMMA DeleteStep == Inv /\ DeleteInv /\ [Next]_vars => DeleteInv'
PROOF
  <1> SUFFICES ASSUME Inv, DeleteInv, [Next]_vars PROVE DeleteInv'
    OBVIOUS
  <1> USE DeleteFrame DEF taskVars, objectVars, clientVars
  <1>1. ASSUME NEW c \in Client, NEW t \in Task, Submit(c, t)
        PROVE  DeleteInv'
    <2>1. /\ cpc' = [cpc EXCEPT ![c] = AfterAdd(t)] /\ ccur' = [ccur EXCEPT ![c] = t]
          /\ UNCHANGED <<deleted, runs>>
      BY <1>1 DEF Submit, ClientGoto
    <2>2. \A d \in Client : cpc'[d] = "mark" => ccur'[d] \in Future
      BY <2>1 DEF AfterAdd, DeleteInv, Inv, TypeOK, ClientTypeOK
    <2> QED
      BY <2>1, <2>2 DEF DeleteInv, Ran
  <1>2. ASSUME NEW c \in Client, ClientReturns(c)
        PROVE  DeleteInv'
    <2>1. /\ \/ cpc' = [cpc EXCEPT ![c] = AfterInterrupt(ccur[c])]
             \/ cpc' = [cpc EXCEPT ![c] = "ready"]
          /\ UNCHANGED <<deleted, runs, ccur>>
      BY <1>2 DEF ClientReturns, ClientInterrupt, ClientMark, ClientGoto, MarkFuture
    <2>2. \A d \in Client : cpc'[d] = "mark" => ccur'[d] \in Future
      BY <2>1 DEF AfterInterrupt, DeleteInv, Inv, TypeOK, ClientTypeOK
    <2> QED
      BY <2>1, <2>2 DEF DeleteInv, Ran
  <1>3. CASE PollerStep
    BY <1>3 DEF PollerStep, PollReadFlag, PollPending, PollGet, PollScan, PollCheckout, PollExit
  <1>4. CASE OwnerStep \/ \E ret \in {"open", "stop"} : CallJoin(ret)
    BY <1>4
    DEF OwnerStep, CallJoin, JoinPending, JoinCount, StopPoller, StopTaskPool, TaskPoolStopped,
        StopNextWorker, WakeWorker, WorkerStopped
  <1>5. CASE Scheduler
    BY <1>5 DEF Scheduler
  <1>6. ASSUME NEW t \in Scheduled, Tick(t)
        PROVE  DeleteInv'
    BY <1>6 DEF Tick, Elapse
  <1>7. ASSUME NEW w \in Worker, WorkerThread(w)
        PROVE  DeleteInv'
    <2>1. CASE WorkerRun(w)
      <3> DEFINE t == local[w]
      <3>1. t \in Task
        BY <2>1 DEF WorkerRun, WorkerGoto, Inv, SlotInv, SlotMatchesIdle, TypeOK,
                    PoolThreadTypeOK
      <3> HIDE DEF t
      <3>2. /\ runs' = [runs EXCEPT ![t] = @ + 1]
            /\ deleted' = deleted \/ (t \in CleanUp /\ deleted' = deleted \cup {t})
            /\ UNCHANGED <<cpc, ccur>>
        BY <1>7, <2>1 DEF WorkerThread, WorkerRun, RunTask, RunTaskThrows, t
      <3>3. runs \in [Task -> Nat]
        BY DEF Inv, TypeOK, TaskTypeOK
      <3>4. runs'[t] > 0 /\ \A u \in Task : runs[u] > 0 => runs'[u] > 0
        BY <3>1, <3>2, <3>3
      <3>5. deleted \subseteq Task
        BY DEF Inv, TypeOK, TaskTypeOK
      <3> QED
        BY <3>2, <3>4, <3>5 DEF DeleteInv, Ran
    <2>2. CASE ~WorkerRun(w)
      BY <1>7, <2>2
      DEF WorkerThread, WorkerStep, WorkerReadFlag, WorkerWait, WorkerGetTask, WorkerRelease,
          WorkerExit
    <2> QED
      BY <2>1, <2>2
  <1>8. CASE SpuriousWake
    BY <1>8 DEF SpuriousWake, WorkerSpuriousWake
  <1>9. CASE UNCHANGED vars
    BY <1>9 DEF vars
  <1> QED
    BY <1>1, <1>2, <1>3, <1>4, <1>5, <1>6, <1>7, <1>8, <1>9 DEF Next

\* No thread follows a pointer to a task object that a worker has deleted: a task
\* that is in a queue, in the poller's hand or in a slot, or that the scheduler
\* has yet to look at, has not been run, and the pool deletes no future.
THEOREM NeverFollowsDeleted == Spec => []NoUseAfterDelete
PROOF
  <1>1. Init => Inv /\ DeleteInv
    <2>1. Init => DeleteInv
      BY DEF Init, TaskInit, DeleteInv
    <2> QED
      BY <2>1, OnceInit
  <1>2. Inv /\ DeleteInv /\ [Next]_vars => Inv' /\ DeleteInv'
    BY InvStep, DeleteStep
  <1>3. Inv /\ DeleteInv => NoUseAfterDelete
    <2> SUFFICES ASSUME Inv, DeleteInv, NEW t \in deleted, t \in ToFollow PROVE FALSE
      BY DEF NoUseAfterDelete
    <2>1. t \in Task /\ t \in CleanUp /\ t \notin Future /\ t # NoTask /\ Ran(t)
      BY TaskAssumption DEF DeleteInv
    <2>2. ~Queued(t) /\ ~PQueued(t) /\ ~Delayed(t) /\ hand # t
      BY <2>1 DEF Inv, OnceInv, OnePlace
    <2>3. t \notin ToSet(tasks) /\ t \notin ToSet(ptasks)
      BY <2>2 DEF ToSet, Queued, PQueued
    <2>4. t \notin Handed
      BY <2>1 DEF Handed, Finished, Ran
    <2>5. t \notin {scheduledtasks[i] : i \in
                     {j \in DOMAIN scheduledtasks :
                        ~\E k \in DOMAIN tobeRemoved : tobeRemoved[k] - counter = j}}
      BY <2>2 DEF Delayed, Pushed
    <2>6. t \notin {ccur[c] : c \in {d \in Client : cpc[d] = "mark"}}
      BY <2>1 DEF DeleteInv
    <2> QED
      BY <2>2, <2>3, <2>4, <2>5, <2>6 DEF ToFollow
  <1> QED
    BY <1>1, <1>2, <1>3, PTL DEF Spec

-----------------------------------------------------------------------------
(* Priorities.                                                             *)

\* The tasks a priority pool runs.
Worthy(t) == Priority[t] > 0 /\ t \notin Scheduled

PriorityInv ==
  /\ \A i \in DOMAIN ptasks : ptasks[i] \notin Scheduled
  /\ hand # NoTask => Worthy(hand)
  /\ \A w \in Worker : slot[w] # NoTask => Worthy(slot[w])
  /\ \A t \in Task : Ran(t) => Worthy(t)

\* A step that gives no queue, hand or slot anything and runs nothing.
LEMMA PriorityFrame ==
  ASSUME PriorityInv, UNCHANGED <<ptasks, hand, runs>>,
         \A w \in Worker : slot'[w] \in {slot[w], NoTask}
  PROVE  PriorityInv'
PROOF
  BY DEF PriorityInv, Worthy, Ran

\* What the poller of a priority pool gets: nothing, or the electable entry.
LEMMA PollGetPriority ==
  ASSUME PriorityPooling, PollGet
  PROVE  \/ hand' = NoTask /\ ptasks' = ptasks
         \/ /\ Electable(ptasks) # {} /\ TopIndex \in Electable(ptasks)
            /\ hand' = ptasks[TopIndex] /\ ptasks' = RemoveAt(ptasks, TopIndex)
PROOF
  <1>1. /\ hand' = TopPTask
        /\ ptasks' = IF Electable(ptasks) = {} THEN ptasks ELSE RemoveAt(ptasks, TopIndex)
    BY DEF PollGet, GetPTask
  <1>2. Electable(ptasks) # {} => TopIndex \in Electable(ptasks)
    BY DEF TopIndex
  <1> QED
    BY <1>1, <1>2 DEF TopPTask

\* Each step of a priority pool keeps it.
LEMMA PriorityStep ==
  ASSUME PriorityPooling, Inv, PriorityInv, [Next]_vars
  PROVE  PriorityInv'
PROOF
  <1> USE PriorityFrame
      DEF taskVars, objectVars, taskPoolVars, queueVars, workerVars, pollVars
  <1>1. ASSUME NEW c \in Client, NEW t \in Task, Submit(c, t)
        PROVE  PriorityInv'
    <2>1. /\ \/ ptasks' = ptasks
             \/ t \notin Scheduled /\ ptasks' = Append(ptasks, t)
          /\ UNCHANGED <<hand, runs, slot>>
      BY <1>1 DEF Submit, AddPTask
    <2>2. \A i \in DOMAIN ptasks' : ptasks'[i] \notin Scheduled
      <3>1. CASE ptasks' = ptasks
        BY <3>1 DEF PriorityInv
      <3>2. CASE t \notin Scheduled /\ ptasks' = Append(ptasks, t)
        <4>1. ptasks \in Seq(Task)
          BY DEF Inv, TypeOK, TaskPoolTypeOK
        <4> QED
          BY <3>2, <4>1, AppendedEntry DEF PriorityInv
      <3> QED
        BY <2>1, <3>1, <3>2
    <2> QED
      BY <2>1, <2>2 DEF PriorityInv, Worthy, Ran
  <1>2. ASSUME NEW c \in Client, ClientReturns(c)
        PROVE  PriorityInv'
    BY <1>2 DEF ClientReturns, ClientInterrupt, ClientMark, MarkFuture
  <1>3. CASE PollerStep
    <2>1. CASE PollGet
      <3>1. UNCHANGED <<slot, runs>>
        BY <2>1 DEF PollGet
      <3>2. CASE hand' = NoTask /\ ptasks' = ptasks
        BY <3>1, <3>2 DEF PriorityInv, Worthy, Ran
      <3>3. CASE /\ Electable(ptasks) # {} /\ TopIndex \in Electable(ptasks)
                 /\ hand' = ptasks[TopIndex] /\ ptasks' = RemoveAt(ptasks, TopIndex)
        <4>1. TopIndex \in DOMAIN ptasks /\ Priority[ptasks[TopIndex]] > 0
          BY <3>3 DEF Electable
        <4>2. Worthy(hand')
          BY <3>3, <4>1 DEF Worthy, PriorityInv
        <4>3. ptasks \in Seq(Task) /\ \A i, j \in DOMAIN ptasks : ptasks[i] = ptasks[j] => i = j
          BY DEF Inv, TypeOK, TaskPoolTypeOK, OnceInv, NoDuplicates
        <4>4. \A i \in DOMAIN ptasks' : \E k \in DOMAIN ptasks : ptasks'[i] = ptasks[k]
          BY <3>3, <4>1, <4>3, RemovedEntry
        <4> QED
          BY <3>1, <4>2, <4>4 DEF PriorityInv, Worthy, Ran
      <3> QED
        BY <2>1, <3>2, <3>3, PollGetPriority
    <2>2. CASE PollCheckout
      <3>1. /\ hand' = NoTask /\ slot' = [slot EXCEPT ![pvar] = hand]
            /\ UNCHANGED <<ptasks, runs>> /\ hand # NoTask
        BY <2>2, TaskAssumption DEF PollCheckout, PollGoto, Checkout, Inv, SlotInv
      <3>2. \A w \in Worker : slot'[w] # NoTask => slot'[w] \in {slot[w], hand}
        BY <3>1 DEF Inv, TypeOK, PoolThreadTypeOK
      <3> QED
        BY <3>1, <3>2 DEF PriorityInv, Worthy, Ran
    <2>3. CASE PollReadFlag \/ PollPending \/ PollScan \/ PollExit
      BY <2>3 DEF PollReadFlag, PollPending, PollScan, PollExit
    <2> QED
      BY <1>3, <2>1, <2>2, <2>3 DEF PollerStep
  <1>4. CASE OwnerStep \/ \E ret \in {"open", "stop"} : CallJoin(ret)
    <2>1. UNCHANGED <<ptasks, hand, runs, slot>>
      BY <1>4
      DEF OwnerStep, CallJoin, JoinPending, JoinCount, StopPoller, StopTaskPool, TaskPoolStopped,
          StopNextWorker, StopWorker, WakeWorker, InterruptWorker, WorkerStopped
    <2> QED
      BY <2>1
  <1>5. CASE Scheduler
    <2>1. ptasks' = ptasks
      BY <1>5
      DEF Scheduler, SchedulerStep, SchedReadFlag, SchedWait, SchedSize, SchedScan, SchedErase,
          SchedTurnEnds, SchedExit
    <2> QED
      BY <1>5, <2>1 DEF Scheduler
  <1>6. ASSUME NEW t \in Scheduled, Tick(t)
        PROVE  PriorityInv'
    BY <1>6 DEF Tick, Elapse
  <1>7. ASSUME NEW w \in Worker, WorkerThread(w)
        PROVE  PriorityInv'
    <2>1. CASE WorkerRun(w)
      <3>1. slot[w] # NoTask /\ slot[w] \in Task /\ local[w] = slot[w]
        BY <2>1, TaskAssumption
        DEF WorkerRun, WorkerGoto, Inv, SlotInv, SlotMatchesIdle, TypeOK, PoolThreadTypeOK
      <3>2. /\ runs' = [runs EXCEPT ![slot[w]] = @ + 1] /\ runs \in [Task -> Nat]
            /\ UNCHANGED <<ptasks, hand, slot>>
        BY <1>7, <2>1, <3>1
        DEF WorkerThread, WorkerRun, RunTask, RunTaskThrows, Inv, TypeOK, TaskTypeOK
      <3>3. \A t \in Task : t # slot[w] => runs'[t] = runs[t]
        BY <3>2
      <3> QED
        BY <3>1, <3>2, <3>3 DEF PriorityInv, Worthy, Ran
    <2>2. CASE WorkerRelease(w)
      <3>1. \A v \in Worker : slot'[v] \in {slot[v], NoTask}
        BY <2>2 DEF WorkerRelease, Inv, TypeOK, PoolThreadTypeOK
      <3> QED
        BY <1>7, <2>2, <3>1 DEF WorkerThread, WorkerRelease
    <2>3. CASE ~WorkerRun(w) /\ ~WorkerRelease(w)
      BY <1>7, <2>3
      DEF WorkerThread, WorkerStep, WorkerReadFlag, WorkerWait, WorkerGetTask, WorkerExit
    <2> QED
      BY <2>1, <2>2, <2>3
  <1>8. CASE SpuriousWake
    <2>1. UNCHANGED <<ptasks, hand, runs, slot>>
      BY <1>8 DEF SpuriousWake, SchedSpuriousWake, WorkerSpuriousWake
    <2> QED
      BY <2>1
  <1>9. CASE UNCHANGED vars
    BY <1>9 DEF vars
  <1> QED
    BY <1>1, <1>2, <1>3, <1>4, <1>5, <1>6, <1>7, <1>8, <1>9 DEF Next

\* A priority pool runs no task without a positive priority and no scheduled one:
\* the poller elects neither, and what the scheduler pushes it never reads.
THEOREM StarvationCorrect == Spec => []StarvesWithoutPriority
PROOF
  <1>1. Init => Inv /\ (PriorityPooling => PriorityInv)
    <2>1. ASSUME Init PROVE PriorityInv
      <3>1. /\ ptasks = <<>> /\ hand = NoTask /\ \A w \in Worker : slot[w] = NoTask
            /\ \A t \in Task : runs[t] = 0
        BY <2>1 DEF Init, TaskInit, TaskPoolInit, PoolThreadInit
      <3>2. \A i \in DOMAIN <<>> : FALSE
        OBVIOUS
      <3> QED
        BY <3>1, <3>2 DEF PriorityInv, Ran
    <2> QED
      BY <2>1, OnceInit
  <1>2. Inv /\ (PriorityPooling => PriorityInv) /\ [Next]_vars
        => Inv' /\ (PriorityPooling => PriorityInv)'
    BY InvStep, PriorityStep
  <1>3. Inv /\ (PriorityPooling => PriorityInv) => StarvesWithoutPriority
    BY DEF PriorityInv, StarvesWithoutPriority, Finished, Ran, Worthy
  <1> QED
    BY <1>1, <1>2, <1>3, PTL DEF Spec

\* The poller of a priority pool takes the queued task of highest priority that
\* came first: nothing else puts a task in its hand.
THEOREM HighestFirst == Spec => TakesHighestFirst
PROOF
  <1> DEFINE First == \E i \in DOMAIN ptasks :
                        /\ ptasks[i] = hand'
                        /\ \A j \in DOMAIN ptasks : Priority[ptasks[j]] <= Priority[hand']
                        /\ \A j \in 1 .. i-1 : Priority[ptasks[j]] < Priority[hand']
  <1>1. ASSUME PriorityPooling, hand' \notin {hand, NoTask}, [Next]_vars
        PROVE  First
    <2>1. PollGet
      BY <1>1
      DEF vars, pollVars, Next, ClientReturns, ClientInterrupt, ClientMark, Submit, PollerStep,
          PollReadFlag, PollPending, PollScan, PollCheckout, PollExit, CallJoin, OwnerStep,
          JoinPending, JoinCount, StopPoller, StopTaskPool, TaskPoolStopped, StopNextWorker,
          WakeWorker, WorkerStopped, Scheduler, Tick, WorkerThread, SpuriousWake
    <2>2. TopIndex \in Electable(ptasks) /\ hand' = ptasks[TopIndex]
      BY <1>1, <2>1, PollGetPriority
    <2> QED
      BY <2>2 DEF Electable
  <1> HIDE DEF First
  <1>2. [Next]_vars => (PriorityPooling /\ hand' \notin {hand, NoTask} => First)
    BY <1>1
  <1>3. [Next]_vars => [PriorityPooling /\ hand' \notin {hand, NoTask} => First]_vars
    BY <1>2
  <1> QED
    BY <1>3, PTL DEF Spec, TakesHighestFirst, First

-----------------------------------------------------------------------------
(* Removing an entry of a sequence.                                        *)

\* Every other entry stays.
LEMMA OthersStay ==
  ASSUME NEW S, NEW s \in Seq(S), NEW i \in DOMAIN s
  PROVE  \A j \in DOMAIN s :
           j # i => \E k \in DOMAIN RemoveAt(s, i) : RemoveAt(s, i)[k] = s[j]
PROOF
  <1> DEFINE r == RemoveAt(s, i)
  <1>1. Len(s) \in Nat /\ DOMAIN s = 1 .. Len(s) /\ i \in 1 .. Len(s)
    BY LenProperties
  <1>2. DOMAIN r = 1 .. Len(s) - 1
    BY RemoveAtType, LenProperties
  <1>3. \A k \in DOMAIN r : /\ k < i => r[k] = s[k]
                            /\ k >= i => r[k] = s[k + 1]
    BY RemoveAtEntries
  <1> HIDE DEF r
  <1>4. ASSUME NEW j \in DOMAIN s, j # i
        PROVE  \E k \in DOMAIN r : r[k] = s[j]
    <2>1. CASE j < i
      <3>1. j \in DOMAIN r
        BY <1>1, <1>2, <2>1
      <3> QED
        BY <1>3, <2>1, <3>1
    <2>2. CASE j > i
      <3>1. j - 1 \in DOMAIN r /\ j - 1 >= i /\ (j - 1) + 1 = j
        BY <1>1, <1>2, <2>2
      <3> QED
        BY <1>3, <3>1
    <2> QED
      BY <1>1, <1>4, <2>1, <2>2
  <1> QED
    BY <1>4 DEF r

-----------------------------------------------------------------------------
(* Without spurious wake-ups no task is lost.                              *)

\* Only the owner wakes a worker whose slot is empty, and only when the poller,
\* which fills the slots, has ended: release() clears what the worker has run.
CalmInv ==
  /\ ppc \notin {"scan", "checkout"} => hand = NoTask
  /\ complete => ppc = "done"
  /\ opc \in {"waitPool", "stopWorker", "waitWorker", "gone"} => complete
  /\ \A w \in Worker :
       /\ wpc[w] \in {"woken", "release"} /\ slot[w] = NoTask => ppc = "done"
       /\ wpc[w] = "release" /\ slot[w] # NoTask => Ran(slot[w])

\* A task the pool has accepted waits for its timer or its turn, is in the
\* poller's hand or in a slot, or has been run.
NothingLost ==
  \A t \in submitted :
    Queued(t) \/ PQueued(t) \/ Delayed(t) \/ hand = t \/ InSlot(t) \/ Ran(t)

KeptInv == Inv /\ CalmInv /\ NothingLost

\* A step that neither moves nor accepts a task nor sends a worker to release().
LEMMA KeptFrame ==
  ASSUME NothingLost,
         UNCHANGED <<tasks, ptasks, scheduledtasks, tobeRemoved, counter, slot, hand, runs,
                     submitted>>
  PROVE  NothingLost'
PROOF
  <1>1. ASSUME NEW t
        PROVE  /\ Queued(t)' <=> Queued(t)
               /\ PQueued(t)' <=> PQueued(t)
               /\ InSlot(t)' <=> InSlot(t)
               /\ Delayed(t)' <=> Delayed(t)
               /\ Ran(t)' <=> Ran(t)
    BY DEF Queued, PQueued, InSlot, Delayed, Pushed, Ran
  <1> QED
    BY <1>1 DEF NothingLost

\* A task that the pool accepts is put in a queue or on the list, where every
\* index the scheduler has yet to erase is below it.
LEMMA KeptSubmit ==
  ASSUME KeptInv, NEW c \in Client, NEW t0 \in Task, Submit(c, t0)
  PROVE  NothingLost'
PROOF
  <1> USE DEF KeptInv, Inv, TypeOK, TaskPoolTypeOK
  <1>1. /\ submitted' = submitted \cup {t0}
        /\ UNCHANGED <<tobeRemoved, counter, slot, hand, runs>>
    BY DEF Submit, schedVars, workerVars, pollVars, taskVars, objectVars
  <1>2. \/ tasks' = Append(tasks, t0) /\ UNCHANGED <<ptasks, scheduledtasks>>
        \/ ptasks' = Append(ptasks, t0) /\ UNCHANGED <<tasks, scheduledtasks>>
        \/ scheduledtasks' = Append(scheduledtasks, t0) /\ UNCHANGED <<tasks, ptasks>>
    BY DEF Submit, AddTask, AddPTask
  <1>3. ASSUME NEW s \in Seq(Task), NEW i \in DOMAIN s
        PROVE  i \in DOMAIN Append(s, t0) /\ Append(s, t0)[i] = s[i]
    BY <1>3, AppendProperties, LenProperties
  <1>4. ASSUME NEW s \in Seq(Task)
        PROVE  Len(s) + 1 \in DOMAIN Append(s, t0) /\ Append(s, t0)[Len(s) + 1] = t0
    BY <1>4, AppendProperties, LenProperties
  <1>5. ASSUME NEW t \in submitted
        PROVE  /\ Queued(t) => Queued(t)'
               /\ PQueued(t) => PQueued(t)'
               /\ Delayed(t) => Delayed(t)'
               /\ InSlot(t) => InSlot(t)'
               /\ Ran(t) => Ran(t)'
    BY <1>1, <1>2, <1>3 DEF Queued, PQueued, InSlot, Delayed, Pushed, Ran
  <1>6. Queued(t0)' \/ PQueued(t0)' \/ Delayed(t0)'
    <2>1. CASE tasks' = Append(tasks, t0)
      BY <1>4, <2>1 DEF Queued
    <2>2. CASE ptasks' = Append(ptasks, t0)
      BY <1>4, <2>2 DEF PQueued
    <2>3. CASE scheduledtasks' = Append(scheduledtasks, t0)
      <3> PICK n \in Nat : n = Len(scheduledtasks) + 1
        OBVIOUS
      <3>1. ASSUME NEW k \in DOMAIN tobeRemoved, tobeRemoved[k] - counter = n
            PROVE  FALSE
        <4>1. tobeRemoved[k] < si /\ si <= total + 1 /\ total <= Len(scheduledtasks) + counter
          BY DEF SchedInv
        <4> QED
          BY <3>1, <4>1
      <3>2. ~Pushed(n)'
        BY <1>1, <3>1 DEF Pushed
      <3> QED
        BY <1>4, <2>3, <3>2 DEF Delayed
    <2> QED
      BY <1>2, <2>1, <2>2, <2>3
  <1> QED
    BY <1>1, <1>5, <1>6 DEF NothingLost

\* The poller takes a task out of a queue into its hand, which is empty.
LEMMA KeptPollGet ==
  ASSUME KeptInv, PollGet
  PROVE  NothingLost'
PROOF
  <1> USE DEF KeptInv, Inv, TypeOK, TaskPoolTypeOK
  <1>1. /\ hand = NoTask
        /\ UNCHANGED <<scheduledtasks, tobeRemoved, counter, slot, runs, submitted>>
    BY DEF PollGet, PollGoto, GetTask, GetPTask, CalmInv, schedVars, workerVars, taskVars,
           objectVars, clientVars
  <1>2. \/ UNCHANGED <<tasks, ptasks>>
        \/ /\ tasks # <<>> /\ hand' = Head(tasks) /\ tasks' = Tail(tasks)
           /\ UNCHANGED ptasks
        \/ /\ Electable(ptasks) # {} /\ hand' = ptasks[TopIndex]
           /\ ptasks' = RemoveAt(ptasks, TopIndex) /\ UNCHANGED tasks
    BY DEF PollGet, GetTask, GetPTask, FrontTask, TopPTask
  <1>3. ASSUME NEW t \in submitted
        PROVE  /\ InSlot(t)' <=> InSlot(t)
               /\ Ran(t)' <=> Ran(t)
               /\ Delayed(t)' <=> Delayed(t)
    BY <1>1 DEF InSlot, Ran, Delayed, Pushed
  <1>4. \A t \in submitted : t # NoTask
    BY TaskAssumption DEF ClientTypeOK
  <1>5. CASE UNCHANGED <<tasks, ptasks>>
    <2>1. ASSUME NEW t \in submitted
          PROVE  (Queued(t) => Queued(t)') /\ (PQueued(t) => PQueued(t)')
      BY <1>5 DEF Queued, PQueued
    <2> QED
      BY <1>1, <1>3, <1>4, <2>1 DEF NothingLost
  <1>6. CASE /\ tasks # <<>> /\ hand' = Head(tasks) /\ tasks' = Tail(tasks)
             /\ UNCHANGED ptasks
    <2>1. /\ hand' = tasks[1]
          /\ \A i \in DOMAIN tasks : i # 1 => i - 1 \in DOMAIN tasks' /\ tasks'[i - 1] = tasks[i]
      BY <1>6, HeadTailProperties, LenProperties
    <2>2. ASSUME NEW t \in submitted
          PROVE  (Queued(t) => Queued(t)' \/ hand' = t) /\ (PQueued(t) => PQueued(t)')
      BY <1>6, <2>1 DEF Queued, PQueued
    <2> QED
      BY <1>1, <1>3, <1>4, <2>2 DEF NothingLost
  <1>7. CASE /\ Electable(ptasks) # {} /\ hand' = ptasks[TopIndex]
             /\ ptasks' = RemoveAt(ptasks, TopIndex) /\ UNCHANGED tasks
    <2>1. TopIndex \in DOMAIN ptasks
      BY <1>7, TopIsEntry
    <2>2. \A i \in DOMAIN ptasks :
            i # TopIndex => \E k \in DOMAIN ptasks' : ptasks'[k] = ptasks[i]
      BY <1>7, <2>1, OthersStay
    <2>3. ASSUME NEW t \in submitted
          PROVE  (Queued(t) => Queued(t)') /\ (PQueued(t) => PQueued(t)' \/ hand' = t)
      BY <1>7, <2>2 DEF Queued, PQueued
    <2> QED
      BY <1>1, <1>3, <1>4, <2>3 DEF NothingLost
  <1> QED
    BY <1>2, <1>5, <1>6, <1>7

\* The poller puts the task in its hand into an empty slot.
LEMMA KeptCheckout ==
  ASSUME KeptInv, PollCheckout
  PROVE  NothingLost'
PROOF
  <1> USE DEF KeptInv, Inv, TypeOK, PoolThreadTypeOK, PollTypeOK
  <1>1. /\ hand \in Task /\ pvar \in Worker /\ slot[pvar] = NoTask
        /\ slot' = [slot EXCEPT ![pvar] = hand]
        /\ UNCHANGED <<tasks, ptasks, scheduledtasks, tobeRemoved, counter, runs, submitted>>
    BY DEF PollCheckout, PollGoto, Checkout, SlotInv, SlotMatchesIdle, taskPoolVars, queueVars,
           schedVars, taskVars, objectVars, clientVars
  <1>2. ASSUME NEW t \in submitted
        PROVE  /\ InSlot(t) \/ hand = t => InSlot(t)'
               /\ Queued(t)' <=> Queued(t)
               /\ PQueued(t)' <=> PQueued(t)
               /\ Delayed(t)' <=> Delayed(t)
               /\ Ran(t)' <=> Ran(t)
    <2>1. t # NoTask
      BY TaskAssumption DEF ClientTypeOK
    <2>2. InSlot(t) \/ hand = t => InSlot(t)'
      BY <1>1, <2>1 DEF InSlot
    <2> QED
      BY <1>1, <2>2 DEF Queued, PQueued, Delayed, Pushed, Ran
  <1> QED
    BY <1>1, <1>2 DEF NothingLost

\* A worker runs the task in its slot, or clears a slot that is empty or whose
\* task has been run.
LEMMA KeptWorker ==
  ASSUME KeptInv, NEW w \in Worker, WorkerStep(w),
         UNCHANGED <<tasks, ptasks, scheduledtasks, tobeRemoved, counter, hand, submitted>>
  PROVE  NothingLost'
PROOF
  <1> USE DEF KeptInv, Inv, TypeOK, PoolThreadTypeOK, WorkerGoto
  <1>1. ASSUME NEW t \in submitted
        PROVE  /\ Queued(t)' <=> Queued(t)
               /\ PQueued(t)' <=> PQueued(t)
               /\ Delayed(t)' <=> Delayed(t)
    BY DEF Queued, PQueued, Delayed, Pushed
  <1>2. CASE WorkerReadFlag(w) \/ WorkerWait(w) \/ WorkerGetTask(w) \/ WorkerExit(w)
    BY <1>2, KeptFrame
    DEF WorkerReadFlag, WorkerWait, WorkerGetTask, WorkerExit, taskVars, objectVars
  <1>3. CASE WorkerRun(w)
    <2>1. /\ slot[w] \in Task /\ runs' = [runs EXCEPT ![slot[w]] = @ + 1] /\ slot' = slot
          /\ runs \in [Task -> Nat]
      BY <1>3 DEF WorkerRun, RunTask, RunTaskThrows, SlotInv, SlotMatchesIdle, TaskTypeOK
    <2>2. \A t \in Task : runs[t] > 0 => runs'[t] > 0
      BY <2>1
    <2>3. ASSUME NEW t \in submitted
          PROVE  (Ran(t) => Ran(t)') /\ (InSlot(t)' <=> InSlot(t))
      BY <2>1, <2>2 DEF Ran, InSlot, ClientTypeOK
    <2> QED
      BY <1>1, <2>3 DEF NothingLost
  <1>4. CASE WorkerRelease(w)
    <2>1. slot' = [slot EXCEPT ![w] = NoTask] /\ runs' = runs
      BY <1>4 DEF WorkerRelease, taskVars, objectVars
    <2>2. slot[w] = NoTask \/ Ran(slot[w])
      BY <1>4 DEF WorkerRelease, CalmInv
    <2>3. ASSUME NEW t \in submitted
          PROVE  /\ Ran(t)' <=> Ran(t)
                 /\ InSlot(t) => InSlot(t)' \/ Ran(t)
      <3>1. t # NoTask
        BY TaskAssumption DEF ClientTypeOK
      <3> QED
        BY <2>1, <2>2, <3>1 DEF Ran, InSlot
    <2> QED
      BY <1>1, <2>3 DEF NothingLost
  <1> QED
    BY <1>2, <1>3, <1>4 DEF WorkerStep

\* The scheduler pushes an entry that is due before it marks the entry as pushed,
\* and erases no other entry.
LEMMA KeptScheduler ==
  ASSUME KeptInv, Scheduler
  PROVE  NothingLost'
PROOF
  <1> USE DEF KeptInv, Inv, TypeOK, TaskPoolTypeOK
  <1>1. UNCHANGED <<ptasks, slot, hand, runs, submitted>>
    BY DEF Scheduler, SchedulerStep, SchedReadFlag, SchedWait, SchedSize, SchedScan, SchedErase,
           SchedTurnEnds, SchedExit, queueVars, taskVars, objectVars, workerVars, pollVars,
           clientVars
  <1>2. ASSUME NEW t \in submitted
        PROVE  /\ PQueued(t)' <=> PQueued(t)
               /\ InSlot(t)' <=> InSlot(t)
               /\ Ran(t)' <=> Ran(t)
    BY <1>1 DEF PQueued, InSlot, Ran
  <1>3. CASE SchedReadFlag \/ SchedWait \/ SchedSize \/ SchedExit
    BY <1>1, <1>3, KeptFrame DEF SchedReadFlag, SchedWait, SchedSize, SchedExit, queueVars
  <1>4. CASE SchedTurnEnds
    <2>1. tobeRemoved = <<>> /\ UNCHANGED <<tasks, scheduledtasks, tobeRemoved>>
      BY <1>4 DEF SchedTurnEnds, queueVars
    <2>2. \A k \in DOMAIN tobeRemoved : FALSE
      BY <2>1
    <2>3. ASSUME NEW t \in submitted
          PROVE  (Delayed(t)' <=> Delayed(t)) /\ (Queued(t)' <=> Queued(t))
      BY <2>1, <2>2 DEF Delayed, Pushed, Queued
    <2> QED
      BY <1>1, <1>2, <2>3 DEF NothingLost
  <1>5. CASE SchedScan
    <2> DEFINE t0 == scheduledtasks[si]
    <2>1. CASE UNCHANGED <<tasks, tobeRemoved>>
      BY <1>1, <1>5, <2>1, KeptFrame DEF SchedScan
    <2>2. CASE tasks' = Append(tasks, t0) /\ tobeRemoved' = Append(tobeRemoved, si)
      <3>1. si \in DOMAIN scheduledtasks /\ counter = 0 /\ t0 \in Task
            /\ UNCHANGED <<scheduledtasks, counter>>
        BY <1>5 DEF SchedScan, SchedInv
      <3> PICK n \in Nat : n = si
        OBVIOUS
      <3> PICK u \in Task : u = t0
        BY <3>1
      <3> HIDE DEF t0
      <3>2. /\ \A i \in DOMAIN tasks : i \in DOMAIN tasks' /\ tasks'[i] = tasks[i]
            /\ Len(tasks) + 1 \in DOMAIN tasks' /\ tasks'[Len(tasks) + 1] = u
        BY <2>2, AppendProperties, LenProperties
      <3>3. ASSUME NEW j \in DOMAIN scheduledtasks, Pushed(j)', ~Pushed(j)
            PROVE  j = n
        <4>1. PICK k \in DOMAIN tobeRemoved' : tobeRemoved'[k] - counter' = j
          BY <3>3 DEF Pushed
        <4>2. \/ tobeRemoved'[k] = n
              \/ k \in DOMAIN tobeRemoved /\ tobeRemoved'[k] = tobeRemoved[k]
          BY <2>2, AppendEntries
        <4> QED
          BY <3>1, <3>3, <4>1, <4>2 DEF Pushed
      <3>4. ASSUME NEW t \in submitted
            PROVE  /\ Queued(t) => Queued(t)'
                   /\ Delayed(t) => Delayed(t)' \/ Queued(t)'
        <4>1. Queued(t) => Queued(t)'
          BY <3>2 DEF Queued
        <4>2. ASSUME NEW j \in DOMAIN scheduledtasks, scheduledtasks[j] = t, ~Pushed(j)
              PROVE  Delayed(t)' \/ Queued(t)'
          <5>1. CASE j = n
            <6>1. t = u
              BY <4>2, <5>1 DEF t0
            <6> QED
              BY <3>2, <6>1 DEF Queued
          <5>2. CASE j # n
            <6>1. ~Pushed(j)'
              BY <3>3, <4>2, <5>2
            <6> QED
              BY <3>1, <4>2, <6>1 DEF Delayed
          <5> QED
            BY <5>1, <5>2
        <4> QED
          BY <4>1, <4>2 DEF Delayed
      <3> QED
        BY <1>1, <1>2, <3>4 DEF NothingLost
    <2> QED
      BY <1>5, <2>1, <2>2 DEF SchedScan
  <1>6. CASE SchedErase
    <2> DEFINE index == Head(tobeRemoved) - counter
    <2>1. /\ tobeRemoved # <<>> /\ tasks' = tasks /\ counter' = counter + 1
          /\ scheduledtasks' = RemoveAt(scheduledtasks, index)
          /\ tobeRemoved' = Tail(tobeRemoved)
      BY <1>6 DEF SchedErase
    <2>2. /\ index \in DOMAIN scheduledtasks /\ index = tobeRemoved[1] - counter
          /\ 1 \in DOMAIN tobeRemoved
      BY <1>6, <2>1, HeadTailProperties, LenProperties DEF SchedErase, SchedInv
    <2> HIDE DEF index
    <2>3. /\ Len(scheduledtasks) \in Nat /\ DOMAIN scheduledtasks = 1 .. Len(scheduledtasks)
          /\ DOMAIN scheduledtasks' = 1 .. Len(scheduledtasks) - 1
          /\ index \in 1 .. Len(scheduledtasks)
      <3>1. /\ scheduledtasks' \in Seq(Task)
            /\ Len(scheduledtasks') = Len(scheduledtasks) - 1
        BY <2>1, <2>2, RemoveAtType
      <3>2. /\ Len(scheduledtasks) \in Nat /\ DOMAIN scheduledtasks = 1 .. Len(scheduledtasks)
            /\ DOMAIN scheduledtasks' = 1 .. Len(scheduledtasks')
        BY <3>1, LenProperties
      <3> QED
        BY <2>2, <3>1, <3>2
    <2>4. \A j \in DOMAIN scheduledtasks' :
            /\ j < index => scheduledtasks'[j] = scheduledtasks[j]
            /\ j >= index => scheduledtasks'[j] = scheduledtasks[j + 1]
      BY <2>1, <2>2, RemoveAtEntries
    <2>5. \A k \in DOMAIN tobeRemoved' : /\ k + 1 \in DOMAIN tobeRemoved
                                        /\ tobeRemoved'[k] = tobeRemoved[k + 1]
                                        /\ tobeRemoved[1] < tobeRemoved[k + 1]
                                        /\ tobeRemoved[k + 1] \in Nat
      <3>1. /\ Len(tobeRemoved') = Len(tobeRemoved) - 1 /\ tobeRemoved' \in Seq(Nat)
            /\ \A k \in 1 .. Len(tobeRemoved') : tobeRemoved'[k] = tobeRemoved[k + 1]
        BY <2>1, HeadTailProperties
      <3>2. DOMAIN tobeRemoved' = 1 .. Len(tobeRemoved) - 1 /\ Len(tobeRemoved) \in Nat
            /\ DOMAIN tobeRemoved = 1 .. Len(tobeRemoved)
        BY <3>1, LenProperties
      <3>3. \A k \in DOMAIN tobeRemoved' : k + 1 \in DOMAIN tobeRemoved /\ 1 < k + 1
        BY <3>2
      <3>4. \A k \in DOMAIN tobeRemoved' : tobeRemoved'[k] = tobeRemoved[k + 1]
        BY <3>1, <3>2
      <3>5. \A k \in DOMAIN tobeRemoved' : tobeRemoved[1] < tobeRemoved[k + 1]
        BY <2>2, <3>3 DEF OnceInv, NoDuplicates
      <3>6. \A k \in DOMAIN tobeRemoved : tobeRemoved[k] \in Nat
        BY <3>2
      <3> QED
        BY <3>3, <3>4, <3>5, <3>6
    <2>6. counter \in Nat /\ tobeRemoved[1] \in Nat /\ tobeRemoved[1] = index + counter
      <3>1. counter \in Nat /\ tobeRemoved[1] \in Nat /\ index \in Int
        BY <2>2, <2>3
      <3> QED
        BY <2>2, <3>1
    <2>7. ASSUME NEW j \in DOMAIN scheduledtasks, ~Pushed(j)
          PROVE  \E i \in DOMAIN scheduledtasks' :
                   scheduledtasks'[i] = scheduledtasks[j] /\ ~Pushed(i)'
      <3>1. j # index
        BY <2>2, <2>7 DEF Pushed
      <3>2. CASE j < index
        <4>1. j \in DOMAIN scheduledtasks' /\ scheduledtasks'[j] = scheduledtasks[j]
          BY <2>3, <2>4, <3>2
        <4>2. ASSUME NEW k \in DOMAIN tobeRemoved', tobeRemoved'[k] - counter' = j
              PROVE  FALSE
          BY <2>1, <2>3, <2>5, <2>6, <3>2, <4>2
        <4> QED
          BY <4>1, <4>2 DEF Pushed
      <3>3. CASE j > index
        <4> PICK i \in Int : i = j - 1
          BY <2>3
        <4>1. i \in DOMAIN scheduledtasks' /\ scheduledtasks'[i] = scheduledtasks[j]
          <5>1. i \in DOMAIN scheduledtasks' /\ i >= index /\ i + 1 = j
            BY <2>3, <3>3
          <5> QED
            BY <2>4, <5>1
        <4>2. ASSUME NEW k \in DOMAIN tobeRemoved', tobeRemoved'[k] - counter' = i
              PROVE  FALSE
          <5>1. tobeRemoved[k + 1] - counter = j /\ k + 1 \in DOMAIN tobeRemoved
            <6>1. tobeRemoved[k + 1] - (counter + 1) = i
              BY <2>1, <2>5, <4>2
            <6>2. j \in Int /\ i + 1 = j
              BY <2>3
            <6>3. k + 1 \in DOMAIN tobeRemoved /\ tobeRemoved[k + 1] \in Nat
              BY <2>5, <4>2
            <6> QED
              BY <2>6, <6>1, <6>2, <6>3
          <5> QED
            BY <2>7, <5>1 DEF Pushed
        <4> QED
          BY <4>1, <4>2 DEF Pushed
      <3> QED
        BY <2>3, <3>1, <3>2, <3>3
    <2>8. ASSUME NEW t \in submitted
          PROVE  (Delayed(t) => Delayed(t)') /\ (Queued(t)' <=> Queued(t))
      BY <2>1, <2>7 DEF Delayed, Queued
    <2> QED
      BY <1>1, <1>2, <2>8 DEF NothingLost
  <1> QED
    BY <1>3, <1>4, <1>5, <1>6 DEF Scheduler, SchedulerStep

\* Each step that is not a spurious wake-up keeps CalmInv.
LEMMA CalmStep ==
  ASSUME ~Spurious, Inv, CalmInv, [Next]_vars
  PROVE  CalmInv'
PROOF
  <1> USE DEF Inv, TypeOK, PoolThreadTypeOK
  <1> DEFINE Same == UNCHANGED <<ppc, hand, complete, wpc, slot, runs>>
             Stays == opc' \in {"waitPool", "stopWorker", "waitWorker", "gone"} =>
                        complete \/ opc \in {"waitPool", "stopWorker", "waitWorker", "gone"}
  <1>1. ASSUME Same, Stays PROVE CalmInv'
    BY <1>1 DEF CalmInv, Ran
  <1>2. ASSUME NEW c \in Client, ClientReturns(c) \/ \E t \in Task : Submit(c, t)
        PROVE  CalmInv'
    <2>1. Same /\ opc' = opc
      BY <1>2 DEF ClientReturns, ClientInterrupt, ClientMark, MarkFuture, Submit, pollVars, poolFlags,
              ownerVars, workerVars, taskVars, objectVars
    <2> QED
      BY <1>1, <2>1
  <1>3. CASE PollReadFlag \/ PollPending \/ PollGet \/ PollScan
    <2>1. /\ UNCHANGED <<complete, wpc, slot, runs, opc>>
          /\ ppc # "done" /\ ppc' # "done"
          /\ ppc' \notin {"scan", "checkout"} => hand' = NoTask
      BY <1>3 DEF PollReadFlag, PollPending, PollGet, PollScan, PollGoto, CalmInv, poolFlags,
              ownerVars, workerVars, taskVars, objectVars
    <2> QED
      BY <2>1 DEF CalmInv, Ran
  <1>4. CASE PollCheckout
    <2>1. /\ ppc = "checkout" /\ ppc' = "pending" /\ hand' = NoTask
          /\ UNCHANGED <<complete, runs, opc>>
          /\ wpc' = [wpc EXCEPT ![pvar] = Interrupted(@)]
          /\ slot' = [slot EXCEPT ![pvar] = hand]
      BY <1>4 DEF PollCheckout, PollGoto, Checkout, poolFlags, ownerVars, taskVars, objectVars
    <2>2. hand \in Task /\ hand # NoTask /\ pvar \in Worker /\ slot[pvar] = NoTask
      BY <1>4, TaskAssumption DEF PollCheckout, PollGoto, SlotInv, SlotMatchesIdle, PollTypeOK
    <2>3. wpc[pvar] \notin {"woken", "release"}
      BY <2>1, <2>2 DEF CalmInv
    <2>4. slot'[pvar] = hand /\ wpc'[pvar] # "release"
      BY <2>1, <2>2, <2>3 DEF Interrupted
    <2>5. \A v \in Worker : v # pvar => slot'[v] = slot[v] /\ wpc'[v] = wpc[v]
      BY <2>1, <2>2
    <2>6. ~complete
      BY <2>1 DEF CalmInv
    <2> QED
      BY <2>1, <2>2, <2>4, <2>5, <2>6 DEF CalmInv, Ran
  <1>5. CASE PollExit
    <2>1. /\ ppc = "exit" /\ ppc' = "done" /\ complete' = TRUE
          /\ UNCHANGED <<hand, wpc, slot, runs>>
      BY <1>5 DEF PollExit, PollGoto, workerVars, taskVars, objectVars
    <2> QED
      BY <2>1 DEF CalmInv, Ran
  <1>6. CASE WakeWorker
    <2>1. /\ complete /\ ppc = "done" /\ UNCHANGED <<ppc, hand, complete, slot, runs>>
          /\ opc' = opc
      BY <1>6 DEF WakeWorker, OwnerGoto, InterruptWorker, CalmInv, pollVars, poolFlags, taskVars,
              objectVars
    <2>2. \A v \in Worker : wpc'[v] = "release" => wpc[v] = "release"
      BY <1>6 DEF WakeWorker, InterruptWorker, Interrupted
    <2> QED
      BY <2>1, <2>2 DEF CalmInv, Ran
  <1>7. CASE \/ \E ret \in {"open", "stop"} : CallJoin(ret)
             \/ JoinPending \/ JoinCount \/ StopPoller \/ StopTaskPool \/ TaskPoolStopped
             \/ StopNextWorker \/ WorkerStopped
    <2>1. Same
      BY <1>7
      DEF CallJoin, JoinPending, JoinCount, StopPoller, StopTaskPool, TaskPoolStopped,
          StopNextWorker, StopWorker, WorkerStopped, pollVars, poolFlags, workerVars, taskVars,
          objectVars
    <2>2. Stays
      BY <1>7
      DEF CallJoin, JoinPending, JoinCount, StopPoller, StopTaskPool, TaskPoolStopped,
          StopNextWorker, WorkerStopped, OwnerGoto, OwnerTypeOK
    <2> QED
      BY <1>1, <2>1, <2>2
  <1>8. CASE Scheduler
    <2>1. Same /\ opc' = opc
      BY <1>8 DEF Scheduler, pollVars, poolFlags, ownerVars, workerVars, taskVars, objectVars
    <2> QED
      BY <1>1, <2>1
  <1>9. ASSUME NEW t \in Scheduled, Tick(t)
        PROVE  CalmInv'
    <2>1. Same /\ opc' = opc
      BY <1>9 DEF Tick, Elapse, pollVars, poolFlags, ownerVars, workerVars, objectVars
    <2> QED
      BY <1>1, <2>1
  <1>10. ASSUME NEW w \in Worker, WorkerThread(w)
         PROVE  CalmInv'
    <2>1. UNCHANGED <<ppc, hand, complete, opc>>
      BY <1>10 DEF WorkerThread, pollVars, poolFlags, ownerVars
    <2>2. CASE WorkerReadFlag(w) \/ WorkerWait(w) \/ WorkerExit(w)
      <3>1. /\ UNCHANGED <<slot, runs>>
            /\ \A v \in Worker : wpc'[v] \in {"woken", "release"} => wpc'[v] = wpc[v]
        BY <2>2 DEF WorkerReadFlag, WorkerWait, WorkerExit, WorkerGoto, taskVars, objectVars
      <3> QED
        BY <2>1, <3>1 DEF CalmInv, Ran
    <2>3. CASE WorkerGetTask(w)
      <3>1. /\ UNCHANGED <<slot, runs>> /\ wpc[w] = "woken"
            /\ wpc'[w] = "release" => slot[w] = NoTask
            /\ wpc'[w] # "woken"
            /\ \A v \in Worker : v # w => wpc'[v] = wpc[v]
        BY <2>3 DEF WorkerGetTask, WorkerGoto, taskVars, objectVars
      <3> QED
        BY <2>1, <3>1 DEF CalmInv, Ran
    <2>4. CASE WorkerRun(w)
      <3>1. /\ slot' = slot /\ wpc'[w] = "release" /\ slot[w] \in Task
            /\ \A v \in Worker : v # w => wpc'[v] = wpc[v]
            /\ runs' = [runs EXCEPT ![slot[w]] = @ + 1] /\ runs \in [Task -> Nat]
        BY <2>4
        DEF WorkerRun, WorkerGoto, RunTask, RunTaskThrows, SlotInv, SlotMatchesIdle, TaskTypeOK
      <3>2. Ran(slot[w])' /\ \A t \in Task : runs[t] > 0 => runs'[t] > 0
        BY <3>1 DEF Ran
      <3>3. slot[w] # NoTask /\ \A v \in Worker : slot[v] # NoTask => slot[v] \in Task
        BY <3>1, TaskAssumption
      <3> QED
        BY <2>1, <3>1, <3>2, <3>3 DEF CalmInv, Ran
    <2>5. CASE WorkerRelease(w)
      <3>1. /\ slot'[w] = NoTask /\ wpc'[w] = "check" /\ runs' = runs
            /\ \A v \in Worker : v # w => wpc'[v] = wpc[v] /\ slot'[v] = slot[v]
        BY <2>5 DEF WorkerRelease, WorkerGoto, taskVars, objectVars
      <3> QED
        BY <2>1, <3>1 DEF CalmInv, Ran
    <2> QED
      BY <1>10, <2>2, <2>3, <2>4, <2>5 DEF WorkerThread, WorkerStep
  <1>11. CASE SpuriousWake
    BY <1>11 DEF SpuriousWake, SchedSpuriousWake, WorkerSpuriousWake
  <1>12. CASE UNCHANGED vars
    <2>1. Same /\ opc' = opc
      BY <1>12 DEF vars, pollVars, poolFlags, ownerVars, workerVars, taskVars, objectVars
    <2> QED
      BY <1>1, <2>1
  <1> QED
    BY <1>2, <1>3, <1>4, <1>5, <1>6, <1>7, <1>8, <1>9, <1>10, <1>11, <1>12
    DEF Next, PollerStep, OwnerStep

\* The whole invariant, in one step.
LEMMA KeptStep ==
  ASSUME ~Spurious, KeptInv, [Next]_vars
  PROVE  KeptInv'
PROOF
  <1>1. Inv' /\ CalmInv'
    BY InvStep, CalmStep DEF KeptInv
  <1> SUFFICES NothingLost'
    BY <1>1 DEF KeptInv
  <1> USE KeptFrame
      DEF KeptInv, taskVars, objectVars, taskPoolVars, queueVars, schedVars, workerVars, pollVars,
          clientVars
  <1>2. ASSUME NEW c \in Client, NEW t \in Task, Submit(c, t)
        PROVE  NothingLost'
    BY <1>2, KeptSubmit
  <1>3. ASSUME NEW c \in Client, ClientReturns(c)
        PROVE  NothingLost'
    BY <1>3 DEF ClientReturns, ClientInterrupt, ClientMark, InterruptScheduler, MarkFuture
  <1>4. CASE PollerStep
    <2>1. CASE PollGet
      BY <2>1, KeptPollGet
    <2>2. CASE PollCheckout
      BY <2>2, KeptCheckout
    <2>3. CASE PollReadFlag \/ PollPending \/ PollScan \/ PollExit
      BY <2>3 DEF PollReadFlag, PollPending, PollScan, PollExit
    <2> QED
      BY <1>4, <2>1, <2>2, <2>3 DEF PollerStep
  <1>5. CASE OwnerStep \/ \E ret \in {"open", "stop"} : CallJoin(ret)
    BY <1>5
    DEF OwnerStep, CallJoin, JoinPending, JoinCount, StopPoller, StopTaskPool, TaskPoolStopped,
        StopNextWorker, StopWorker, WakeWorker, InterruptWorker, WorkerStopped
  <1>6. CASE Scheduler
    BY <1>6, KeptScheduler
  <1>7. ASSUME NEW t \in Scheduled, Tick(t)
        PROVE  NothingLost'
    BY <1>7 DEF Tick, Elapse
  <1>8. ASSUME NEW w \in Worker, WorkerThread(w)
        PROVE  NothingLost'
    BY <1>8, KeptWorker DEF WorkerThread
  <1>9. CASE SpuriousWake
    BY <1>9 DEF SpuriousWake, SchedSpuriousWake, WorkerSpuriousWake
  <1>10. CASE UNCHANGED vars
    BY <1>10 DEF vars
  <1> QED
    BY <1>2, <1>3, <1>4, <1>5, <1>6, <1>7, <1>8, <1>9, <1>10 DEF Next

\* The initial state: nobody has submitted anything.
LEMMA KeptInit == Init => KeptInv
PROOF
  <1> SUFFICES ASSUME Init PROVE KeptInv
    OBVIOUS
  <1>1. CalmInv
    BY DEF Init, PoolThreadInit, CalmInv
  <1>2. NothingLost
    BY DEF Init, NothingLost
  <1> QED
    BY <1>1, <1>2, OnceInit DEF KeptInv

\* While no wake-up is spurious no task is lost: at any time each task the pool
\* has accepted waits for its timer or its turn, is in the poller's hand or a
\* slot, or has been run.  (A spurious wake-up lets release() clear a slot that
\* checkout() has just filled.)
THEOREM NoTaskIsLost ==
  ASSUME ~Spurious
  PROVE  Spec => []NothingLost
PROOF
  <1>1. KeptInv /\ [Next]_vars => KeptInv'
    BY KeptStep
  <1>2. KeptInv => NothingLost
    BY DEF KeptInv
  <1> QED
    BY <1>1, <1>2, KeptInit, PTL DEF Spec

-----------------------------------------------------------------------------
(* joinAll().                                                              *)

\* A pool uses the queue of its kind alone.
QueueInv ==
  IF PriorityPooling THEN tasks = <<>> /\ scheduledtasks = <<>> ELSE ptasks = <<>>

\* joinAll() will leave no task but x, when it has counted the workers below v.
LeavesOnly(x, v) ==
  \A t \in joinSet : Ran(t) \/ t = x \/ \E w \in Worker : w >= v /\ slot[w] = t

\* When the count begins, x is the task in the poller's hand; while it has found
\* every worker idle, no task has gone to a worker it has passed, but x.
JoinInv ==
  /\ joinSet \subseteq submitted
  /\ opc \in {"open", "join"} => ovar = 1 /\ oidle = 0
  /\ opc = "count" =>
       /\ ovar \in Worker /\ oidle < ovar
       /\ oidle = ovar - 1 => \E x \in Task \cup {NoTask} : LeavesOnly(x, ovar)
  /\ joinComplete => \E x \in Task \cup {NoTask} : \A t \in joinSet : Ran(t) \/ t = x

\* A pool without priorities never fills ptasks; one with priorities fills neither
\* of the others when nothing is scheduled.
LEMMA QueueStep ==
  ASSUME PriorityPooling => Scheduled = {}, Inv, QueueInv, [Next]_vars
  PROVE  QueueInv'
PROOF
  <1> USE DEF QueueInv
  <1>1. CASE UNCHANGED <<tasks, ptasks, scheduledtasks>>
    BY <1>1
  <1>2. ASSUME NEW c \in Client, NEW t \in Task, Submit(c, t)
        PROVE  QueueInv'
    BY <1>2 DEF Submit, AddTask, AddPTask
  <1>3. CASE PollGet
    <2>1. CASE PriorityPooling
      BY <1>3, <2>1 DEF PollGet, GetPTask
    <2>2. CASE ~PriorityPooling
      BY <1>3, <2>2 DEF PollGet, GetTask
    <2> QED
      BY <2>1, <2>2
  <1>4. CASE SchedScan \/ SchedErase
    <2>1. ptasks' = ptasks
      BY <1>4 DEF SchedScan, SchedErase
    <2>2. CASE PriorityPooling
      <3>1. DOMAIN scheduledtasks # {}
        <4>1. CASE SchedScan
          BY <4>1 DEF SchedScan, Inv, TypeOK, TaskPoolTypeOK, SchedInv
        <4>2. CASE SchedErase
          <5>1. tobeRemoved # <<>> /\ tobeRemoved \in Seq(Nat)
            BY <4>2 DEF SchedErase, Inv, TypeOK, TaskPoolTypeOK
          <5>2. 1 \in DOMAIN tobeRemoved
            BY <5>1
          <5>3. /\ tobeRemoved[1] < si /\ si <= total + 1 /\ total <= Len(scheduledtasks) + counter
                /\ counter + 1 <= tobeRemoved[1]
            BY <5>2 DEF Inv, SchedInv
          <5> QED
            BY <5>1, <5>2, <5>3 DEF Inv, TypeOK, TaskPoolTypeOK
        <4> QED
          BY <1>4, <4>1, <4>2
      <3> QED
        BY <2>2, <3>1
    <2> QED
      BY <2>1, <2>2
  <1>5. CASE Scheduler /\ ~SchedScan /\ ~SchedErase
    BY <1>5
    DEF Scheduler, SchedulerStep, SchedReadFlag, SchedWait, SchedSize, SchedTurnEnds, SchedExit,
        queueVars
  <1>6. CASE PollerStep /\ ~PollGet
    BY <1>1, <1>6
    DEF PollerStep, PollReadFlag, PollPending, PollScan, PollCheckout, PollExit, taskPoolVars,
        queueVars
  <1>7. CASE OwnerStep \/ \E ret \in {"open", "stop"} : CallJoin(ret)
    BY <1>1, <1>7
    DEF OwnerStep, CallJoin, JoinPending, JoinCount, StopPoller, StopTaskPool, TaskPoolStopped,
        StopNextWorker, WakeWorker, WorkerStopped, taskPoolVars, queueVars
  <1>8. CASE \/ \E c \in Client : ClientReturns(c)
             \/ \E t \in Scheduled : Tick(t)
             \/ \E w \in Worker : WorkerThread(w)
             \/ SpuriousWake
             \/ UNCHANGED vars
    BY <1>1, <1>8
    DEF ClientReturns, ClientInterrupt, ClientMark, Tick, WorkerThread, SpuriousWake,
        SchedSpuriousWake, vars, taskPoolVars, queueVars
  <1> QED
    BY <1>2, <1>3, <1>4, <1>5, <1>6, <1>7, <1>8 DEF Next, Scheduler

\* No task leaves a slot before it has been run.
SlotsHeld ==
  /\ \A t \in Task : Ran(t) => Ran(t)'
  /\ \A w \in Worker : slot[w] = NoTask \/ slot'[w] = slot[w] \/ runs'[slot[w]] > 0

LEMMA SlotsHeldStep ==
  ASSUME KeptInv, [Next]_vars
  PROVE  SlotsHeld
PROOF
  <1> USE DEF KeptInv, Inv, TypeOK, PoolThreadTypeOK
  <1>1. ASSUME UNCHANGED <<slot, runs>> PROVE SlotsHeld
    BY <1>1 DEF SlotsHeld, Ran
  <1>2. CASE PollCheckout
    <2>1. /\ slot[pvar] = NoTask /\ slot' = [slot EXCEPT ![pvar] = hand] /\ runs' = runs
      BY <1>2
      DEF PollCheckout, PollGoto, Checkout, SlotInv, SlotMatchesIdle, PollTypeOK, taskVars, objectVars
    <2> QED
      BY <2>1 DEF SlotsHeld, Ran
  <1>3. ASSUME NEW w \in Worker, WorkerThread(w)
        PROVE  SlotsHeld
    <2>1. CASE WorkerRun(w)
      <3>1. /\ slot' = slot /\ slot[w] \in Task
            /\ runs' = [runs EXCEPT ![slot[w]] = @ + 1] /\ runs \in [Task -> Nat]
        BY <2>1
        DEF WorkerRun, WorkerGoto, RunTask, RunTaskThrows, SlotInv, SlotMatchesIdle, TaskTypeOK
      <3>2. \A t \in Task : runs[t] > 0 => runs'[t] > 0
        BY <3>1
      <3> QED
        BY <3>1, <3>2 DEF SlotsHeld, Ran
    <2>2. CASE WorkerRelease(w)
      <3>1. slot' = [slot EXCEPT ![w] = NoTask] /\ runs' = runs
        BY <2>2 DEF WorkerRelease, taskVars, objectVars
      <3>2. slot[w] = NoTask \/ Ran(slot[w])
        BY <2>2 DEF WorkerRelease, WorkerGoto, CalmInv
      <3> QED
        BY <3>1, <3>2 DEF SlotsHeld, Ran
    <2>3. CASE ~WorkerRun(w) /\ ~WorkerRelease(w)
      BY <1>1, <1>3, <2>3
      DEF WorkerThread, WorkerStep, WorkerReadFlag, WorkerWait, WorkerGetTask, WorkerExit, taskVars,
          objectVars
    <2> QED
      BY <2>1, <2>2, <2>3
  <1>4. CASE PollerStep /\ ~PollCheckout
    BY <1>1, <1>4
    DEF PollerStep, PollReadFlag, PollPending, PollGet, PollScan, PollExit, workerVars, taskVars,
        objectVars
  <1>5. CASE OwnerStep \/ \E ret \in {"open", "stop"} : CallJoin(ret)
    BY <1>1, <1>5
    DEF OwnerStep, CallJoin, JoinPending, JoinCount, StopPoller, StopTaskPool, TaskPoolStopped,
        StopNextWorker, StopWorker, WakeWorker, InterruptWorker, WorkerStopped, workerVars,
        taskVars, objectVars
  <1>6. CASE \/ \E c \in Client : ClientReturns(c) \/ \E t \in Task : Submit(c, t)
             \/ Scheduler
             \/ \E t \in Scheduled : Tick(t)
             \/ SpuriousWake
             \/ UNCHANGED vars
    BY <1>1, <1>6
    DEF ClientReturns, ClientInterrupt, ClientMark, MarkFuture, Submit, Scheduler, Tick, Elapse,
        SpuriousWake, SchedSpuriousWake, WorkerSpuriousWake, vars, workerVars, taskVars, objectVars
  <1> QED
    BY <1>2, <1>3, <1>4, <1>5, <1>6 DEF Next

\* A step of another thread than the owner.
LEMMA JoinFrame ==
  ASSUME KeptInv, JoinInv, SlotsHeld, submitted \subseteq submitted',
         UNCHANGED <<joinSet, joinComplete, opc, ovar, oidle>>
  PROVE  JoinInv'
PROOF
  <1>1. joinSet \subseteq Task /\ NoTask \notin joinSet
    BY TaskAssumption DEF KeptInv, Inv, TypeOK, OwnerTypeOK
  <1>2. ASSUME NEW x, NEW v, LeavesOnly(x, v)
        PROVE  LeavesOnly(x, v)'
    <2>1. ASSUME NEW w \in Worker, slot[w] \in joinSet
          PROVE  slot'[w] = slot[w] \/ runs'[slot[w]] > 0
      BY <1>1, <2>1 DEF SlotsHeld
    <2> SUFFICES ASSUME NEW t \in joinSet
                 PROVE  (Ran(t) \/ t = x)' \/ \E w \in Worker : w >= v /\ slot'[w] = t
      BY <1>2 DEF LeavesOnly
    <2>2. CASE Ran(t) \/ t = x
      BY <1>1, <2>2 DEF SlotsHeld
    <2>3. ASSUME NEW w \in Worker, w >= v, slot[w] = t
          PROVE  Ran(t)' \/ slot'[w] = t
      BY <2>1, <2>3 DEF Ran
    <2> QED
      BY <1>2, <2>2, <2>3 DEF LeavesOnly
  <1>3. \A t \in joinSet : Ran(t) => Ran(t)'
    BY <1>1 DEF SlotsHeld
  <1>4. opc = "count" /\ oidle = ovar - 1
        => \E x \in Task \cup {NoTask} : LeavesOnly(x, ovar)'
    BY <1>2 DEF JoinInv
  <1>5. opc' = "count" =>
          /\ ovar' \in Worker /\ oidle' < ovar'
          /\ oidle' = ovar' - 1 => \E x \in Task \cup {NoTask} : LeavesOnly(x, ovar)'
    BY <1>4 DEF JoinInv
  <1>6. joinComplete' => \E x \in Task \cup {NoTask} : \A t \in joinSet' : Ran(t)' \/ t = x
    BY <1>3 DEF JoinInv
  <1> QED
    BY <1>5, <1>6 DEF JoinInv, LeavesOnly
\* Every step keeps JoinInv.
LEMMA JoinStep ==
  ASSUME KeptInv, QueueInv, JoinInv, [Next]_vars
  PROVE  JoinInv'
PROOF
  <1> DEFINE Owned == <<joinSet, joinComplete, opc, ovar, oidle>>
             Still == UNCHANGED <<slot, runs, submitted>>
  <1>1. ASSUME NEW ret \in {"open", "stop"}, CallJoin(ret)
        PROVE  JoinInv'
    <2>1. /\ Still /\ UNCHANGED <<joinComplete, ovar, oidle>>
          /\ opc = "open" /\ opc' \in {"open", "join", "stop"}
          /\ joinSet' = IF joinComplete THEN joinSet ELSE submitted
      BY <1>1 DEF CallJoin, OwnerGoto, poolFlags, workerVars, taskVars, objectVars, clientVars
    <2> QED
      BY <2>1 DEF JoinInv, Ran
  <1>2. CASE JoinPending
    <2>1. /\ Still /\ UNCHANGED <<joinSet, joinComplete, ovar, oidle, hand>>
          /\ opc = "join" /\ opc' = "count" /\ ovar = 1 /\ oidle = 0
      BY <1>2 DEF JoinPending, OwnerGoto, poolFlags, pollVars, workerVars, taskVars, objectVars,
              clientVars, JoinInv
    <2>2. tasks = <<>> /\ ptasks = <<>> /\ scheduledtasks = <<>>
      BY <1>2 DEF JoinPending, Pending, TasksPending, TasksPPending, QueueInv
    <2>3. \A i \in DOMAIN <<>> : FALSE
      OBVIOUS
    <2>4. \A w \in Worker : w >= 1
      BY NumThreadsAssumption DEF Worker
    <2> PICK h \in Task \cup {NoTask} : h = hand
      BY DEF KeptInv, Inv, TypeOK, PollTypeOK
    <2>5. LeavesOnly(h, 1)
      BY <2>2, <2>3, <2>4
      DEF LeavesOnly, KeptInv, NothingLost, JoinInv, Queued, PQueued, Delayed, InSlot
    <2>6. LeavesOnly(h, ovar)' /\ 1 \in Worker
      BY <2>1, <2>5, NumThreadsAssumption DEF LeavesOnly, Ran, Worker
    <2>7. joinComplete' => \E x \in Task \cup {NoTask} : \A t \in joinSet' : Ran(t)' \/ t = x
      BY <2>1 DEF JoinInv, Ran
    <2>8. joinSet' \subseteq submitted'
      BY <2>1 DEF JoinInv
    <2> QED
      BY <2>1, <2>6, <2>7, <2>8 DEF JoinInv
  <1>3. CASE JoinCount
    <2> DEFINE last == ovar = NumThreads
    <2> PICK i \in Int : i = IF idle[ovar] THEN oidle + 1 ELSE oidle
      BY DEF KeptInv, Inv, TypeOK, OwnerTypeOK
    <2>1. /\ Still /\ joinSet' = joinSet /\ opc = "count"
          /\ opc' = IF ~last THEN "count" ELSE IF i = NumThreads THEN oret ELSE "join"
          /\ joinComplete' = (last /\ i = NumThreads)
          /\ oidle' = IF last THEN 0 ELSE i
          /\ ovar' = IF last THEN 1 ELSE ovar + 1
      BY <1>3 DEF JoinCount, OwnerGoto, workerVars, taskVars, objectVars, clientVars
    <2>2. /\ ovar \in 1 .. NumThreads /\ oidle \in Nat /\ oidle < ovar /\ NumThreads \in Nat \ {0}
          /\ oret \in {"open", "stop"}
      BY <2>1, NumThreadsAssumption DEF JoinInv, Worker, KeptInv, Inv, TypeOK, OwnerTypeOK
    <2>3. i = ovar => oidle = ovar - 1 /\ slot[ovar] = NoTask
      BY <2>2 DEF KeptInv, Inv, SlotInv, SlotMatchesIdle, Worker
    <2>4. ASSUME i = ovar
          PROVE  \E x \in Task \cup {NoTask} :
                   \A t \in joinSet : \/ Ran(t) \/ t = x
                                      \/ \E w \in Worker : w >= ovar + 1 /\ slot[w] = t
      <3>1. PICK x \in Task \cup {NoTask} : LeavesOnly(x, ovar)
        BY <2>1, <2>3, <2>4 DEF JoinInv
      <3>2. NoTask \notin joinSet
        BY TaskAssumption DEF KeptInv, Inv, TypeOK, OwnerTypeOK
      <3>3. \A w \in Worker : w >= ovar => w = ovar \/ w >= ovar + 1
        BY <2>2 DEF Worker
      <3> QED
        BY <2>3, <2>4, <3>1, <3>2, <3>3 DEF LeavesOnly
    <2>5. joinSet' \subseteq submitted'
      BY <2>1 DEF JoinInv
    <2>6. CASE ~last
      <3>1. /\ opc' = "count" /\ ovar' = ovar + 1 /\ ovar' \in Worker /\ oidle' = i
            /\ oidle' < ovar' /\ ~joinComplete'
        <4>1. ovar + 1 \in 1 .. NumThreads /\ i < ovar + 1
          BY <2>2, <2>6
        <4> QED
          BY <2>1, <2>6, <4>1 DEF Worker
      <3>2. ASSUME oidle' = ovar' - 1
            PROVE  \E x \in Task \cup {NoTask} : LeavesOnly(x, ovar)'
        <4>1. i = ovar
          BY <2>2, <3>1, <3>2
        <4> QED
          BY <2>1, <2>4, <3>1, <4>1 DEF LeavesOnly, Ran
      <3> QED
        BY <2>5, <3>1, <3>2 DEF JoinInv
    <2>7. CASE last
      <3>1. /\ opc' \in {"open", "stop", "join"} /\ ovar' = 1 /\ oidle' = 0
            /\ joinComplete' => i = ovar
        BY <2>1, <2>2, <2>7
      <3>2. \A w \in Worker : ~(w >= ovar + 1)
        BY <2>2, <2>7 DEF Worker
      <3>3. joinComplete' => \E x \in Task \cup {NoTask} : \A t \in joinSet' : Ran(t)' \/ t = x
        BY <2>1, <2>4, <3>1, <3>2 DEF Ran
      <3> QED
        BY <2>5, <3>1, <3>3 DEF JoinInv
    <2> QED
      BY <2>6, <2>7
  <1>4. CASE \/ StopPoller \/ StopTaskPool \/ TaskPoolStopped
             \/ StopNextWorker \/ WakeWorker \/ WorkerStopped
    <2>1. /\ Still /\ UNCHANGED <<joinSet, joinComplete>>
          /\ opc' \notin {"open", "join", "count"}
      BY <1>4
      DEF StopPoller, StopTaskPool, TaskPoolStopped, StopNextWorker, StopWorker, WakeWorker,
          InterruptWorker, WorkerStopped, OwnerGoto, poolFlags, workerVars, taskVars, objectVars,
          clientVars
    <2> QED
      BY <2>1 DEF JoinInv, Ran
  <1>5. CASE \/ \E c \in Client : ClientReturns(c) \/ \E t \in Task : Submit(c, t)
             \/ PollerStep
             \/ Scheduler
             \/ \E t \in Scheduled : Tick(t)
             \/ \E w \in Worker : WorkerThread(w)
             \/ SpuriousWake
             \/ UNCHANGED vars
    <2>1. UNCHANGED Owned /\ submitted \subseteq submitted'
      BY <1>5
      DEF ClientReturns, ClientInterrupt, ClientMark, Submit, PollerStep, PollReadFlag,
          PollPending, PollGet, PollScan, PollCheckout, PollExit, Scheduler, Tick, WorkerThread,
          SpuriousWake, vars, poolFlags, ownerVars, clientVars
    <2> QED
      BY <2>1, SlotsHeldStep, JoinFrame
  <1> QED
    BY <1>1, <1>2, <1>3, <1>4, <1>5 DEF Next, OwnerStep

\* joinAll() returns with at most one of the tasks accepted before it still to
\* run.  It holds while no wake-up is spurious and a priority pool schedules no
\* task (a scheduled task of a priority pool is promoted to the queue that joinAll()
\* of such a pool does not read).
THEOREM JoinCorrect ==
  ASSUME ~Spurious, PriorityPooling => Scheduled = {}
  PROVE  Spec => []JoinLeavesAtMostOne
PROOF
  <1> DEFINE I == KeptInv /\ QueueInv /\ JoinInv
  <1>1. Init => I
    <2>1. Init => QueueInv /\ JoinInv
      BY DEF Init, TaskPoolInit, QueueInv, JoinInv
    <2> QED
      BY <2>1, KeptInit
  <1>2. I /\ [Next]_vars => I'
    BY KeptStep, QueueStep, JoinStep DEF KeptInv
  <1>3. I => JoinLeavesAtMostOne
    <2> SUFFICES ASSUME I, joinComplete PROVE Cardinality(joinSet \ Finished) <= 1
      BY DEF JoinLeavesAtMostOne
    <2>1. PICK x \in Task \cup {NoTask} : \A t \in joinSet : Ran(t) \/ t = x
      BY DEF JoinInv
    <2>2. joinSet \ Finished \subseteq {x}
      BY <2>1 DEF Ran, Finished, KeptInv, Inv, TypeOK, OwnerTypeOK
    <2>3. IsFiniteSet({x}) /\ Cardinality({x}) = 1
      BY FS_Singleton
    <2> QED
      BY <2>2, <2>3, FS_Subset, FS_CardinalityType
  <1> QED
    BY <1>1, <1>2, <1>3, PTL DEF Spec
-----------------------------------------------------------------------------
(* The pool implements WorkPool.                                           *)

\* t is an entry of the sequence s.
Entry(s, t) == \E i \in DOMAIN s : s[i] = t

\* One entry before a sequence.
LEMMA FirstEntry ==
  ASSUME NEW S, NEW h \in S, NEW s \in Seq(S)
  PROVE  /\ <<h>> \o s \in Seq(S) /\ <<h>> \o s # <<>>
         /\ Head(<<h>> \o s) = h /\ Tail(<<h>> \o s) = s
         /\ \A t \in S :
              /\ <<h>> \o Append(s, t) = Append(<<h>> \o s, t)
              /\ Entry(<<h>> \o s, t) <=> t = h \/ Entry(s, t)
PROOF
  <1> DEFINE q == <<h>> \o s
  <1>1. <<h>> \in Seq(S) /\ Len(<<h>>) = 1 /\ <<h>>[1] = h
    OBVIOUS
  <1>2. /\ q \in Seq(S) /\ Len(q) = 1 + Len(s)
        /\ \A i \in 1 .. 1 + Len(s) : q[i] = IF i <= 1 THEN <<h>>[i] ELSE s[i - 1]
    BY <1>1, ConcatProperties
  <1>3. /\ DOMAIN q = 1 .. 1 + Len(s) /\ DOMAIN s = 1 .. Len(s) /\ Len(s) \in Nat
    BY <1>2, LenProperties
  <1>4. \A t \in S : <<h>> \o Append(s, t) = Append(q, t)
    <2> TAKE t \in S
    <2>1. Append(s, t) = s \o <<t>> /\ Append(q, t) = q \o <<t>> /\ <<t>> \in Seq(S)
      BY <1>2, AppendIsConcat
    <2> QED
      BY <1>1, <2>1, ConcatAssociative
  <1> HIDE DEF q
  <1>5. q[1] = h /\ \A i \in 1 .. Len(s) : i + 1 \in DOMAIN q /\ q[i + 1] = s[i]
    <2>1. 1 \in 1 .. 1 + Len(s) /\ \A i \in 1 .. Len(s) : i + 1 \in 1 .. 1 + Len(s)
                                                       /\ ~(i + 1 <= 1) /\ (i + 1) - 1 = i
      BY <1>3
    <2> QED
      BY <1>1, <1>2, <1>3, <2>1
  <1>6. q # <<>>
    BY <1>2, <1>3
  <1>7. Head(q) = h
    BY <1>2, <1>5, <1>6
  <1>8. Tail(q) = s
    <2>1. /\ Tail(q) \in Seq(S) /\ Len(Tail(q)) = Len(s)
          /\ \A i \in 1 .. Len(s) : Tail(q)[i] = q[i + 1]
      BY <1>2, <1>3, <1>6, HeadTailProperties
    <2> QED
      BY <1>5, <2>1, SeqEqual
  <1>9. ASSUME NEW t
        PROVE  Entry(q, t) <=> t = h \/ Entry(s, t)
    <2>1. ASSUME NEW i \in DOMAIN q
          PROVE  i = 1 \/ \E j \in DOMAIN s : i = j + 1
      <3>1. i # 1 => i - 1 \in DOMAIN s /\ i = (i - 1) + 1
        BY <1>3
      <3> QED
        BY <3>1
    <2>2. 1 \in DOMAIN q
      BY <1>3
    <2> QED
      BY <1>3, <1>5, <2>1, <2>2 DEF Entry
  <1> QED
    BY <1>2, <1>4, <1>6, <1>7, <1>8, <1>9 DEF q
\* The tasks that wait for their timer, as WorkPool sees them.
Waiting == ToSet(scheduledtasks) \ (ToSet(ReadyQ) \cup Handed \cup Finished)

\* What the state functions of WorkPool hold, task by task: by NothingLost, the
\* tasks that wait are those accepted which are nowhere else.
Mapped ==
  /\ ReadyQ \in Seq(Task)
  /\ \A t \in Task :
       /\ Entry(ReadyQ, t) <=> Queued(t) \/ hand = t
       /\ t \in Handed <=> InSlot(t) /\ ~Ran(t)
       /\ t \in Finished <=> Ran(t)
       /\ t \in Waiting <=> /\ t \in submitted
                           /\ ~Queued(t) /\ hand # t /\ ~InSlot(t) /\ ~Ran(t)
  /\ Handed \subseteq Task /\ Finished \subseteq Task /\ Waiting \subseteq Task

LEMMA WorkPoolState == ~PriorityPooling /\ KeptInv /\ QueueInv => Mapped
PROOF
  <1> SUFFICES ASSUME ~PriorityPooling, KeptInv, QueueInv PROVE Mapped
    OBVIOUS
  <1> USE DEF KeptInv, Inv, TypeOK, TaskPoolTypeOK, PoolThreadTypeOK, PollTypeOK
  <1>1. ReadyQ \in Seq(Task)
    <2>1. CASE hand = NoTask
      BY <2>1 DEF ReadyQ
    <2>2. CASE hand # NoTask
      BY <2>2, FirstEntry DEF ReadyQ
    <2> QED
      BY <2>1, <2>2
  <1>2. ASSUME NEW t \in Task
        PROVE  Entry(ReadyQ, t) <=> Queued(t) \/ hand = t
    <2>1. CASE hand = NoTask
      <3>1. ReadyQ = tasks /\ hand # t
        BY <2>1, TaskAssumption DEF ReadyQ
      <3> QED
        BY <3>1 DEF Queued, Entry
    <2>2. CASE hand # NoTask
      <3>1. hand \in Task /\ ReadyQ = <<hand>> \o tasks
        BY <2>2 DEF ReadyQ
      <3>2. tasks \in Seq(Task)
        OBVIOUS
      <3>3. Entry(<<hand>> \o tasks, t) <=> t = hand \/ Entry(tasks, t)
        BY <3>1, <3>2, FirstEntry
      <3> QED
        BY <3>1, <3>3 DEF Queued, Entry
    <2> QED
      BY <2>1, <2>2
  <1>3. ASSUME NEW t \in Task
        PROVE  /\ t \in Handed <=> InSlot(t) /\ ~Ran(t)
               /\ t \in Finished <=> Ran(t)
    BY TaskAssumption DEF Handed, Finished, InSlot, Ran
  <1>4. ASSUME NEW t \in Task
        PROVE  t \in ToSet(ReadyQ) <=> Queued(t) \/ hand = t
    BY <1>2 DEF ToSet, Entry
  <1>5. ASSUME NEW t \in Task
        PROVE  t \in ToSet(scheduledtasks) <=> Listed(t)
    BY DEF ToSet, Listed
  <1>6. ASSUME NEW t \in Task
        PROVE  t \in Waiting <=> /\ t \in submitted
                                /\ ~Queued(t) /\ hand # t /\ ~InSlot(t) /\ ~Ran(t)
    <2>1. ~PQueued(t)
      <3>1. \A i \in DOMAIN <<>> : FALSE
        OBVIOUS
      <3> QED
        BY <3>1 DEF QueueInv, PQueued
    <2>2. OnePlace(t)
      BY DEF OnceInv
    <2>3. Delayed(t) => Listed(t)
      BY DEF Delayed, Listed
    <2>4. t \in submitted => Queued(t) \/ Delayed(t) \/ hand = t \/ InSlot(t) \/ Ran(t)
      BY <2>1 DEF NothingLost
    <2> QED
      BY <1>3, <1>4, <1>5, <2>2, <2>3, <2>4 DEF Waiting, OnePlace
  <1>7. Handed \subseteq Task /\ Finished \subseteq Task
    BY DEF Handed, Finished
  <1>8. Waiting \subseteq Task
    <2>1. ToSet(scheduledtasks) \subseteq Task
      BY DEF ToSet
    <2> QED
      BY <2>1 DEF Waiting
  <1> QED
    BY <1>1, <1>2, <1>3, <1>6, <1>7, <1>8 DEF Mapped

\* A step that moves no task between the queue, the hand, the slots and the tasks
\* run is none of WorkPool's, whatever it does to scheduledtasks.
LEMMA WorkPoolStutters ==
  ASSUME Mapped, Mapped', UNCHANGED <<tasks, hand, slot, runs, submitted>>
  PROVE  UNCHANGED <<Waiting, ReadyQ, Handed, Finished>>
PROOF
  <1>1. UNCHANGED <<ReadyQ, Handed, Finished>>
    BY DEF ReadyQ, Handed, Finished
  <1>2. ASSUME NEW t \in Task
        PROVE  /\ Queued(t)' <=> Queued(t)
               /\ InSlot(t)' <=> InSlot(t)
               /\ Ran(t)' <=> Ran(t)
    BY DEF Queued, InSlot, Ran
  <1>3. Waiting' = Waiting
    BY <1>2 DEF Mapped
  <1> QED
    BY <1>1, <1>3
\* submit() is Accept.
LEMMA AcceptStep ==
  ASSUME ~PriorityPooling, Inv, Mapped, Mapped', NEW c \in Client, NEW t \in Task, Submit(c, t)
  PROVE  Promised!Accept(t)
PROOF
  <1>1. /\ t \notin submitted /\ submitted' = submitted \cup {t}
        /\ UNCHANGED <<hand, slot, runs>>
        /\ t \in Scheduled => tasks' = tasks
        /\ t \notin Scheduled => tasks' = Append(tasks, t)
    BY DEF Submit, AddTask, taskVars, objectVars, workerVars, pollVars
  <1>2. ~Queued(t) /\ hand # t /\ ~InSlot(t) /\ ~Ran(t)
    BY <1>1 DEF Inv, OnceInv, OnePlace
  <1>3. t \in Task \ Promised!Known
    <2>1. ~Entry(ReadyQ, t) /\ t \notin Handed /\ t \notin Finished /\ t \notin Waiting
      BY <1>1, <1>2 DEF Mapped
    <2> QED
      BY <2>1 DEF Promised!Known, Entry, Waiting
  <1>4. UNCHANGED <<Handed, Finished>>
    BY <1>1 DEF Handed, Finished
  <1>5. \A u \in Task : (InSlot(u)' <=> InSlot(u)) /\ (Ran(u)' <=> Ran(u))
    BY <1>1 DEF InSlot, Ran
  <1>6. CASE t \in Scheduled
    <2>1. ReadyQ' = ReadyQ /\ \A u \in Task : Queued(u)' <=> Queued(u)
      BY <1>1, <1>6 DEF ReadyQ, Queued
    <2>2. Waiting' = Waiting \cup {t}
      BY <1>1, <1>2, <1>5, <2>1 DEF Mapped
    <2> QED
      BY <1>3, <1>4, <1>6, <2>1, <2>2 DEF Promised!Accept, Waiting
  <1>7. CASE t \notin Scheduled
    <2>1. tasks' = Append(tasks, t) /\ tasks \in Seq(Task)
      BY <1>1, <1>7 DEF Inv, TypeOK, TaskPoolTypeOK
    <2>2. ReadyQ' = Append(ReadyQ, t)
      <3>1. CASE hand = NoTask
        BY <1>1, <2>1, <3>1 DEF ReadyQ
      <3>2. CASE hand # NoTask
        <4>1. hand \in Task
          BY <3>2 DEF Inv, TypeOK, PollTypeOK
        <4>2. <<hand>> \o Append(tasks, t) = Append(<<hand>> \o tasks, t)
          BY <2>1, <4>1, FirstEntry
        <4> QED
          BY <1>1, <2>1, <3>2, <4>2 DEF ReadyQ
      <3> QED
        BY <3>1, <3>2
    <2>3. \A u \in Task : Queued(u)' <=> Queued(u) \/ u = t
      <3>1. \A i \in DOMAIN tasks : i \in DOMAIN Append(tasks, t) /\ Append(tasks, t)[i] = tasks[i]
        BY <2>1, AppendProperties, LenProperties
      <3>2. Len(tasks) + 1 \in DOMAIN Append(tasks, t) /\ Append(tasks, t)[Len(tasks) + 1] = t
        BY <2>1, AppendProperties, LenProperties
      <3>3. \A j \in DOMAIN Append(tasks, t) :
              Append(tasks, t)[j] = t \/ \E k \in DOMAIN tasks : Append(tasks, t)[j] = tasks[k]
        BY <2>1, AppendedEntry
      <3> QED
        BY <2>1, <3>1, <3>2, <3>3 DEF Queued
    <2>4. Waiting' = Waiting
      BY <1>1, <1>2, <1>5, <2>3 DEF Mapped
    <2> QED
      BY <1>3, <1>4, <1>7, <2>2, <2>4 DEF Promised!Accept, Waiting
  <1> QED
    BY <1>6, <1>7

\* getTask() moves the front of the queue into the hand, which is in front of it.
LEMMA GetStutters ==
  ASSUME ~PriorityPooling, KeptInv, Mapped, Mapped', PollGet
  PROVE  UNCHANGED <<Waiting, ReadyQ, Handed, Finished>>
PROOF
  <1> USE DEF KeptInv, Inv, TypeOK, TaskPoolTypeOK
  <1>1. /\ hand = NoTask /\ UNCHANGED <<slot, runs, submitted>>
        /\ hand' = FrontTask /\ tasks' = IF tasks = <<>> THEN tasks ELSE Tail(tasks)
    BY DEF PollGet, PollGoto, GetTask, CalmInv, workerVars, taskVars, objectVars, clientVars
  <1>2. CASE tasks = <<>>
    <2>1. UNCHANGED <<tasks, hand>>
      BY <1>1, <1>2 DEF FrontTask
    <2> QED
      BY <1>1, <2>1, WorkPoolStutters
  <1>3. CASE tasks # <<>>
    <2>1. hand' = Head(tasks) /\ tasks' = Tail(tasks) /\ Head(tasks) \in Task
      BY <1>1, <1>3, HeadTailProperties DEF FrontTask
    <2>2. tasks = <<Head(tasks)>> \o Tail(tasks)
      <3>1. /\ <<Head(tasks)>> \in Seq(Task) /\ Tail(tasks) \in Seq(Task)
            /\ Len(<<Head(tasks)>>) = 1 /\ Len(Tail(tasks)) = Len(tasks) - 1
            /\ \A i \in 1 .. Len(tasks) - 1 : Tail(tasks)[i] = tasks[i + 1]
        BY <1>3, <2>1, HeadTailProperties
      <3>2. /\ <<Head(tasks)>> \o Tail(tasks) \in Seq(Task)
            /\ Len(<<Head(tasks)>> \o Tail(tasks)) = Len(tasks)
            /\ \A i \in 1 .. Len(tasks) :
                 (<<Head(tasks)>> \o Tail(tasks))[i]
                   = IF i <= 1 THEN <<Head(tasks)>>[i] ELSE Tail(tasks)[i - 1]
        BY <3>1, ConcatProperties
      <3>3. Len(tasks) \in Nat /\ Head(tasks) = tasks[1]
        BY <1>3
      <3>4. ASSUME NEW i \in 1 .. Len(tasks)
            PROVE  (<<Head(tasks)>> \o Tail(tasks))[i] = tasks[i]
        <4>1. CASE i = 1
          BY <3>2, <3>3, <4>1
        <4>2. CASE i # 1
          <5>1. i - 1 \in 1 .. Len(tasks) - 1 /\ (i - 1) + 1 = i /\ ~(i <= 1)
            BY <3>3, <4>2
          <5> QED
            BY <3>1, <3>2, <5>1
        <4> QED
          BY <4>1, <4>2
      <3> QED
        BY <3>2, <3>4, SeqEqual
    <2>3. ReadyQ' = ReadyQ
      BY <1>1, <2>1, <2>2, TaskAssumption DEF ReadyQ
    <2>4. UNCHANGED <<Handed, Finished>>
      BY <1>1 DEF Handed, Finished
    <2>5. ASSUME NEW t \in Task
          PROVE  /\ Queued(t)' \/ hand' = t <=> Queued(t) \/ hand = t
                 /\ InSlot(t)' <=> InSlot(t)
                 /\ Ran(t)' <=> Ran(t)
      BY <1>1, <2>3 DEF InSlot, Ran, Mapped
    <2>6. Waiting' = Waiting
      BY <1>1, <2>5 DEF Mapped
    <2> QED
      BY <2>3, <2>4, <2>6
  <1> QED
    BY <1>2, <1>3
\* checkout() is HandOut: a slot is empty, so that fewer tasks than workers are
\* handed out.
LEMMA HandOutStep ==
  ASSUME KeptInv, Mapped, Mapped', PollCheckout
  PROVE  Promised!HandOut
PROOF
  <1> USE DEF KeptInv, Inv, TypeOK, TaskPoolTypeOK, PoolThreadTypeOK, PollTypeOK
  <1>1. /\ hand \in Task /\ hand # NoTask /\ hand' = NoTask
        /\ pvar \in Worker /\ slot[pvar] = NoTask /\ slot' = [slot EXCEPT ![pvar] = hand]
        /\ UNCHANGED <<tasks, runs, submitted>>
    BY TaskAssumption
    DEF PollCheckout, PollGoto, Checkout, SlotInv, SlotMatchesIdle, taskPoolVars, queueVars,
        taskVars, objectVars, clientVars
  <1>2. ReadyQ # <<>> /\ Head(ReadyQ) = hand /\ Tail(ReadyQ) = tasks /\ ReadyQ' = tasks
    <2>1. /\ <<hand>> \o tasks # <<>> /\ Head(<<hand>> \o tasks) = hand
          /\ Tail(<<hand>> \o tasks) = tasks
      BY <1>1, FirstEntry
    <2> QED
      BY <1>1, <2>1 DEF ReadyQ
  <1>3. ~Queued(hand) /\ ~InSlot(hand) /\ ~Ran(hand)
    BY <1>1 DEF OnceInv, OnePlace
  <1>4. ASSUME NEW t \in Task
        PROVE  /\ Queued(t)' <=> Queued(t)
               /\ InSlot(t)' <=> InSlot(t) \/ t = hand
               /\ Ran(t)' <=> Ran(t)
               /\ hand' # t
    <2>1. t # NoTask
      BY TaskAssumption
    <2> QED
      BY <1>1, <2>1 DEF Queued, InSlot, Ran
  <1>5. Handed' = Handed \cup {hand} /\ Finished' = Finished
    BY <1>1, <1>3, <1>4 DEF Mapped
  <1>6. Waiting' = Waiting
    BY <1>1, <1>4 DEF Mapped
  <1>7. Cardinality(Handed) < NumThreads
    <2> DEFINE Busy == {w \in Worker : slot[w] \in Handed}
               f == [w \in Busy |-> slot[w]]
    <2>1. IsFiniteSet(Worker) /\ Cardinality(Worker) = NumThreads /\ NumThreads \in Nat
      BY FS_Interval, NumThreadsAssumption DEF Worker
    <2>2. /\ IsFiniteSet(Worker \ {pvar})
          /\ Cardinality(Worker \ {pvar}) = NumThreads - 1
      BY <1>1, <2>1, FS_RemoveElement
    <2>3. Busy \subseteq Worker \ {pvar}
      BY <1>1, TaskAssumption DEF Mapped
    <2>4. IsFiniteSet(Busy) /\ Cardinality(Busy) <= NumThreads - 1
      BY <2>2, <2>3, FS_Subset
    <2>5. f \in Surjection(Busy, Handed)
      BY DEF Surjection, Handed
    <2>6. IsFiniteSet(Handed) /\ Cardinality(Handed) <= Cardinality(Busy)
      <3> HIDE DEF f, Busy
      <3> QED
        BY <2>4, <2>5, FS_Surjection
    <2>7. Cardinality(Handed) \in Nat /\ Cardinality(Busy) \in Nat
      BY <2>4, <2>6, FS_CardinalityType
    <2> QED
      BY <2>1, <2>4, <2>6, <2>7
  <1>8. Handed' = Handed \cup {Head(ReadyQ)} /\ ReadyQ' = Tail(ReadyQ)
    BY <1>2, <1>5
  <1>9. UNCHANGED <<ToSet(scheduledtasks) \ (ToSet(ReadyQ) \cup Handed \cup Finished), Finished>>
    BY <1>5, <1>6 DEF Waiting
  <1> HIDE DEF KeptInv, Inv, TypeOK, TaskPoolTypeOK, PoolThreadTypeOK, PollTypeOK
  <1>10. Promised!Cardinality(Handed) = Cardinality(Handed)
    BY DEF Promised!Cardinality, Cardinality
  <1> QED
    BY <1>2, <1>7, <1>8, <1>9, <1>10 DEF Promised!HandOut

\* A task that is due is pushed: Promote.
LEMMA PromoteStep ==
  ASSUME KeptInv, Mapped, Mapped', Scheduler, tasks' # tasks
  PROVE  \E t \in Task : Promised!Promote(t)
PROOF
  <1> USE DEF KeptInv, Inv, TypeOK, TaskPoolTypeOK
  <1>1. SchedScan
    BY DEF Scheduler, SchedulerStep, SchedReadFlag, SchedWait, SchedSize, SchedErase,
           SchedTurnEnds, SchedExit, queueVars
  <1> PICK t : t = scheduledtasks[si]
    OBVIOUS
  <1>2. /\ si \in DOMAIN scheduledtasks /\ counter = 0 /\ t \in Task
        /\ tasks' = Append(tasks, t)
        /\ UNCHANGED <<hand, slot, runs, submitted>>
    BY <1>1 DEF SchedScan, SchedInv, Scheduler, taskVars, objectVars, workerVars, pollVars,
            clientVars
  <1>3. Delayed(t)
    BY <1>2 DEF Delayed, Pushed, SchedInv
  <1>4. ~Queued(t) /\ hand # t /\ ~InSlot(t) /\ ~Ran(t) /\ t \in submitted
    BY <1>2, <1>3 DEF OnceInv, OnePlace, Delayed, Listed
  <1>5. t \in Waiting
    BY <1>2, <1>4 DEF Mapped
  <1>6. ReadyQ' = Append(ReadyQ, t)
    <2>1. CASE hand = NoTask
      BY <1>2, <2>1 DEF ReadyQ
    <2>2. CASE hand # NoTask
      <3>1. hand \in Task
        BY <2>2 DEF PollTypeOK
      <3>2. <<hand>> \o Append(tasks, t) = Append(<<hand>> \o tasks, t)
        BY <1>2, <3>1, FirstEntry
      <3> QED
        BY <1>2, <2>2, <3>2 DEF ReadyQ
    <2> QED
      BY <2>1, <2>2
  <1>7. ASSUME NEW u \in Task
        PROVE  /\ Queued(u)' <=> Queued(u) \/ u = t
               /\ InSlot(u)' <=> InSlot(u)
               /\ Ran(u)' <=> Ran(u)
    <2>1. \A i \in DOMAIN tasks : i \in DOMAIN Append(tasks, t) /\ Append(tasks, t)[i] = tasks[i]
      BY <1>2, AppendProperties, LenProperties
    <2>2. Len(tasks) + 1 \in DOMAIN Append(tasks, t) /\ Append(tasks, t)[Len(tasks) + 1] = t
      BY <1>2, AppendProperties, LenProperties
    <2>3. \A j \in DOMAIN Append(tasks, t) :
            Append(tasks, t)[j] = t \/ \E k \in DOMAIN tasks : Append(tasks, t)[j] = tasks[k]
      BY <1>2, AppendedEntry
    <2> QED
      BY <1>2, <2>1, <2>2, <2>3 DEF Queued, InSlot, Ran
  <1>8. UNCHANGED <<Handed, Finished>>
    BY <1>2 DEF Handed, Finished
  <1>9. Waiting' = Waiting \ {t}
    BY <1>2, <1>4, <1>7 DEF Mapped
  <1> QED
    BY <1>2, <1>5, <1>6, <1>8, <1>9 DEF Promised!Promote, Waiting

\* A worker that runs the task in its slot finishes it; one that releases itself
\* clears a slot whose task is finished.
LEMMA FinishStep ==
  ASSUME KeptInv, Mapped, Mapped', NEW w \in Worker, WorkerThread(w)
  PROVE  \/ \E t \in Task : Promised!Finish(t)
         \/ UNCHANGED <<Waiting, ReadyQ, Handed, Finished>>
PROOF
  <1> USE DEF KeptInv, Inv, TypeOK, PoolThreadTypeOK
  <1>1. UNCHANGED <<tasks, hand, submitted>> /\ ReadyQ' = ReadyQ
    BY DEF WorkerThread, taskPoolVars, queueVars, pollVars, clientVars, ReadyQ
  <1>2. \A t \in Task : Queued(t)' <=> Queued(t)
    BY <1>1 DEF Queued
  <1>3. CASE WorkerRun(w)
    <2> PICK t \in Task : t = slot[w]
      BY <1>3 DEF WorkerRun, WorkerGoto, SlotInv, SlotMatchesIdle
    <2>1. slot' = slot /\ runs' = [runs EXCEPT ![t] = @ + 1] /\ runs \in [Task -> Nat]
      BY <1>3
      DEF WorkerRun, WorkerGoto, RunTask, RunTaskThrows, SlotInv, SlotMatchesIdle, TaskTypeOK
    <2>2. InSlot(t) /\ ~Ran(t)
      BY <1>3 DEF InSlot, WorkerRun, WorkerGoto, OnceInv, OnePlace
    <2>3. ASSUME NEW u \in Task
          PROVE  /\ InSlot(u)' <=> InSlot(u)
                 /\ Ran(u)' <=> Ran(u) \/ u = t
      BY <2>1 DEF InSlot, Ran
    <2>4. Handed' = Handed \ {t} /\ Finished' = Finished \cup {t} /\ t \in Handed
      BY <2>2, <2>3 DEF Mapped
    <2>5. Waiting' = Waiting
      BY <1>1, <1>2, <2>2, <2>3 DEF Mapped
    <2> QED
      BY <1>1, <2>4, <2>5 DEF Promised!Finish, Waiting
  <1>4. CASE WorkerRelease(w)
    <2>1. slot' = [slot EXCEPT ![w] = NoTask] /\ runs' = runs
      BY <1>4 DEF WorkerRelease, taskVars, objectVars
    <2>2. slot[w] = NoTask \/ Ran(slot[w])
      BY <1>4 DEF WorkerRelease, WorkerGoto, CalmInv
    <2>3. ASSUME NEW t \in Task
          PROVE  /\ Ran(t)' <=> Ran(t)
                 /\ InSlot(t)' \/ Ran(t)' <=> InSlot(t) \/ Ran(t)
      <3>1. t # NoTask
        BY TaskAssumption
      <3> QED
        BY <2>1, <2>2, <3>1 DEF InSlot, Ran
    <2>4. UNCHANGED <<Waiting, Handed, Finished>>
      BY <1>1, <1>2, <2>3 DEF Mapped
    <2> QED
      BY <1>1, <2>4
  <1>5. CASE ~WorkerRun(w) /\ ~WorkerRelease(w)
    <2>1. UNCHANGED <<slot, runs>>
      BY <1>5
      DEF WorkerThread, WorkerStep, WorkerReadFlag, WorkerWait, WorkerGetTask, WorkerExit, taskVars,
          objectVars
    <2> QED
      BY <1>1, <2>1, WorkPoolStutters
  <1> QED
    BY <1>3, <1>4, <1>5

\* Every step of the pool is one of WorkPool's or changes none of its state.
LEMMA WorkPoolStep ==
  ASSUME ~PriorityPooling, KeptInv, Mapped, Mapped', [Next]_vars
  PROVE  [Promised!Next]_(Promised!wpVars)
PROOF
  <1>1. ASSUME UNCHANGED <<Waiting, ReadyQ, Handed, Finished>>
        PROVE  [Promised!Next]_(Promised!wpVars)
    BY <1>1 DEF Promised!wpVars, Waiting
  <1>2. ASSUME UNCHANGED <<tasks, hand, slot, runs, submitted>>
        PROVE  [Promised!Next]_(Promised!wpVars)
    BY <1>1, <1>2, WorkPoolStutters
  <1>3. ASSUME NEW c \in Client, NEW t \in Task, Submit(c, t)
        PROVE  [Promised!Next]_(Promised!wpVars)
    BY <1>3, AcceptStep DEF Promised!Next, KeptInv
  <1>4. CASE PollGet
    BY <1>1, <1>4, GetStutters
  <1>5. CASE PollCheckout
    BY <1>5, HandOutStep DEF Promised!Next
  <1>6. CASE Scheduler
    <2>1. CASE tasks' = tasks
      BY <1>2, <1>6, <2>1
      DEF Scheduler, taskVars, objectVars, workerVars, pollVars, clientVars
    <2>2. CASE tasks' # tasks
      BY <1>6, <2>2, PromoteStep DEF Promised!Next
    <2> QED
      BY <2>1, <2>2
  <1>7. ASSUME NEW w \in Worker, WorkerThread(w)
        PROVE  [Promised!Next]_(Promised!wpVars)
    BY <1>1, <1>7, FinishStep DEF Promised!Next
  <1>8. CASE PollerStep /\ ~PollGet /\ ~PollCheckout
    BY <1>2, <1>8
    DEF PollerStep, PollReadFlag, PollPending, PollScan, PollExit, taskPoolVars, queueVars,
        taskVars, objectVars, workerVars, clientVars
  <1>9. CASE OwnerStep \/ \E ret \in {"open", "stop"} : CallJoin(ret)
    BY <1>2, <1>9
    DEF OwnerStep, CallJoin, JoinPending, JoinCount, StopPoller, StopTaskPool, TaskPoolStopped,
        StopNextWorker, StopWorker, WakeWorker, InterruptWorker, WorkerStopped, taskPoolVars,
        queueVars, taskVars, objectVars, workerVars, pollVars, clientVars
  <1>10. CASE \/ \E c \in Client : ClientReturns(c)
              \/ \E t \in Scheduled : Tick(t)
              \/ SpuriousWake
              \/ UNCHANGED vars
    BY <1>2, <1>10
    DEF ClientReturns, ClientInterrupt, ClientMark, MarkFuture, Tick, Elapse, SpuriousWake,
        SchedSpuriousWake, WorkerSpuriousWake, vars, taskPoolVars, queueVars, taskVars,
        objectVars, workerVars, pollVars, clientVars
  <1> QED
    BY <1>3, <1>4, <1>5, <1>6, <1>7, <1>8, <1>9, <1>10 DEF Next

\* A pool without priorities implements WorkPool while no wake-up is spurious: it
\* hands the ready tasks out in the order they came, at most one to a worker, and
\* loses none on the way.
THEOREM PoolImplementsWorkPool ==
  ASSUME ~Spurious, ~PriorityPooling
  PROVE  Spec => ImplementsWorkPool
PROOF
  <1> DEFINE I == KeptInv /\ QueueInv
  <1>1. Init => I
    <2>1. Init => QueueInv
      BY DEF Init, TaskPoolInit, QueueInv
    <2> QED
      BY <2>1, KeptInit
  <1>2. I /\ [Next]_vars => I'
    BY KeptStep, QueueStep DEF KeptInv
  <1>3. I => Mapped
    BY WorkPoolState
  <1>4. Init => Promised!Init
    <2> SUFFICES ASSUME Init PROVE Promised!Init
      OBVIOUS
    <2>1. /\ tasks = <<>> /\ scheduledtasks = <<>> /\ hand = NoTask
          /\ \A w \in Worker : slot[w] = NoTask
          /\ \A t \in Task : runs[t] = 0
      BY DEF Init, TaskInit, TaskPoolInit, PoolThreadInit
    <2>2. ToSet(<<>>) = {}
      BY DEF ToSet
    <2> QED
      BY <2>1, <2>2 DEF Promised!Init, ReadyQ, Handed, Finished
  <1>5. I /\ Mapped /\ Mapped' /\ [Next]_vars => [Promised!Next]_(Promised!wpVars)
    BY WorkPoolStep
  <1> HIDE DEF I
  <1> QED
    BY <1>1, <1>2, <1>3, <1>4, <1>5, PTL DEF Spec, ImplementsWorkPool, Promised!Spec
=============================================================================
