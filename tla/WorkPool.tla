------------------------------ MODULE WorkPool ------------------------------
(***************************************************************************)
(* What a thread pool of Size workers promises while wake-ups are not      *)
(* spurious: a task waits for its timer (delayed), waits its turn (queue), *)
(* is handed to a worker in that turn (handed) and is run once (finished). *)
(* At most Size tasks are handed out at a time and no task is lost on the  *)
(* way; a worker may keep the task it was handed for ever.                 *)
(***************************************************************************)
EXTENDS Naturals, Sequences, FiniteSets

CONSTANTS Task, Delayed, Size

VARIABLES delayed, queue, handed, finished

wpVars == <<delayed, queue, handed, finished>>

Known == delayed \cup {queue[i] : i \in DOMAIN queue} \cup handed \cup finished

Init == delayed = {} /\ queue = <<>> /\ handed = {} /\ finished = {}

Accept(t) ==
  /\ t \in Task \ Known
  /\ IF t \in Delayed
     THEN delayed' = delayed \cup {t} /\ UNCHANGED queue
     ELSE queue' = Append(queue, t) /\ UNCHANGED delayed
  /\ UNCHANGED <<handed, finished>>

Promote(t) ==
  /\ t \in delayed
  /\ delayed' = delayed \ {t}
  /\ queue' = Append(queue, t)
  /\ UNCHANGED <<handed, finished>>

HandOut ==
  /\ queue # <<>> /\ Cardinality(handed) < Size
  /\ handed' = handed \cup {Head(queue)}
  /\ queue' = Tail(queue)
  /\ UNCHANGED <<delayed, finished>>

Finish(t) ==
  /\ t \in handed
  /\ handed' = handed \ {t}
  /\ finished' = finished \cup {t}
  /\ UNCHANGED <<delayed, queue>>

Next == HandOut \/ \E t \in Task : Accept(t) \/ Promote(t) \/ Finish(t)

Spec == Init /\ [][Next]_wpVars
=============================================================================
