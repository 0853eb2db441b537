------------------------- MODULE ServerMasterProofs -------------------------
(***************************************************************************)
(* SlotsAgree, OneHand and TypeOK hold for any number of children, clients *)
(* and page changes; ClosedForAll and NothingAbandoned as long as no page  *)
(* changes, the second if the children start in time.                      *)
(***************************************************************************)
EXTENDS ServerMaster, FiniteSetTheorems, TLAPS

Forking == {"fork", "record"}
Looping == {"settle", "poll", "reforked", "handle", "send", "close"}

\* The slots below n are filled, each with one process.
FilledTo(n) ==
  /\ Len(files) = n
  /\ \A j \in 1 .. n : files[j] = pds[j] /\ sp[j] = pds[j]

SlotTypes ==
  /\ mpc \in Forking \cup Looping \cup {"exited", "killed"}
  /\ slot \in Slot /\ forks \in Nat
  /\ pds \in [Slot -> Nat] /\ sp \in [Slot -> Nat] /\ files \in Seq(Nat)

SlotsInv ==
  /\ SlotTypes
  /\ mpc \in Forking => FilledTo(slot - 1)
  /\ mpc = "record" => sp[slot] = forks
  /\ mpc \in Looping => slot = 1 /\ FilledTo(NumProc)

\* No slot is filled before the first fork.
LEMMA SlotsInit == Init => SlotsInv
  BY SizesAssumption
  DEF Init, SlotsInv, SlotTypes, FilledTo, Slot, Forking, Looping

\* A fork changes the socket pair of the slot in turn only.
LEMMA SlotsFork == SlotsInv /\ ForkChild => SlotsInv'
<1> SUFFICES ASSUME SlotsInv, ForkChild PROVE SlotsInv'
  OBVIOUS
<1> USE SizesAssumption DEF ForkChild, SlotsInv, SlotTypes, Slot, Forking, Looping
<1>1. SlotTypes' /\ sp'[slot] = forks'
  OBVIOUS
<1>2. FilledTo(slot - 1)'
  BY DEF FilledTo
<1> QED BY <1>1, <1>2

\* A slot is filled once its process is recorded.
LEMMA SlotsRecord == SlotsInv /\ RecordChild => SlotsInv'
<1> SUFFICES ASSUME SlotsInv, RecordChild PROVE SlotsInv'
  OBVIOUS
<1> USE SizesAssumption DEF RecordChild, SlotsInv, SlotTypes, Slot, Forking, Looping
<1>1. SlotTypes'
  BY SMTT(30)
<1>2. Len(files') = slot
  BY DEF FilledTo
<1>3. ASSUME NEW j \in 1 .. slot PROVE files'[j] = pds'[j] /\ sp'[j] = pds'[j]
  BY DEF FilledTo
<1>4. CASE slot < NumProc
  BY <1>1, <1>2, <1>3, <1>4 DEF FilledTo
<1>5. CASE ~(slot < NumProc)
  <2>1. slot = NumProc /\ mpc' \in Looping /\ slot' = 1
    BY <1>5
  <2> QED BY <1>1, <1>2, <1>3, <2>1 DEF FilledTo
<1> QED BY <1>4, <1>5

\* A wake-up leaves the slots alone, or empties the list of files for a re-fork.
LEMMA SlotsWoken == ASSUME NEW b, SlotsInv, Woken(b) PROVE SlotsInv'
<1> USE SizesAssumption DEF Woken, SlotsInv, SlotTypes, Slot, Forking, Looping
<1>1. CASE processforcekilled
  BY <1>1 DEF FilledTo
<1>2. CASE ~processforcekilled
  BY <1>2 DEF FilledTo
<1> QED BY <1>1, <1>2

\* The other steps leave the slots alone, and the main thread in its loop or out
\* of it.
SlotsKept ==
  /\ UNCHANGED forkVars
  /\ \/ mpc' = mpc
     \/ mpc \in Looping /\ mpc' \in Looping
     \/ mpc' \in {"exited", "killed"}

\* What the steps outside the two forking loops do to the slots.
LEMMA OthersKeepSlots ==
  [Next]_vars
    => \/ ForkChild \/ RecordChild \/ (\E b : Woken(b)) \/ SlotsKept
<1> SUFFICES ASSUME [Next]_vars
             PROVE  \/ ForkChild \/ RecordChild \/ (\E b : Woken(b)) \/ SlotsKept
  OBVIOUS
<1> USE DEF SlotsKept, Looping
<1>1. CASE MasterStep
  BY <1>1 DEF MasterStep, Settle, Check, GetEvents, Reforked, AcceptConnection,
    TakeConnection, SendConnection, CloseServer
<1>2. CASE PollInterrupted
  BY <1>2 DEF PollInterrupted
<1>3. CASE MonitorStep \/ EditPage \/ WakeMaster \/ StopServer
  BY <1>3 DEF MonitorStep, PageRegenerates, PageKills, PageFlags, PageRefreshes,
    PageEnds, EditPage, WakeMaster, StopServer
<1>4. ASSUME NEW p \in Pid, KidStep(p) PROVE SlotsKept
  BY <1>4 DEF KidStep, KidStarts, KidChecks, KidReceives, KidReturns
<1>5. ASSUME NEW p \in Pid, NEW c \in AnyConn, KidServes(p, c) PROVE SlotsKept
  BY <1>5 DEF KidServes
<1>6. ASSUME NEW c \in Conn, Connect(c) \/ SendOrHangUp(c) PROVE SlotsKept
  BY <1>6 DEF Connect, SendOrHangUp
<1>7. CASE UNCHANGED vars
  BY <1>7 DEF vars
<1> QED BY <1>1, <1>2, <1>3, <1>4, <1>5, <1>6, <1>7 DEF Next

\* Such a step keeps the invariant.
LEMMA KeptSlots == SlotsInv /\ SlotsKept => SlotsInv'
  BY DEF SlotsKept, SlotsInv, SlotTypes, FilledTo, forkVars, Forking, Looping

\* While the main thread is in its loop, the .cntrl file it looks for, the
\* socket pair it writes to and the pid it would kill belong, slot by slot, to
\* one process, however often the children are killed and forked again.
THEOREM SlotsCorrect == Spec => []SlotsAgree
<1>1. SlotsInv /\ [Next]_vars => SlotsInv'
  BY SlotsFork, SlotsRecord, SlotsWoken, OthersKeepSlots, KeptSlots
<1>2. SlotsInv => SlotsAgree
  BY SizesAssumption
  DEF SlotsInv, SlotTypes, SlotsAgree, FilledTo, Slot, Forking, Looping
<1> QED BY SlotsInit, <1>1, <1>2, PTL DEF Spec

-----------------------------------------------------------------------------
(* OneHand.                                                                 *)

Elements(s) == {s[i] : i \in DOMAIN s}
Distinct(s) == \A i, j \in DOMAIN s : s[i] = s[j] => i = j

\* Where a connection may be: in a hand, of a process or (0) of the master.
Hand == {"backlog", "watched", "desc", "pair", "pool"}
Owner == {0} \cup Pid

In(c, p, h) ==
  \/ h = "backlog" /\ p = 0 /\ c \in Waiting
  \/ h = "watched" /\ p = 0 /\ c \in watched
  \/ h = "desc" /\ p = 0 /\ c = desc /\ MasterAlive
  \/ h = "pair" /\ p \in Pid /\ c \in Queued(p)
  \/ h = "pool" /\ p \in Pid /\ c \in serving[p]

HandTypes ==
  /\ events \subseteq AnyConn \cup {Listener} /\ desc \in AnyConn \cup {NoConn}
  /\ watched \subseteq AnyConn /\ served \subseteq AnyConn
  /\ backlog \in Seq(AnyConn) /\ queue \in [Pid -> Seq(AnyConn)]
  /\ serving \in [Pid -> SUBSET AnyConn]
  /\ peer \in [AnyConn -> {"away", "quiet", "sent", "gone"}]

\* Each connection is in one place, in none once it is closed or before it is opened.
Unique ==
  /\ \A c \in AnyConn : \A p, q \in Owner : \A g, h \in Hand :
       In(c, p, g) /\ In(c, q, h) => p = q /\ g = h
  /\ \A c \in AnyConn : \A p \in Owner : \A h \in Hand :
       In(c, p, h) => c \notin served /\ peer[c] # "away"
  /\ \A c \in served : peer[c] # "away"

\* The sequences name none twice; the batch at hand holds watched connections only, and
\* the listener while one is waiting.
Orderly ==
  /\ Distinct(backlog) /\ \A p \in Pid : Distinct(queue[p])
  /\ MasterAlive => /\ events \cap AnyConn \subseteq watched
                    /\ Listener \in events => backlog # <<>>
                    /\ desc # NoConn <=> mpc = "send"
  /\ mpc = "settle" => grace = "off"
  /\ grace # "done" => peer[Self] = "away"

HandInv == HandTypes /\ Unique /\ Orderly

-----------------------------------------------------------------------------

\* The values of a sequence after Append.
LEMMA Appended ==
  ASSUME NEW S, NEW s \in Seq(S), NEW e \in S, Distinct(s), e \notin Elements(s)
  PROVE  /\ Append(s, e) \in Seq(S) /\ Append(s, e) # <<>> /\ Distinct(Append(s, e))
         /\ Elements(Append(s, e)) = Elements(s) \cup {e}
<1> DEFINE t == Append(s, e)
           n == Len(s)
<1>1. /\ t \in Seq(S) /\ t # <<>> /\ n \in Nat /\ DOMAIN s = 1 .. n
      /\ DOMAIN t = 1 .. n + 1 /\ t[n + 1] = e /\ \A i \in 1 .. n : t[i] = s[i]
  OBVIOUS
<1> HIDE DEF t, n
<1>2. \A i \in 1 .. n : s[i] # e
  BY <1>1 DEF Elements
<1>3. Distinct(t)
  <2> SUFFICES ASSUME NEW i \in 1 .. n + 1, NEW j \in 1 .. n + 1, t[i] = t[j] PROVE i = j
    BY <1>1 DEF Distinct
  <2>1. CASE i \in 1 .. n /\ j \in 1 .. n
    BY <1>1, <2>1 DEF Distinct
  <2>2. CASE i = n + 1 \/ j = n + 1
    BY <1>1, <1>2, <2>2
  <2> QED BY <1>1, <2>1, <2>2
<1>4. ASSUME NEW x \in Elements(t) PROVE x \in Elements(s) \cup {e}
  <2>1. PICK i \in 1 .. n + 1 : x = t[i]
    BY <1>1 DEF Elements
  <2>2. CASE i \in 1 .. n
    BY <1>1, <2>1, <2>2 DEF Elements
  <2>3. CASE i = n + 1
    BY <1>1, <2>1, <2>3
  <2> QED BY <1>1, <2>2, <2>3
<1>5. ASSUME NEW x \in Elements(s) PROVE x \in Elements(t)
  <2>1. PICK i \in 1 .. n : x = s[i]
    BY <1>1 DEF Elements
  <2>2. i \in DOMAIN t /\ x = t[i]
    BY <1>1, <2>1
  <2> QED BY <2>2 DEF Elements
<1>6. e \in Elements(t)
  <2>1. n + 1 \in DOMAIN t /\ e = t[n + 1]
    BY <1>1
  <2> QED BY <2>1 DEF Elements
<1> QED BY <1>1, <1>3, <1>4, <1>5, <1>6 DEF t

\* The values of a sequence after Tail.
LEMMA Removed ==
  ASSUME NEW S, NEW s \in Seq(S), Distinct(s), s # <<>>
  PROVE  /\ Tail(s) \in Seq(S) /\ Distinct(Tail(s)) /\ Head(s) \in S
         /\ Head(s) \in Elements(s) /\ Elements(Tail(s)) = Elements(s) \ {Head(s)}
<1> DEFINE t == Tail(s)
           h == Head(s)
           n == Len(s)
<1>1. /\ t \in Seq(S) /\ n \in Nat \ {0} /\ h = s[1] /\ h \in S
      /\ DOMAIN s = 1 .. n /\ DOMAIN t = 1 .. n - 1
      /\ \A i \in 1 .. n - 1 : t[i] = s[i + 1]
  OBVIOUS
<1> HIDE DEF t, h, n
<1>2. ASSUME NEW i \in DOMAIN t, NEW j \in DOMAIN t, t[i] = t[j] PROVE i = j
  <2>1. i + 1 \in DOMAIN s /\ j + 1 \in DOMAIN s /\ s[i + 1] = s[j + 1]
    BY <1>1, <1>2
  <2>2. i + 1 = j + 1
    BY <2>1 DEF Distinct
  <2> QED BY <1>1, <2>2
<1>3. h \in Elements(s)
  BY <1>1 DEF Elements
<1>4. ASSUME NEW x \in Elements(t) PROVE x \in Elements(s) \ {h}
  <2>1. PICK i \in 1 .. n - 1 : x = t[i]
    BY <1>1 DEF Elements
  <2>2. i + 1 \in DOMAIN s /\ 1 \in DOMAIN s /\ x = s[i + 1] /\ i + 1 # 1
    BY <1>1, <2>1
  <2> QED BY <1>1, <2>2 DEF Elements, Distinct
<1>5. ASSUME NEW x \in Elements(s) \ {h} PROVE x \in Elements(t)
  <2>1. PICK i \in 1 .. n : x = s[i]
    BY <1>1 DEF Elements
  <2>2. i - 1 \in DOMAIN t /\ i # 1
    BY <1>1, <2>1
  <2>3. x = t[i - 1]
    BY <1>1, <2>1, <2>2
  <2> QED BY <2>2, <2>3 DEF Elements
<1>6. Distinct(t) /\ Elements(t) = Elements(s) \ {h}
  BY <1>2, <1>4, <1>5 DEF Distinct
<1> QED BY <1>1, <1>3, <1>6 DEF t, h

\* A sequence without duplicates is as long as it has elements.
LEMMA DistinctLength ==
  ASSUME NEW S, NEW s \in Seq(S), Distinct(s)
  PROVE  Cardinality(Elements(s)) = Len(s)
<1> DEFINE n == Len(s)
<1>1. n \in Nat /\ n \in Int /\ DOMAIN s = 1 .. n /\ s = [i \in 1 .. n |-> s[i]]
  OBVIOUS
<1>2. \A i \in 1 .. n : s[i] \in Elements(s)
  BY <1>1 DEF Elements
<1> HIDE DEF n
<1>3. s \in [1 .. n -> Elements(s)]
  BY <1>1, <1>2
<1>4. s \in Injection(1 .. n, Elements(s))
  BY <1>1, <1>3 DEF Injection, IsInjective, Distinct
<1>5. s \in Surjection(1 .. n, Elements(s))
  <2>1. \A x \in Elements(s) : \E i \in 1 .. n : s[i] = x
    BY <1>1 DEF Elements
  <2> QED BY <1>3, <2>1 DEF Surjection
<1>6. ExistsBijection(1 .. n, Elements(s))
  BY <1>4, <1>5 DEF ExistsBijection, Bijection
<1>7. IsFiniteSet(1 .. n) /\ Cardinality(1 .. n) = n
  <2>1. 1 \in Int /\ n - 1 + 1 = n /\ (1 > n => n = 0)
    BY <1>1
  <2> QED BY <1>1, <2>1, FS_Interval
<1> QED BY <1>6, <1>7, FS_Bijection DEF n

\* A step after which connections are where they were, or nowhere.
LEMMA UniqueKept ==
  ASSUME Unique, UNCHANGED served, \A c \in AnyConn : peer'[c] = "away" <=> peer[c] = "away",
         \A c \in AnyConn : \A p \in Owner : \A h \in Hand : In(c, p, h)' => In(c, p, h),
         served \subseteq AnyConn
  PROVE  Unique'
  BY DEF Unique

\* A step that opens a connection, or takes it from one hand to another.
LEMMA UniqueMoved ==
  ASSUME Unique, UNCHANGED served, served \subseteq AnyConn,
         NEW d \in AnyConn, d \notin served, peer'[d] # "away",
         NEW q \in Owner, NEW g \in Hand, \A p \in Owner : \A h \in Hand : In(d, p, h)' => p = q /\ h = g,
         \A c \in AnyConn \ {d} : peer'[c] = "away" <=> peer[c] = "away",
         \A c \in AnyConn \ {d} : \A p \in Owner : \A h \in Hand : In(c, p, h)' => In(c, p, h)
  PROVE  Unique'
  BY DEF Unique

\* A step that closes a connection.
LEMMA UniqueServed ==
  ASSUME Unique, UNCHANGED peer, served \subseteq AnyConn,
         NEW d \in AnyConn, served' = served \cup {d}, peer[d] # "away",
         \A p \in Owner : \A h \in Hand : ~In(d, p, h)',
         \A c \in AnyConn \ {d} : \A p \in Owner : \A h \in Hand : In(c, p, h)' => In(c, p, h)
  PROVE  Unique'
  BY DEF Unique

-----------------------------------------------------------------------------
(* The steps that leave every connection where it is, or nowhere.          *)

Quiet ==
  /\ UNCHANGED <<desc, queue, served>>
  /\ \A c \in AnyConn : peer'[c] = "away" <=> peer[c] = "away"
  /\ watched' \subseteq watched /\ Waiting' \subseteq Waiting
  /\ \A p \in Pid : serving'[p] \subseteq serving[p]
  /\ MasterAlive' => MasterAlive

\* Such a step brings no connection into a second hand.
LEMMA UniqueQuiet == HandInv /\ Quiet => Unique'
<1> SUFFICES ASSUME HandInv, Quiet PROVE Unique'
  OBVIOUS
<1>1. \A p \in Pid : Queued(p)' = Queued(p)
  BY DEF Quiet, Queued
<1>2. ASSUME NEW c \in AnyConn, NEW p \in Owner, NEW h \in Hand, In(c, p, h)'
      PROVE  In(c, p, h)
  BY <1>1, <1>2 DEF In, Quiet
<1> QED BY <1>2, UniqueKept DEF HandInv, HandTypes, Quiet

\* A kill empties pools only.
LEMMA KilledPools ==
  ASSUME NEW ps, Killed(ps), serving \in [Pid -> SUBSET AnyConn]
  PROVE  /\ serving' \in [Pid -> SUBSET AnyConn]
         /\ \A p \in Pid : serving'[p] \subseteq serving[p]
  BY DEF Killed

\* Everything that HandInv reads, except the place of the main thread.
HandVars ==
  <<desc, watched, served, backlog, queue, serving, peer>>

\* The types and the order after a step that changes none of these.
LEMMA HandVarsKept ==
  ASSUME HandInv, UNCHANGED HandVars,
         MasterAlive' => /\ MasterAlive
                         /\ events' \cap AnyConn \subseteq watched
                         /\ Listener \in events' => backlog # <<>>
                         /\ mpc' = "send" <=> mpc = "send",
         events' \subseteq AnyConn \cup {Listener},
         mpc' = "settle" => grace' = "off",
         grace' # "done" => grace # "done"
  PROVE  HandInv'
<1>1. Waiting' = Waiting /\ \A p \in Pid : Queued(p)' = Queued(p)
  BY DEF HandVars, Waiting, Queued
<1>2. Quiet
  BY <1>1 DEF Quiet, HandVars
<1>3. HandTypes'
  BY DEF HandInv, HandTypes, HandVars
<1>4. Orderly'
  BY DEF HandInv, Orderly, HandVars, Distinct
<1> QED BY <1>2, <1>3, <1>4, UniqueQuiet DEF HandInv

\* What getEvents reports are watched connections, and the listener if one waits.
LEMMA ReadyWatched ==
  ASSUME HandTypes
  PROVE  /\ Ready \subseteq AnyConn \cup {Listener} /\ Ready \cap AnyConn \subseteq watched
         /\ Listener \in Ready => backlog # <<>>
  BY NamesAssumption DEF HandTypes, Ready, AnyConn

\* The steps of the main thread that hand nothing over.
LEMMA HandsMaster ==
  ASSUME HandInv,
         ForkChild \/ RecordChild \/ Settle \/ Check \/ GetEvents \/ PollInterrupted
           \/ Reforked
  PROVE  HandInv'
<1> USE DEF HandVars, loopVars, peerVars, kidVars, pageVars, MasterAlive
<1>0. HandTypes /\ Orderly
  BY DEF HandInv
<1>1. CASE ForkChild \/ RecordChild
  BY <1>0, <1>1, HandVarsKept DEF ForkChild, RecordChild, HandTypes, Orderly
<1>2. CASE Settle \/ Check \/ Reforked
  BY <1>0, <1>2, HandVarsKept DEF Settle, Check, Reforked, HandTypes, Orderly
<1>3. CASE GetEvents
  BY <1>0, <1>3, ReadyWatched, HandVarsKept DEF GetEvents, Woken, HandTypes, Orderly
<1>4. CASE PollInterrupted
  BY <1>0, <1>4, HandVarsKept DEF PollInterrupted, Woken, HandTypes, Orderly
<1> QED BY <1>1, <1>2, <1>3, <1>4

\* The steps of the monitors and of the processes that hand nothing over.
LEMMA HandsOthers ==
  ASSUME HandInv,
         \/ EditPage \/ PageRegenerates \/ PageFlags \/ PageRefreshes \/ PageEnds
         \/ StopServer \/ (\E p \in Pid : KidStarts(p) \/ KidChecks(p))
         \/ UNCHANGED vars
  PROVE  HandInv'
<1> USE DEF HandVars, loopVars, peerVars, kidVars, pageVars, MasterAlive
<1>0. HandTypes /\ Orderly
  BY DEF HandInv
<1>1. CASE EditPage \/ PageRegenerates \/ PageFlags \/ PageRefreshes \/ PageEnds
  BY <1>0, <1>1, HandVarsKept
  DEF EditPage, PageRegenerates, PageFlags, PageRefreshes, PageEnds, HandTypes, Orderly
<1>2. CASE StopServer
  BY <1>0, <1>2, HandVarsKept DEF StopServer, HandTypes, Orderly
<1>3. ASSUME NEW p \in Pid, KidStarts(p) \/ KidChecks(p) PROVE HandInv'
  BY <1>0, <1>3, HandVarsKept DEF KidStarts, KidChecks, HandTypes, Orderly
<1>4. CASE UNCHANGED vars
  BY <1>0, <1>4, HandVarsKept DEF vars, HandTypes, Orderly
<1> QED BY <1>1, <1>2, <1>3, <1>4

\* The steps that kill children, or end the server.
LEMMA HandsKilled ==
  ASSUME HandInv, CloseServer \/ PageKills \/ (\E p \in Pid : KidReturns(p))
  PROVE  HandInv'
<1> USE DEF MasterAlive, peerVars
<1>0. HandTypes /\ Orderly
  BY DEF HandInv
<1>1. PICK ps : Killed(ps)
  BY DEF CloseServer, PageKills, KidReturns
<1>2. serving' \in [Pid -> SUBSET AnyConn] /\ \A p \in Pid : serving'[p] \subseteq serving[p]
  BY <1>0, <1>1, KilledPools DEF HandTypes
<1>3. /\ UNCHANGED <<desc, queue, served, peer, events>>
      /\ \/ MasterAlive' /\ MasterAlive /\ UNCHANGED <<watched, backlog, mpc, grace>>
         \/ ~MasterAlive' /\ watched' = {} /\ backlog' = <<>> /\ grace' = "done"
         \/ ~MasterAlive' /\ UNCHANGED <<watched, backlog, mpc, grace>>
  BY DEF CloseServer, PageKills, KidReturns, loopVars
<1>4. Waiting' \subseteq Waiting
  BY <1>3 DEF Waiting
<1>5. Quiet
  BY <1>2, <1>3, <1>4 DEF Quiet
<1>6. HandTypes'
  <2>1. <<>> \in Seq(AnyConn) /\ {} \subseteq AnyConn
    OBVIOUS
  <2>2. backlog' \in {backlog, <<>>} /\ watched' \in {watched, {}}
    BY <1>3
  <2>3. backlog' \in Seq(AnyConn) /\ watched' \subseteq AnyConn
    BY <1>0, <2>1, <2>2 DEF HandTypes
  <2> QED BY <1>0, <1>2, <1>3, <2>3 DEF HandTypes
<1>7. Orderly'
  BY <1>0, <1>3 DEF Orderly, Distinct
<1> QED BY <1>5, <1>6, <1>7, UniqueQuiet DEF HandInv

-----------------------------------------------------------------------------
(* The steps that hand a connection over.                                  *)

\* The values of the sequences, for the lemmas about Append and Tail.
LEMMA QueueValues ==
  /\ Waiting = Elements(backlog) /\ Waiting' = Elements(backlog')
  /\ \A p \in Pid : Queued(p) = Elements(queue[p]) /\ Queued(p)' = Elements(queue'[p])
  BY DEF Waiting, Queued, Elements

LEMMA MasterIsNoPid == 0 \notin Pid
  BY DEF Pid

LEMMA HandsAccept == HandInv /\ AcceptConnection => HandInv'
<1> SUFFICES ASSUME HandInv, AcceptConnection PROVE HandInv'
  OBVIOUS
<1>0. HandTypes /\ Unique /\ Orderly
  BY DEF HandInv
<1> PICK d : d = Head(backlog)
  OBVIOUS
<1>1. /\ mpc = "handle" /\ mpc' = mpc /\ backlog # <<>> /\ Listener \in events
      /\ events' = events \ {Listener} /\ watched' = watched \cup {d}
      /\ backlog' = Tail(backlog)
      /\ UNCHANGED <<desc, served, queue, serving, peer, grace>>
  BY <1>0 DEF AcceptConnection, Orderly, MasterAlive, kidVars
<1>2. /\ d \in AnyConn /\ d \in Waiting /\ backlog' \in Seq(AnyConn) /\ Distinct(backlog')
      /\ Waiting' = Waiting \ {d}
  BY <1>0, <1>1, Removed, QueueValues DEF HandTypes, Orderly
<1>3. \A p \in Pid : Queued(p)' = Queued(p)
  BY <1>1 DEF Queued
<1>4. In(d, 0, "backlog") /\ 0 \in Owner /\ "backlog" \in Hand /\ "watched" \in Hand
  BY <1>2 DEF In, Owner, Hand
<1>5. d \notin served /\ peer'[d] # "away"
  BY <1>0, <1>1, <1>2, <1>4 DEF Unique
<1>6. ASSUME NEW p \in Owner, NEW h \in Hand, In(d, p, h)' PROVE p = 0 /\ h = "watched"
  <2>1. CASE h = "watched"
    BY <1>6, <2>1 DEF In
  <2>2. CASE h # "watched"
    <3>1. In(d, p, h) /\ h # "backlog"
      BY <1>1, <1>2, <1>3, <1>6, <2>2 DEF In, MasterAlive
    <3> QED BY <1>0, <1>2, <1>4, <3>1 DEF Unique
  <2> QED BY <2>1, <2>2
<1>7. ASSUME NEW c \in AnyConn \ {d}, NEW p \in Owner, NEW h \in Hand, In(c, p, h)'
      PROVE  In(c, p, h)
  BY <1>1, <1>2, <1>3, <1>7 DEF In, MasterAlive
<1>8. Unique'
  <2>1. /\ served' = served /\ served \subseteq AnyConn
        /\ \A c \in AnyConn \ {d} : peer'[c] = "away" <=> peer[c] = "away"
    BY <1>0, <1>1 DEF HandTypes
  <2> QED BY <1>0, <1>2, <1>4, <1>5, <1>6, <1>7, <2>1, UniqueMoved
<1>9. HandTypes' /\ Orderly'
  BY <1>0, <1>1, <1>2 DEF HandTypes, Orderly, MasterAlive
<1> QED BY <1>8, <1>9 DEF HandInv

LEMMA HandsTake == ASSUME HandInv, NEW d \in AnyConn, TakeConnection(d) PROVE HandInv'
<1>0. HandTypes /\ Unique /\ Orderly
  BY DEF HandInv
<1>1. /\ mpc = "handle" /\ d \in events /\ watched' = watched \ {d}
      /\ UNCHANGED <<served, backlog, queue, serving, peer, grace>>
      /\ \/ mpc' = "send" /\ desc' = d /\ events' = events \ {d}
         \/ mpc' = mpc /\ desc' = desc /\ events' = {}
  BY DEF TakeConnection, kidVars, peerVars
<1>2. Waiting' = Waiting /\ \A p \in Pid : Queued(p)' = Queued(p)
  BY <1>1 DEF Waiting, Queued
<1>3. d \in watched /\ desc = NoConn
  BY <1>0, <1>1 DEF Orderly, MasterAlive
<1>4. In(d, 0, "watched") /\ 0 \in Owner /\ "desc" \in Hand /\ "watched" \in Hand
  BY <1>3 DEF In, Owner, Hand
<1>5. d \notin served /\ peer'[d] # "away" /\ d # NoConn /\ d # Listener
  BY <1>0, <1>1, <1>4, NamesAssumption DEF Unique, AnyConn
<1>6. HandTypes' /\ Orderly'
  BY <1>0, <1>1, <1>3, <1>5 DEF HandTypes, Orderly, MasterAlive
<1>7. CASE desc' = d
  <2>1. ASSUME NEW p \in Owner, NEW h \in Hand, In(d, p, h)' PROVE p = 0 /\ h = "desc"
    <3>1. CASE h = "desc"
      BY <2>1, <3>1 DEF In
    <3>2. CASE h # "desc"
      <4>1. In(d, p, h) /\ h # "watched"
        BY <1>1, <1>2, <2>1, <3>2 DEF In, MasterAlive
      <4> QED BY <1>0, <1>4, <4>1 DEF Unique
    <3> QED BY <3>1, <3>2
  <2>2. ASSUME NEW c \in AnyConn \ {d}, NEW p \in Owner, NEW h \in Hand, In(c, p, h)'
        PROVE  In(c, p, h)
    BY <1>1, <1>2, <1>7, <2>2 DEF In, MasterAlive
  <2> QED BY <1>0, <1>1, <1>4, <1>5, <1>6, <2>1, <2>2, UniqueMoved DEF HandTypes, HandInv
<1>8. CASE desc' = desc
  <2>1. Quiet
    BY <1>1, <1>2, <1>3, <1>5, <1>8 DEF Quiet, MasterAlive
  <2> QED BY <1>6, <2>1, UniqueQuiet DEF HandInv
<1> QED BY <1>1, <1>7, <1>8

LEMMA HandsSend == HandInv /\ SendConnection => HandInv'
<1> SUFFICES ASSUME HandInv, SendConnection PROVE HandInv'
  OBVIOUS
<1>0. HandTypes /\ Unique /\ Orderly
  BY DEF HandInv
<1> PICK p : p = sp[childNo + 1]
  OBVIOUS
<1> PICK d : d = desc
  OBVIOUS
<1>1. /\ d = desc /\ mpc = "send" /\ mpc' = "handle" /\ desc' = NoConn
      /\ queue' = [queue EXCEPT ![p] = Append(@, d)]
      /\ UNCHANGED <<events, watched, served, backlog, serving, peer, grace>>
  BY DEF SendConnection, kidVars, peerVars
<1>2. d \in AnyConn
  BY <1>0, <1>1 DEF HandTypes, Orderly, MasterAlive
<1>3. In(d, 0, "desc") /\ 0 \in Owner /\ {"desc", "pair"} \subseteq Hand
  BY <1>1 DEF In, MasterAlive, Owner, Hand
<1>4. d \notin served /\ peer'[d] # "away" /\ d # NoConn
  BY <1>0, <1>1, <1>2, <1>3, NamesAssumption DEF Unique, AnyConn
<1>5. /\ Waiting' = Waiting
      /\ \A q \in Pid \ {p} : queue'[q] = queue[q] /\ Queued(q)' = Queued(q)
  BY <1>0, <1>1 DEF Waiting, Queued, HandTypes
<1>6. CASE p \in Pid
  <2>1. queue[p] \in Seq(AnyConn) /\ Distinct(queue[p]) /\ queue'[p] = Append(queue[p], d)
    BY <1>0, <1>1, <1>6 DEF HandTypes, Orderly
  <2>2. p \in Owner /\ p # 0
    BY <1>6, MasterIsNoPid DEF Owner
  <2>3. d \notin Queued(p)
    <3>1. SUFFICES ASSUME d \in Queued(p) PROVE FALSE
      OBVIOUS
    <3>2. In(d, p, "pair")
      BY <1>6, <3>1 DEF In
    <3> QED BY <1>0, <1>2, <1>3, <2>2, <3>2 DEF Unique
  <2>4. /\ queue'[p] \in Seq(AnyConn) /\ Distinct(queue'[p])
        /\ Queued(p)' = Queued(p) \cup {d}
    <3>1. Queued(p) = Elements(queue[p]) /\ Queued(p)' = Elements(queue'[p])
      BY <1>6, QueueValues
    <3> QED BY <1>2, <2>1, <2>3, <3>1, Appended
  <2>5. ASSUME NEW q \in Owner, NEW h \in Hand, In(d, q, h)' PROVE q = p /\ h = "pair"
    <3>1. CASE q = p /\ h = "pair"
      BY <3>1
    <3>2. CASE ~(q = p /\ h = "pair")
      <4>1. h # "desc"
        BY <1>1, <1>4, <2>5 DEF In
      <4>2. In(d, q, h)
        BY <1>1, <1>5, <2>5, <3>2, <4>1 DEF In
      <4> QED BY <1>0, <1>2, <1>3, <4>1, <4>2 DEF Unique
    <3> QED BY <3>1, <3>2
  <2>6. ASSUME NEW c \in AnyConn \ {d}, NEW q \in Owner, NEW h \in Hand, In(c, q, h)'
        PROVE  In(c, q, h)
    BY <1>1, <1>5, <2>4, <2>6, NamesAssumption DEF In, AnyConn
  <2>7. Unique'
    <3>1. /\ served' = served /\ served \subseteq AnyConn /\ "pair" \in Hand
          /\ \A c \in AnyConn \ {d} : peer'[c] = "away" <=> peer[c] = "away"
      BY <1>0, <1>1, <1>3 DEF HandTypes
    <3> QED BY <1>0, <1>2, <1>4, <2>2, <2>5, <2>6, <3>1, UniqueMoved
  <2>8. queue' \in [Pid -> Seq(AnyConn)] /\ \A q \in Pid : Distinct(queue'[q])
    BY <1>0, <1>1, <1>2, <1>5, <2>4 DEF HandTypes, Orderly
  <2>9. HandTypes' /\ Orderly'
    BY <1>0, <1>1, <2>8 DEF HandTypes, Orderly, MasterAlive
  <2> QED BY <2>7, <2>9 DEF HandInv
<1>7. CASE p \notin Pid
  <2>1. queue' = queue
    BY <1>0, <1>1, <1>7 DEF HandTypes
  <2>2. ASSUME NEW c \in AnyConn, NEW q \in Owner, NEW h \in Hand, In(c, q, h)'
        PROVE  In(c, q, h)
    BY <1>1, <1>5, <1>7, <2>2, NamesAssumption DEF In, AnyConn
  <2>3. Unique'
    BY <1>0, <1>1, <2>2, UniqueKept DEF HandTypes
  <2>4. HandTypes' /\ Orderly'
    BY <1>0, <1>1, <2>1 DEF HandTypes, Orderly, MasterAlive
  <2> QED BY <2>3, <2>4 DEF HandInv
<1> QED BY <1>6, <1>7

LEMMA HandsReceive == ASSUME HandInv, NEW p \in Pid, KidReceives(p) PROVE HandInv'
<1>0. HandTypes /\ Unique /\ Orderly
  BY DEF HandInv
<1> PICK d : d = Head(queue[p])
  OBVIOUS
<1>1. /\ d = Head(queue[p]) /\ queue[p] # <<>> /\ queue' = [queue EXCEPT ![p] = Tail(@)]
      /\ UNCHANGED <<mpc, events, desc, watched, backlog, peer, grace>>
      /\ \/ peer[d] = "gone" /\ served' = served \cup {d} /\ serving' = serving
         \/ served' = served /\ serving' = [serving EXCEPT ![p] = @ \cup {d}]
  BY DEF KidReceives, loopVars
<1>2. queue[p] \in Seq(AnyConn) /\ Distinct(queue[p]) /\ queue'[p] = Tail(queue[p])
  BY <1>0, <1>1 DEF HandTypes, Orderly
<1>3. /\ queue'[p] \in Seq(AnyConn) /\ Distinct(queue'[p]) /\ d \in AnyConn
      /\ d \in Queued(p) /\ Queued(p)' = Queued(p) \ {d}
  <2>1. Queued(p) = Elements(queue[p]) /\ Queued(p)' = Elements(queue'[p])
    BY QueueValues
  <2> QED BY <1>1, <1>2, <2>1, Removed
<1>4. /\ Waiting' = Waiting
      /\ \A q \in Pid \ {p} : queue'[q] = queue[q] /\ Queued(q)' = Queued(q)
  BY <1>0, <1>1 DEF Waiting, Queued, HandTypes
<1>5. In(d, p, "pair") /\ p \in Owner /\ {"pool", "pair"} \subseteq Hand
  BY <1>3 DEF In, Owner, Hand
<1>6. d \notin served /\ peer[d] # "away"
  BY <1>0, <1>3, <1>5 DEF Unique
<1>7. queue' \in [Pid -> Seq(AnyConn)] /\ \A q \in Pid : Distinct(queue'[q])
  BY <1>0, <1>1, <1>3, <1>4 DEF HandTypes, Orderly
<1>8. HandTypes' /\ Orderly'
  <2>1. served' \subseteq AnyConn /\ serving' \in [Pid -> SUBSET AnyConn]
    BY <1>0, <1>1, <1>3 DEF HandTypes
  <2> QED BY <1>0, <1>1, <1>7, <2>1 DEF HandTypes, Orderly, MasterAlive
<1>9. CASE served' = served \cup {d} /\ serving' = serving
  <2>1. ASSUME NEW q \in Owner, NEW h \in Hand, In(d, q, h)' PROVE FALSE
    <3>1. In(d, q, h) /\ ~(q = p /\ h = "pair")
      BY <1>1, <1>3, <1>4, <1>9, <2>1 DEF In, MasterAlive
    <3> QED BY <1>0, <1>3, <1>5, <3>1 DEF Unique
  <2>2. ASSUME NEW c \in AnyConn \ {d}, NEW q \in Owner, NEW h \in Hand, In(c, q, h)'
        PROVE  In(c, q, h)
    BY <1>1, <1>3, <1>4, <1>9, <2>2 DEF In, MasterAlive
  <2>3. peer' = peer /\ served \subseteq AnyConn
    BY <1>0, <1>1 DEF HandTypes
  <2>4. Unique'
    BY <1>0, <1>3, <1>6, <1>9, <2>1, <2>2, <2>3, UniqueServed
  <2> QED BY <1>8, <2>4 DEF HandInv
<1>10. CASE served' = served /\ serving' = [serving EXCEPT ![p] = @ \cup {d}]
  <2>0. /\ serving'[p] = serving[p] \cup {d}
        /\ \A q \in Pid \ {p} : serving'[q] = serving[q]
    BY <1>0, <1>10 DEF HandTypes
  <2>1. ASSUME NEW q \in Owner, NEW h \in Hand, In(d, q, h)' PROVE q = p /\ h = "pool"
    <3>1. CASE ~(q = p /\ h = "pool")
      <4>1. In(d, q, h) /\ ~(q = p /\ h = "pair")
        BY <1>1, <1>3, <1>4, <2>0, <2>1, <3>1 DEF In, MasterAlive
      <4> QED BY <1>0, <1>3, <1>5, <4>1 DEF Unique
    <3> QED BY <3>1
  <2>2. ASSUME NEW c \in AnyConn \ {d}, NEW q \in Owner, NEW h \in Hand, In(c, q, h)'
        PROVE  In(c, q, h)
    BY <1>1, <1>3, <1>4, <2>0, <2>2 DEF In, MasterAlive
  <2>3. /\ served \subseteq AnyConn /\ "pool" \in Hand /\ peer'[d] # "away"
        /\ \A c \in AnyConn \ {d} : peer'[c] = "away" <=> peer[c] = "away"
    BY <1>0, <1>1, <1>5, <1>6 DEF HandTypes
  <2>4. Unique'
    BY <1>0, <1>3, <1>5, <1>6, <1>10, <2>1, <2>2, <2>3, UniqueMoved
  <2> QED BY <1>8, <2>4 DEF HandInv
<1> QED BY <1>1, <1>9, <1>10

LEMMA HandsServe ==
  ASSUME HandInv, NEW p \in Pid, NEW d \in AnyConn, KidServes(p, d) PROVE HandInv'
<1>0. HandTypes /\ Unique /\ Orderly
  BY DEF HandInv
<1>1. /\ d \in serving[p] /\ serving' = [serving EXCEPT ![p] = @ \ {d}]
      /\ served' = served \cup {d}
      /\ UNCHANGED <<mpc, events, desc, watched, backlog, queue, peer, grace>>
  BY DEF KidServes, loopVars
<1>2. /\ serving'[p] = serving[p] \ {d} /\ \A q \in Pid \ {p} : serving'[q] = serving[q]
      /\ serving' \in [Pid -> SUBSET AnyConn] /\ served' \subseteq AnyConn
  BY <1>0, <1>1 DEF HandTypes
<1>3. Waiting' = Waiting /\ \A q \in Pid : Queued(q)' = Queued(q)
  BY <1>1 DEF Waiting, Queued
<1>4. In(d, p, "pool") /\ p \in Owner /\ "pool" \in Hand
  BY <1>1 DEF In, Owner, Hand
<1>5. ASSUME NEW q \in Owner, NEW h \in Hand, In(d, q, h)' PROVE FALSE
  <2>1. In(d, q, h) /\ ~(q = p /\ h = "pool")
    BY <1>1, <1>2, <1>3, <1>5 DEF In, MasterAlive
  <2> QED BY <1>0, <1>4, <2>1 DEF Unique
<1>6. ASSUME NEW c \in AnyConn \ {d}, NEW q \in Owner, NEW h \in Hand, In(c, q, h)'
      PROVE  In(c, q, h)
  BY <1>1, <1>2, <1>3, <1>6 DEF In, MasterAlive
<1>7. peer' = peer /\ peer[d] # "away" /\ served \subseteq AnyConn
  BY <1>0, <1>1, <1>4 DEF HandTypes, Unique
<1>8. Unique'
  BY <1>0, <1>1, <1>5, <1>6, <1>7, UniqueServed
<1>9. HandTypes' /\ Orderly'
  BY <1>0, <1>1, <1>2 DEF HandTypes, Orderly, MasterAlive
<1> QED BY <1>8, <1>9 DEF HandInv

\* A client, or the monitor, connects.
LEMMA HandsOpened ==
  ASSUME HandInv, NEW d \in AnyConn, NEW state \in {"quiet", "gone"},
         peer[d] = "away", peer' = [peer EXCEPT ![d] = state],
         backlog' = Append(backlog, d), d # Self \/ grace' = "done",
         grace' = grace \/ (grace' = "done" /\ mpc # "settle"),
         UNCHANGED <<mpc, events, desc, watched, queue, serving, served>>
  PROVE  HandInv'
<1>0. HandTypes /\ Unique /\ Orderly
  BY DEF HandInv
<1>1. /\ peer' \in [AnyConn -> {"away", "quiet", "sent", "gone"}] /\ peer'[d] = state
      /\ \A c \in AnyConn \ {d} : peer'[c] = peer[c]
  BY <1>0 DEF HandTypes
<1>2. 0 \in Owner /\ "backlog" \in Hand /\ served \subseteq AnyConn
  BY <1>0 DEF Owner, Hand, HandTypes
<1>3. d \notin served /\ \A p \in Owner : \A h \in Hand : ~In(d, p, h)
  BY <1>0 DEF Unique
<1>4. d \notin Waiting
  BY <1>2, <1>3 DEF In
<1>5. /\ backlog' \in Seq(AnyConn) /\ backlog' # <<>> /\ Distinct(backlog')
      /\ Waiting' = Waiting \cup {d}
  <2>1. Waiting = Elements(backlog) /\ Waiting' = Elements(backlog')
    BY QueueValues
  <2>2. backlog \in Seq(AnyConn) /\ Distinct(backlog)
    BY <1>0 DEF HandTypes, Orderly
  <2> QED BY <1>4, <2>1, <2>2, Appended
<1>6. \A q \in Pid : Queued(q)' = Queued(q)
  BY DEF Queued
<1>7. ASSUME NEW q \in Owner, NEW h \in Hand, In(d, q, h)' PROVE q = 0 /\ h = "backlog"
  BY <1>3, <1>6, <1>7 DEF In, MasterAlive
<1>8. ASSUME NEW c \in AnyConn \ {d}, NEW q \in Owner, NEW h \in Hand, In(c, q, h)'
      PROVE  In(c, q, h)
  BY <1>5, <1>6, <1>8 DEF In, MasterAlive
<1>9. peer'[d] # "away" /\ \A c \in AnyConn \ {d} : peer'[c] = "away" <=> peer[c] = "away"
  BY <1>1
<1>10. Unique'
  BY <1>0, <1>2, <1>3, <1>7, <1>8, <1>9, UniqueMoved
<1>11. HandTypes'
  BY <1>0, <1>1, <1>5 DEF HandTypes
<1>12. Orderly'
  BY <1>0, <1>1, <1>5 DEF Orderly, MasterAlive, AnyConn
<1> QED BY <1>10, <1>11, <1>12 DEF HandInv

LEMMA HandsClients ==
  ASSUME HandInv,
         WakeMaster \/ (\E c \in Conn : Connect(c) \/ SendOrHangUp(c))
  PROVE  HandInv'
<1>0. HandTypes /\ Orderly
  BY DEF HandInv
<1>1. CASE WakeMaster /\ MasterAlive
  BY <1>0, <1>1, HandsOpened DEF WakeMaster, Orderly, AnyConn, loopVars, kidVars
<1>2. CASE WakeMaster /\ ~MasterAlive
  BY <1>0, <1>2, HandVarsKept
  DEF WakeMaster, HandTypes, Orderly, HandVars, MasterAlive, loopVars, kidVars
<1>3. ASSUME NEW c \in Conn, Connect(c) PROVE HandInv'
  <2>1. c \in AnyConn /\ c # Self
    BY NamesAssumption DEF AnyConn
  <2> QED BY <1>3, <2>1, HandsOpened DEF Connect, loopVars, kidVars
<1>4. ASSUME NEW c \in Conn, SendOrHangUp(c) PROVE HandInv'
  <2>1. /\ c \in AnyConn /\ c # Self /\ peer[c] = "quiet"
        /\ UNCHANGED <<mpc, events, desc, watched, backlog, queue, serving, served, grace>>
    BY <1>4, NamesAssumption DEF SendOrHangUp, loopVars, kidVars, AnyConn
  <2>2. /\ peer' \in [AnyConn -> {"away", "quiet", "sent", "gone"}]
        /\ \A e \in AnyConn \ {c} : peer'[e] = peer[e]
        /\ peer'[c] # "away"
    <3>1. CASE peer' = [peer EXCEPT ![c] = "sent"]
      BY <1>0, <2>1, <3>1 DEF HandTypes
    <3>2. CASE peer' = [peer EXCEPT ![c] = "gone"]
      BY <1>0, <2>1, <3>2 DEF HandTypes
    <3> QED BY <1>4, <3>1, <3>2 DEF SendOrHangUp
  <2>3. Quiet
    BY <2>1, <2>2 DEF Quiet, Waiting, MasterAlive
  <2>4. HandTypes' /\ Orderly'
    BY <1>0, <2>1, <2>2 DEF HandTypes, Orderly, MasterAlive, AnyConn
  <2> QED BY <2>3, <2>4, UniqueQuiet DEF HandInv
<1> QED BY <1>1, <1>2, <1>3, <1>4

\* Before the first step no client has connected.
LEMMA HandsInit == Init => HandInv
<1> SUFFICES ASSUME Init PROVE HandInv
  OBVIOUS
<1>1. /\ mpc = "fork" /\ backlog = <<>> /\ watched = {} /\ desc = NoConn /\ events = {}
      /\ queue = [p \in Pid |-> <<>>] /\ serving = [p \in Pid |-> {}] /\ served = {}
      /\ peer = [c \in AnyConn |-> "away"]
  BY DEF Init
<1>2. Waiting = {} /\ \A p \in Pid : Queued(p) = {}
  BY <1>1 DEF Waiting, Queued
<1>3. HandTypes
  BY <1>1 DEF HandTypes
<1>4. \A c \in AnyConn : \A p \in Owner : \A h \in Hand : ~In(c, p, h)
  BY <1>1, <1>2, NamesAssumption DEF In, AnyConn
<1>5. Unique
  BY <1>1, <1>4 DEF Unique
<1>6. Orderly
  <2>1. Distinct(backlog) /\ \A p \in Pid : Distinct(queue[p])
    BY <1>1 DEF Distinct
  <2>2. peer[Self] = "away"
    BY <1>1 DEF AnyConn
  <2> QED BY <1>1, <2>1, <2>2 DEF Orderly
<1> QED BY <1>3, <1>5, <1>6 DEF HandInv

\* Every step keeps each connection in one hand.
LEMMA HandsStep == HandInv /\ [Next]_vars => HandInv'
<1> SUFFICES ASSUME HandInv, [Next]_vars PROVE HandInv'
  OBVIOUS
<1>1. CASE MasterStep
  BY <1>1, HandsMaster, HandsAccept, HandsTake, HandsSend, HandsKilled DEF MasterStep
<1>2. CASE PollInterrupted \/ UNCHANGED vars \/ EditPage \/ StopServer
  BY <1>2, HandsMaster, HandsOthers
<1>3. CASE MonitorStep
  BY <1>3, HandsOthers, HandsKilled DEF MonitorStep
<1>4. ASSUME NEW p \in Pid, KidStep(p) PROVE HandInv'
  BY <1>4, HandsOthers, HandsReceive, HandsKilled DEF KidStep
<1>5. ASSUME NEW p \in Pid, NEW c \in AnyConn, KidServes(p, c) PROVE HandInv'
  BY <1>5, HandsServe
<1>6. CASE WakeMaster \/ \E c \in Conn : Connect(c) \/ SendOrHangUp(c)
  BY <1>6, HandsClients
<1> QED BY <1>1, <1>2, <1>3, <1>4, <1>5, <1>6 DEF Next

\* One place in the invariant is at most one in the count of the property.
LEMMA HandsPlaces == HandInv => OneHand
<1> SUFFICES ASSUME HandInv PROVE OneHand
  OBVIOUS
<1>0. HandTypes /\ Unique /\ Orderly
  BY DEF HandInv
<1>1. ASSUME NEW c \in AnyConn, NEW x \in Places(c)
      PROVE  \E p \in Owner : \E h \in Hand : x = <<p, h>> /\ In(c, p, h)
  BY <1>1 DEF Places, In, Owner, Hand
<1>2. ASSUME NEW c \in AnyConn PROVE Cardinality(Places(c)) <= 1
  <2>1. \A x, y \in Places(c) : x = y
    BY <1>0, <1>1 DEF Unique
  <2>2. CASE Places(c) = {}
    BY <2>2, FS_EmptySet
  <2>3. CASE Places(c) # {}
    <3>1. PICK x : Places(c) = {x}
      BY <2>1, <2>3
    <3> QED BY <3>1, FS_Singleton
  <2> QED BY <2>2, <2>3
<1>3. ASSUME NEW c \in served PROVE Places(c) = {}
  BY <1>0, <1>1, <1>3 DEF Unique, HandTypes
<1>4. ASSUME NEW p \in Pid PROVE Cardinality(Queued(p)) = Len(queue[p])
  BY <1>0, <1>4, DistinctLength, QueueValues DEF HandTypes, Orderly
<1> QED BY <1>2, <1>3, <1>4 DEF OneHand

\* A connection is in one hand at a time, and in none once a child has closed
\* it, for any number of children, clients, kills and forks: what makes it so is
\* that a connection leaves the event set before it is sent, that only watched
\* connections are in a batch, and that nobody connects twice.
THEOREM OneHandCorrect == Spec => []OneHand
  BY HandsInit, HandsStep, HandsPlaces, PTL DEF Spec

-----------------------------------------------------------------------------
(* TypeOK.  What is not plain is the number of processes: a child of the   *)
(* last re-fork is still in Pid, since every re-fork is paid for by an edit. *)

\* The master forks again, or has just done so.
InRound == grace # "off" /\ mpc \in {"fork", "record", "reforked"}

\* Re-forks that edits made so far may still cause.
Due ==
  (IF processforcekilled /\ ~InRound THEN 1 ELSE 0)
    + (IF page \in {"killing", "flag"} THEN 1 ELSE 0)
    + (IF stale /\ page = "sleep" THEN 1 ELSE 0)

\* r re-forks have begun.
Counted(r) ==
  /\ r + Due <= edits
  /\ mpc = "fork" => forks = NumProc * r + slot - 1
  /\ mpc = "record" => forks = NumProc * r + slot
  /\ mpc \notin {"fork", "record"} => forks = NumProc * r + NumProc

\* A batch is sent by a slot in range; no page is watched before the monitors start.
Turns ==
  /\ mpc = "send" => childNo < NumProc
  /\ grace = "off" /\ MasterAlive
       => page = "off" /\ ~stale /\ ~processforcekilled /\ edits = 0

TypeInv ==
  /\ SlotsInv /\ HandInv /\ TypeOK /\ Turns
  /\ MasterAlive => \E r \in Nat : Counted(r)

LEMMA Multiples ==
  ASSUME NEW r \in Nat
  PROVE  /\ NumProc * r \in Nat /\ NumProc * (r + 1) = NumProc * r + NumProc
         /\ NumProc * (1 + MaxEdits) \in Nat
         /\ r <= MaxEdits => NumProc * r + NumProc <= NumProc * (1 + MaxEdits)
  BY SizesAssumption

\* Steps that change none of the variables of the count.
LEMMA CountKept ==
  ASSUME NEW r \in Nat, Counted(r),
         UNCHANGED <<slot, forks, grace, processforcekilled, page, stale, edits>>,
         UNCHANGED mpc \/ {mpc, mpc'} \cap {"fork", "record", "reforked"} = {}
  PROVE  Counted(r)'
  BY DEF Counted, Due, InRound

\* A count goes on, or a re-fork begins that is due.
LEMMA CountMaster ==
  ASSUME TypeInv, NEW r \in Nat, Counted(r),
         \/ ForkChild \/ RecordChild \/ Settle \/ Check \/ GetEvents \/ PollInterrupted
         \/ Reforked \/ AcceptConnection \/ (\E c \in AnyConn : TakeConnection(c))
         \/ SendConnection
  PROVE  \E k \in Nat : Counted(k)'
<1>0. /\ SlotTypes
      /\ mpc \in Looping => slot = 1
      /\ mpc = "settle" => grace = "off"
      /\ processforcekilled \in BOOLEAN /\ stale \in BOOLEAN /\ edits \in Nat
      /\ grace = "off" => page = "off" /\ ~stale /\ ~processforcekilled /\ edits = 0
  BY DEF TypeInv, SlotsInv, HandInv, Orderly, TypeOK, Turns, Looping, MasterAlive,
     ForkChild, RecordChild, Settle, Check, GetEvents, PollInterrupted, Woken, Reforked,
     AcceptConnection, TakeConnection, SendConnection
<1>1. CASE ForkChild
  <2>1. /\ mpc = "fork" /\ mpc' = "record" /\ forks' = forks + 1 /\ slot' = slot
        /\ UNCHANGED <<grace, processforcekilled, page, stale, edits>>
    BY <1>1 DEF ForkChild, pageVars, flagVars
  <2>2. Due' = Due
    BY <2>1 DEF Due, InRound
  <2>3. forks = NumProc * r + slot - 1 /\ NumProc * r \in Nat /\ slot \in Nat
    BY <1>0, <2>1, Multiples, SizesAssumption DEF Counted, SlotTypes, Slot
  <2>4. forks' = NumProc * r + slot'
    BY <2>1, <2>3
  <2>5. Counted(r)'
    BY <2>1, <2>2, <2>4 DEF Counted
  <2> QED BY <2>5
<1>2. CASE RecordChild
  <2>1. /\ mpc = "record" /\ forks' = forks
        /\ UNCHANGED <<grace, processforcekilled, page, stale, edits>>
        /\ \/ slot < NumProc /\ mpc' = "fork" /\ slot' = slot + 1
           \/ slot = NumProc /\ mpc' \in {"settle", "reforked"}
              /\ (mpc' = "settle" <=> grace = "off")
    BY <1>0, <1>2, SizesAssumption DEF RecordChild, pageVars, flagVars, SlotTypes, Slot
  <2>2. Due' = Due
    BY <2>1 DEF Due, InRound
  <2>3. forks = NumProc * r + slot /\ NumProc * r \in Nat /\ slot \in Nat
    BY <1>0, <2>1, Multiples, SizesAssumption DEF Counted, SlotTypes, Slot
  <2>4. /\ mpc' = "fork" => forks' = NumProc * r + slot' - 1
        /\ mpc' # "fork" => forks' = NumProc * r + NumProc
    BY <2>1, <2>3
  <2>5. Counted(r)'
    BY <2>1, <2>2, <2>4 DEF Counted
  <2> QED BY <2>5
<1>3. CASE Settle
  <2>1. Counted(r)'
    BY <1>0, <1>3 DEF Settle, Counted, Due, InRound, forkVars, flagVars
  <2> QED BY <2>1
<1>4. CASE Check \/ AcceptConnection \/ (\E c \in AnyConn : TakeConnection(c)) \/ SendConnection
  <2>1. Counted(r)'
    BY <1>4, CountKept
    DEF Check, AcceptConnection, TakeConnection, SendConnection, forkVars, flagVars, pageVars
  <2> QED BY <2>1
<1>5. CASE GetEvents \/ PollInterrupted
  <2>1. PICK b : Woken(b)
    BY <1>5 DEF GetEvents, PollInterrupted
  <2>2. CASE processforcekilled
    <3>1. /\ mpc = "poll" /\ mpc' = "fork" /\ UNCHANGED <<forks, slot>> /\ slot = 1
          /\ UNCHANGED <<grace, processforcekilled, page, stale, edits>> /\ grace # "off"
      BY <1>0, <2>1, <2>2 DEF Woken, pageVars, Looping
    <3>2. Due = Due' + 1 /\ Due' \in Nat
      BY <1>0, <2>2, <3>1 DEF Due, InRound
    <3>3. /\ forks = NumProc * r + NumProc /\ NumProc * r + NumProc = NumProc * (r + 1)
          /\ NumProc * (r + 1) \in Nat
      BY <3>1, Multiples DEF Counted
    <3>4. forks' = NumProc * (r + 1) + slot' - 1
      BY <3>1, <3>3
    <3>5. r + Due <= edits
      BY DEF Counted
    <3>6. PICK n \in Nat : n = Due' /\ Due = n + 1
      BY <3>2
    <3>7. r + (n + 1) <= edits /\ edits' = edits
      BY <3>1, <3>5, <3>6
    <3>8. r + 1 + n <= edits
      BY <1>0, <3>7
    <3>9. Counted(r + 1)'
      BY <3>1, <3>4, <3>6, <3>7, <3>8 DEF Counted
    <3> QED BY <3>9
  <2>3. CASE ~processforcekilled
    <3>1. Counted(r)'
      BY <2>1, <2>3, CountKept DEF Woken, pageVars
    <3> QED BY <3>1
  <2> QED BY <2>2, <2>3
<1>6. CASE Reforked
  <2>1. Counted(r)'
    BY <1>0, <1>6 DEF Reforked, Counted, Due, InRound, forkVars, pageVars
  <2> QED BY <2>1
<1> QED BY <1>1, <1>2, <1>3, <1>4, <1>5, <1>6

\* The monitors make a re-fork due only for an edit.
LEMMA CountMonitors ==
  ASSUME TypeInv, MasterAlive', NEW r \in Nat, Counted(r),
         \/ MonitorStep \/ EditPage \/ WakeMaster \/ StopServer
         \/ (\E p \in Pid : KidStep(p) \/ \E c \in AnyConn : KidServes(p, c))
         \/ (\E c \in Conn : Connect(c) \/ SendOrHangUp(c)) \/ UNCHANGED vars
  PROVE  Counted(r)'
<1>0. /\ processforcekilled \in BOOLEAN /\ stale \in BOOLEAN /\ edits \in Nat
  BY DEF TypeInv, TypeOK
<1> USE DEF forkVars, flagVars, pageVars
<1>1. CASE PageRegenerates \/ PageKills \/ PageFlags \/ PageRefreshes \/ PageEnds
  BY <1>0, <1>1
  DEF PageRegenerates, PageKills, PageFlags, PageRefreshes, PageEnds, Counted, Due, InRound
<1>2. CASE EditPage
  BY <1>0, <1>2 DEF EditPage, Counted, Due, InRound
<1>3. CASE WakeMaster
  BY <1>0, <1>3 DEF WakeMaster, Counted, Due, InRound
<1>4. CASE StopServer \/ UNCHANGED vars
  BY <1>4, CountKept DEF StopServer, vars
<1>5. ASSUME NEW p \in Pid, KidStep(p) PROVE Counted(r)'
  <2>1. UNCHANGED <<mpc, slot, forks, grace, processforcekilled, page, stale, edits>>
    BY <1>5 DEF KidStep, KidStarts, KidChecks, KidReceives, KidReturns, MasterAlive
  <2> QED BY <2>1, CountKept
<1>6. ASSUME NEW p \in Pid, NEW c \in AnyConn, KidServes(p, c) PROVE Counted(r)'
  BY <1>6, CountKept DEF KidServes
<1>7. ASSUME NEW c \in Conn, Connect(c) \/ SendOrHangUp(c) PROVE Counted(r)'
  BY <1>7, CountKept DEF Connect, SendOrHangUp
<1> QED BY <1>1, <1>2, <1>3, <1>4, <1>5, <1>6, <1>7 DEF MonitorStep

\* The parts of TypeOK that SlotsInv and HandInv do not say already.
OpenTypes == watched \subseteq mopen /\ mopen \subseteq AnyConn

PidTypes ==
  /\ forks \in {0} \cup Pid /\ cntrl \subseteq Pid
  /\ pds \in [Slot -> {0} \cup Pid] /\ sp \in [Slot -> {0} \cup Pid]
  /\ files \in Seq(Pid) /\ Len(files) <= NumProc
  /\ kid \in [Pid -> {"none", "starting", "check", "receive", "left", "dead"}]
  /\ inherited \in [Pid -> SUBSET AnyConn]

LoopTypes ==
  /\ childNo \in 0 .. NumProc
  /\ processforcekilled \in BOOLEAN /\ processgendone \in BOOLEAN /\ stopFile \in BOOLEAN
  /\ page \in {"off", "sleep", "killing", "flag", "refresh"}
  /\ kslot \in Slot /\ stale \in BOOLEAN /\ edits \in 0 .. MaxEdits
  /\ grace \in {"off", "watch", "done"}

LEMMA TypeParts ==
  SlotTypes /\ HandTypes => (TypeOK <=> OpenTypes /\ PidTypes /\ LoopTypes)
<1> SUFFICES ASSUME SlotTypes, HandTypes
             PROVE  TypeOK <=> OpenTypes /\ PidTypes /\ LoopTypes
  OBVIOUS
<1>1. mpc \in {"fork", "record", "settle", "poll", "reforked", "handle", "send", "close",
               "exited", "killed"}
  BY DEF SlotTypes, Forking, Looping
<1> QED BY <1>1 DEF SlotTypes, HandTypes, TypeOK, OpenTypes, PidTypes, LoopTypes

\* A watched connection is open: the descriptor that is sent away is not watched.
LEMMA OpenStep == HandInv /\ OpenTypes /\ [Next]_vars => OpenTypes'
<1> SUFFICES ASSUME HandInv, OpenTypes, [Next]_vars PROVE OpenTypes'
  OBVIOUS
<1> USE DEF OpenTypes
<1>1. CASE AcceptConnection
  <2>1. Head(backlog) \in AnyConn
    BY <1>1 DEF HandInv, HandTypes, Orderly, AcceptConnection, MasterAlive
  <2> QED BY <1>1, <2>1 DEF AcceptConnection
<1>2. CASE SendConnection
  <2>1. desc \notin watched
    <3>1. SUFFICES ASSUME desc \in watched PROVE FALSE
      OBVIOUS
    <3>2. /\ In(desc, 0, "desc") /\ In(desc, 0, "watched") /\ 0 \in Owner
          /\ {"desc", "watched"} \subseteq Hand /\ desc \in AnyConn
      BY <1>2, <3>1 DEF SendConnection, MasterAlive, In, Owner, Hand
    <3> QED BY <3>2 DEF HandInv, Unique
  <2> QED BY <1>2, <2>1 DEF SendConnection
<1>3. CASE \E c \in AnyConn : TakeConnection(c)
  BY <1>3 DEF TakeConnection
<1>4. CASE CloseServer
  BY <1>4 DEF CloseServer
<1>5. CASE ForkChild \/ RecordChild \/ Settle \/ Check \/ GetEvents \/ PollInterrupted \/ Reforked
  BY <1>5 DEF ForkChild, RecordChild, Settle, Check, GetEvents, PollInterrupted, Woken,
     Reforked, loopVars
<1>6. CASE MonitorStep \/ EditPage \/ WakeMaster \/ StopServer \/ UNCHANGED vars
  BY <1>6 DEF MonitorStep, PageRegenerates, PageKills, PageFlags, PageRefreshes, PageEnds,
     EditPage, WakeMaster, StopServer, vars, loopVars
<1>7. ASSUME NEW p \in Pid, KidStep(p) PROVE OpenTypes'
  BY <1>7 DEF KidStep, KidStarts, KidChecks, KidReceives, KidReturns, loopVars
<1>8. ASSUME NEW p \in Pid, NEW c \in AnyConn, KidServes(p, c) PROVE OpenTypes'
  BY <1>8 DEF KidServes, loopVars
<1>9. ASSUME NEW c \in Conn, Connect(c) \/ SendOrHangUp(c) PROVE OpenTypes'
  BY <1>9 DEF Connect, SendOrHangUp, loopVars
<1> QED BY <1>1, <1>2, <1>3, <1>4, <1>5, <1>6, <1>7, <1>8, <1>9 DEF Next, MasterStep

\* The turn of the children stays in range, and the flags in their types.
LEMMA LoopStep == Turns /\ LoopTypes /\ [Next]_vars => LoopTypes'
<1> SUFFICES ASSUME Turns, LoopTypes, [Next]_vars PROVE LoopTypes'
  OBVIOUS
<1> USE SizesAssumption DEF LoopTypes, Turns, pageVars, flagVars, loopVars
<1>1. CASE ForkChild \/ RecordChild \/ Reforked
  BY <1>1 DEF ForkChild, RecordChild, Reforked
<1>2. CASE Settle
  BY <1>2 DEF Settle
<1>3. CASE CloseServer
  BY <1>3 DEF CloseServer
<1>4. CASE Check \/ AcceptConnection
  BY <1>4 DEF Check, AcceptConnection, NextChild
<1>5. ASSUME NEW c \in AnyConn, TakeConnection(c) PROVE LoopTypes'
  BY <1>5 DEF TakeConnection, NextChild
<1>6. CASE SendConnection
  BY <1>6 DEF SendConnection
<1>7. CASE GetEvents \/ PollInterrupted
  BY <1>7 DEF GetEvents, PollInterrupted, Woken
<1>8. CASE PageRegenerates \/ PageKills
  BY <1>8 DEF PageRegenerates, PageKills, Slot
<1>9. CASE PageFlags \/ PageRefreshes \/ PageEnds
  BY <1>9 DEF PageFlags, PageRefreshes, PageEnds
<1>10. CASE EditPage
  BY <1>10 DEF EditPage
<1>11. CASE WakeMaster \/ StopServer \/ UNCHANGED vars
  BY <1>11 DEF WakeMaster, StopServer, vars
<1>12. ASSUME NEW p \in Pid, KidStarts(p) \/ KidChecks(p) \/ KidReceives(p) PROVE LoopTypes'
  BY <1>12 DEF KidStarts, KidChecks, KidReceives
<1>13. ASSUME NEW p \in Pid, KidReturns(p) PROVE LoopTypes'
  BY <1>13 DEF KidReturns
<1>14. ASSUME NEW p \in Pid, NEW c \in AnyConn, KidServes(p, c) PROVE LoopTypes'
  BY <1>14 DEF KidServes
<1>15. ASSUME NEW c \in Conn, Connect(c) \/ SendOrHangUp(c) PROVE LoopTypes'
  BY <1>15 DEF Connect, SendOrHangUp
<1> QED BY <1>1, <1>2, <1>3, <1>4, <1>5, <1>6, <1>7, <1>8, <1>9, <1>10, <1>11, <1>12, <1>13, <1>14, <1>15
     DEF Next, MasterStep, MonitorStep, KidStep

\* A slot in range is sent to; the monitors start with no page changed.
LEMMA TurnsStep == HandInv /\ Turns /\ LoopTypes /\ [Next]_vars => Turns'
<1> SUFFICES ASSUME HandInv, Turns, LoopTypes, [Next]_vars PROVE Turns'
  OBVIOUS
<1>0. childNo \in 0 .. NumProc /\ (mpc = "settle" => grace = "off")
  BY DEF HandInv, Orderly, LoopTypes
<1> USE SizesAssumption DEF Turns, MasterAlive, pageVars, flagVars, loopVars
<1>1. CASE ForkChild \/ RecordChild \/ Reforked
  BY <1>0, <1>1 DEF ForkChild, RecordChild, Reforked
<1>2. CASE Settle
  BY <1>0, <1>2 DEF Settle
<1>3. CASE CloseServer
  BY <1>0, <1>3 DEF CloseServer
<1>4. CASE Check \/ AcceptConnection
  BY <1>0, <1>4 DEF Check, AcceptConnection, NextChild
<1>5. ASSUME NEW c \in AnyConn, TakeConnection(c) PROVE Turns'
  BY <1>0, <1>5 DEF TakeConnection, NextChild
<1>6. CASE SendConnection
  BY <1>0, <1>6 DEF SendConnection
<1>7. CASE GetEvents \/ PollInterrupted
  BY <1>0, <1>7 DEF GetEvents, PollInterrupted, Woken
<1>8. CASE PageRegenerates \/ PageKills
  BY <1>0, <1>8 DEF PageRegenerates, PageKills, Slot
<1>9. CASE PageFlags \/ PageRefreshes \/ PageEnds
  BY <1>0, <1>9 DEF PageFlags, PageRefreshes, PageEnds
<1>10. CASE EditPage
  BY <1>0, <1>10 DEF EditPage
<1>11. CASE WakeMaster \/ StopServer \/ UNCHANGED vars
  BY <1>0, <1>11 DEF WakeMaster, StopServer, vars
<1>12. ASSUME NEW p \in Pid, KidStarts(p) \/ KidChecks(p) \/ KidReceives(p) PROVE Turns'
  BY <1>0, <1>12 DEF KidStarts, KidChecks, KidReceives
<1>13. ASSUME NEW p \in Pid, KidReturns(p) PROVE Turns'
  BY <1>0, <1>13 DEF KidReturns
<1>14. ASSUME NEW p \in Pid, NEW c \in AnyConn, KidServes(p, c) PROVE Turns'
  BY <1>0, <1>14 DEF KidServes
<1>15. ASSUME NEW c \in Conn, Connect(c) \/ SendOrHangUp(c) PROVE Turns'
  BY <1>0, <1>15 DEF Connect, SendOrHangUp
<1> QED BY <1>1, <1>2, <1>3, <1>4, <1>5, <1>6, <1>7, <1>8, <1>9, <1>10, <1>11, <1>12, <1>13, <1>14, <1>15
     DEF Next, MasterStep, MonitorStep, KidStep

\* A kill changes the state of processes, and of nothing else that PidTypes names.
LEMMA KilledTypes ==
  ASSUME PidTypes, NEW ps, Killed(ps), UNCHANGED <<forks, pds, sp, files>>
  PROVE  PidTypes'
<1>1. kid' \in [Pid -> {"none", "starting", "check", "receive", "left", "dead"}]
  BY DEF Killed, PidTypes
<1>2. inherited' \in [Pid -> SUBSET AnyConn]
  BY DEF Killed, PidTypes
<1> QED BY <1>1, <1>2 DEF PidTypes, Killed

\* A new process is one of Pid: the re-fork it belongs to is paid for.
LEMMA PidStep == TypeInv /\ PidTypes /\ [Next]_vars => PidTypes'
<1> SUFFICES ASSUME TypeInv, PidTypes, [Next]_vars PROVE PidTypes'
  OBVIOUS
<1>1. CASE ForkChild
  <2>1. PICK r \in Nat : Counted(r)
    BY <1>1 DEF TypeInv, ForkChild, MasterAlive
  <2>2. slot \in 1 .. NumProc /\ edits \in 0 .. MaxEdits /\ Due \in Nat
    BY DEF TypeInv, SlotsInv, SlotTypes, Slot, TypeOK, Due
  <2>3. r <= MaxEdits
    BY <2>1, <2>2, SizesAssumption DEF Counted
  <2>4. forks = NumProc * r + slot - 1
    BY <1>1, <2>1 DEF ForkChild, Counted
  <2>5. forks + 1 \in Pid
    BY <2>2, <2>3, <2>4, Multiples, SizesAssumption DEF Pid
  <2>6. mopen \subseteq AnyConn
    BY DEF TypeInv, TypeOK
  <2> QED BY <1>1, <2>5, <2>6 DEF ForkChild, PidTypes
<1>2. CASE RecordChild
  <2>1. PICK r \in Nat : Counted(r)
    BY <1>2 DEF TypeInv, RecordChild, MasterAlive
  <2>2. /\ slot \in 1 .. NumProc /\ forks = NumProc * r + slot /\ NumProc * r \in Nat
        /\ Len(files) = slot - 1
    BY <1>2, <2>1, Multiples, SizesAssumption
    DEF RecordChild, Counted, TypeInv, SlotsInv, SlotTypes, Slot, FilledTo, Forking
  <2>3. forks \in Pid
    BY <2>2, SizesAssumption DEF PidTypes
  <2>4. files' \in Seq(Pid) /\ Len(files') <= NumProc
    BY <1>2, <2>2, <2>3, SizesAssumption DEF RecordChild, PidTypes
  <2> QED BY <1>2, <2>3, <2>4 DEF RecordChild, PidTypes, kidVars
<1>3. CASE Settle \/ Check \/ Reforked \/ AcceptConnection
           \/ (\E c \in AnyConn : TakeConnection(c)) \/ SendConnection
  BY <1>3 DEF Settle, Check, Reforked, AcceptConnection, TakeConnection, SendConnection,
     PidTypes, forkVars, kidVars
<1>4. CASE GetEvents \/ PollInterrupted
  <2>1. PICK b : Woken(b)
    BY <1>4 DEF GetEvents, PollInterrupted
  <2>2. <<>> \in Seq(Pid) /\ Len(<<>>) <= NumProc
    BY SizesAssumption
  <2>3. files' \in {files, <<>>}
    BY <2>1 DEF Woken
  <2>4. files' \in Seq(Pid) /\ Len(files') <= NumProc
    BY <2>2, <2>3 DEF PidTypes
  <2> QED BY <2>1, <2>4 DEF Woken, PidTypes, kidVars
<1>5. CASE CloseServer \/ PageKills \/ (\E p \in Pid : KidReturns(p))
  <2>1. \E ps : Killed(ps) /\ UNCHANGED <<forks, pds, sp, files>>
    BY <1>5 DEF CloseServer, PageKills, KidReturns, forkVars
  <2> QED BY <2>1, KilledTypes
<1>6. CASE PageRegenerates \/ PageFlags \/ PageRefreshes \/ PageEnds \/ EditPage
           \/ WakeMaster \/ UNCHANGED vars
  BY <1>6 DEF PageRegenerates, PageFlags, PageRefreshes, PageEnds, EditPage, WakeMaster,
     PidTypes, forkVars, kidVars, vars
<1>7. CASE StopServer
  BY <1>7 DEF StopServer, PidTypes, forkVars
<1>8. ASSUME NEW p \in Pid, KidStarts(p) \/ KidChecks(p) \/ KidReceives(p) PROVE PidTypes'
  <2>1. UNCHANGED <<forks, pds, sp, files, inherited>>
    BY <1>8 DEF KidStarts, KidChecks, KidReceives, forkVars
  <2>2. kid' \in [Pid -> {"none", "starting", "check", "receive", "left", "dead"}]
    BY <1>8 DEF KidStarts, KidChecks, KidReceives, PidTypes
  <2>3. cntrl' \subseteq Pid
    BY <1>8 DEF KidStarts, KidChecks, KidReceives, PidTypes
  <2> QED BY <2>1, <2>2, <2>3 DEF PidTypes
<1>9. ASSUME NEW p \in Pid, NEW c \in AnyConn, KidServes(p, c) PROVE PidTypes'
  BY <1>9 DEF KidServes, PidTypes, forkVars
<1>10. ASSUME NEW c \in Conn, Connect(c) \/ SendOrHangUp(c) PROVE PidTypes'
  BY <1>10 DEF Connect, SendOrHangUp, PidTypes, forkVars, kidVars
<1> QED BY <1>1, <1>2, <1>3, <1>4, <1>5, <1>6, <1>7, <1>8, <1>9, <1>10
     DEF Next, MasterStep, MonitorStep, KidStep

\* Every step keeps SlotsInv.
LEMMA SlotsStep == SlotsInv /\ [Next]_vars => SlotsInv'
  BY SlotsFork, SlotsRecord, SlotsWoken, OthersKeepSlots, KeptSlots

LEMMA TypeInit == Init => TypeInv
<1> SUFFICES ASSUME Init PROVE TypeInv
  OBVIOUS
<1>1. SlotsInv /\ HandInv
  BY SlotsInit, HandsInit
<1>2. OpenTypes
  BY DEF Init, OpenTypes
<1>3. LoopTypes
  <2>1. 0 \in 0 .. NumProc /\ 0 \in 0 .. MaxEdits /\ 1 \in Slot
    BY SizesAssumption DEF Slot
  <2> QED BY <2>1 DEF Init, LoopTypes
<1>4. Turns
  BY DEF Init, Turns
<1>5. PidTypes
  BY SizesAssumption DEF Init, PidTypes
<1>6. Counted(0)
  BY SizesAssumption DEF Init, Counted, Due, InRound
<1>7. TypeOK
  BY <1>1, <1>2, <1>3, <1>5, TypeParts DEF SlotsInv, HandInv
<1> QED BY <1>1, <1>4, <1>6, <1>7 DEF TypeInv

LEMMA TypeStep == TypeInv /\ [Next]_vars => TypeInv'
<1> SUFFICES ASSUME TypeInv, [Next]_vars PROVE TypeInv'
  OBVIOUS
<1>1. SlotsInv /\ SlotsInv' /\ HandInv /\ HandInv'
  BY SlotsStep, HandsStep DEF TypeInv
<1>2. OpenTypes /\ PidTypes /\ LoopTypes
  BY <1>1, TypeParts DEF TypeInv, SlotsInv, HandInv
<1>3. OpenTypes' /\ PidTypes' /\ LoopTypes' /\ Turns'
  BY <1>1, <1>2, OpenStep, PidStep, LoopStep, TurnsStep DEF TypeInv
<1>4. TypeOK'
  <2>1. SlotTypes' /\ HandTypes'
    BY <1>1 DEF SlotsInv, HandInv
  <2> QED BY <1>3, <2>1, TypeParts, PTL
<1>5. ASSUME MasterAlive' PROVE \E r \in Nat : Counted(r)'
  <2>1. MasterAlive
    BY <1>5 DEF Next, MasterStep, MonitorStep, KidStep, ForkChild, RecordChild, Settle, Check,
       GetEvents, PollInterrupted, Woken, Reforked, AcceptConnection, TakeConnection,
       SendConnection, CloseServer, PageRegenerates, PageKills, PageFlags, PageRefreshes,
       PageEnds, EditPage, WakeMaster, StopServer, KidStarts, KidChecks, KidReceives,
       KidReturns, KidServes, Connect, SendOrHangUp, vars, MasterAlive
  <2>2. PICK r \in Nat : Counted(r)
    BY <2>1 DEF TypeInv
  <2>3. ~CloseServer
    BY <1>5 DEF CloseServer, MasterAlive
  <2> QED BY <1>5, <2>2, <2>3, CountMaster, CountMonitors DEF Next, MasterStep
<1> QED BY <1>1, <1>3, <1>4, <1>5 DEF TypeInv

\* The state keeps its type, for any number of children and page changes: no
\* process is forked that the last edit has not paid for, the child whose turn it
\* is exists, and what is watched is open.
THEOREM TypeCorrect == Spec => []TypeOK
<1>1. TypeInv => TypeOK
  BY DEF TypeInv
<1> QED BY TypeInit, TypeStep, <1>1, PTL DEF Spec

-----------------------------------------------------------------------------
(* ClosedForAll and NothingAbandoned are about a server whose pages do not *)
(* change.                                                                 *)

\* Nothing makes a re-fork due.
LEMMA NothingDue ==
  ASSUME MaxEdits = 0, TypeInv, MasterAlive
  PROVE  /\ processforcekilled => InRound
         /\ page \notin {"killing", "flag"}
<1>1. PICK r \in Nat : r + Due <= edits
  BY DEF TypeInv, Counted
<1>2. edits = 0
  BY DEF TypeInv, TypeOK
<1> QED BY <1>1, <1>2 DEF Due

\* What the master has open no child has; it forks before anything is open.
ClosedInv ==
  /\ \A c \in mopen : c \notin served /\ \A p \in Pid : c \notin serving[p] \cup Queued(p)
  /\ mpc \in {"fork", "record"} => mopen = {}
  /\ \A p \in Pid : inherited[p] = {}

\* Steps that open nothing and hand nothing over.
LEMMA ClosedKept ==
  ASSUME ClosedInv, mopen' \subseteq mopen, UNCHANGED served,
         \A p \in Pid : serving'[p] \subseteq serving[p] /\ Queued(p)' \subseteq Queued(p),
         mpc' \in {"fork", "record"} => mpc \in {"fork", "record"},
         \A p \in Pid : inherited'[p] = {}
  PROVE  ClosedInv'
  BY DEF ClosedInv

LEMMA ClosedStep ==
  ASSUME MaxEdits = 0, TypeInv, ClosedInv, [Next]_vars PROVE ClosedInv'
<1>0. HandTypes /\ Unique /\ Orderly /\ TypeOK
  BY DEF TypeInv, HandInv
<1>1. CASE ForkChild
  <2>1. mopen = {} /\ inherited \in [Pid -> SUBSET AnyConn]
    BY <1>0, <1>1 DEF ForkChild, ClosedInv, TypeOK
  <2>2. \A p \in Pid : inherited'[p] = {}
    BY <1>1, <2>1 DEF ForkChild, ClosedInv
  <2> QED BY <1>1, <2>2, ClosedKept DEF ForkChild, peerVars, Queued
<1>2. CASE RecordChild \/ Settle \/ Check \/ Reforked
  BY <1>2, ClosedKept
  DEF RecordChild, Settle, Check, Reforked, ClosedInv, kidVars, peerVars, Queued
<1>3. CASE GetEvents \/ PollInterrupted
  <2>1. PICK b : Woken(b)
    BY <1>3 DEF GetEvents, PollInterrupted
  <2>2. mpc' = "handle"
    BY <2>1, NothingDue DEF Woken, InRound, MasterAlive
  <2> QED BY <2>1, <2>2, ClosedKept DEF Woken, ClosedInv, kidVars, peerVars, Queued
<1>4. CASE AcceptConnection
  <2> PICK d : d = Head(backlog)
    OBVIOUS
  <2>1. d \in AnyConn /\ d \in Waiting
    BY <1>0, <1>4, Removed, QueueValues
    DEF AcceptConnection, HandTypes, Orderly, MasterAlive
  <2>2. In(d, 0, "backlog") /\ 0 \in Owner /\ {"backlog", "pair", "pool"} \subseteq Hand
    BY <2>1 DEF In, Owner, Hand
  <2>3. d \notin served /\ \A p \in Pid : d \notin serving[p] \cup Queued(p)
    <3>1. d \notin served
      BY <1>0, <2>1, <2>2 DEF Unique
    <3>2. ASSUME NEW p \in Pid, d \in serving[p] \cup Queued(p) PROVE FALSE
      <4>1. p \in Owner /\ (In(d, p, "pool") \/ In(d, p, "pair"))
        BY <3>2 DEF In, Owner
      <4> QED BY <1>0, <2>1, <2>2, <4>1 DEF Unique
    <3> QED BY <3>1, <3>2
  <2>4. \A p \in Pid : Queued(p)' = Queued(p)
    BY <1>4 DEF AcceptConnection, Queued
  <2> QED BY <1>4, <2>3, <2>4 DEF AcceptConnection, ClosedInv, kidVars
<1>5. ASSUME NEW c \in AnyConn, TakeConnection(c) PROVE ClosedInv'
  BY <1>5, ClosedKept DEF TakeConnection, ClosedInv, kidVars, peerVars, Queued
<1>6. CASE SendConnection
  <2> PICK p : p = sp[childNo + 1]
    OBVIOUS
  <2>1. /\ queue' = [queue EXCEPT ![p] = Append(@, desc)] /\ mopen' = mopen \ {desc}
        /\ UNCHANGED <<served, serving, inherited>> /\ mpc' = "handle"
    BY <1>6 DEF SendConnection, kidVars, peerVars
  <2>2. desc \in AnyConn
    BY <1>0, <1>6 DEF SendConnection, HandTypes, Orderly, MasterAlive
  <2>3. ASSUME NEW q \in Pid PROVE Queued(q)' \subseteq Queued(q) \cup {desc}
    <3>1. CASE q = p
      <4>1. queue[q] \in Seq(AnyConn) /\ queue'[q] = Append(queue[q], desc)
        BY <1>0, <2>1, <3>1 DEF HandTypes
      <4>2. \A i \in DOMAIN queue'[q] : queue'[q][i] = desc \/ (i \in DOMAIN queue[q] /\ queue'[q][i] = queue[q][i])
        BY <2>2, <4>1
      <4> QED BY <4>2 DEF Queued
    <3>2. CASE q # p
      BY <1>0, <2>1, <3>2 DEF HandTypes, Queued
    <3> QED BY <3>1, <3>2
  <2> QED BY <2>1, <2>3 DEF ClosedInv
<1>7. CASE CloseServer
  <2>1. mopen' = {} /\ mpc' = "exited"
    BY <1>7 DEF CloseServer
  <2>2. \A p \in Pid : inherited'[p] = {}
    BY <1>7 DEF CloseServer, Killed, ClosedInv
  <2> QED BY <2>1, <2>2 DEF ClosedInv
<1>8. CASE PageKills \/ \E p \in Pid : KidReturns(p)
  <2>1. PICK ps : Killed(ps)
    BY <1>8 DEF PageKills, KidReturns
  <2>2. /\ mopen' \subseteq mopen /\ UNCHANGED <<served, queue>>
        /\ mpc' \in {"fork", "record"} => mpc \in {"fork", "record"}
    BY <1>8 DEF PageKills, KidReturns, peerVars
  <2>3. \A p \in Pid : serving'[p] \subseteq serving[p] /\ inherited'[p] = {}
    BY <2>1 DEF Killed, ClosedInv
  <2> QED BY <2>2, <2>3, ClosedKept DEF Queued
<1>9. CASE EditPage \/ PageRegenerates \/ PageFlags \/ PageRefreshes \/ PageEnds
           \/ WakeMaster \/ StopServer \/ UNCHANGED vars
  BY <1>9, ClosedKept
  DEF EditPage, PageRegenerates, PageFlags, PageRefreshes, PageEnds, WakeMaster, StopServer,
      vars, ClosedInv, kidVars, peerVars, Queued
<1>10. ASSUME NEW p \in Pid, KidStarts(p) \/ KidChecks(p) PROVE ClosedInv'
  BY <1>10, ClosedKept DEF KidStarts, KidChecks, ClosedInv, peerVars, Queued
<1>11. ASSUME NEW p \in Pid, KidReceives(p) PROVE ClosedInv'
  <2> PICK d : d = Head(queue[p])
    OBVIOUS
  <2>1. /\ queue[p] # <<>> /\ queue' = [queue EXCEPT ![p] = Tail(@)]
        /\ served' \subseteq served \cup {d} /\ UNCHANGED <<mpc, mopen, inherited>>
        /\ serving' \in {serving, [serving EXCEPT ![p] = @ \cup {d}]}
    BY <1>11 DEF KidReceives
  <2>2. queue[p] \in Seq(AnyConn) /\ Distinct(queue[p]) /\ queue'[p] = Tail(queue[p])
    BY <1>0, <2>1 DEF HandTypes, Orderly
  <2>3. d \in Queued(p) /\ Queued(p)' \subseteq Queued(p)
    <3>1. Queued(p) = Elements(queue[p]) /\ Queued(p)' = Elements(queue'[p])
      BY QueueValues
    <3> QED BY <2>1, <2>2, <3>1, Removed
  <2>4. \A q \in Pid : Queued(q)' \subseteq Queued(q)
    BY <1>0, <2>1, <2>3 DEF HandTypes, Queued
  <2>5. \A q \in Pid : serving'[q] \subseteq serving[q] \cup (IF q = p THEN {d} ELSE {})
    BY <1>0, <2>1 DEF HandTypes
  <2>6. d \notin mopen
    BY <2>3 DEF ClosedInv
  <2> QED BY <2>1, <2>4, <2>5, <2>6 DEF ClosedInv
<1>12. ASSUME NEW p \in Pid, NEW d \in AnyConn, KidServes(p, d) PROVE ClosedInv'
  <2>1. /\ d \in serving[p] /\ UNCHANGED <<mpc, mopen, inherited, queue>>
        /\ served' = served \cup {d} /\ \A q \in Pid : serving'[q] \subseteq serving[q]
    BY <1>0, <1>12 DEF KidServes, HandTypes
  <2>2. d \notin mopen
    BY <2>1 DEF ClosedInv
  <2> QED BY <2>1, <2>2 DEF ClosedInv, Queued
<1>13. ASSUME NEW c \in Conn, Connect(c) \/ SendOrHangUp(c) PROVE ClosedInv'
  BY <1>13, ClosedKept DEF Connect, SendOrHangUp, ClosedInv, kidVars, Queued
<1> QED BY <1>1, <1>2, <1>3, <1>4, <1>5, <1>6, <1>7, <1>8, <1>9, <1>10, <1>11, <1>12, <1>13
     DEF Next, MasterStep, MonitorStep, KidStep

\* Where no page changes, a connection that a child has closed is closed in every
\* process, for any number of children and clients: descriptors are copied by
\* fork only before the first accept, and the master closes what it sends.
THEOREM ClosedCorrect == ASSUME MaxEdits = 0 PROVE Spec => []ClosedForAll
<1>1. Init => ClosedInv
  BY DEF Init, ClosedInv
<1>2. TypeInv /\ ClosedInv /\ [Next]_vars => ClosedInv'
  BY ClosedStep
<1>3. TypeInv /\ ClosedInv => ClosedForAll
  <2> SUFFICES ASSUME TypeInv, ClosedInv, NEW c \in served PROVE ~Holds(c)
    BY DEF ClosedForAll
  <2>1. c \in AnyConn /\ Unique
    BY DEF TypeInv, HandInv, HandTypes
  <2>2. ASSUME NEW p \in Pid PROVE c \notin serving[p] \cup Queued(p)
    <3>1. p \in Owner /\ {"pool", "pair"} \subseteq Hand
      BY DEF Owner, Hand
    <3>2. c \in serving[p] \cup Queued(p) => In(c, p, "pool") \/ In(c, p, "pair")
      BY DEF In
    <3> QED BY <2>1, <3>1, <3>2 DEF Unique
  <2>3. c \notin mopen /\ \A p \in Pid : inherited[p] = {}
    BY DEF ClosedInv
  <2> QED BY <2>2, <2>3 DEF Holds
<1> QED BY TypeInit, TypeStep, <1>1, <1>2, <1>3, PTL DEF Spec

\* Until the server is stopped: no child ends, each has its .cntrl file once it
\* runs, and each runs before the first connection is accepted.
SteadyInv ==
  /\ \A i \in DOMAIN files : files[i] \in 1 .. forks
  /\ mpc \in {"fork", "record"} => grace = "off"
  /\ mpc # "reforked"
  /\ stopFile =>
       /\ MasterAlive /\ mpc # "close"
       /\ mopen = watched \cup ({desc} \ {NoConn})
       /\ \A p \in Pid : /\ kid[p] \notin {"left", "dead"}
                         /\ kid[p] \in {"check", "receive"} => p \in cntrl
       /\ \A p \in 1 .. forks : kid[p] # "none"
       /\ mpc \notin {"fork", "record", "settle"}
            => \A i \in DOMAIN files : kid[files[i]] # "starting"

\* Steps that touch no process and no connection that is open.
LEMMA SteadyKept ==
  ASSUME SteadyInv, UNCHANGED <<files, forks, kid, cntrl, mopen, watched, desc>>,
         mpc' \in {"fork", "record", "reforked"} => mpc' = mpc /\ grace' = grace,
         stopFile' => /\ stopFile /\ mpc' \notin {"close", "exited", "killed"}
                      /\ mpc \in {"fork", "record", "settle"} => mpc' = mpc
  PROVE  SteadyInv'
  BY DEF SteadyInv, MasterAlive

\* The processes before one of Pid are in Pid.
LEMMA ForkedPids ==
  ASSUME NEW n \in {0} \cup Pid PROVE n \in Nat /\ 1 .. n \subseteq Pid
<1>1. NumProc * (1 + MaxEdits) \in Nat
  BY Multiples
<1> QED BY <1>1 DEF Pid

\* Steps of the children: they end only when the server is stopped.
LEMMA SteadyKid ==
  ASSUME SteadyInv, TypeOK, NEW p \in Pid, kid[p] \notin {"none", "dead"},
         UNCHANGED <<files, forks, mpc, grace, stopFile, mopen, watched, desc>>,
         NEW k, kid' = [kid EXCEPT ![p] = k], k \notin {"none", "starting", "dead"},
         cntrl \subseteq cntrl', k = "left" => ~stopFile, k \in {"check", "receive"} /\ stopFile => p \in cntrl'
  PROVE  SteadyInv'
<1>1. \A q \in Pid : kid'[q] = IF q = p THEN k ELSE kid[q]
  BY DEF TypeOK
<1>2. forks \in {0} \cup Pid /\ files \in Seq(Pid)
  BY DEF TypeOK
<1>3. 1 .. forks \subseteq Pid /\ \A i \in DOMAIN files : files[i] \in Pid
  BY <1>2, ForkedPids
<1> QED BY <1>1, <1>3 DEF SteadyInv, MasterAlive

LEMMA SteadyStep ==
  ASSUME MaxEdits = 0, StartsInTime, TypeInv, SteadyInv, [Next]_vars PROVE SteadyInv'
<1>0. /\ HandTypes /\ Unique /\ Orderly /\ TypeOK /\ SlotTypes
      /\ files \in Seq(Pid) /\ forks \in Nat
      /\ kid \in [Pid -> {"none", "starting", "check", "receive", "left", "dead"}]
      /\ 1 .. forks \subseteq Pid /\ 1 .. forks' \subseteq Pid
  <2>1. forks \in {0} \cup Pid /\ forks' \in {0} \cup Pid
    BY TypeStep DEF TypeInv, TypeOK
  <2>2. 1 .. forks \subseteq Pid /\ 1 .. forks' \subseteq Pid /\ forks \in Nat
    BY <2>1, ForkedPids
  <2> QED BY <2>2 DEF TypeInv, HandInv, SlotsInv, TypeOK
<1>1. CASE ForkChild
  <2>1. /\ mpc = "fork" /\ mpc' = "record" /\ forks' = forks + 1
        /\ kid' = [kid EXCEPT ![forks + 1] = "starting"]
        /\ UNCHANGED <<files, cntrl, mopen, watched, desc, stopFile, grace>>
    BY <1>1 DEF ForkChild, loopVars
  <2>2. \A i \in DOMAIN files' : files'[i] \in 1 .. forks'
    BY <1>0, <2>1 DEF SteadyInv
  <2>3. \A p \in Pid : kid'[p] = IF p = forks + 1 THEN "starting" ELSE kid[p]
    BY <1>0, <2>1
  <2>4. ASSUME stopFile, NEW p \in 1 .. forks' PROVE kid'[p] # "none"
    <3>1. CASE p = forks + 1
      BY <1>0, <2>1, <2>3, <3>1
    <3>2. CASE p # forks + 1
      <4>1. p \in 1 .. forks
        BY <1>0, <2>1, <3>2
      <4> QED BY <1>0, <2>3, <2>4, <3>2, <4>1 DEF SteadyInv
    <3> QED BY <3>1, <3>2
  <2> QED BY <2>1, <2>2, <2>3, <2>4 DEF SteadyInv, MasterAlive
<1>2. CASE RecordChild
  <2>1. /\ mpc = "record" /\ mpc' \in {"fork", "settle"} /\ files' = Append(files, forks)
        /\ UNCHANGED <<forks, kid, cntrl, mopen, watched, desc, stopFile, grace>>
    BY <1>2 DEF RecordChild, loopVars, kidVars, SteadyInv
  <2>2. PICK r \in Nat : Counted(r)
    BY <2>1 DEF TypeInv, MasterAlive
  <2>3. forks \in 1 .. forks
    <3>1. forks = NumProc * r + slot /\ NumProc * r \in Nat /\ slot \in Nat \ {0}
      BY <1>0, <2>1, <2>2, Multiples, SizesAssumption DEF Counted, SlotTypes, Slot
    <3> QED BY <3>1
  <2>4. \A i \in DOMAIN files' : files'[i] \in 1 .. forks'
    BY <1>0, <2>1, <2>3 DEF SteadyInv
  <2> QED BY <2>1, <2>4 DEF SteadyInv, MasterAlive
<1>3. CASE Settle
  <2>1. /\ mpc = "settle" /\ mpc' = "handle" /\ \A j \in Slot : kid[pds[j]] # "starting"
        /\ UNCHANGED <<files, forks, kid, cntrl, mopen, watched, desc, stopFile>>
    BY <1>3 DEF Settle, loopVars, kidVars, forkVars
  <2>2. DOMAIN files = Slot /\ \A j \in Slot : files[j] = pds[j]
    BY <1>0, <2>1 DEF TypeInv, SlotsInv, Looping, FilledTo, Slot
  <2> QED BY <2>1, <2>2 DEF SteadyInv, MasterAlive
<1>4. CASE Check \/ Reforked
  BY <1>4, SteadyKept DEF Check, Reforked, forkVars, kidVars, loopVars, SteadyInv
<1>5. CASE GetEvents \/ PollInterrupted
  <2>1. PICK b : Woken(b)
    BY <1>5 DEF GetEvents, PollInterrupted
  <2>2. mpc = "poll" /\ mpc' = "handle" /\ UNCHANGED files
    BY <2>1, NothingDue DEF Woken, InRound, MasterAlive
  <2> QED BY <2>1, <2>2, SteadyKept DEF Woken, kidVars
<1>6. CASE AcceptConnection
  <2>1. mpc = "handle" /\ desc = NoConn
    BY <1>0, <1>6 DEF AcceptConnection, Orderly, MasterAlive
  <2> QED BY <1>6, <2>1 DEF AcceptConnection, SteadyInv, MasterAlive, forkVars, kidVars
<1>7. ASSUME NEW c \in AnyConn, TakeConnection(c) PROVE SteadyInv'
  <2>1. /\ mpc = "handle" /\ desc = NoConn /\ c \in watched /\ c # NoConn
        /\ watched' = watched \ {c}
        /\ UNCHANGED <<files, forks, kid, cntrl, mopen, stopFile, grace>>
    BY <1>0, <1>7, NamesAssumption
    DEF TakeConnection, Orderly, MasterAlive, forkVars, kidVars, AnyConn
  <2>2. stopFile => files[NextChild(childNo) + 1] \in cntrl
    <3>1. NextChild(childNo) + 1 \in DOMAIN files
      BY <1>0, <2>1, SizesAssumption
      DEF TypeInv, SlotsInv, SlotTypes, Looping, FilledTo, NextChild, TypeOK
    <3> PICK i \in DOMAIN files : i = NextChild(childNo) + 1
      BY <3>1
    <3>2. files[i] \in 1 .. forks /\ files[i] \in Pid
      BY <1>0 DEF SteadyInv
    <3>3. stopFile => files[i] \in cntrl
      BY <1>0, <2>1, <3>2 DEF SteadyInv
    <3> QED BY <3>3
  <2>3. stopFile => mpc' = "send" /\ desc' = c
    BY <1>7, <2>2 DEF TakeConnection
  <2>4. mpc' \in {"send", "handle"}
    BY <1>7 DEF TakeConnection
  <2> QED BY <2>1, <2>3, <2>4 DEF SteadyInv, MasterAlive
<1>8. CASE SendConnection
  <2>1. /\ mpc = "send" /\ mpc' = "handle" /\ desc' = NoConn /\ mopen' = mopen \ {desc}
        /\ UNCHANGED <<files, forks, kid, cntrl, watched, stopFile, grace>>
    BY <1>8 DEF SendConnection, forkVars, kidVars
  <2>2. desc \notin watched /\ desc # NoConn
    <3>1. desc # NoConn /\ desc \in AnyConn
      BY <1>0, <2>1 DEF Orderly, HandTypes, MasterAlive
    <3>2. In(desc, 0, "desc") /\ 0 \in Owner /\ {"desc", "watched"} \subseteq Hand
      BY <2>1 DEF MasterAlive, In, Owner, Hand
    <3>3. desc \in watched => In(desc, 0, "watched")
      BY DEF In
    <3> QED BY <1>0, <3>1, <3>2, <3>3 DEF Unique
  <2> QED BY <2>1, <2>2 DEF SteadyInv, MasterAlive
<1>9. CASE CloseServer \/ \E p \in Pid : KidReturns(p)
  <2>1. UNCHANGED <<stopFile, files, forks>>
    BY <1>9 DEF CloseServer, KidReturns, forkVars
  <2>2. ~stopFile
    BY <1>9 DEF CloseServer, KidReturns, SteadyInv
  <2>3. (mpc' = mpc /\ grace' = grace) \/ mpc' \in {"exited", "killed"}
    BY <1>9 DEF CloseServer, KidReturns
  <2> QED BY <2>1, <2>2, <2>3 DEF SteadyInv
<1>10. CASE MonitorStep
  <2>1. CASE stopFile
    <3>1. page \notin {"killing", "flag"}
      BY <2>1, NothingDue DEF SteadyInv
    <3> QED BY <1>10, <2>1, <3>1, SteadyKept
        DEF MonitorStep, PageRegenerates, PageKills, PageFlags, PageRefreshes, PageEnds,
            SteadyInv, MasterAlive, forkVars, kidVars, loopVars
  <2>2. CASE ~stopFile
    <3>1. ~stopFile' /\ UNCHANGED <<files, forks, mpc, grace>>
      BY <1>10, <2>2
      DEF MonitorStep, PageRegenerates, PageKills, PageFlags, PageRefreshes, PageEnds, forkVars
    <3> QED BY <3>1 DEF SteadyInv
  <2> QED BY <2>1, <2>2
<1>11. CASE EditPage \/ WakeMaster \/ UNCHANGED vars
  BY <1>11, SteadyKept
  DEF EditPage, WakeMaster, vars, SteadyInv, MasterAlive, forkVars, kidVars, loopVars
<1>12. CASE StopServer
  BY <1>12 DEF StopServer, SteadyInv, forkVars
<1>13. ASSUME NEW p \in Pid, KidStarts(p) \/ KidChecks(p) \/ KidReceives(p) PROVE SteadyInv'
  <2>1. UNCHANGED <<files, forks, mpc, grace, stopFile, mopen, watched, desc>>
    BY <1>13 DEF KidStarts, KidChecks, KidReceives, forkVars, loopVars
  <2>2. stopFile /\ kid[p] \in {"check", "receive"} => p \in cntrl
    BY DEF SteadyInv
  <2>3. CASE KidStarts(p)
    BY <1>0, <2>1, <2>3, SteadyKid DEF KidStarts
  <2>4. CASE KidChecks(p)
    BY <1>0, <2>1, <2>2, <2>4, SteadyKid DEF KidChecks
  <2>5. CASE KidReceives(p)
    BY <1>0, <2>1, <2>2, <2>5, SteadyKid DEF KidReceives
  <2> QED BY <1>13, <2>3, <2>4, <2>5
<1>14. ASSUME NEW p \in Pid, NEW c \in AnyConn, KidServes(p, c) PROVE SteadyInv'
  BY <1>14, SteadyKept DEF KidServes, SteadyInv, MasterAlive, forkVars, loopVars
<1>15. ASSUME NEW c \in Conn, Connect(c) \/ SendOrHangUp(c) PROVE SteadyInv'
  BY <1>15, SteadyKept DEF Connect, SendOrHangUp, SteadyInv, MasterAlive, forkVars, kidVars, loopVars
<1> QED BY <1>1, <1>2, <1>3, <1>4, <1>5, <1>6, <1>7, <1>8, <1>9, <1>10, <1>11, <1>12, <1>13,
     <1>14, <1>15 DEF Next, MasterStep, KidStep

\* Where no page changes and the children start in the time that main gives them,
\* the master has, until the server is stopped, no connection that it neither
\* watches nor is about to send: the child whose turn it is always has its file.
THEOREM NothingAbandonedCorrect ==
  ASSUME MaxEdits = 0, StartsInTime PROVE Spec => []NothingAbandoned
<1>1. Init => SteadyInv
  <2> SUFFICES ASSUME Init PROVE SteadyInv
    OBVIOUS
  <2>1. /\ mpc = "fork" /\ grace = "off" /\ files = <<>> /\ forks = 0 /\ mopen = {} /\ watched = {}
        /\ desc = NoConn /\ kid = [p \in Pid |-> "none"]
    BY DEF Init
  <2>2. 1 .. forks = {} /\ DOMAIN files = {}
    BY <2>1
  <2> QED BY <2>1, <2>2 DEF SteadyInv, MasterAlive
<1>2. TypeInv /\ SteadyInv /\ [Next]_vars => SteadyInv'
  BY SteadyStep
<1>3. SteadyInv => NothingAbandoned
  BY DEF SteadyInv, NothingAbandoned
<1> QED BY TypeInit, TypeStep, <1>1, <1>2, <1>3, PTL DEF Spec
=============================================================================
