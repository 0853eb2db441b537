---------------------------- MODULE JobScheduler ----------------------------
(***************************************************************************)
(* JobScheduler: a thread for each job waits for the minute of its next    *)
(* run, runs the method and moves on to the date CronTimer gives.  The     *)
(* clock advances by minutes; a run may take any time.                     *)
(***************************************************************************)
EXTENDS CronTimer

CONSTANTS Job,
          JobConfig,  \* what a <job-proc> says and what the library holds of it
          Evening,    \* where the clock starts
          Horizon,    \* the bound of the clock: minutes after that
          LongestRun  \* the bound of a run: minutes that may pass in one

VARIABLES
  configs,   \* by job
  clock,     \* the local time
  elapsed,   \* minutes since the clock started
  started,   \* isStarted
  stopped,   \* stop() was called
  job,       \* by job: its thread
  ran,       \* history, by job: whether it was run in this minute
  aborted    \* an exception nobody caught ended the process

jobVars == <<configs, clock, elapsed, started, stopped, job, ran, aborted>>

NoTimer == [pc |-> "none", parts |-> <<>>, next |-> Evening, began |-> Evening,
            long |-> 0, missed |-> FALSE]

JobInit ==
  /\ configs \in [Job -> JobConfig]
  /\ clock = Evening /\ elapsed = 0
  /\ started = FALSE /\ stopped = FALSE
  /\ job = [j \in Job |-> NoTimer]
  /\ ran = [j \in Job |-> FALSE]
  /\ aborted = FALSE

\* init() takes the jobs with every attribute, start() those whose class and method
\* the library has.
Startable(config) ==
  /\ {"class", "method", "cron", "name"} \subseteq config.given
  /\ {"class", "method", "constructor"} \subseteq config.found

StartJobs ==
  /\ ~started
  /\ started' = TRUE
  /\ job' = [j \in Job |-> IF Startable(configs[j])
                           THEN [job[j] EXCEPT !.pc = "new"] ELSE job[j]]
  /\ UNCHANGED <<configs, clock, elapsed, stopped, ran, aborted>>

\* The thread reads the expression and the clock.  An invalid one is caught and logged.
ReadExpression(j) ==
  /\ ~aborted /\ job[j].pc = "new"
  /\ \E timer \in {Parsed(configs[j].cron)} :
       /\ aborted' = (timer.is = "abort")
       /\ job' = [job EXCEPT ![j].pc = IF timer.is = "timer" /\ ~stopped THEN "sleeping" ELSE "ended",
                             ![j].parts = timer.parts, ![j].next = clock, ![j].began = clock]
  /\ UNCHANGED <<configs, clock, elapsed, started, stopped, ran>>

\* Once a second: is it the minute waited for?
RunJob(j) ==
  /\ ~aborted /\ job[j].pc = "sleeping"
  /\ IF PollFails(job[j].parts, clock, job[j].next)
     THEN aborted' = TRUE /\ UNCHANGED <<job, ran>>
     ELSE /\ Due(job[j].parts, clock, job[j].next)
          /\ job' = [job EXCEPT ![j].pc = "running", ![j].long = 0]
          /\ ran' = [ran EXCEPT ![j] = TRUE]
          /\ UNCHANGED aborted
  /\ UNCHANGED <<configs, clock, elapsed, started, stopped>>

\* What a minute is to the expression, as it is written.
Intended(parts, date) ==
  \A pos \in {0, 1, 2, 3, 5} :
    Allows(pos, parts[pos + 1], FieldAt(pos, date))
      \/ \E i \in DOMAIN parts[pos + 1].list : parts[pos + 1].list[i] = FieldAt(pos, date)

\* The loop has read doRun before: it goes on after stop().
FinishRun(j) ==
  /\ ~aborted /\ job[j].pc = "running"
  /\ job' = [job EXCEPT ![j].pc = "sleeping",
                        ![j].next = NextRun(job[j].parts, job[j].next, clock)]
  /\ UNCHANGED <<configs, clock, elapsed, started, stopped, ran, aborted>>

\* A minute passes.  A thread that sleeps looks at the clock many times a minute.
OneMinute(date) ==
  LET m == date.hh * 60 + date.mm + 1
      d == IF m = 1440 THEN DateOf(GetDays(date.year, date.month, date.day + 1), date) ELSE date
  IN  [d EXCEPT !.hh = (m \div 60) % 24, !.mm = m % 60]

Polled(j) ==
  job[j].pc = "sleeping" =>
    ran[j] \/ ~(PollFails(job[j].parts, clock, job[j].next)
                  \/ Due(job[j].parts, clock, job[j].next))

\* This minute was one of the expression and passed in a run that began before.
Overslept(j) == job[j].pc = "running" /\ ~ran[j] /\ Intended(job[j].parts, clock)

Tick ==
  /\ ~aborted /\ elapsed < Horizon
  /\ \A j \in Job : job[j].pc # "new" /\ Polled(j) /\ job[j].long <= LongestRun
  /\ clock' = OneMinute(clock) /\ elapsed' = elapsed + 1
  /\ job' = [j \in Job |-> [job[j] EXCEPT !.missed = @ \/ Overslept(j),
                                               !.long = IF job[j].pc = "running" THEN @ + 1 ELSE 0]]
  /\ ran' = [j \in Job |-> FALSE]
  /\ UNCHANGED <<configs, started, stopped, aborted>>

\* Waits ten seconds and deletes the scheduler; no thread ends of it.
StopJobs ==
  /\ started /\ ~stopped
  /\ stopped' = TRUE
  /\ UNCHANGED <<configs, clock, elapsed, started, job, ran, aborted>>

JobNext ==
  \/ StartJobs \/ StopJobs \/ Tick
  \/ \E j \in Job : ReadExpression(j) \/ RunJob(j) \/ FinishRun(j)

----------------------------------------------------------------------------

\* What CronTimer does not understand: a list with numbers of one digit where texts
\* have two, and minutes without an end in hours with gaps.
Misread(parts) ==
  \/ \E i \in {1, 2, 4} : \E k \in DOMAIN parts[i].list : parts[i].list[k] < 10
  \/ parts[1].all /\ (parts[2].list # <<>> \/ parts[2].interval # -1)

\* A job that was started in a minute of its expression and has not been in a run for
\* all of one it should have run in, is run in every minute of the expression until
\* the day ends.
JobsKeepTime ==
  \A j \in Job :
    /\ job[j].pc = "sleeping" /\ ~aborted /\ ~ran[j] /\ ~job[j].missed
    /\ Len(job[j].parts) = 6
    /\ Intended(job[j].parts, clock) /\ Intended(job[j].parts, job[j].began)
    /\ clock.day = job[j].began.day /\ ~Misread(job[j].parts)
    => Due(job[j].parts, clock, job[j].next)

\* JobScheduler is "for job scheduling" and CronTimer for "handling cron times"
\* (README:64-65), and the sample job's expression is "* * * * *"
\* (web/default/config/application.xml:144): its job runs every minute.
SampleJobRuns ==
  \A j \in Job :
    /\ job[j].pc = "sleeping" /\ ~aborted /\ ~ran[j] /\ ~job[j].missed
    /\ \A i \in DOMAIN configs[j].cron : configs[j].cron[i].form = "*"
    => Due(job[j].parts, clock, job[j].next)
=============================================================================
