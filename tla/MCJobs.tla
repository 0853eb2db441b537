------------------------------- MODULE MCJobs -------------------------------
(***************************************************************************)
(* The jobs for TLC: an hour of the evening of 9 May 2012, from 23:15, and *)
(* what a <job-proc> may say in it.                                        *)
(***************************************************************************)
EXTENDS JobScheduler

CONSTANTS j1

Every == [form |-> "*", vals |-> <<>>]
Numbers(form, vals) == [form |-> form, vals |-> vals]
Attributes == {"class", "method", "cron", "name", "constructor"}
ConfigOf(minutes, hours) ==
  [given |-> Attributes, found |-> Attributes, cron |-> <<minutes, hours, Every, Every, Every>>]

\* The job of web/default/config/application.xml.
MCSampleJob == {ConfigOf(Every, Every)}

MCJobConfig ==
  {ConfigOf(m, Every) : m \in
     {Every, Numbers("a/c", <<5, 7>>), Numbers("a,b", <<50, 15, 30>>), Numbers("a,b", <<NaN, 1>>),
      Numbers("a-b", <<NaN, 1>>), Numbers("a", <<61>>), Numbers("a/c", <<0, 0>>)}}
    \cup {ConfigOf(Numbers("a-b", <<55, 58>>), Numbers("a-b", <<22, 23>>)),
          ConfigOf(Numbers("a", <<20>>), Numbers("a,b", <<22, 23>>)),
          [ConfigOf(Every, Every) EXCEPT !.found = {"class"}]}

MCEvening == [year |-> 2012, month |-> 5, day |-> 9, dayw |-> 3, hh |-> 23, mm |-> 15, ss |-> 0]

\* The jobs by themselves.
JobSpec == JobInit /\ [][JobNext]_jobVars
=============================================================================
