----------------------------- MODULE MCSchedule -----------------------------
(* One instance for several situations, so that servers, tasks and         *)
(* disturbances do not all multiply each other's states.                   *)
EXTENDS ScheduledTasks

VARIABLE situation
CONSTANT Situations

Disturbed == lists + acts + manuals + crashes

\* Which ones does not matter.
TheServer == CHOOSE s \in Server : TRUE
TheTask   == CHOOSE t \in Task : TRUE

\* Two servers share one task, or one server has two, with a disturbance and a write
\* that fails or with two of these; two servers share two tasks undisturbed.
MCInit ==
  /\ Init
  /\ situation \in Situations
  /\ IF situation = "servers"
       THEN \A t \in Task : file[t] # None <=> t = TheTask
       ELSE \A t \in Task : file[t] # None
  /\ situation = "both" => \A t \in Task : file[t].kind = "cron"
MCNext ==
  /\ Next
  /\ situation' = situation
  /\ situation = "tasks" => \A s \in Server \ {TheServer} : ~live'[s]
  /\ Disturbed' <= 1 /\ Disturbed' + faults' <= IF situation = "both" THEN 0 ELSE 2
MCSpec == MCInit /\ [][MCNext]_<<vars, situation>>
=============================================================================
