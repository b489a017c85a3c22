--------------------------- MODULE ScheduledTasks ---------------------------
(***************************************************************************)
(* The scheduled tasks of one project (scheduled-tasks/runtime.js): every  *)
(* server that shares the project's file arms timers of its own, and a run *)
(* claims its occurrence in the file before it opens a session.            *)
(*                                                                         *)
(* A write to the file and what the code does with its answer up to the    *)
(* next await is one action: writes of a project are serialised within a   *)
(* server and, by a lock file, between servers.                            *)
(*                                                                         *)
(* Occurrence n is due at tick 2n of the clock.  Tick 2n - 1 stands for    *)
(* the five seconds before it, the slack of computeNextRunAt.  Timers and  *)
(* writes take seconds, so only sessions, and runs that wait for a slot,   *)
(* last from one occurrence into the next.                                 *)
(***************************************************************************)
EXTENDS Naturals, Sequences, FiniteSets

CONSTANTS
  None,       \* no task, no timer, no next run
  Server,     \* servers that share the project's file
  Task,       \* tasks of the project
  Kinds,      \* kinds of schedule they may have
  Limit,      \* maxProjectConcurrency
  MaxClock,   \* bound on the clock
  MaxLists,   \* bound on requests for the list, each of which is a sync
  MaxActs,    \* bound on tasks saved and deleted by people
  MaxManual,  \* bound on Run now
  MaxFaults,  \* bound on writes that fail
  MaxCrashes  \* bound on restarts

Kind == {"cron", "daily", "once"}

ASSUME ScheduleAssumption ==
  /\ Kinds \subseteq Kind
  /\ None \notin Nat /\ None \notin Task
  /\ IsFiniteSet(Task)
  /\ Limit \in Nat \ {0} /\ MaxClock \in Nat
  /\ MaxLists \in Nat /\ MaxActs \in Nat /\ MaxManual \in Nat
  /\ MaxFaults \in Nat /\ MaxCrashes \in Nat

VARIABLES
  clock,
  file,      \* scheduledTasks of the project's file
  shown,     \* the list people look at, which is what they save
  live,      \* the server is up
  tasks,     \* tasksByProject
  listed,    \* the tasks a sync has still to arm, as it read them
  owed,      \* a request has written and its sync is still to come
  timers,    \* timersByTaskKey: the occurrence a timer is set for
  keys,      \* queuedTaskKeys
  entries,   \* queue
  running,   \* runningTaskKeys, whose number the counters of slots hold
  runs,      \* the run of a task under way
  lists, acts, manuals, faults, crashes, \* what has been spent of the bounds
  ran,       \* history: how often an occurrence was claimed
  late,      \* history: tasks that had an occurrence claimed after a later one
  rewound,   \* history: tasks whose state was overwritten by an older copy
  lost,      \* history: tasks whose timer a failed write has cost a server
  unpumped   \* history: a manual run ended and nobody looked at the queue since

server  == <<live, tasks, listed, owed, timers, keys, entries, running, runs, lost, unpumped>>
bounds  == <<lists, acts, manuals, faults, crashes>>
history == <<ran, late, rewound>>
vars    == <<clock, file, shown, server, bounds, history>>

Occurrence == 1..(MaxClock + 1)

\* A stored task: what people set, and of its state lastScheduledFor, nextRunAt and
\* whether lastStatus is 'running'.
Record ==
  [enabled : BOOLEAN, kind : Kind, due : Occurrence,
   last : Occurrence \cup {None}, next : Occurrence \cup {None}, running : BOOLEAN]

ASSUME NoneAssumption == None \notin Record

\* A run awaits, in this order: its claim ("claim"; or, run by hand, the record of
\* its start, "start"), the session, the write that completes it.
RunState ==
  [pc : {"idle", "claim", "unclaimed", "start", "session", "complete", "retry"},
   manual : BOOLEAN, due : Occurrence \cup {None}, task : Record \cup {None}]

NoRun == [pc |-> "idle", manual |-> FALSE, due |-> None, task |-> None]

TypeOK ==
  /\ clock \in 0..MaxClock
  /\ file \in [Task -> Record \cup {None}] /\ shown \in [Task -> Record \cup {None}]
  /\ live \in [Server -> BOOLEAN] /\ owed \in [Server -> BOOLEAN]
  /\ tasks \in [Server -> [Task -> Record \cup {None}]]
  /\ listed \in [Server -> [Task -> Record \cup {None}]]
  /\ timers \in [Server -> [Task -> Occurrence \cup {None}]]
  /\ keys \in [Server -> SUBSET Task] /\ running \in [Server -> SUBSET Task]
  /\ entries \in [Server -> Seq([task : Task, due : Occurrence])]
  /\ runs \in [Server -> [Task -> RunState]]
  /\ lists \in Nat /\ acts \in Nat /\ manuals \in Nat /\ faults \in Nat /\ crashes \in Nat
  /\ ran \in [Task -> [Occurrence -> Nat]]
  /\ late \in SUBSET Task /\ rewound \in SUBSET Task
  /\ lost \in [Server -> SUBSET Task] /\ unpumped \in [Server -> BOOLEAN]

NoTasks == [t \in Task |-> None]

Init ==
  /\ clock = 0
  /\ file \in [Task -> [enabled : {TRUE}, kind : Kinds, due : {1}, last : {None},
                        next : {None}, running : {FALSE}] \cup {None}]
  /\ shown = file
  /\ live = [s \in Server |-> FALSE] /\ owed = live
  /\ tasks = [s \in Server |-> NoTasks] /\ listed = tasks /\ timers = tasks
  /\ keys = [s \in Server |-> {}] /\ running = keys
  /\ entries = [s \in Server |-> <<>>]
  /\ runs = [s \in Server |-> [t \in Task |-> NoRun]]
  /\ lists = 0 /\ acts = 0 /\ manuals = 0 /\ faults = 0 /\ crashes = 0
  /\ ran = [t \in Task |-> [o \in Occurrence |-> 0]]
  /\ late = {} /\ rewound = {}
  /\ lost = keys /\ unpumped = live

-----------------------------------------------------------------------------
(* Occurrences and timers.                                                 *)

Enabled(task) == IF task = None THEN FALSE ELSE task.enabled

Due(o) == 2 * o
Later(a, b) == IF a < b THEN b ELSE a

\* computeNextRunAt: only cron schedules do without the slack; weekly ones are as daily ones.
NextRun(task, now) ==
  IF ~task.enabled THEN None
  ELSE IF task.kind = "cron"  THEN now \div 2 + 1
  ELSE IF task.kind = "daily" THEN (now + 1) \div 2 + 1
  ELSE IF now + 1 < Due(task.due) THEN task.due ELSE None

\* Mutant: only what is stored.
FollowingStored(task, from) ==
  IF ~task.enabled THEN None
  ELSE IF task.next # None /\ Due(task.next) > from THEN task.next
  ELSE None

\* rearmFromTaskOrCompute: never for an occurrence that is over.
Following(task, from) ==
  IF ~task.enabled THEN None
  ELSE IF task.next # None /\ Due(task.next) > from THEN task.next
  ELSE NextRun(task, from)

\* scheduleTask; None leaves the timer as it is.
Arm(s, t, o) ==
  IF o = None THEN UNCHANGED <<timers, lost>>
  ELSE /\ timers' = [timers EXCEPT ![s][t] = o]
       /\ lost' = [lost EXCEPT ![s] = @ \ {t}]

\* updateInMemoryTask
Remember(s, t, task) ==
  tasks' = IF task = None THEN tasks ELSE [tasks EXCEPT ![s][t] = task]

Known(s, t) == IF tasks[s][t] = None THEN runs[s][t].task ELSE tasks[s][t]

-----------------------------------------------------------------------------
(* The queue and its slots.                                                *)

Begun(manual, o, task) ==
  [pc |-> IF manual THEN "start" ELSE "claim", manual |-> manual, due |-> o, task |-> task]

\* pumpQueue, with these keys and runs taken: the waiting entries are looked at in
\* their order while there is a slot, and one whose task is paused, gone or running is
\* dropped.  The run of task "over" has ended.
Pump(s, taken, waiting, over) ==
  LET fit    == {i \in DOMAIN waiting :
                   /\ Enabled(tasks'[s][waiting[i].task])
                   /\ waiting[i].task \notin taken.running
                   /\ \A j \in 1..(i - 1) : waiting[j].task # waiting[i].task}
      looked == {i \in DOMAIN waiting :
                   Cardinality(taken.running) + Cardinality({j \in fit : j < i}) < Limit}
      begun  == fit \cap looked
      Of(entriesSeen) == {waiting[i].task : i \in entriesSeen}
      First(t) == CHOOSE i \in begun : waiting[i].task = t
  IN
  /\ entries' = [entries EXCEPT
                   ![s] = SubSeq(waiting, Cardinality(looked) + 1, Len(waiting))]
  /\ keys' = [keys EXCEPT ![s] = taken.keys \ Of(looked)]
  /\ running' = [running EXCEPT ![s] = taken.running \cup Of(begun)]
  /\ unpumped' = [unpumped EXCEPT ![s] = FALSE]
  /\ runs' = [runs EXCEPT ![s] = [t \in Task |->
       IF t \in Of(begun) THEN Begun(FALSE, waiting[First(t)].due, tasks'[s][t])
       ELSE IF t = over THEN NoRun ELSE runs[s][t]]]

\* Mutant: no run's end looks at the queue.
ReleaseUnpumped(s, t) ==
  /\ running' = [running EXCEPT ![s] = @ \ {t}]
  /\ runs' = [runs EXCEPT ![s][t] = NoRun]
  /\ UNCHANGED <<entries, keys, unpumped>>

\* releaseRunningSlot, in the finally of runTask; a run from the queue pumps again,
\* one by hand does not.
Release(s, t) ==
  IF runs[s][t].manual
    THEN /\ running' = [running EXCEPT ![s] = @ \ {t}]
         /\ runs' = [runs EXCEPT ![s][t] = NoRun]
         /\ unpumped' = [unpumped EXCEPT ![s] = TRUE]
         /\ UNCHANGED <<entries, keys>>
    ELSE Pump(s, [keys |-> keys[s], running |-> running[s] \ {t}], entries[s], t)

Goes(s, t, pc) ==
  /\ runs' = [runs EXCEPT ![s][t].pc = pc]
  /\ UNCHANGED <<entries, keys, running, unpumped>>

\* The timer of a task fires.
TimerFires(s, t) ==
  /\ timers[s][t] # None /\ Due(timers[s][t]) <= clock
  /\ timers' = [timers EXCEPT ![s][t] = None]
  /\ UNCHANGED <<clock, file, shown, live, tasks, listed, owed, lost, bounds, history>>
  /\ IF ~Enabled(tasks[s][t])
       THEN UNCHANGED <<keys, entries, running, runs, unpumped>>
       ELSE Pump(s, [keys |-> keys[s] \cup ({t} \ running[s]), running |-> running[s]],
                 IF t \in keys[s] \cup running[s] THEN entries[s]
                 ELSE Append(entries[s], [task |-> t, due |-> timers[s][t]]), None)

\* runNow, which asks for no slot.
RunNow(s, t) ==
  /\ manuals < MaxManual /\ manuals' = manuals + 1
  /\ live[s] /\ tasks[s][t] # None
  /\ t \notin keys[s] \cup running[s]
  /\ running' = [running EXCEPT ![s] = @ \cup {t}]
  /\ runs' = [runs EXCEPT ![s][t] = Begun(TRUE, None, tasks[s][t])]
  /\ UNCHANGED <<clock, file, shown, live, tasks, listed, owed, timers, keys, entries,
                 lost, unpumped, lists, acts, faults, crashes, history>>

-----------------------------------------------------------------------------
(* The run (runTask).                                                      *)

InRun(s, t, pcs) == runs[s][t].pc \in pcs
RunKeeps == UNCHANGED <<clock, shown, live, listed, owed, lists, acts, manuals, crashes>>
Fault == faults < MaxFaults /\ faults' = faults + 1
NoFault == UNCHANGED faults

\* From here a run counts: "scheduledFor + 1".
From(s, t) == Later(clock, Due(runs[s][t].due))

\* Mutant: does not look at what was claimed.
CanClaimAgain(task, o) == task.enabled

\* canClaimOccurrence
CanClaim(task, o) == task.enabled /\ task.last # o

\* updateScheduledTaskStateIf
Claim(s, t) ==
  LET o == runs[s][t].due IN
  /\ InRun(s, t, {"claim"}) /\ file[t] # None
  /\ CanClaim(file[t], o)
  /\ file' = [file EXCEPT ![t] = [@ EXCEPT !.last = o, !.running = TRUE,
                !.next = NextRun(runs[s][t].task, From(s, t))]]
  /\ Remember(s, t, file'[t])
  /\ Goes(s, t, "session")
  /\ ran' = [ran EXCEPT ![t][o] = @ + 1]
  /\ late' = IF \E x \in Occurrence : x > o /\ ran[t][x] > 0 THEN late \cup {t} ELSE late
  /\ RunKeeps /\ NoFault /\ UNCHANGED <<timers, lost, rewound>>

ClaimLost(s, t) ==
  /\ InRun(s, t, {"claim"})
  /\ file[t] # None => ~CanClaim(file[t], runs[s][t].due)
  /\ Remember(s, t, file[t])
  /\ Arm(s, t, IF file[t] = None THEN None ELSE Following(file[t], From(s, t)))
  /\ Release(s, t)
  /\ RunKeeps /\ NoFault /\ UNCHANGED <<file, history>>

\* The write fails: the task is armed again and the failure recorded, best effort.
ClaimFails(s, t) ==
  /\ InRun(s, t, {"claim"}) /\ Fault
  /\ Arm(s, t, Following(Known(s, t), From(s, t)))
  /\ Goes(s, t, "unclaimed")
  /\ RunKeeps /\ UNCHANGED <<file, tasks, history>>

FailureRecorded(s, t) ==
  /\ InRun(s, t, {"unclaimed"})
  /\ file' = IF file[t] # None /\ file[t].last # runs[s][t].due
               THEN [file EXCEPT ![t] = [@ EXCEPT !.running = FALSE]] ELSE file
  /\ Remember(s, t, file'[t])
  /\ Release(s, t)
  /\ RunKeeps /\ NoFault /\ UNCHANGED <<timers, lost, history>>

FailureUnrecorded(s, t) ==
  /\ InRun(s, t, {"unclaimed"}) /\ Fault
  /\ Remember(s, t, [runs[s][t].task EXCEPT !.running = FALSE])
  /\ Release(s, t)
  /\ RunKeeps /\ UNCHANGED <<file, timers, lost, history>>

\* A run by hand claims nothing.
Start(s, t) ==
  /\ InRun(s, t, {"start"})
  /\ file' = IF file[t] = None THEN file ELSE [file EXCEPT ![t] = [@ EXCEPT !.running = TRUE]]
  /\ Remember(s, t, file'[t])
  /\ Goes(s, t, "session")
  /\ RunKeeps /\ NoFault /\ UNCHANGED <<timers, lost, history>>

\* An occurrence that fell due meanwhile was dropped, and nothing arms the next.
StartFails(s, t) ==
  /\ InRun(s, t, {"start"}) /\ Fault
  /\ lost' = IF timers[s][t] = None THEN [lost EXCEPT ![s] = @ \cup {t}] ELSE lost
  /\ Release(s, t)
  /\ RunKeeps /\ UNCHANGED <<file, tasks, timers, history>>

\* recordCreatedSession
SessionOpened(s, t) ==
  /\ InRun(s, t, {"session"}) /\ file[t] # None /\ tasks[s][t] # file[t]
  /\ Remember(s, t, file[t])
  /\ RunKeeps /\ NoFault
  /\ UNCHANGED <<file, timers, lost, keys, entries, running, runs, unpumped, history>>

\* A copy replaces the stored task, its state included.
Rewind(t, copy) ==
  rewound' = IF file[t] = None THEN rewound \cup {t}
             ELSE IF file[t].last = copy.last /\ file[t].running = copy.running
               THEN rewound ELSE rewound \cup {t}

\* The session got its prompt, failed or timed out, and the task is done for good:
\* the server's copy replaces whatever is in the file.
Consumes(s, t) ==
  /\ InRun(s, t, {"session"}) /\ ~runs[s][t].manual
  /\ Known(s, t).kind = "once" /\ Known(s, t).enabled

Consume(s, t) ==
  /\ Consumes(s, t)
  /\ file' = [file EXCEPT ![t] = [Known(s, t) EXCEPT !.enabled = FALSE]]
  /\ Rewind(t, Known(s, t))
  /\ Remember(s, t, file'[t])
  /\ Goes(s, t, "complete")
  /\ RunKeeps /\ NoFault /\ UNCHANGED <<timers, lost, ran, late>>

ConsumeFails(s, t) ==
  /\ Consumes(s, t) /\ Fault
  /\ Goes(s, t, "complete")
  /\ RunKeeps /\ UNCHANGED <<file, tasks, timers, lost, history>>

\* The run is over, in memory and in the file.
Completed(s, t, task) ==
  [task EXCEPT !.running = FALSE, !.next = NextRun(Known(s, t), clock)]

Complete(s, t) ==
  /\ InRun(s, t, {"complete", "retry"}) \/ (InRun(s, t, {"session"}) /\ ~Consumes(s, t))
  /\ file' = IF file[t] = None THEN file ELSE [file EXCEPT ![t] = Completed(s, t, file[t])]
  /\ Remember(s, t, file'[t])
  /\ Arm(s, t, IF file'[t] = None THEN None
               ELSE IF file'[t].enabled THEN file'[t].next ELSE None)
  /\ Release(s, t)
  /\ RunKeeps /\ NoFault /\ UNCHANGED history

\* Mutant: tried once.
CompleteFailsForGood(s, t) ==
  /\ InRun(s, t, {"complete"}) \/ (InRun(s, t, {"session"}) /\ ~Consumes(s, t))
  /\ Fault
  /\ Remember(s, t, Completed(s, t, Known(s, t)))
  /\ Arm(s, t, Following(Known(s, t), clock))
  /\ Release(s, t)
  /\ RunKeeps /\ UNCHANGED <<file, history>>

CompleteFails(s, t) ==
  /\ InRun(s, t, {"complete"}) \/ (InRun(s, t, {"session"}) /\ ~Consumes(s, t))
  /\ Fault
  /\ Remember(s, t, Completed(s, t, Known(s, t)))
  /\ Goes(s, t, "retry")
  /\ RunKeeps /\ UNCHANGED <<file, timers, lost, history>>

RetryFails(s, t) ==
  /\ InRun(s, t, {"retry"}) /\ Fault
  /\ Arm(s, t, Following(Known(s, t), clock))
  /\ UNCHANGED <<file, tasks, history>>
  /\ Release(s, t)
  /\ RunKeeps

-----------------------------------------------------------------------------
(* Syncs (syncProject), people and restarts.                               *)

Outside == UNCHANGED <<running, runs, entries, unpumped, manuals>>

\* The list is read, and every timer and key goes; what waits in the queue stays.
SyncBegins(s) ==
  /\ live[s] /\ listed[s] = NoTasks
  /\ \/ owed[s] /\ UNCHANGED lists
     \/ ~owed[s] /\ lists < MaxLists /\ lists' = lists + 1
  /\ owed' = [owed EXCEPT ![s] = FALSE]
  /\ tasks' = [tasks EXCEPT ![s] = file]
  /\ listed' = [listed EXCEPT ![s] = file]
  /\ timers' = [timers EXCEPT ![s] = NoTasks]
  /\ keys' = [keys EXCEPT ![s] = {}]
  /\ shown' = file
  /\ Outside /\ UNCHANGED <<clock, file, live, lost, acts, faults, crashes, history>>

\* syncTaskSchedule
SyncTask(s, t) ==
  /\ listed[s][t] # None
  /\ listed' = [listed EXCEPT ![s][t] = None]
  /\ file' = IF file[t] = None THEN file
             ELSE [file EXCEPT ![t].next = NextRun(listed[s][t], clock)]
  /\ Remember(s, t, file'[t])
  /\ Arm(s, t, IF file'[t] = None THEN None
               ELSE IF file'[t].enabled THEN file'[t].next ELSE None)
  /\ Outside /\ UNCHANGED <<clock, shown, live, owed, keys, lists, acts, faults, crashes,
                            history>>

\* A write of the sync fails and the rest of it does not happen.
SyncFails(s) ==
  /\ listed[s] # NoTasks /\ Fault
  /\ listed' = [listed EXCEPT ![s] = NoTasks]
  /\ lost' = [lost EXCEPT ![s] = @ \cup {t \in Task : listed[s][t] # None /\ timers[s][t] = None}]
  /\ Outside /\ UNCHANGED <<clock, file, shown, live, tasks, owed, timers, keys, lists, acts,
                            crashes, history>>

Act(s) ==
  /\ acts < MaxActs /\ acts' = acts + 1
  /\ live[s] /\ owed' = [owed EXCEPT ![s] = TRUE]
  /\ Outside /\ UNCHANGED <<clock, shown, live, tasks, listed, timers, keys, lost, lists,
                            faults, crashes, ran, late>>

\* People pause or resume a task or give it another date; what they save is the task
\* as they were shown it, its state included.
Save(s, t) ==
  /\ Act(s) /\ shown[t] # None
  /\ \E enabled \in BOOLEAN, o \in Occurrence :
       /\ <<enabled, o>> # <<shown[t].enabled, shown[t].due>>
       /\ o # shown[t].due => shown[t].kind = "once" /\ Due(o) > clock + 1
       /\ file' = [file EXCEPT ![t] = [shown[t] EXCEPT !.enabled = enabled, !.due = o]]
  /\ Rewind(t, shown[t])

Delete(s, t) ==
  /\ Act(s) /\ file[t] # None
  /\ file' = [file EXCEPT ![t] = None]
  /\ UNCHANGED rewound

Boot(s) ==
  /\ ~live[s]
  /\ live' = [live EXCEPT ![s] = TRUE]
  /\ owed' = [owed EXCEPT ![s] = TRUE]
  /\ UNCHANGED <<clock, file, shown, tasks, listed, timers, keys, entries, running, runs,
                 lost, unpumped, bounds, history>>

Crash(s) ==
  /\ live[s] /\ crashes < MaxCrashes /\ crashes' = crashes + 1
  /\ live' = [live EXCEPT ![s] = FALSE] /\ owed' = [owed EXCEPT ![s] = FALSE]
  /\ tasks' = [tasks EXCEPT ![s] = NoTasks]
  /\ listed' = [listed EXCEPT ![s] = NoTasks]
  /\ timers' = [timers EXCEPT ![s] = NoTasks]
  /\ keys' = [keys EXCEPT ![s] = {}] /\ running' = [running EXCEPT ![s] = {}]
  /\ entries' = [entries EXCEPT ![s] = <<>>]
  /\ runs' = [runs EXCEPT ![s] = [t \in Task |-> NoRun]]
  /\ lost' = [lost EXCEPT ![s] = {}] /\ unpumped' = [unpumped EXCEPT ![s] = FALSE]
  /\ UNCHANGED <<clock, file, shown, lists, acts, manuals, faults, history>>

\* Runs wait only for sessions and slots; before tick 2n - 1 timers and syncs are done.
Tick ==
  /\ clock < MaxClock /\ clock' = clock + 1
  /\ \A s \in Server, t \in Task : InRun(s, t, {"idle", "session"})
  /\ clock % 2 = 0 =>
       \A s \in Server :
         /\ listed[s] = NoTasks /\ ~owed[s]
         /\ \A t \in Task : timers[s][t] # None => Due(timers[s][t]) > clock
  /\ UNCHANGED <<file, shown, server, bounds, history>>

-----------------------------------------------------------------------------
Running(s, t) ==
  \/ Claim(s, t) \/ ClaimLost(s, t) \/ ClaimFails(s, t)
  \/ FailureRecorded(s, t) \/ FailureUnrecorded(s, t)
  \/ Start(s, t) \/ StartFails(s, t)
  \/ SessionOpened(s, t) \/ Consume(s, t) \/ ConsumeFails(s, t)
  \/ Complete(s, t) \/ CompleteFails(s, t) \/ RetryFails(s, t)

Next ==
  \/ \E s \in Server :
       \/ SyncBegins(s) \/ SyncFails(s) \/ Boot(s) \/ Crash(s)
       \/ \E t \in Task :
            TimerFires(s, t) \/ RunNow(s, t) \/ Running(s, t) \/ SyncTask(s, t)
            \/ Save(s, t) \/ Delete(s, t)
  \/ Tick

Spec == Init /\ [][Next]_vars

-----------------------------------------------------------------------------
(* Properties.                                                             *)

\* However many servers share the file, an occurrence is run once: syncs, restarts,
\* runs by hand and writes that fail do not make it run twice.  Only a run that waited
\* for a slot until another server had claimed a later occurrence does (the claim
\* looks at the last one claimed), and a task whose stored state was replaced by an
\* older copy, the one people were shown or the one a server kept.
ClaimedOnce ==
  \A t \in Task \ (late \cup rewound), o \in Occurrence : ran[t][o] <= 1

\* A server that is up has, for every enabled task with an occurrence to come, something
\* under way that leads to it: a timer, a run, an entry, a sync.  Failed writes of a sync
\* and of the start of a run by hand are the exceptions, not those of a claim or of the
\* end of a run.  Once people have changed tasks, which the server they did it on learns
\* and the others do not, at least one server has, if it is not down for a restart; two
\* writes that fail may leave that one with the task as it was before the change.
ToCome(t) == file[t] # None /\ NextRun(file[t], clock) # None

Coming(s, t) ==
  /\ live[s]
  /\ \/ timers[s][t] # None \/ t \in running[s] \cup keys[s]
     \/ listed[s][t] # None \/ owed[s] \/ t \in lost[s]

Down(s) == crashes > 0 /\ ~live[s]

Armed ==
  \A s \in Server, t \in Task :
    (live[s] /\ ToCome(t)) =>
      \/ Coming(s, t)
      \/ acts > 0 /\ (faults > 1 \/ \E x \in Server : Coming(x, t) \/ Down(x))

\* A run waits in the queue only while the slots are taken by runs under way, or
\* since a run by hand ended, which does not look at the queue.
Served ==
  \A s \in Server :
    entries[s] # <<>> =>
      \/ Cardinality({t \in Task : runs[s][t].pc # "idle"}) >= Limit
      \/ unpumped[s]

\* A task is not shown as running when no server runs it, after a single write that
\* failed either; restarts and people who save the state they were shown apart.
ShownRunning ==
  \A t \in Task \ rewound :
    (crashes = 0 /\ faults <= 1 /\ file[t] # None) =>
      (file[t].running => \E s \in Server : runs[s][t].pc # "idle")
=============================================================================
