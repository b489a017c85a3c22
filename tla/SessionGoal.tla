---------------------------- MODULE SessionGoal ----------------------------
(***************************************************************************)
(* The loop that keeps a session working on its goal                      *)
(* (session-goal/runtime.js): when the session falls idle a timer starts a *)
(* tick, which judges the last turn and settles the goal or sends the      *)
(* session on.  A tick awaits OpenCode, the store of the goal and a model  *)
(* eight times; people, the session and its events go on meanwhile.        *)
(*                                                                         *)
(* Tokens are abstracted to whether the goal's budget is used up, and the  *)
(* length of a timer to the fact that it fires some time.                  *)
(***************************************************************************)
EXTENDS Naturals, Sequences

CONSTANTS
  None,
  Limit,        \* getMaxAutoTurns
  MaxPrompts,   \* bound on prompts of people and returns of subagents
  MaxActs,      \* bound on what people do with the goal, stops included
  MaxUnheard,   \* bound on events under way
  MaxFaults,    \* bound on requests that fail
  MaxCrashes    \* bound on restarts

Status == {"active", "paused", "blocked", "budgetLimited", "complete"}
Goal   == [id : Nat, status : Status, turns : 0..Limit, streak : 0..1, resumed : BOOLEAN]

ASSUME GoalAssumption ==
  /\ None \notin Goal /\ Limit \in Nat \ {0}
  /\ MaxPrompts \in Nat /\ MaxActs \in Nat
  /\ MaxUnheard \in Nat /\ MaxFaults \in Nat /\ MaxCrashes \in Nat

VARIABLES
  goal,      \* metadata.taskhunter.goal, in the store
  session,   \* the session as OpenCode has it
  events,    \* what the hub has still to deliver
  timer,     \* timers has the session
  tick,      \* the tick, or the pause after an abort, that is in flight
  prompts, acts, faults, crashes, \* what has been spent of the bounds
  sent,      \* history: continuations sent since the goal was set or resumed
  blind,     \* history: how many, since the last check or deed of people, after one failed
  former,    \* history: people gave it new turns after the tick had counted its own
  late,      \* history: a message came after the tick's last look at them
  stopped,   \* history: a person has stopped the goal, with no tick in flight
  missed     \* history: nothing looks at the goal, for a reason listed at Watched

bounds  == <<prompts, acts, faults, crashes>>
history == <<sent, blind, former, late, stopped, missed>>
vars    == <<goal, session, events, timer, tick, bounds, history>>

\* How the last message of the session looks to toLoopMessage.
Outcome == {"none", "prompt", "done", "error", "aborted", "length", "summary"}

\* A tick awaits, in this order, the goal, what runs, the messages, the check, the goal
\* again, its write, the messages again and the prompt; a pause begins at "pause".
Awaits == {"nothing", "goal", "activity", "messages", "check", "read", "write",
           "tail", "prompt", "pause"}
Verdict == (Status \ {"active"}) \cup {"continue"}

TickState == [pc : Awaits, of : Goal \cup {None}, moved : BOOLEAN, verdict : Verdict,
              streak : 0..1, copy : Goal \cup {None}]

NoTick == [pc |-> "nothing", of |-> None, moved |-> FALSE, verdict |-> "continue",
           streak |-> 0, copy |-> None]

TypeOK ==
  /\ goal \in Goal \cup {None}
  /\ session \in [running : BOOLEAN, children : BOOLEAN, last : Outcome,
                  cut : 0..2, over : BOOLEAN]
  /\ events \in Seq({"busy", "idle", "aborted"})
  /\ timer \in BOOLEAN
  /\ tick \in TickState
  /\ prompts \in Nat /\ acts \in Nat /\ faults \in Nat /\ crashes \in Nat
  /\ sent \in 0..(Limit + 1) /\ blind \in 0..2
  /\ former \in BOOLEAN /\ late \in BOOLEAN /\ stopped \in BOOLEAN /\ missed \in BOOLEAN

Init ==
  /\ goal = None
  /\ session \in [running : {FALSE}, children : {FALSE}, last : {"none", "done"},
                  cut : {0}, over : {FALSE}]
  /\ events = <<>> /\ timer = FALSE /\ tick = NoTick
  /\ prompts = 0 /\ acts = 0 /\ faults = 0 /\ crashes = 0
  /\ sent = 0 /\ blind = 0 /\ former = FALSE /\ late = FALSE /\ stopped = FALSE /\ missed = FALSE

Active == IF goal = None THEN FALSE ELSE goal.status = "active"
InFlight == tick.pc # "nothing"

Fault == faults < MaxFaults /\ faults' = faults + 1 /\ UNCHANGED <<prompts, acts, crashes>>
NoFault == UNCHANGED bounds

\* OpenCode puts the session to work on a prompt.
Works(s) ==
  /\ session' = [s EXCEPT !.running = TRUE, !.last = "prompt"]
  /\ events' = IF s.running THEN events ELSE Append(events, "busy")

-----------------------------------------------------------------------------
(* Timers and events.                                                      *)

\* notifyGoalChanged, which every write of the goal calls; inFlight: a tick or a pause
\* is still under way.
Notify(inFlight) ==
  IF ~Active' THEN timer' = FALSE /\ UNCHANGED missed
  ELSE IF goal'.turns # 0 /\ ~goal'.resumed
         THEN UNCHANGED timer /\ missed' = (missed \/ ~Active)
  ELSE /\ timer' = (timer \/ ~inFlight)
       /\ missed' = (IF timer \/ ~inFlight THEN FALSE ELSE TRUE)

HearKeeps == UNCHANGED <<goal, session, bounds, sent, blind, former, late>>

HearIdle ==
  /\ events # <<>> /\ Head(events) = "idle" /\ events' = Tail(events)
  /\ timer' = TRUE /\ missed' = FALSE
  /\ HearKeeps /\ UNCHANGED <<tick, stopped>>

HearBusy ==
  /\ events # <<>> /\ Head(events) = "busy" /\ events' = Tail(events)
  /\ timer' = FALSE
  /\ HearKeeps /\ UNCHANGED <<tick, stopped, missed>>

\* Mutant: leaves the pause to the next tick.
HearAbortedLater ==
  /\ events # <<>> /\ Head(events) = "aborted" /\ events' = Tail(events)
  /\ timer' = FALSE /\ stopped' = (stopped \/ (Active /\ ~InFlight))
  /\ HearKeeps /\ UNCHANGED <<tick, missed>>

\* An abort is idle and aborted at once; with a tick in flight nothing pauses the goal.
HearAborted ==
  /\ events # <<>> /\ Head(events) = "aborted" /\ events' = Tail(events)
  /\ timer' = FALSE
  /\ tick' = IF InFlight THEN tick ELSE [NoTick EXCEPT !.pc = "pause"]
  /\ stopped' = (stopped \/ (Active /\ ~InFlight))
  /\ missed' = (missed \/ InFlight)
  /\ HearKeeps

\* session.updated, which tells of a new goal too.
HearUpdated ==
  /\ ~timer /\ ~InFlight
  /\ Active /\ (goal.turns = 0 \/ goal.resumed)
  /\ timer' = TRUE /\ missed' = FALSE
  /\ HearKeeps /\ UNCHANGED <<events, tick, stopped>>

\* armTimer: a timer that fires while something is in flight is gone.
TimerFires ==
  /\ timer /\ timer' = FALSE
  /\ IF InFlight THEN UNCHANGED <<tick, late>> /\ missed' = TRUE
     ELSE tick' = [NoTick EXCEPT !.pc = "goal"] /\ late' = FALSE /\ UNCHANGED missed
  /\ UNCHANGED <<goal, session, events, bounds, sent, blind, former, stopped>>

-----------------------------------------------------------------------------
(* The tick.                                                               *)

Awaiting(pc) == tick.pc = pc
Outside == UNCHANGED <<session, events>>
Judges  == Outside /\ UNCHANGED <<goal, sent, blind, former, stopped>>

Ends == tick' = NoTick /\ Judges /\ UNCHANGED <<timer, late>>

\* A pause that is cut short is not done again.
LosesPause == stopped' = (stopped /\ tick.pc # "pause" /\ tick.verdict # "paused")

\* A request fails and nothing is armed.
Breaks ==
  /\ tick.pc \in {"goal", "messages", "read", "write", "tail", "prompt", "pause"}
  /\ Fault /\ missed' = TRUE /\ tick' = NoTick
  /\ LosesPause
  /\ Outside /\ UNCHANGED <<goal, timer, sent, blind, former, late>>

ReadsGoal ==
  /\ Awaiting("goal") /\ Active
  /\ tick' = [tick EXCEPT !.pc = "activity", !.of = goal]
  /\ Judges /\ NoFault /\ UNCHANGED <<timer, late, missed>>

NoGoal ==
  /\ Awaiting("goal") /\ ~Active
  /\ Ends /\ NoFault /\ UNCHANGED missed

\* Nothing runs, and no subagent does.
Quiet ==
  /\ Awaiting("activity") /\ ~session.running /\ ~session.children
  /\ tick' = [tick EXCEPT !.pc = "messages"]
  /\ Judges /\ NoFault /\ UNCHANGED <<timer, late, missed>>

Runs ==
  /\ Awaiting("activity") /\ session.running
  /\ Ends /\ NoFault /\ UNCHANGED missed

\* Mutant: leaves it to the parent's next idle event.
SubagentsGoOn ==
  /\ Awaiting("activity") /\ ~session.running /\ session.children
  /\ NoFault /\ Ends /\ UNCHANGED missed

\* A subagent works, or nobody can tell: another quiet window.
SubagentsWork ==
  /\ Awaiting("activity")
  /\ \/ ~session.running /\ session.children /\ NoFault
     \/ Fault
  /\ tick' = NoTick /\ timer' = TRUE /\ missed' = FALSE
  /\ Judges /\ UNCHANGED late

\* The terminal conditions, cheapest first.
Stop ==
  IF session.last = "aborted" /\ ~tick.of.resumed THEN "paused"
  ELSE IF session.last = "error" THEN "blocked"
  ELSE IF session.over THEN "budgetLimited"
  ELSE IF tick.of.turns >= Limit THEN "blocked"
  ELSE IF session.last = "length" /\ ~tick.of.resumed /\ session.cut = 2 THEN "blocked"
  ELSE "continue"

\* The last message is a prompt: somebody has put the session to work.
Prompted ==
  /\ Awaiting("messages") /\ (session.last \in {"none", "prompt"})
  /\ Ends /\ NoFault /\ UNCHANGED missed

LoadsMessages ==
  /\ Awaiting("messages") /\ session.last \notin {"none", "prompt"}
  /\ tick' = [tick EXCEPT !.pc = IF Stop = "continue" /\ session.last = "done"
                                   THEN "check" ELSE "read",
                          !.moved = FALSE, !.verdict = Stop,
                          !.streak = tick.of.streak]
  /\ Judges /\ NoFault /\ UNCHANGED <<timer, late, missed>>

\* runAudit
Checked ==
  /\ Awaiting("check")
  /\ \E verdict \in {"complete", "blocked", "continue"} :
       tick' = [tick EXCEPT !.pc = "read", !.verdict = verdict, !.streak = 0]
  /\ blind' = 0
  /\ Outside /\ NoFault
  /\ UNCHANGED <<goal, timer, sent, former, late, stopped, missed>>

\* No check could run: once is no reason to stop.
Unchecked ==
  /\ Awaiting("check") /\ Fault
  /\ tick' = [tick EXCEPT !.pc = "read",
                !.verdict = IF tick.of.streak = 1 THEN "blocked" ELSE "continue",
                !.streak = 1]
  /\ Judges /\ UNCHANGED <<timer, late, missed>>

\* Mutant: does not look whose goal it is.
ReadsAnyGoal ==
  /\ Awaiting("read") /\ goal # None
  /\ tick' = [tick EXCEPT !.pc = "write", !.copy = goal]
  /\ Judges /\ NoFault /\ UNCHANGED <<timer, late, missed>>

\* writeGoal reads the goal again and looks at its id.
ReadsAgain ==
  /\ Awaiting("read") /\ goal # None /\ goal.id = tick.of.id
  /\ tick' = [tick EXCEPT !.pc = "write", !.copy = goal]
  /\ Judges /\ NoFault /\ UNCHANGED <<timer, late, missed>>

GoalChanged ==
  /\ Awaiting("read") /\ (goal # None => goal.id # tick.of.id)
  /\ Ends /\ NoFault /\ UNCHANGED missed

Settled ==
  [tick.copy EXCEPT !.status = tick.verdict, !.resumed = FALSE,
                    !.streak = IF tick.verdict = "paused" THEN @ ELSE 0]

\* What is written is the copy, whatever was stored since; the status a continuation
\* writes is the one it read.
Settles ==
  /\ Awaiting("write") /\ tick.verdict # "continue"
  /\ goal' = Settled
  /\ tick' = NoTick /\ Notify(TRUE)
  /\ Outside /\ NoFault /\ UNCHANGED <<sent, blind, former, late, stopped>>

\* Mutant: the turn is not counted.
ContinuedUncounted ==
  [tick.copy EXCEPT !.streak = tick.streak, !.resumed = FALSE]

\* Mutant: the checks that failed are not counted.
ContinuedForgetful ==
  [tick.copy EXCEPT !.turns = @ + 1, !.resumed = FALSE]

Continued ==
  [tick.copy EXCEPT !.turns = @ + 1, !.streak = tick.streak, !.resumed = FALSE]

WritesTurn ==
  /\ Awaiting("write") /\ tick.verdict = "continue"
  /\ goal' = Continued
  /\ tick' = [tick EXCEPT !.pc = "tail"] /\ Notify(TRUE) /\ former' = FALSE
  /\ Outside /\ NoFault /\ UNCHANGED <<sent, blind, late, stopped>>

\* Mutant: the messages are not read again.
TailNotRead ==
  /\ Awaiting("tail")
  /\ tick' = [tick EXCEPT !.pc = "prompt"]
  /\ Judges /\ NoFault /\ UNCHANGED <<timer, late, missed>>

TailStands ==
  /\ Awaiting("tail") /\ ~tick.moved
  /\ tick' = [tick EXCEPT !.pc = "prompt"]
  /\ Judges /\ NoFault /\ UNCHANGED <<timer, late, missed>>

TailMoved ==
  /\ Awaiting("tail") /\ tick.moved
  /\ Ends /\ NoFault /\ UNCHANGED missed

\* sendContinuation; when the answer is lost the session works all the same.
Continues ==
  /\ Awaiting("prompt") /\ (NoFault \/ Fault)
  /\ Len(events) < MaxUnheard
  /\ Works(session) /\ tick' = NoTick
  /\ sent' = IF sent > Limit \/ former THEN sent ELSE sent + 1
  /\ blind' = IF ~former /\ tick.streak > tick.of.streak /\ blind < 2 THEN blind + 1 ELSE blind
  /\ UNCHANGED <<goal, timer, former, late, stopped, missed>>

\* pauseAfterAbort
PausesAfterAbort ==
  /\ Awaiting("pause") /\ Active
  /\ tick' = [tick EXCEPT !.pc = "read", !.of = goal, !.verdict = "paused"]
  /\ Judges /\ NoFault /\ UNCHANGED <<timer, late, missed>>

NothingToPause ==
  /\ Awaiting("pause") /\ ~Active
  /\ Ends /\ NoFault /\ UNCHANGED missed

-----------------------------------------------------------------------------
(* The session, people and restarts.                                       *)

\* A message: the tick's last look at them is out of date.
Arrives ==
  /\ tick' = IF InFlight THEN [tick EXCEPT !.moved = TRUE] ELSE tick
  /\ late' = (late \/ Awaiting("prompt"))

SessionKeeps == UNCHANGED <<goal, timer, faults, crashes, sent, blind, former, missed>>

\* A person, or the message queue, prompts the session.
Prompts ==
  /\ prompts < MaxPrompts /\ prompts' = prompts + 1
  /\ Len(events) < MaxUnheard
  /\ Works(session) /\ Arrives
  /\ SessionKeeps /\ UNCHANGED <<acts, stopped>>

\* A subagent ends; its result puts the parent to work, and if OpenCode misses to do
\* that, it does not.
SubagentReturns ==
  /\ session.children /\ Len(events) < MaxUnheard
  /\ \/ Works([session EXCEPT !.children = FALSE]) /\ Arrives
     \/ session' = [session EXCEPT !.children = FALSE] /\ UNCHANGED <<events, tick, late>>
  /\ SessionKeeps /\ UNCHANGED <<prompts, acts, stopped>>

\* hasRepeatedLengthTail counts the turns cut off in a row, past summaries.
Cut(last) ==
  IF last = "summary" THEN session.cut
  ELSE IF last = "length" THEN (IF session.cut = 2 THEN 2 ELSE session.cut + 1)
  ELSE 0

TurnEnds ==
  /\ session.running /\ Len(events) < MaxUnheard
  /\ \E last \in {"done", "error", "length", "summary"}, over \in BOOLEAN, child \in BOOLEAN :
       /\ session.over => over
       /\ child => prompts < MaxPrompts
       /\ prompts' = IF child THEN prompts + 1 ELSE prompts
       /\ session' = [running |-> FALSE, children |-> session.children \/ child,
                      last |-> last, over |-> over,
                      cut |-> Cut(last)]
  /\ events' = Append(events, "idle") /\ Arrives
  /\ SessionKeeps /\ UNCHANGED <<acts, stopped>>

Acts == acts < MaxActs /\ acts' = acts + 1 /\ UNCHANGED <<prompts, faults, crashes>>

Aborts ==
  /\ Acts /\ session.running /\ Len(events) < MaxUnheard
  /\ \E last \in {"aborted", "error"} :
       session' = [session EXCEPT !.running = FALSE, !.last = last, !.cut = 0]
  /\ events' = Append(events, "aborted") /\ Arrives
  /\ UNCHANGED <<goal, timer, sent, blind, former, stopped, missed>>

Grants == former' = (tick.pc \in {"tail", "prompt"})

\* createSessionGoal and setSessionGoal: a new goal, whatever was there.
SetGoal ==
  /\ Acts
  /\ goal' = [id |-> acts', status |-> "active", turns |-> 0, streak |-> 0, resumed |-> FALSE]
  /\ session' = [session EXCEPT !.cut = 0, !.over = FALSE]
  /\ sent' = 0 /\ blind' = 0 /\ stopped' = FALSE /\ Grants
  /\ Notify(InFlight) /\ UNCHANGED <<events, tick, late>>

\* setSessionGoal for a goal that is there: what it has used stays, but for the budget.
EditGoal ==
  /\ Acts /\ goal # None /\ goal.status # "complete"
  /\ goal' = [goal EXCEPT !.status = "active", !.resumed = TRUE]
  /\ \E over \in {session.over, FALSE} : session' = [session EXCEPT !.over = over]
  /\ blind' = 0 /\ stopped' = FALSE
  /\ Notify(InFlight) /\ UNCHANGED <<events, tick, sent, former, late>>

\* setSessionGoalStatus: a resumed goal may take all its turns again.
Resume ==
  /\ Acts /\ goal # None /\ ~Active
  /\ goal' = [goal EXCEPT !.status = "active", !.resumed = TRUE, !.turns = 0]
  /\ sent' = 0 /\ blind' = 0 /\ stopped' = FALSE /\ Grants
  /\ Notify(InFlight) /\ UNCHANGED <<session, events, tick, late>>

\* Pausing aborts the turn that runs: that is Aborts.
StopGoal ==
  /\ Acts /\ Active
  /\ \/ \E status \in {"paused", "complete"} :
          goal' = [goal EXCEPT !.status = status, !.resumed = FALSE]
     \/ goal' = None
  /\ stopped' = ~InFlight
  /\ Notify(InFlight) /\ UNCHANGED <<session, events, tick, sent, blind, former, late>>

\* The hub loses its connection and what was under way.
LosesEvents ==
  /\ events # <<>> /\ Fault
  /\ events' = <<>> /\ missed' = TRUE
  /\ UNCHANGED <<goal, session, timer, tick, sent, blind, former, late, stopped>>

Crash ==
  /\ crashes < MaxCrashes /\ crashes' = crashes + 1
  /\ events' = <<>> /\ timer' = FALSE /\ tick' = NoTick /\ missed' = TRUE
  /\ LosesPause /\ UNCHANGED <<goal, session, prompts, acts, faults, sent, blind, former, late>>

-----------------------------------------------------------------------------
Hearing == HearIdle \/ HearBusy \/ HearAborted

Ticking ==
  \/ ReadsGoal \/ NoGoal \/ Quiet \/ Runs \/ SubagentsWork
  \/ Prompted \/ LoadsMessages \/ Checked \/ Unchecked
  \/ ReadsAgain \/ GoalChanged \/ Settles \/ WritesTurn
  \/ TailStands \/ TailMoved \/ Continues
  \/ PausesAfterAbort \/ NothingToPause \/ Breaks

People == Prompts \/ Aborts \/ SetGoal \/ EditGoal \/ Resume \/ StopGoal

Next ==
  \/ Hearing \/ HearUpdated \/ TimerFires \/ Ticking
  \/ TurnEnds \/ SubagentReturns \/ People \/ LosesEvents \/ Crash

Spec == Init /\ [][Next]_vars

\* Timers fire, requests are answered or time out, the hub delivers, turns and
\* subagents end.
Fairness ==
  /\ WF_vars(Hearing) /\ WF_vars(TimerFires) /\ WF_vars(Ticking)
  /\ WF_vars(TurnEnds) /\ WF_vars(SubagentReturns)

FairSpec == Spec /\ Fairness

-----------------------------------------------------------------------------
(* Properties.                                                             *)

\* The loop sends a session on at most as often as the settings allow since its goal
\* was set or resumed, whatever requests fail and whoever writes the goal meanwhile.
Capped == sent <= Limit

\* A check that cannot run costs at most one continuation: the next one that fails
\* stops the goal, also when turns without a check (a length cutoff, a summary) or a
\* restart lie between them, and people have not taken up the goal again.
NeverBlind == blind <= 1

\* A continuation goes to a session that has done nothing since the turn that was
\* judged, unless a message comes between the last look and the prompt itself.
NotIntoATurn ==
  [][sent' > sent => (~session.running /\ ~tick.moved) \/ late]_vars

\* What a tick, or the pause after an abort, writes falls neither on another goal than
\* the one it has judged nor on none, and does not make a stopped goal active, unless
\* the goal was stored anew after the write's own reading of it.  DOCUMENTATION.md has
\* no such exception ("every runtime write re-reads the session and drops the write
\* when the stored goal id no longer matches"), but writeGoal awaits persistSessionGoal,
\* and a goal that is set in this window is erased, one that is cleared comes back.
OwnGoal ==
  [][acts' = acts /\ goal' # goal =>
       /\ goal'.id = tick.of.id
       /\ \/ /\ goal # None /\ goal.id = tick.of.id
             /\ goal'.status = "active" => goal.status = "active"
          \/ tick.pc = "write" /\ goal # tick.copy]_vars

\* Once a person has stopped the goal while no tick was in flight (paused, completed or
\* cleared it, or aborted its turn), nothing is sent until a person resumes, edits or
\* sets it; unless it is the pause after an abort, and that fails or is cut short.
StopHolds == [][sent' > sent => ~stopped]_vars

\* An active goal whose session rests has something coming that looks at it: a timer, a
\* tick, an event.  What the loop misses: its timer fires, its goal is set or resumed or
\* its turn aborted while a tick is in flight; a tick writes back, active, a goal that
\* was stopped since it was read; a request other than those about activity and checks
\* fails; events are lost; the server restarts.
Watched ==
  Active /\ ~session.running /\ session.last # "none"
    => timer \/ InFlight \/ events # <<>> \/ missed

\* When people leave a goal alone, it does not stay active, unless the loop has
\* missed it or the session was never prompted.
GoalEnds == <>[](~Active \/ missed \/ session.last = "none")
=============================================================================
