------------------------- MODULE SessionGoalProofs -------------------------
(***************************************************************************)
(* Proofs about SessionGoal.                                               *)
(*                                                                         *)
(* A tick awaits between reading the goal and writing it, so each promise  *)
(* of the loop rests on what the tick still holds being worth something:   *)
(* the invariant says, await by await, what the tick knows of the goal and *)
(* the session that others write meanwhile.  Its parts are independent but *)
(* for Carries and Rested, and each is shown to last by a lemma of its own *)
(* with one case per action.                                               *)
(***************************************************************************)
EXTENDS SessionGoal, TLAPS

\* From its reading of the goal until the write.
Judging == {"activity", "messages", "check", "read", "write"}
Sending == {"tail", "prompt"}

\* What a tick carries is about the goal it has read.
Carries ==
  /\ tick.pc \in Judging \cup Sending => tick.of \in Goal
  /\ tick.pc = "write" => tick.copy \in Goal /\ tick.copy.id = tick.of.id
  /\ tick.pc \in Sending \cup {"check"} => tick.verdict = "continue"

\* While a tick judges, nobody adds to the turns it has seen, and it goes on only
\* below the cap.
BelowCap ==
  /\ tick.pc \in Judging /\ goal # None => goal.turns <= tick.of.turns
  /\ tick.pc = "write" => tick.copy.turns <= tick.of.turns
  /\ tick.pc \in {"check", "read", "write"} /\ tick.verdict = "continue"
       => tick.of.turns < Limit

\* A turn is counted in the goal before it is sent.
Counted ==
  /\ sent <= Limit
  /\ goal # None => sent <= goal.turns
  /\ tick.pc = "write" => sent <= tick.copy.turns
  /\ tick.pc \in Sending /\ ~former
       => sent < Limit /\ (goal # None => sent < goal.turns)

\* An unchecked turn that was sent stands in the streak of the goal and of the tick.
Recorded ==
  /\ blind <= 1
  /\ blind = 1 =>
       /\ Active => goal.streak = 1
       /\ tick.pc \in Judging => tick.of.streak = 1
       /\ tick.pc \in {"check", "read", "write"} /\ tick.verdict = "continue"
            => tick.streak = 1
  /\ tick.pc \in Sending /\ ~former /\ tick.streak > tick.of.streak
       => blind = 0 /\ (goal # None => goal.streak = 1)

\* A stopped goal is settled, or the pause that settles it is under way.
Halted ==
  stopped =>
    \/ tick.pc \in {"nothing", "goal"} /\ ~Active
    \/ tick.pc = "pause"
    \/ /\ tick.pc \in {"read", "write"} /\ tick.verdict = "paused"
       /\ tick.pc = "read" /\ goal # None => goal.id = tick.of.id

\* A session that works was prompted, and a tick that has seen it rest is told.
Rested ==
  /\ session.running <=> session.last = "prompt"
  /\ tick.pc \in {"check", "read", "write", "tail"} /\ tick.verdict = "continue"
       /\ session.running => tick.moved
  /\ tick.pc = "prompt" /\ (session.running \/ tick.moved) => late

Resting == Active /\ ~session.running /\ session.last # "none"
Coming  == timer \/ events # <<>> \/ missed

\* Whatever makes a tick useless has something coming after it.
Followed ==
  /\ events # <<>> /\ ~session.running => events[Len(events)] # "busy"
  /\ Resting /\ (tick.pc = "nothing" \/ tick.moved) => Coming
  /\ Resting /\ tick.pc \in Judging /\ goal.id # tick.of.id => Coming

IInv ==
  /\ TypeOK /\ Carries /\ BelowCap /\ Counted
  /\ Recorded /\ Halted /\ Rested /\ Followed

-----------------------------------------------------------------------------
(* Who writes what.                                                        *)

LEMMA GoalWriters ==
  ASSUME [Next]_vars
  PROVE  UNCHANGED goal \/ Settles \/ WritesTurn \/ SetGoal \/ EditGoal \/ Resume \/
         StopGoal
BY DEF Next, Hearing, Ticking, People, vars, history, HearIdle, HearBusy, HearAborted,
  HearUpdated, TimerFires, ReadsGoal, NoGoal, Quiet, Runs, SubagentsWork, Prompted,
  LoadsMessages, Checked, Unchecked, ReadsAgain, GoalChanged, TailStands, TailMoved,
  Continues, PausesAfterAbort, NothingToPause, Breaks, TurnEnds, SubagentReturns, Prompts,
  Aborts, LosesEvents, Crash, HearKeeps, InFlight, NoTick, Awaiting, Judges, Outside,
  NoFault, bounds, Ends, Fault, Works, LosesPause, Arrives, SessionKeeps, Acts

LEMMA SessionWriters ==
  ASSUME [Next]_vars
  PROVE  UNCHANGED session \/ Continues \/ TurnEnds \/ SubagentReturns \/ Prompts \/ Aborts
         \/ SetGoal \/ EditGoal
BY DEF Next, Hearing, Ticking, People, vars, history, HearIdle, HearBusy, HearAborted,
  HearUpdated, TimerFires, ReadsGoal, NoGoal, Quiet, Runs, SubagentsWork, Prompted,
  LoadsMessages, Checked, Unchecked, ReadsAgain, GoalChanged, Settles, WritesTurn,
  TailStands, TailMoved, PausesAfterAbort, NothingToPause, Breaks, Resume, StopGoal,
  LosesEvents, Crash, HearKeeps, InFlight, NoTick, Awaiting, Judges, Outside, NoFault,
  bounds, Ends, Fault, Notify, LosesPause, Acts, Grants

LEMMA EventWriters ==
  ASSUME [Next]_vars
  PROVE  UNCHANGED events \/ HearIdle \/ HearBusy \/ HearAborted \/ Continues \/ TurnEnds \/
         SubagentReturns \/ Prompts \/ Aborts \/ LosesEvents \/ Crash
BY DEF Next, Hearing, Ticking, People, vars, history, HearUpdated, TimerFires, ReadsGoal,
  NoGoal, Quiet, Runs, SubagentsWork, Prompted, LoadsMessages, Checked, Unchecked,
  ReadsAgain, GoalChanged, Settles, WritesTurn, TailStands, TailMoved, PausesAfterAbort,
  NothingToPause, Breaks, SetGoal, EditGoal, Resume, StopGoal, HearKeeps, InFlight, NoTick,
  Awaiting, Judges, Outside, NoFault, bounds, Ends, Fault, Notify, LosesPause, Acts, Grants

LEMMA SentWriters ==
  ASSUME [Next]_vars
  PROVE  UNCHANGED sent \/ Continues \/ SetGoal \/ Resume
BY DEF Next, Hearing, Ticking, People, vars, history, HearIdle, HearBusy, HearAborted,
  HearUpdated, TimerFires, ReadsGoal, NoGoal, Quiet, Runs, SubagentsWork, Prompted,
  LoadsMessages, Checked, Unchecked, ReadsAgain, GoalChanged, Settles, WritesTurn,
  TailStands, TailMoved, PausesAfterAbort, NothingToPause, Breaks, TurnEnds,
  SubagentReturns, Prompts, Aborts, EditGoal, StopGoal, LosesEvents, Crash, HearKeeps,
  InFlight, NoTick, Awaiting, Judges, Outside, NoFault, bounds, Ends, Fault, Notify,
  LosesPause, Arrives, SessionKeeps, Works, Acts

LEMMA BlindWriters ==
  ASSUME [Next]_vars
  PROVE  UNCHANGED blind \/ Continues \/ Checked \/ SetGoal \/ EditGoal \/ Resume
BY DEF Next, Hearing, Ticking, People, vars, history, HearIdle, HearBusy, HearAborted,
  HearUpdated, TimerFires, ReadsGoal, NoGoal, Quiet, Runs, SubagentsWork, Prompted,
  LoadsMessages, Unchecked, ReadsAgain, GoalChanged, Settles, WritesTurn, TailStands,
  TailMoved, PausesAfterAbort, NothingToPause, Breaks, TurnEnds, SubagentReturns, Prompts,
  Aborts, StopGoal, LosesEvents, Crash, HearKeeps, InFlight, NoTick, Awaiting, Judges,
  Outside, NoFault, bounds, Ends, Fault, Notify, LosesPause, Arrives, SessionKeeps, Works,
  Acts

\* Most events that are heard touch the timer alone.
LEMMA Bystanders ==
  ASSUME HearIdle \/ HearBusy \/ HearUpdated \/ LosesEvents \/ UNCHANGED vars
  PROVE  UNCHANGED <<goal, session, tick, sent, blind, former, late, stopped>>
BY DEF HearIdle, HearBusy, HearUpdated, LosesEvents, HearKeeps, InFlight, Fault, vars,
  history

\* A tick that ends without a word.
LEMMA Endings ==
  ASSUME NoGoal \/ Runs \/ SubagentsWork \/ Prompted \/ GoalChanged \/ TailMoved \/
         NothingToPause \/ Breaks \/ Crash
  PROVE  tick' = NoTick /\ UNCHANGED <<goal, session, sent, blind, former>>
BY DEF NoGoal, Runs, SubagentsWork, Prompted, GoalChanged, TailMoved, NothingToPause,
  Breaks, Crash, Awaiting, Ends, Judges, Outside, NoFault, bounds, Fault, LosesPause

\* A timer that fires begins a tick or finds one.
LEMMA Firing ==
  ASSUME TypeOK, TimerFires
  PROVE  /\ UNCHANGED <<goal, session, events, sent, blind, former, stopped>>
         /\ \/ UNCHANGED <<tick, late>> /\ missed'
            \/ tick.pc = "nothing" /\ tick'.pc = "goal" /\ ~tick'.moved
PROOF
<1>1. \/ UNCHANGED <<tick, late>> /\ missed'
      \/ tick.pc = "nothing" /\ tick' = [NoTick EXCEPT !.pc = "goal"]
  BY DEF TimerFires, InFlight
<1>2. [NoTick EXCEPT !.pc = "goal"].pc = "goal" /\ ~[NoTick EXCEPT !.pc = "goal"].moved
  BY DEF NoTick
<1> QED BY <1>1, <1>2 DEF TimerFires

\* What the session does is seen by a tick as a message at most.
LEMMA SessionSteps ==
  ASSUME TypeOK, TurnEnds \/ SubagentReturns \/ Prompts \/ Aborts
  PROVE  /\ UNCHANGED <<goal, sent, blind, former, stopped>>
         /\ tick' = tick \/ tick' = [tick EXCEPT !.moved = TRUE]
         /\ tick' \in TickState
         /\ tick'.pc = tick.pc /\ tick'.of = tick.of /\ tick'.copy = tick.copy
         /\ tick'.verdict = tick.verdict /\ tick'.streak = tick.streak
PROOF
<1>1. /\ UNCHANGED <<goal, sent, blind, former, stopped>>
      /\ tick' = tick \/ tick' = [tick EXCEPT !.moved = TRUE]
  BY DEF TurnEnds, SubagentReturns, Prompts, Aborts, SessionKeeps, Arrives, Acts
<1> QED BY <1>1 DEF TypeOK, TickState

-----------------------------------------------------------------------------
(* Types.                                                                  *)

LEMMA NoTickTyped ==
  /\ NoTick \in TickState
  /\ [NoTick EXCEPT !.pc = "goal"] \in TickState
  /\ [NoTick EXCEPT !.pc = "pause"] \in TickState
PROOF
<1>1. NoTick \in TickState
  BY DEF NoTick, TickState, Awaits, Verdict, Status
<1> QED BY <1>1 DEF TickState, Awaits

\* What a goal becomes, field by field.
LEMMA GoalEdited ==
  ASSUME NEW g \in Goal, NEW s \in Status, NEW n \in 0..1
  PROVE  /\ [g EXCEPT !.status = s, !.resumed = FALSE] \in Goal
         /\ [g EXCEPT !.status = s, !.resumed = FALSE, !.streak = n] \in Goal
BY DEF Goal

\* What is written back is the copy of a goal, its turns within the cap.
LEMMA GoalTyped ==
  ASSUME TypeOK, Carries, BelowCap, [Next]_vars
  PROVE  goal' \in Goal \cup {None}
PROOF
<1> USE GoalAssumption DEF TypeOK, Carries, BelowCap, Judging, Sending, Goal, Status,
      Verdict, TickState
<1>1. CASE UNCHANGED goal
  BY <1>1
<1>2. CASE Settles
  <2>1. tick.copy \in Goal /\ tick.verdict \in Status
    BY <1>2 DEF Settles, Awaiting
  <2> DEFINE n == IF tick.verdict = "paused" THEN tick.copy.streak ELSE 0
  <2>2. n \in 0..1
    BY <2>1
  <2>3. goal' = [tick.copy EXCEPT !.status = tick.verdict, !.resumed = FALSE, !.streak = n]
    BY <1>2 DEF Settles, Settled
  <2> HIDE DEF n, Goal, Status
  <2> QED BY <2>1, <2>2, <2>3, GoalEdited
<1>3. CASE WritesTurn
  <2>1. /\ tick.copy \in Goal /\ tick.of \in Goal /\ tick.streak \in 0..1
        /\ tick.copy.turns <= tick.of.turns /\ tick.of.turns < Limit
    BY <1>3 DEF WritesTurn, Awaiting
  <2>2. tick.copy.turns + 1 \in 0..Limit
    BY <2>1
  <2> QED BY <1>3, <2>1, <2>2 DEF WritesTurn, Continued
<1>4. CASE SetGoal
  BY <1>4 DEF SetGoal, Acts, Grants, Notify, InFlight
<1>5. CASE EditGoal
  BY <1>5 DEF EditGoal, Acts, Notify, InFlight
<1>6. CASE Resume
  <2>1. goal \in Goal /\ 0 \in 0..Limit
    BY <1>6 DEF Resume
  <2>2. goal' = [goal EXCEPT !.status = "active", !.resumed = TRUE, !.turns = 0]
    BY <1>6 DEF Resume
  <2> QED BY <2>1, <2>2, ZenonT(30)
<1>7. CASE StopGoal
  <2>1. goal \in Goal
    BY <1>7 DEF StopGoal, Active
  <2>2. \/ goal' = None
        \/ \E status \in {"paused", "complete"} :
             goal' = [goal EXCEPT !.status = status, !.resumed = FALSE]
    BY <1>7 DEF StopGoal
  <2>3. {"paused", "complete"} \subseteq Status /\ 0 \in 0..1
    OBVIOUS
  <2> HIDE DEF Goal, Status
  <2>4. ASSUME NEW status \in {"paused", "complete"}
        PROVE  [goal EXCEPT !.status = status, !.resumed = FALSE] \in Goal
    BY <2>1, <2>3, GoalEdited
  <2> QED BY <2>2, <2>4
<1> QED BY <1>1, <1>2, <1>3, <1>4, <1>5, <1>6, <1>7, GoalWriters

\* The session stays one that OpenCode could report.
LEMMA SessionTyped ==
  ASSUME TypeOK, Carries, BelowCap, [Next]_vars
  PROVE  session' \in [running : BOOLEAN, children : BOOLEAN, last : Outcome,
                       cut : 0..2, over : BOOLEAN]
PROOF
<1> USE GoalAssumption DEF TypeOK, Outcome
<1>1. CASE UNCHANGED session
  BY <1>1
<1>2. CASE Continues
  BY <1>2 DEF Continues, Awaiting, NoFault, Fault, bounds, Works, NoTick
<1>3. CASE TurnEnds
  BY <1>3 DEF TurnEnds, Cut
<1>4. CASE SubagentReturns
  BY <1>4 DEF SubagentReturns, Works, Arrives, InFlight, Awaiting, SessionKeeps
<1>5. CASE Prompts
  BY <1>5 DEF Prompts, Works, Arrives, InFlight, Awaiting, SessionKeeps
<1>6. CASE Aborts
  <2>1. PICK last \in {"aborted", "error"} :
          session' = [session EXCEPT !.running = FALSE, !.last = last, !.cut = 0]
    BY <1>6 DEF Aborts
  <2>2. last \in Outcome /\ 0 \in 0..2
    BY <2>1
  <2> HIDE DEF Outcome
  <2> QED BY <2>1, <2>2
<1>7. CASE SetGoal
  <2>1. session' = [session EXCEPT !.cut = 0, !.over = FALSE]
    BY <1>7 DEF SetGoal
  <2>2. 0 \in 0..2
    OBVIOUS
  <2> HIDE DEF Outcome
  <2> QED BY <2>1, <2>2
<1>8. CASE EditGoal
  BY <1>8 DEF EditGoal, Acts, Notify, InFlight
<1> QED BY <1>1, <1>2, <1>3, <1>4, <1>5, <1>6, <1>7, <1>8, SessionWriters

\* Events are taken from the head and added at the end.
LEMMA EventsTyped ==
  ASSUME TypeOK, Carries, BelowCap, [Next]_vars
  PROVE  events' \in Seq({"busy", "idle", "aborted"})
PROOF
<1> USE GoalAssumption DEF TypeOK
<1>1. CASE UNCHANGED events
  BY <1>1
<1>2. CASE HearIdle
  BY <1>2 DEF HearIdle, HearKeeps
<1>3. CASE HearBusy
  BY <1>3 DEF HearBusy, HearKeeps
<1>4. CASE HearAborted
  BY <1>4 DEF HearAborted, HearKeeps, InFlight, NoTick
<1>5. CASE Continues
  BY <1>5 DEF Continues, Awaiting, NoFault, Fault, bounds, Works, NoTick
<1>6. CASE TurnEnds
  BY <1>6 DEF TurnEnds, Arrives, InFlight, Awaiting, SessionKeeps
<1>7. CASE SubagentReturns
  <2>1. events' = events \/ events' = Append(events, "busy")
    BY <1>7 DEF SubagentReturns, Works
  <2> QED BY <2>1
<1>8. CASE Prompts
  BY <1>8 DEF Prompts, Works, Arrives, InFlight, Awaiting, SessionKeeps
<1>9. CASE Aborts
  BY <1>9 DEF Aborts, Acts, Arrives, InFlight, Awaiting
<1>10. CASE LosesEvents
  BY <1>10 DEF LosesEvents, Fault
<1>11. CASE Crash
  BY <1>11 DEF Crash, NoTick, LosesPause
<1> QED BY <1>1, <1>2, <1>3, <1>4, <1>5, <1>6, <1>7, <1>8, <1>9, <1>10, <1>11, EventWriters

\* A tick stays a tick, await by await.
LEMMA TickTyped ==
  ASSUME TypeOK, Carries, [Next]_vars
  PROVE  tick' \in TickState
PROOF
<1> USE GoalAssumption DEF TypeOK, Carries, Outcome, Goal, Status, Awaits, Verdict,
      TickState, Judging, Sending
<1>1. CASE HearIdle \/ HearBusy \/ HearUpdated \/ LosesEvents \/ UNCHANGED vars
  BY <1>1, Bystanders DEF Active
<1>2. CASE NoGoal \/ Runs \/ SubagentsWork \/ Prompted \/ GoalChanged \/ TailMoved \/
         NothingToPause \/ Breaks \/ Crash
  BY <1>2, Endings, NoTickTyped
<1>3. CASE HearAborted
  BY <1>3, NoTickTyped DEF HearAborted
<1>4. CASE TimerFires
  BY <1>4, NoTickTyped DEF TimerFires
<1>5. CASE ReadsGoal
  BY <1>5 DEF ReadsGoal, Awaiting, Judges, Outside, NoFault, bounds, Active
<1>6. CASE Quiet
  BY <1>6 DEF Quiet, Awaiting, Judges, Outside, NoFault, bounds, Active
<1>7. CASE LoadsMessages
  <2>1. Stop \in Verdict
    BY DEF Stop
  <2>2. PICK pc \in {"check", "read"} :
          tick' = [tick EXCEPT !.pc = pc, !.moved = FALSE, !.verdict = Stop, !.streak = tick.of.streak]
    BY <1>7 DEF LoadsMessages
  <2>3. tick.of.streak \in 0..1
    BY <1>7 DEF LoadsMessages, Awaiting
  <2> QED BY <2>1, <2>2, <2>3, ZenonT(30)
<1>8. CASE Checked
  <2>1. PICK verdict \in {"complete", "blocked", "continue"} :
          tick' = [tick EXCEPT !.pc = "read", !.verdict = verdict, !.streak = 0]
    BY <1>8 DEF Checked
  <2>2. verdict \in Verdict /\ 0 \in 0..1 /\ "read" \in Awaits
    BY <2>1
  <2> HIDE DEF Verdict, Awaits, Goal
  <2> QED BY <2>1, <2>2
<1>9. CASE Unchecked
  <2>1. PICK verdict \in {"blocked", "continue"} :
          tick' = [tick EXCEPT !.pc = "read", !.verdict = verdict, !.streak = 1]
    BY <1>9 DEF Unchecked
  <2>2. verdict \in Verdict /\ 1 \in 0..1 /\ "read" \in Awaits
    BY <2>1
  <2> HIDE DEF Verdict, Awaits, Goal
  <2> QED BY <2>1, <2>2
<1>10. CASE ReadsAgain
  BY <1>10 DEF ReadsAgain, Awaiting, Judges, Outside, NoFault, bounds, Active
<1>11. CASE Settles
  BY <1>11 DEF Settles, Awaiting, Settled, NoTick, Notify, Outside, NoFault, bounds, Active
<1>12. CASE WritesTurn
  BY <1>12 DEF WritesTurn, Awaiting, Continued, Notify, Outside, NoFault, bounds, Active
<1>13. CASE TailStands
  BY <1>13 DEF TailStands, Awaiting, Judges, Outside, NoFault, bounds, Active
<1>14. CASE Continues
  BY <1>14 DEF Continues, Awaiting, NoFault, Fault, bounds, Works, NoTick, Active
<1>15. CASE PausesAfterAbort
  BY <1>15 DEF PausesAfterAbort, Awaiting, Judges, Outside, NoFault, bounds, Active
<1>16. CASE SetGoal
  BY <1>16 DEF SetGoal, Acts, Grants, Notify, InFlight, Active
<1>17. CASE EditGoal
  BY <1>17 DEF EditGoal, Acts, Notify, InFlight, Active
<1>18. CASE Resume
  BY <1>18 DEF Resume, Acts, Grants, Notify, InFlight, Active
<1>19. CASE StopGoal
  BY <1>19 DEF StopGoal, Acts, Notify, InFlight, Active
<1>20. CASE TurnEnds \/ SubagentReturns \/ Prompts \/ Aborts
  BY <1>20, SessionSteps DEF Active
<1> QED BY <1>1, <1>2, <1>3, <1>4, <1>5, <1>6, <1>7, <1>8, <1>9, <1>10, <1>11, <1>12, <1>13,
  <1>14, <1>15, <1>16, <1>17, <1>18, <1>19, <1>20
  DEF Next, Hearing, Ticking, People

\* Every bound is counted up by one.
LEMMA BoundWriters ==
  ASSUME [Next]_vars
  PROVE  /\ prompts' = prompts \/ prompts' = prompts + 1
         /\ acts' = acts \/ acts' = acts + 1
         /\ faults' = faults \/ faults' = faults + 1
         /\ crashes' = crashes \/ crashes' = crashes + 1
PROOF
<1> USE DEF Next, Hearing, Ticking, People, vars, history, bounds, HearIdle, HearBusy,
  HearAborted, HearUpdated, TimerFires, ReadsGoal, NoGoal, Quiet, Runs, SubagentsWork,
  Prompted, LoadsMessages, Checked, Unchecked, ReadsAgain, GoalChanged, Settles, WritesTurn,
  TailStands, TailMoved, Continues, PausesAfterAbort, NothingToPause, Breaks, TurnEnds,
  SubagentReturns, Prompts, Aborts, SetGoal, EditGoal, Resume, StopGoal, LosesEvents, Crash,
  HearKeeps, InFlight, NoTick, Awaiting, Judges, Outside, NoFault, bounds, Ends, Fault,
  Notify, Works, LosesPause, Arrives, SessionKeeps, Acts, Grants
<1>1. prompts' = prompts \/ prompts' = prompts + 1
  OBVIOUS
<1>2. acts' = acts \/ acts' = acts + 1
  OBVIOUS
<1>3. faults' = faults \/ faults' = faults + 1
  OBVIOUS
<1>4. crashes' = crashes \/ crashes' = crashes + 1
  OBVIOUS
<1> QED BY <1>1, <1>2, <1>3, <1>4

LEMMA BoundsTyped ==
  ASSUME TypeOK, [Next]_vars
  PROVE  prompts' \in Nat /\ acts' \in Nat /\ faults' \in Nat /\ crashes' \in Nat
BY BoundWriters DEF TypeOK

\* The counts of the history stay in their ranges.
LEMMA SentTyped ==
  ASSUME TypeOK, [Next]_vars
  PROVE  sent' \in 0..(Limit + 1) /\ blind' \in 0..2
PROOF
<1>1. CASE Continues
  BY <1>1, GoalAssumption DEF Continues, TypeOK
<1>2. sent' = sent \/ sent' = 0 \/ Continues
  BY SentWriters DEF SetGoal, Resume
<1>3. blind' = blind \/ blind' = 0 \/ Continues
  BY BlindWriters DEF SetGoal, Resume, EditGoal, Checked
<1> QED BY <1>1, <1>2, <1>3, GoalAssumption DEF TypeOK

\* The flags stay flags.
LEMMA FlagsTyped ==
  ASSUME TypeOK, [Next]_vars
  PROVE  /\ timer' \in BOOLEAN /\ former' \in BOOLEAN /\ late' \in BOOLEAN
         /\ stopped' \in BOOLEAN /\ missed' \in BOOLEAN
PROOF
<1> USE DEF TypeOK, Next, Hearing, Ticking, People, vars, history, bounds, HearIdle,
  HearBusy, HearAborted, HearUpdated, TimerFires, ReadsGoal, NoGoal, Quiet, Runs,
  SubagentsWork, Prompted, LoadsMessages, Checked, Unchecked, ReadsAgain, GoalChanged,
  Settles, WritesTurn, TailStands, TailMoved, Continues, PausesAfterAbort, NothingToPause,
  Breaks, TurnEnds, SubagentReturns, Prompts, Aborts, SetGoal, EditGoal, Resume, StopGoal,
  LosesEvents, Crash, HearKeeps, InFlight, NoTick, Awaiting, Judges, Outside, NoFault,
  bounds, Ends, Fault, Notify, Works, LosesPause, Arrives, SessionKeeps, Acts, Active
<1>1. timer' \in BOOLEAN
  OBVIOUS
<1>2. late' \in BOOLEAN
  OBVIOUS
<1>3. stopped' \in BOOLEAN
  OBVIOUS
<1>4. missed' \in BOOLEAN
  OBVIOUS
<1>5. former' = former \/ former' = FALSE \/ Grants
  OBVIOUS
<1>6. ASSUME Grants
      PROVE  former' \in BOOLEAN
  <2>1. (tick.pc \in {"tail", "prompt"}) \in BOOLEAN
    OBVIOUS
  <2> QED BY <1>6, <2>1 DEF Grants
<1> QED BY <1>1, <1>2, <1>3, <1>4, <1>5, <1>6

-----------------------------------------------------------------------------
(* The invariants, one by one.                                             *)

\* A tick that has read a goal goes on with that goal.
LEMMA CarriesStep ==
  ASSUME TypeOK, Carries, [Next]_vars
  PROVE  Carries'
PROOF
<1> USE GoalAssumption DEF Carries, TypeOK, Goal, TickState, Judging, Sending
<1>1. CASE HearIdle \/ HearBusy \/ HearUpdated \/ LosesEvents \/ UNCHANGED vars
  BY <1>1, Bystanders DEF Active
<1>2. CASE NoGoal \/ Runs \/ SubagentsWork \/ Prompted \/ GoalChanged \/ TailMoved \/
         NothingToPause \/ Breaks \/ Crash
  BY <1>2, Endings DEF NoTick, Active
<1>3. CASE HearAborted
  BY <1>3 DEF HearAborted, HearKeeps, InFlight, NoTick, Active
<1>4. CASE TimerFires
  BY <1>4, Firing DEF Active
<1>5. CASE ReadsGoal
  BY <1>5 DEF ReadsGoal, Awaiting, Judges, Outside, NoFault, bounds, Active
<1>6. CASE Quiet
  BY <1>6 DEF Quiet, Awaiting, Judges, Outside, NoFault, bounds, Active
<1>7. CASE LoadsMessages
  BY <1>7 DEF LoadsMessages, Awaiting, Stop, Judges, Outside, NoFault, bounds, Active
<1>8. CASE Checked
  BY <1>8 DEF Checked, Awaiting, Outside, NoFault, bounds, Active
<1>9. CASE Unchecked
  BY <1>9 DEF Unchecked, Awaiting, Fault, Judges, Outside, Active
<1>10. CASE ReadsAgain
  BY <1>10 DEF ReadsAgain, Awaiting, Judges, Outside, NoFault, bounds, Active
<1>11. CASE Settles
  BY <1>11 DEF Settles, Awaiting, Settled, NoTick, Notify, Outside, NoFault, bounds, Active
<1>12. CASE WritesTurn
  BY <1>12 DEF WritesTurn, Awaiting, Continued, Notify, Outside, NoFault, bounds, Active
<1>13. CASE TailStands
  BY <1>13 DEF TailStands, Awaiting, Judges, Outside, NoFault, bounds, Active
<1>14. CASE Continues
  BY <1>14 DEF Continues, Awaiting, NoFault, Fault, bounds, Works, NoTick, Active
<1>15. CASE PausesAfterAbort
  BY <1>15 DEF PausesAfterAbort, Awaiting, Judges, Outside, NoFault, bounds, Active
<1>16. CASE SetGoal
  BY <1>16 DEF SetGoal, Acts, Grants, Notify, InFlight, Active
<1>17. CASE EditGoal
  BY <1>17 DEF EditGoal, Acts, Notify, InFlight, Active
<1>18. CASE Resume
  BY <1>18 DEF Resume, Acts, Grants, Notify, InFlight, Active
<1>19. CASE StopGoal
  BY <1>19 DEF StopGoal, Acts, Notify, InFlight, Active
<1>20. CASE TurnEnds \/ SubagentReturns \/ Prompts \/ Aborts
  BY <1>20, SessionSteps DEF Active
<1> QED BY <1>1, <1>2, <1>3, <1>4, <1>5, <1>6, <1>7, <1>8, <1>9, <1>10, <1>11, <1>12, <1>13,
  <1>14, <1>15, <1>16, <1>17, <1>18, <1>19, <1>20
  DEF Next, Hearing, Ticking, People

\* Only people give a goal its turns back, and then it has fewer than the tick saw.
LEMMA BelowCapStep ==
  ASSUME TypeOK, Carries, BelowCap, [Next]_vars
  PROVE  BelowCap'
PROOF
<1> USE GoalAssumption DEF Carries, BelowCap, TypeOK, Goal, TickState, Judging, Sending
<1>1. CASE HearIdle \/ HearBusy \/ HearUpdated \/ LosesEvents \/ UNCHANGED vars
  BY <1>1, Bystanders DEF Active
<1>2. CASE NoGoal \/ Runs \/ SubagentsWork \/ Prompted \/ GoalChanged \/ TailMoved \/
         NothingToPause \/ Breaks \/ Crash
  BY <1>2, Endings DEF NoTick, Active
<1>3. CASE HearAborted
  BY <1>3 DEF HearAborted, HearKeeps, InFlight, NoTick, Active
<1>4. CASE TimerFires
  BY <1>4, Firing DEF Active
<1>5. CASE ReadsGoal
  BY <1>5 DEF ReadsGoal, Awaiting, Judges, Outside, NoFault, bounds, Active
<1>6. CASE Quiet
  BY <1>6 DEF Quiet, Awaiting, Judges, Outside, NoFault, bounds, Active
<1>7. CASE LoadsMessages
  BY <1>7 DEF LoadsMessages, Awaiting, Stop, Judges, Outside, NoFault, bounds, Active
<1>8. CASE Checked
  BY <1>8 DEF Checked, Awaiting, Outside, NoFault, bounds, Active
<1>9. CASE Unchecked
  BY <1>9 DEF Unchecked, Awaiting, Fault, Judges, Outside, Active
<1>10. CASE ReadsAgain
  BY <1>10 DEF ReadsAgain, Awaiting, Judges, Outside, NoFault, bounds, Active
<1>11. CASE Settles
  BY <1>11 DEF Settles, Awaiting, Settled, NoTick, Notify, Outside, NoFault, bounds, Active
<1>12. CASE WritesTurn
  BY <1>12 DEF WritesTurn, Awaiting, Continued, Notify, Outside, NoFault, bounds, Active
<1>13. CASE TailStands
  BY <1>13 DEF TailStands, Awaiting, Judges, Outside, NoFault, bounds, Active
<1>14. CASE Continues
  BY <1>14 DEF Continues, Awaiting, NoFault, Fault, bounds, Works, NoTick, Active
<1>15. CASE PausesAfterAbort
  BY <1>15 DEF PausesAfterAbort, Awaiting, Judges, Outside, NoFault, bounds, Active
<1>16. CASE SetGoal
  BY <1>16 DEF SetGoal, Acts, Grants, Notify, InFlight, Active
<1>17. CASE EditGoal
  BY <1>17 DEF EditGoal, Acts, Notify, InFlight, Active
<1>18. CASE Resume
  <2>1. goal'.turns = 0 /\ UNCHANGED tick
    BY <1>18 DEF Resume
  <2> QED BY <2>1
<1>19. CASE StopGoal
  BY <1>19 DEF StopGoal, Acts, Notify, InFlight, Active
<1>20. CASE TurnEnds \/ SubagentReturns \/ Prompts \/ Aborts
  BY <1>20, SessionSteps DEF Active
<1> QED BY <1>1, <1>2, <1>3, <1>4, <1>5, <1>6, <1>7, <1>8, <1>9, <1>10, <1>11, <1>12, <1>13,
  <1>14, <1>15, <1>16, <1>17, <1>18, <1>19, <1>20
  DEF Next, Hearing, Ticking, People

\* WritesTurn counts before Continues sends; who grants new turns meanwhile sets former.
LEMMA CountedStep ==
  ASSUME TypeOK, Carries, BelowCap, Counted, [Next]_vars
  PROVE  Counted'
PROOF
<1> USE GoalAssumption DEF Carries, BelowCap, Counted, TypeOK, Goal, TickState, Judging, Sending
<1>1. CASE HearIdle \/ HearBusy \/ HearUpdated \/ LosesEvents \/ UNCHANGED vars
  BY <1>1, Bystanders DEF Active
<1>2. CASE NoGoal \/ Runs \/ SubagentsWork \/ Prompted \/ GoalChanged \/ TailMoved \/
         NothingToPause \/ Breaks \/ Crash
  BY <1>2, Endings DEF NoTick, Active
<1>3. CASE HearAborted
  BY <1>3 DEF HearAborted, HearKeeps, InFlight, NoTick, Active
<1>4. CASE TimerFires
  BY <1>4, Firing DEF Active
<1>5. CASE ReadsGoal
  BY <1>5 DEF ReadsGoal, Awaiting, Judges, Outside, NoFault, bounds, Active
<1>6. CASE Quiet
  BY <1>6 DEF Quiet, Awaiting, Judges, Outside, NoFault, bounds, Active
<1>7. CASE LoadsMessages
  BY <1>7 DEF LoadsMessages, Awaiting, Stop, Judges, Outside, NoFault, bounds, Active
<1>8. CASE Checked
  BY <1>8 DEF Checked, Awaiting, Outside, NoFault, bounds, Active
<1>9. CASE Unchecked
  BY <1>9 DEF Unchecked, Awaiting, Fault, Judges, Outside, Active
<1>10. CASE ReadsAgain
  BY <1>10 DEF ReadsAgain, Awaiting, Judges, Outside, NoFault, bounds, Active
<1>11. CASE Settles
  BY <1>11 DEF Settles, Awaiting, Settled, NoTick, Notify, Outside, NoFault, bounds, Active
<1>12. CASE WritesTurn
  <2>1. /\ tick.pc = "write" /\ tick.copy \in Goal /\ tick.of \in Goal
        /\ tick' = [tick EXCEPT !.pc = "tail"] /\ goal' = Continued /\ UNCHANGED sent
    BY <1>12 DEF WritesTurn, Awaiting
  <2>2. tick'.pc = "tail" /\ goal'.turns = tick.copy.turns + 1
    BY <2>1 DEF Continued
  <2>3. sent <= tick.copy.turns /\ tick.copy.turns <= tick.of.turns /\ tick.of.turns < Limit
    BY <1>12, <2>1 DEF WritesTurn
  <2> sent \in Nat /\ tick.copy.turns \in Nat /\ tick.of.turns \in Nat
    BY <2>1
  <2> HIDE DEF Carries, BelowCap, TypeOK, Goal, TickState
  <2>4. sent < Limit /\ sent < goal'.turns /\ sent \in Nat
    BY <2>1, <2>2, <2>3
  <2> QED BY <2>1, <2>2, <2>4
<1>13. CASE TailStands
  BY <1>13 DEF TailStands, Awaiting, Judges, Outside, NoFault, bounds, Active
<1>14. CASE Continues
  <2>1. tick.pc = "prompt" /\ tick' = NoTick /\ UNCHANGED <<goal, former>>
    BY <1>14 DEF Continues, Awaiting
  <2>2. CASE sent' = sent
    BY <2>1, <2>2 DEF NoTick
  <2>3. CASE ~former /\ sent' = sent + 1
    BY <2>1, <2>3 DEF NoTick
  <2> QED BY <1>14, <2>2, <2>3 DEF Continues
<1>15. CASE PausesAfterAbort
  BY <1>15 DEF PausesAfterAbort, Awaiting, Judges, Outside, NoFault, bounds, Active
<1>16. CASE SetGoal
  <2>1. goal' # None => goal'.turns = 0 /\ goal'.streak = 0
    BY <1>16 DEF SetGoal
  <2>2. UNCHANGED tick /\ sent' = 0 /\ blind' = 0 /\ (tick.pc \in Sending => former')
    BY <1>16 DEF SetGoal, Grants
  <2> QED BY <2>1, <2>2 DEF Active
<1>17. CASE EditGoal
  BY <1>17 DEF EditGoal, Acts, Notify, InFlight, Active
<1>18. CASE Resume
  <2>1. goal' # None => goal'.turns = 0 /\ goal'.streak = goal.streak
    BY <1>18 DEF Resume
  <2>2. UNCHANGED tick /\ sent' = 0 /\ blind' = 0 /\ (tick.pc \in Sending => former')
    BY <1>18 DEF Resume, Grants
  <2> QED BY <2>1, <2>2 DEF Active
<1>19. CASE StopGoal
  BY <1>19 DEF StopGoal, Acts, Notify, InFlight, Active
<1>20. CASE TurnEnds \/ SubagentReturns \/ Prompts \/ Aborts
  <2>1. UNCHANGED <<goal, sent, former>> /\ tick'.pc = tick.pc /\ tick'.copy = tick.copy
    BY <1>20, SessionSteps
  <2> QED BY <2>1
<1> QED BY <1>1, <1>2, <1>3, <1>4, <1>5, <1>6, <1>7, <1>8, <1>9, <1>10, <1>11, <1>12, <1>13,
  <1>14, <1>15, <1>16, <1>17, <1>18, <1>19, <1>20
  DEF Next, Hearing, Ticking, People

\* WritesTurn stores the streak before Continues sends.
LEMMA RecordedStep ==
  ASSUME TypeOK, Carries, Recorded, [Next]_vars
  PROVE  Recorded'
PROOF
<1> USE GoalAssumption DEF Carries, Recorded, TypeOK, Goal, TickState, Judging, Sending
<1>1. CASE HearIdle \/ HearBusy \/ HearUpdated \/ LosesEvents \/ UNCHANGED vars
  BY <1>1, Bystanders DEF Active
<1>2. CASE NoGoal \/ Runs \/ SubagentsWork \/ Prompted \/ GoalChanged \/ TailMoved \/
         NothingToPause \/ Breaks \/ Crash
  BY <1>2, Endings DEF NoTick, Active
<1>3. CASE HearAborted
  BY <1>3 DEF HearAborted, HearKeeps, InFlight, NoTick, Active
<1>4. CASE TimerFires
  BY <1>4, Firing DEF Active
<1>5. CASE ReadsGoal
  BY <1>5 DEF ReadsGoal, Awaiting, Judges, Outside, NoFault, bounds, Active
<1>6. CASE Quiet
  BY <1>6 DEF Quiet, Awaiting, Judges, Outside, NoFault, bounds, Active
<1>7. CASE LoadsMessages
  BY <1>7 DEF LoadsMessages, Awaiting, Stop, Judges, Outside, NoFault, bounds, Active
<1>8. CASE Checked
  BY <1>8 DEF Checked, Awaiting, Outside, NoFault, bounds, Active
<1>9. CASE Unchecked
  BY <1>9 DEF Unchecked, Awaiting, Fault, Judges, Outside, Active
<1>10. CASE ReadsAgain
  BY <1>10 DEF ReadsAgain, Awaiting, Judges, Outside, NoFault, bounds, Active
<1>11. CASE Settles
  BY <1>11 DEF Settles, Awaiting, Settled, NoTick, Active, Verdict
<1>12. CASE WritesTurn
  <2>1. /\ tick.pc = "write" /\ tick.copy \in Goal /\ tick.verdict = "continue"
        /\ tick' = [tick EXCEPT !.pc = "tail"]
        /\ goal' = Continued /\ UNCHANGED blind
    BY <1>12 DEF WritesTurn, Awaiting
  <2>2. tick'.pc = "tail" /\ tick'.streak = tick.streak /\ tick'.of = tick.of
    BY <2>1
  <2>3. goal' # None => goal'.streak = tick.streak
    BY <2>1 DEF Continued
  <2>4. blind = 1 => tick.streak = 1 /\ tick.of.streak = 1
    BY <2>1
  <2>5. tick.of.streak \in 0..1 /\ tick.streak \in 0..1 /\ blind \in 0..2 /\ blind <= 1
    BY <2>1
  <2> HIDE DEF Carries, TypeOK, Goal, TickState
  <2>6. tick'.streak > tick'.of.streak => blind' = 0 /\ tick.streak = 1
    BY <2>1, <2>2, <2>4, <2>5
  <2> QED BY <2>1, <2>2, <2>3, <2>4, <2>6 DEF Active
<1>13. CASE TailStands
  BY <1>13 DEF TailStands, Awaiting, Judges, Outside, NoFault, bounds, Active
<1>14. CASE Continues
  <2>1. tick.pc = "prompt" /\ tick'.pc = "nothing" /\ UNCHANGED goal
    BY <1>14 DEF Continues, Awaiting, NoTick
  <2>2. CASE blind' = blind
    BY <2>1, <2>2 DEF Active
  <2>3. CASE ~former /\ tick.streak > tick.of.streak /\ blind' = blind + 1
    BY <2>1, <2>3 DEF Active
  <2> QED BY <1>14, <2>2, <2>3 DEF Continues
<1>15. CASE PausesAfterAbort
  BY <1>15 DEF PausesAfterAbort, Awaiting, Judges, Outside, NoFault, bounds, Active
<1>16. CASE SetGoal
  <2>1. goal' # None => goal'.turns = 0 /\ goal'.streak = 0
    BY <1>16 DEF SetGoal
  <2>2. UNCHANGED tick /\ sent' = 0 /\ blind' = 0 /\ (tick.pc \in Sending => former')
    BY <1>16 DEF SetGoal, Grants
  <2> QED BY <2>1, <2>2 DEF Active
<1>17. CASE EditGoal
  BY <1>17 DEF EditGoal, Acts, Notify, InFlight, Active
<1>18. CASE Resume
  BY <1>18 DEF Resume, Acts, Grants, Notify, InFlight, Active
<1>19. CASE StopGoal
  BY <1>19 DEF StopGoal, Acts, Notify, InFlight, Active
<1>20. CASE TurnEnds \/ SubagentReturns \/ Prompts \/ Aborts
  BY <1>20, SessionSteps DEF Active
<1> QED BY <1>1, <1>2, <1>3, <1>4, <1>5, <1>6, <1>7, <1>8, <1>9, <1>10, <1>11, <1>12, <1>13,
  <1>14, <1>15, <1>16, <1>17, <1>18, <1>19, <1>20
  DEF Next, Hearing, Ticking, People

\* Whatever puts the session to work tells the tick in flight.
LEMMA RestedStep ==
  ASSUME TypeOK, Carries, Rested, [Next]_vars
  PROVE  Rested'
PROOF
<1> USE GoalAssumption DEF Carries, Rested, TypeOK, Goal, TickState, Judging, Sending
<1>1. CASE HearIdle \/ HearBusy \/ HearUpdated \/ LosesEvents \/ UNCHANGED vars
  BY <1>1, Bystanders DEF Active
<1>2. CASE NoGoal \/ Runs \/ SubagentsWork \/ Prompted \/ GoalChanged \/ TailMoved \/
         NothingToPause \/ Breaks \/ Crash
  BY <1>2, Endings DEF NoTick, Active
<1>3. CASE HearAborted
  BY <1>3 DEF HearAborted, HearKeeps, InFlight, NoTick, Active
<1>4. CASE TimerFires
  BY <1>4, Firing DEF Active
<1>5. CASE ReadsGoal
  BY <1>5 DEF ReadsGoal, Awaiting, Judges, Outside, NoFault, bounds, Active
<1>6. CASE Quiet
  BY <1>6 DEF Quiet, Awaiting, Judges, Outside, NoFault, bounds, Active
<1>7. CASE LoadsMessages
  BY <1>7 DEF LoadsMessages, Awaiting, Stop, Judges, Outside, NoFault, bounds, Active
<1>8. CASE Checked
  BY <1>8 DEF Checked, Awaiting, Outside, NoFault, bounds, Active
<1>9. CASE Unchecked
  BY <1>9 DEF Unchecked, Awaiting, Fault, Judges, Outside, Active
<1>10. CASE ReadsAgain
  BY <1>10 DEF ReadsAgain, Awaiting, Judges, Outside, NoFault, bounds, Active
<1>11. CASE Settles
  BY <1>11 DEF Settles, Awaiting, Settled, NoTick, Notify, Outside, NoFault, bounds, Active
<1>12. CASE WritesTurn
  BY <1>12 DEF WritesTurn, Awaiting, Continued, Notify, Outside, NoFault, bounds, Active
<1>13. CASE TailStands
  BY <1>13 DEF TailStands, Awaiting, Judges, Outside, NoFault, bounds, Active
<1>14. CASE Continues
  BY <1>14 DEF Continues, Awaiting, NoFault, Fault, bounds, Works, NoTick, Active
<1>15. CASE PausesAfterAbort
  BY <1>15 DEF PausesAfterAbort, Awaiting, Judges, Outside, NoFault, bounds, Active
<1>16. CASE SetGoal
  BY <1>16 DEF SetGoal, Acts, Grants, Notify, InFlight, Active
<1>17. CASE EditGoal
  BY <1>17 DEF EditGoal, Acts, Notify, InFlight, Active
<1>18. CASE Resume
  BY <1>18 DEF Resume, Acts, Grants, Notify, InFlight, Active
<1>19. CASE StopGoal
  BY <1>19 DEF StopGoal, Acts, Notify, InFlight, Active
<1>20. CASE TurnEnds
  <2>1. /\ ~session'.running
        /\ session'.last \in {"done", "error", "length", "summary"}
    BY <1>20 DEF TurnEnds
  <2>2. Arrives
    BY <1>20 DEF TurnEnds
  <2> QED BY <2>1, <2>2 DEF Arrives, InFlight, Awaiting
<1>21. CASE SubagentReturns
  <2>1. CASE UNCHANGED <<tick, late>> /\ session'.running = session.running
                /\ session'.last = session.last
    BY <2>1
  <2>2. CASE session'.running /\ session'.last = "prompt" /\ Arrives
    BY <2>2 DEF Arrives, InFlight, Awaiting
  <2> QED BY <1>21, <2>1, <2>2 DEF SubagentReturns, Works
<1>22. CASE Prompts
  BY <1>22 DEF Prompts, Works, Arrives, InFlight, Awaiting, SessionKeeps, Active
<1>23. CASE Aborts
  BY <1>23 DEF Aborts, Acts, Arrives, InFlight, Awaiting, Active
<1> QED BY <1>1, <1>2, <1>3, <1>4, <1>5, <1>6, <1>7, <1>8, <1>9, <1>10, <1>11, <1>12, <1>13,
  <1>14, <1>15, <1>16, <1>17, <1>18, <1>19, <1>20, <1>21, <1>22, <1>23
  DEF Next, Hearing, Ticking, People

\* No step makes a stopped goal active or lets a pause go on to a prompt.
LEMMA HaltedStep ==
  ASSUME TypeOK, Carries, Halted, [Next]_vars
  PROVE  Halted'
PROOF
<1> USE GoalAssumption DEF Carries, Halted, TypeOK, Goal, TickState, Judging, Sending
<1>1. CASE HearIdle \/ HearBusy \/ HearUpdated \/ LosesEvents \/ UNCHANGED vars
  BY <1>1, Bystanders DEF Active
<1>2. CASE HearAborted
  BY <1>2 DEF HearAborted, HearKeeps, InFlight, NoTick, Active
<1>3. CASE TimerFires
  BY <1>3, Firing DEF Active
<1>4. CASE ReadsGoal
  BY <1>4 DEF ReadsGoal, Awaiting, Judges, Outside, NoFault, bounds, Active
<1>5. CASE Quiet
  BY <1>5 DEF Quiet, Awaiting, Judges, Outside, NoFault, bounds, Active
<1>6. CASE LoadsMessages
  BY <1>6 DEF LoadsMessages, Awaiting, Stop, Judges, Outside, NoFault, bounds, Active
<1>7. CASE Checked
  BY <1>7 DEF Checked, Awaiting, Outside, NoFault, bounds, Active
<1>8. CASE Unchecked
  BY <1>8 DEF Unchecked, Awaiting, Fault, Judges, Outside, Active
<1>9. CASE ReadsAgain
  BY <1>9 DEF ReadsAgain, Awaiting, Judges, Outside, NoFault, bounds, Active
<1>10. CASE Settles
  BY <1>10 DEF Settles, Awaiting, Settled, NoTick, Notify, Outside, NoFault, bounds, Active
<1>11. CASE WritesTurn
  BY <1>11 DEF WritesTurn, Awaiting, Continued, Notify, Outside, NoFault, bounds, Active
<1>12. CASE TailStands
  BY <1>12 DEF TailStands, Awaiting, Judges, Outside, NoFault, bounds, Active
<1>13. CASE Continues
  BY <1>13 DEF Continues, Awaiting, NoFault, Fault, bounds, Works, NoTick, Active
<1>14. CASE PausesAfterAbort
  BY <1>14 DEF PausesAfterAbort, Awaiting, Judges, Outside, NoFault, bounds, Active
<1>15. CASE SetGoal
  BY <1>15 DEF SetGoal, Acts, Grants, Notify, InFlight, Active
<1>16. CASE EditGoal
  BY <1>16 DEF EditGoal, Acts, Notify, InFlight, Active
<1>17. CASE Resume
  BY <1>17 DEF Resume, Acts, Grants, Notify, InFlight, Active
<1>18. CASE StopGoal
  BY <1>18 DEF StopGoal, Acts, Notify, InFlight, Active
<1>19. CASE NoGoal
  BY <1>19 DEF NoGoal, Awaiting, Ends, Judges, Outside, NoTick, NoFault, bounds, Active
<1>20. CASE Runs
  BY <1>20 DEF Runs, Awaiting, Ends, Judges, Outside, NoTick, NoFault, bounds, Active
<1>21. CASE SubagentsWork
  BY <1>21 DEF SubagentsWork, Awaiting, NoFault, Fault, bounds, NoTick, Judges, Outside,
    Active
<1>22. CASE Prompted
  BY <1>22 DEF Prompted, Awaiting, Ends, Judges, Outside, NoTick, NoFault, bounds, Active
<1>23. CASE GoalChanged
  BY <1>23 DEF GoalChanged, Awaiting, Ends, Judges, Outside, NoTick, NoFault, bounds, Active
<1>24. CASE TailMoved
  BY <1>24 DEF TailMoved, Awaiting, Ends, Judges, Outside, NoTick, NoFault, bounds, Active
<1>25. CASE NothingToPause
  BY <1>25 DEF NothingToPause, Awaiting, Ends, Judges, Outside, NoTick, NoFault, bounds,
    Active
<1>26. CASE Breaks
  BY <1>26 DEF Breaks, Fault, NoTick, LosesPause, Outside, Active
<1>27. CASE Crash
  BY <1>27 DEF Crash, NoTick, LosesPause, Active
<1>28. CASE TurnEnds \/ SubagentReturns \/ Prompts \/ Aborts
  BY <1>28, SessionSteps DEF Active
<1> QED BY <1>1, <1>2, <1>3, <1>4, <1>5, <1>6, <1>7, <1>8, <1>9, <1>10, <1>11, <1>12, <1>13,
  <1>14, <1>15, <1>16, <1>17, <1>18, <1>19, <1>20, <1>21, <1>22, <1>23, <1>24, <1>25, <1>26,
  <1>27, <1>28
  DEF Next, Hearing, Ticking, People
\* The last event under way.
LEMMA TailLast ==
  ASSUME NEW S, NEW s \in Seq(S), s # <<>>, Tail(s) # <<>>
  PROVE  Tail(s)[Len(Tail(s))] = s[Len(s)]
OBVIOUS

LEMMA HeardLast ==
  ASSUME TypeOK, events # <<>>, events' = Tail(events), events' # <<>>
  PROVE  events'[Len(events')] = events[Len(events)]
BY TailLast DEF TypeOK

LEMMA LastOne ==
  ASSUME NEW S, NEW s \in Seq(S), s # <<>>, s[Len(s)] # s[1]
  PROVE  Tail(s) # <<>>
PROOF
<1>1. Len(s) \in Nat /\ Len(s) # 0 /\ Len(s) # 1
  OBVIOUS
<1>2. Len(Tail(s)) = Len(s) - 1
  OBVIOUS
<1>3. Len(Tail(s)) # 0
  BY <1>1, <1>2
<1>4. Len(<<>>) = 0
  OBVIOUS
<1> QED BY <1>3, <1>4, Zenon

LEMMA AppendLast ==
  ASSUME NEW S, NEW s \in Seq(S), NEW e
  PROVE  Append(s, e) # <<>> /\ Append(s, e)[Len(Append(s, e))] = e
OBVIOUS

\* A tick is left behind only by an event, a timer or something that was missed.
LEMMA FollowedStep ==
  ASSUME TypeOK, Carries, Rested, Followed, [Next]_vars
  PROVE  Followed'
PROOF
<1> USE GoalAssumption DEF TypeOK, Carries, Rested, Followed, Resting, Coming, Outcome,
      Goal, Status, Awaits, Verdict, TickState, Judging, Sending
<1>1. CASE HearIdle
  <2>1. /\ events # <<>> /\ events' = Tail(events) /\ timer'
        /\ UNCHANGED <<goal, session, tick>>
    BY <1>1 DEF HearIdle, HearKeeps
  <2>2. events' # <<>> => events'[Len(events')] = events[Len(events)]
    BY <2>1, HeardLast
  <2> QED BY <2>1, <2>2 DEF Active
<1>2. CASE HearBusy
  <2>1. /\ events # <<>> /\ events[1] = "busy" /\ events' = Tail(events)
        /\ UNCHANGED <<goal, session, tick, missed>>
    BY <1>2 DEF HearBusy, HearKeeps
  <2>2. events' # <<>> => events'[Len(events')] = events[Len(events)]
    BY <2>1, HeardLast
  <2>3. ~session.running => events' # <<>>
    BY <2>1, LastOne
  <2> QED BY <2>1, <2>2, <2>3 DEF Active
<1>3. CASE HearAborted
  <2>1. /\ events # <<>> /\ events' = Tail(events) /\ UNCHANGED <<goal, session>>
        /\ (UNCHANGED tick /\ missed') \/ tick' = [NoTick EXCEPT !.pc = "pause"]
    BY <1>3 DEF HearAborted, HearKeeps, InFlight
  <2>2. events' # <<>> => events'[Len(events')] = events[Len(events)]
    BY <2>1, HeardLast
  <2>3. CASE UNCHANGED tick /\ missed'
    BY <2>1, <2>2, <2>3
  <2>4. CASE tick'.pc = "pause" /\ ~tick'.moved
    BY <2>1, <2>2, <2>4
  <2>5. [NoTick EXCEPT !.pc = "pause"].pc = "pause" /\ ~[NoTick EXCEPT !.pc = "pause"].moved
    BY DEF NoTick
  <2> QED BY <2>1, <2>3, <2>4, <2>5
<1>4. CASE HearUpdated
  BY <1>4 DEF HearUpdated, HearKeeps, InFlight, Active
<1>5. CASE TimerFires
  BY <1>5, Firing DEF Active
<1>6. CASE ReadsGoal
  BY <1>6 DEF ReadsGoal, Awaiting, Judges, Outside, NoFault, bounds, Active
<1>7. CASE NoGoal
  BY <1>7 DEF NoGoal, Awaiting, Ends, Judges, Outside, NoTick, NoFault, bounds, Active
<1>8. CASE Quiet
  BY <1>8 DEF Quiet, Awaiting, Judges, Outside, NoFault, bounds, Active
<1>9. CASE Runs
  BY <1>9 DEF Runs, Awaiting, Ends, Judges, Outside, NoTick, NoFault, bounds, Active
<1>10. CASE SubagentsWork
  BY <1>10 DEF SubagentsWork, Awaiting, NoFault, Fault, bounds, NoTick, Judges, Outside,
    Active
<1>11. CASE Prompted
  BY <1>11 DEF Prompted, Awaiting, Ends, Judges, Outside, NoTick, NoFault, bounds, Active
<1>12. CASE LoadsMessages
  BY <1>12 DEF LoadsMessages, Awaiting, Stop, Judges, Outside, NoFault, bounds, Active
<1>13. CASE Checked
  BY <1>13 DEF Checked, Awaiting, Outside, NoFault, bounds, Active
<1>14. CASE Unchecked
  BY <1>14 DEF Unchecked, Awaiting, Fault, Judges, Outside, Active
<1>15. CASE ReadsAgain
  BY <1>15 DEF ReadsAgain, Awaiting, Judges, Outside, NoFault, bounds, Active
<1>16. CASE GoalChanged
  BY <1>16 DEF GoalChanged, Awaiting, Ends, Judges, Outside, NoTick, NoFault, bounds, Active
<1>17. CASE Settles
  BY <1>17 DEF Settles, Awaiting, Settled, NoTick, Notify, Outside, NoFault, bounds, Active
<1>18. CASE WritesTurn
  BY <1>18 DEF WritesTurn, Awaiting, Continued, Notify, Outside, NoFault, bounds, Active
<1>19. CASE TailStands
  BY <1>19 DEF TailStands, Awaiting, Judges, Outside, NoFault, bounds, Active
<1>20. CASE TailMoved
  BY <1>20 DEF TailMoved, Awaiting, Ends, Judges, Outside, NoTick, NoFault, bounds, Active
<1>21. CASE Continues
  BY <1>21 DEF Continues, Awaiting, NoFault, Fault, bounds, Works, NoTick, Active
<1>22. CASE PausesAfterAbort
  BY <1>22 DEF PausesAfterAbort, Awaiting, Judges, Outside, NoFault, bounds, Active
<1>23. CASE NothingToPause
  BY <1>23 DEF NothingToPause, Awaiting, Ends, Judges, Outside, NoTick, NoFault, bounds,
    Active
<1>24. CASE Breaks
  BY <1>24 DEF Breaks, Fault, NoTick, LosesPause, Outside, Active
<1>25. CASE TurnEnds
  <2>1. events' = Append(events, "idle") /\ UNCHANGED <<goal, timer, missed>>
    BY <1>25 DEF TurnEnds, SessionKeeps
  <2>2. events' # <<>> /\ events'[Len(events')] = "idle"
    BY <2>1, AppendLast
  <2> QED BY <2>2
<1>26. CASE SubagentReturns
  <2>1. UNCHANGED <<goal, timer, missed>>
    BY <1>26 DEF SubagentReturns, SessionKeeps
  <2>2. CASE session'.running
    BY <2>2
  <2>3. CASE UNCHANGED <<events, tick>> /\ session' = [session EXCEPT !.children = FALSE]
    BY <2>1, <2>3 DEF Active
  <2> QED BY <1>26, <2>2, <2>3 DEF SubagentReturns, Works
<1>27. CASE Prompts
  BY <1>27 DEF Prompts, Works, Arrives, InFlight, Awaiting, SessionKeeps, Active
<1>28. CASE Aborts
  <2>1. events' = Append(events, "aborted")
    BY <1>28 DEF Aborts
  <2>2. events' # <<>> /\ events'[Len(events')] = "aborted"
    BY <2>1, AppendLast
  <2> QED BY <2>2
<1>29. CASE SetGoal
  BY <1>29 DEF SetGoal, Acts, Grants, Notify, InFlight, Active
<1>30. CASE EditGoal
  BY <1>30 DEF EditGoal, Acts, Notify, InFlight, Active
<1>31. CASE Resume
  BY <1>31 DEF Resume, Acts, Grants, Notify, InFlight, Active
<1>32. CASE StopGoal
  BY <1>32 DEF StopGoal, Acts, Notify, InFlight, Active
<1>33. CASE LosesEvents
  BY <1>33 DEF LosesEvents, Fault, Active
<1>34. CASE Crash
  BY <1>34 DEF Crash, NoTick, LosesPause, Active
<1>35. CASE UNCHANGED vars
  BY <1>35 DEF vars, history, bounds, Active
<1> QED BY <1>1, <1>2, <1>3, <1>4, <1>5, <1>6, <1>7, <1>8, <1>9, <1>10, <1>11, <1>12, <1>13,
  <1>14, <1>15, <1>16, <1>17, <1>18, <1>19, <1>20, <1>21, <1>22, <1>23, <1>24, <1>25, <1>26,
  <1>27, <1>28, <1>29, <1>30, <1>31, <1>32, <1>33, <1>34, <1>35
  DEF Next, Hearing, Ticking, People

-----------------------------------------------------------------------------
(* The theorems.                                                           *)

LEMMA InitIInv ==
  ASSUME Init
  PROVE  IInv
PROOF
<1> USE GoalAssumption DEF Init
<1>1. TypeOK
  <2>1. session \in [running : BOOLEAN, children : BOOLEAN, last : Outcome,
                     cut : 0..2, over : BOOLEAN]
    <3>1. {FALSE} \subseteq BOOLEAN /\ {"none", "done"} \subseteq Outcome /\ {0} \subseteq 0..2
      BY DEF Outcome
    <3> HIDE DEF Outcome
    <3> QED BY <3>1
  <2>2. events \in Seq({"busy", "idle", "aborted"}) /\ tick \in TickState
    BY NoTickTyped
  <2>3. /\ timer \in BOOLEAN /\ former \in BOOLEAN /\ late \in BOOLEAN
        /\ stopped \in BOOLEAN /\ missed \in BOOLEAN
    OBVIOUS
  <2>4. /\ prompts \in Nat /\ acts \in Nat /\ faults \in Nat /\ crashes \in Nat
        /\ sent \in 0..(Limit + 1) /\ blind \in 0..2
    OBVIOUS
  <2> QED BY <2>1, <2>2, <2>3, <2>4 DEF TypeOK
<1>2. tick.pc = "nothing" /\ goal = None /\ ~Active
  BY DEF NoTick, Active
<1>3. Carries /\ BelowCap /\ Counted /\ Recorded /\ Halted
  BY <1>2 DEF Carries, BelowCap, Counted, Recorded, Halted, Judging, Sending
<1>4. Rested /\ Followed
  BY <1>2 DEF Rested, Followed, Resting, Judging
<1> QED BY <1>1, <1>3, <1>4 DEF IInv

LEMMA StepIInv ==
  ASSUME IInv, [Next]_vars
  PROVE  IInv'
PROOF
<1> USE DEF IInv
<1>1. TypeOK'
  BY GoalTyped, SessionTyped, EventsTyped, TickTyped, BoundsTyped, SentTyped, FlagsTyped
  DEF TypeOK
<1>2. Carries' /\ BelowCap'
  BY CarriesStep, BelowCapStep
<1>3. Counted' /\ Recorded'
  BY CountedStep, RecordedStep
<1>4. Halted' /\ Rested' /\ Followed'
  BY HaltedStep, RestedStep, FollowedStep
<1> QED BY <1>1, <1>2, <1>3, <1>4

\* In every reachable state what is stored of a goal and carried by its tick is about
\* one goal, counted and recorded (runtime.js, tick and writeGoal).
THEOREM Inductive == Spec => []IInv
PROOF
<1>1. Init => IInv
  BY InitIInv
<1>2. IInv /\ [Next]_vars => IInv'
  BY StepIInv
<1> QED BY <1>1, <1>2, PTL DEF Spec

\* The goal, the session and the tick keep their types: in particular turnsUsed never
\* passes getMaxAutoTurns, for a write of the tick counts one turn more than it judged.
THEOREM Typed == Spec => []TypeOK
PROOF
<1>1. IInv => TypeOK
  BY DEF IInv
<1> QED BY <1>1, Inductive, PTL

\* sendContinuation is reached at most getMaxAutoTurns times between two grants of turns
\* (setSessionGoal, setSessionGoalStatus), with any number of faults and restarts.
THEOREM CapHolds == Spec => []Capped
PROOF
<1>1. IInv => Capped
  BY DEF IInv, Counted, Capped
<1> QED BY <1>1, Inductive, PTL

\* Between two checks that ran, or deeds of people, at most one continuation follows a
\* check that failed.
THEOREM BlindOnce == Spec => []NeverBlind
PROOF
<1>1. IInv => NeverBlind
  BY DEF IInv, Recorded, NeverBlind
<1> QED BY <1>1, Inductive, PTL

\* An active goal on a session that rests has a timer, a tick or an event coming, or the
\* loop has missed it for one of the reasons Watched names.
THEOREM AlwaysWatched == Spec => []Watched
PROOF
<1>1. IInv => Watched
  BY DEF IInv, Followed, Resting, Coming, Watched, InFlight
<1> QED BY <1>1, Inductive, PTL

LEMMA SendsAtPrompt ==
  ASSUME TypeOK, [Next]_vars, sent' > sent
  PROVE  Continues
PROOF
<1>1. ~ 0 > sent /\ ~ sent > sent
  BY GoalAssumption DEF TypeOK
<1> QED BY <1>1, SentWriters DEF SetGoal, Resume

\* A continuation goes to a session at rest whose turn was judged, unless a message came
\* after the second look at the messages (tick, before sendContinuation).
THEOREM SendsAtRest == Spec => NotIntoATurn
PROOF
<1>1. IInv /\ [Next]_vars => [sent' > sent => (~session.running /\ ~tick.moved) \/ late]_vars
  BY SendsAtPrompt DEF IInv, Rested, Continues, Awaiting
<1> QED BY <1>1, Inductive, PTL DEF Spec, NotIntoATurn

\* Nothing is sent for a goal that a person stopped while no tick was in flight.
THEOREM StopIsFinal == Spec => StopHolds
PROOF
<1>1. IInv /\ [Next]_vars => [sent' > sent => ~stopped]_vars
  BY SendsAtPrompt DEF IInv, Halted, Continues, Awaiting
<1> QED BY <1>1, Inductive, PTL DEF Spec, StopHolds

\* writeGoal writes to the goal the tick has read, or the pause found; it replaces
\* another one, none, or one that was stopped, only when that was stored after it had
\* read the goal again.
THEOREM WritesOwnGoal == Spec => OwnGoal
PROOF
<1> DEFINE Own ==
      acts' = acts /\ goal' # goal =>
        /\ goal'.id = tick.of.id
        /\ \/ /\ goal # None /\ goal.id = tick.of.id
              /\ goal'.status = "active" => goal.status = "active"
           \/ tick.pc = "write" /\ goal # tick.copy
<1>1. ASSUME IInv, [Next]_vars, acts' = acts, goal' # goal
      PROVE  Own
  <2>1. acts' # acts + 1
    BY <1>1 DEF IInv, TypeOK
  <2>2. Settles \/ WritesTurn
    BY <1>1, <2>1, GoalWriters DEF SetGoal, EditGoal, Resume, StopGoal, Acts
  <2>3. /\ tick.pc = "write" /\ tick.verdict \in Verdict
        /\ tick.copy \in Goal /\ tick.copy.id = tick.of.id
    BY <1>1, <2>2 DEF IInv, Carries, TypeOK, TickState, Settles, WritesTurn, Awaiting
  <2>4. goal = tick.copy => goal # None /\ goal.id = tick.of.id
    BY <2>3, GoalAssumption
  <2>5. /\ goal'.id = tick.copy.id
        /\ goal'.status = "active" => tick.copy.status = "active"
    BY <2>2, <2>3 DEF Settles, Settled, WritesTurn, Continued, Goal, Verdict, Status
  <2> QED BY <2>3, <2>4, <2>5
<1>2. IInv /\ [Next]_vars => [Own]_vars
  BY <1>1
<1> QED BY <1>2, Inductive, PTL DEF Spec, OwnGoal
=============================================================================
