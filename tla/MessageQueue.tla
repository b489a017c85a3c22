---------------------------- MODULE MessageQueue ----------------------------
(***************************************************************************)
(* The server's message queue (message-queue/runtime.js): what people, and *)
(* the scheduler, queue for a session is sent when the session goes idle.  *)
(*                                                                         *)
(* Node runs one stretch of code between two awaits at a time, so an       *)
(* action is such a stretch.  A timer that fires starts a tick, which      *)
(* awaits OpenCode's answers one after the other; timers armed meanwhile   *)
(* start further ticks of the same session.  OpenCode, its event hub and   *)
(* people are the environment.                                             *)
(*                                                                         *)
(* Items are numbered as they are queued, which is also the order of their *)
(* createdAt; a queue is the set of its items, in the order of their rank. *)
(* A timer is armed or not: its delay matters only against the hold after  *)
(* an abort and the backoff of a failed item, and a tick that finds one of *)
(* these running arms the remaining time, so it does not start before.     *)
(***************************************************************************)
EXTENDS Naturals, FiniteSets, Sequences

CONSTANTS
  None,         \* null
  Session,      \* sessions
  Tick,         \* ticks under way together
  QueueLimit,   \* MAX_ITEMS_PER_SESSION
  SessionLimit, \* MAX_SESSIONS
  MaxItems,     \* bound on messages queued
  MaxActs,      \* bound on requests of people, and of the scheduler to cancel
  MaxLost,      \* bound on sends OpenCode accepts and whose answer is lost
  MaxReruns,    \* bound on turns that end while a subagent works on
  MaxGaps,      \* bound on reconnections of the event hub
  MaxCrashes    \* bound on restarts of the server

Item == 1..MaxItems

ASSUME QueueAssumption ==
  /\ IsFiniteSet(Session) /\ IsFiniteSet(Tick)
  /\ None \notin Nat /\ None \notin Session
  /\ QueueLimit \in Nat \ {0} /\ SessionLimit \in Nat \ {0}
  /\ MaxItems \in Nat /\ MaxActs \in Nat /\ MaxLost \in Nat
  /\ MaxReruns \in Nat /\ MaxGaps \in Nat /\ MaxCrashes \in Nat

VARIABLES
  queue,    \* queues: the items waiting per session
  rank,     \* their order
  tasks,    \* the items queued by the scheduler, all of one task
  file,     \* message-queue.json
  sending,  \* sending: the item in flight per session
  timers,   \* timers
  backoff,  \* failures: the item whose next attempt is not due yet
  aborted,  \* abortedAt: the hold after an abort is running
  held,     \* holds
  ticks,    \* the ticks under way
  alive, turn, subagent, \* OpenCode: the session exists, runs, waits for a subagent
  hub,      \* events on their way to the server, per session
  made, acts, lost, reruns, gaps, crashes, \* what has been spent of the bounds
  accepted, \* history: how often OpenCode accepted an item
  back,     \* history: items people took back or removed
  torn,     \* history: items dropped from the queue while in flight
  result,   \* history: what the scheduler was told of an item
  missed    \* history: why a session's last wake-up came to nothing

memory   == <<sending, timers, backoff, aborted, held, ticks, missed>>
stored   == <<queue, rank, tasks, file>>
openCode == <<alive, turn, subagent, hub>>
bounds   == <<made, acts, lost, reruns, gaps, crashes>>
history  == <<accepted, back, torn, result>>
vars     == <<memory, stored, openCode, bounds, history>>

Event == {"busy", "idle", "aborted", "deleted"}

\* A tick awaits, in this order: the session's idleness ("status"), the target
\* of a scheduled item when that is unknown ("validating"), the subagents, the
\* scheduler's consent ("before"), OpenCode's acceptance ("sending"), its answer.
TickState ==
  [pc : {"idle", "status", "validating", "subagents", "before", "sending", "answer"},
   session : Session \cup {None}, item : Item \cup {None}]

IdleTick == [pc |-> "idle", session |-> None, item |-> None]

Queue == {q \in SUBSET Item : Cardinality(q) <= QueueLimit}

TypeOK ==
  /\ queue \in [Session -> Queue]
  /\ rank \in [Item -> Nat]
  /\ tasks \in SUBSET Item
  /\ file \in [queue : [Session -> Queue], rank : [Item -> Nat]]
  /\ sending \in [Session -> Item \cup {None}]
  /\ timers \in [Session -> BOOLEAN]
  /\ backoff \in [Session -> Item \cup {None}]
  /\ aborted \in [Session -> BOOLEAN] /\ held \in [Session -> BOOLEAN]
  /\ ticks \in [Tick -> TickState]
  /\ alive \in [Session -> BOOLEAN] /\ turn \in [Session -> BOOLEAN]
  /\ subagent \in [Session -> BOOLEAN]
  /\ hub \in [Session -> Seq(Event)]
  /\ made \in 0..MaxItems /\ acts \in Nat /\ lost \in Nat
  /\ reruns \in Nat /\ gaps \in Nat /\ crashes \in Nat
  /\ accepted \in [Item -> Nat]
  /\ back \in SUBSET Item /\ torn \in SUBSET Item
  /\ result \in [Item -> {"none", "sent", "failed", "cancelled"}]
  /\ missed \in [Session -> SUBSET {"hold", "edit", "sending"}]

Everywhere(x) == [s \in Session |-> x]

Init ==
  /\ queue = Everywhere({}) /\ rank = [i \in Item |-> i] /\ tasks = {}
  /\ file = [queue |-> queue, rank |-> rank]
  /\ sending = Everywhere(None) /\ backoff = Everywhere(None)
  /\ timers = Everywhere(FALSE) /\ missed = Everywhere({})
  /\ aborted = Everywhere(FALSE) /\ held = Everywhere(FALSE)
  /\ ticks = [t \in Tick |-> IdleTick]
  /\ alive \in [Session -> BOOLEAN]
  /\ turn \in [Session -> BOOLEAN] /\ \A s \in Session : turn[s] => alive[s]
  /\ subagent = Everywhere(FALSE) /\ hub = Everywhere(<<>>)
  /\ made = 0 /\ acts = 0 /\ lost = 0 /\ reruns = 0 /\ gaps = 0 /\ crashes = 0
  /\ accepted = [i \in Item |-> 0]
  /\ back = {} /\ torn = {} /\ result = [i \in Item |-> "none"]

-----------------------------------------------------------------------------
(* The queue and its timers.                                               *)

\* Mutant: a message that fails lets the others pass.
FirstDue(s) ==
  LET due == queue[s] \ {backoff[s]} IN
  CHOOSE i \in queue[s] :
    IF due = {} THEN TRUE ELSE i \in due /\ \A j \in due : rank[i] <= rank[j]

First(s) == CHOOSE i \in queue[s] : \A j \in queue[s] : rank[i] <= rank[j]

\* queues.keys()
Queued == {s \in Session : queue[s] # {}}
InFlight == {sending[s] : s \in Session} \ {None}

\* armDispatch, after the queues were changed: a session without a queue gets
\* no timer.
Arm(some) ==
  LET armed == {s \in some : queue'[s] # {}} IN
  /\ timers' = [s \in Session |-> timers[s] \/ s \in armed]
  /\ missed' = [s \in Session |-> IF s \in armed THEN {} ELSE missed[s]]

Disarm(s) == timers' = [timers EXCEPT ![s] = FALSE]
Misses(s, why) == missed' = [missed EXCEPT ![s] = @ \cup {why}]

\* setQueueItems: the scheduler hears of every item of its own that goes.
Report(gone, status) ==
  result' = [i \in Item |-> IF i \in gone \cap tasks THEN status ELSE result[i]]

\* In the middle of a send.
Tear(gone) == torn' = torn \cup (gone \cap InFlight)

Drop(s, gone, status) ==
  /\ queue' = [queue EXCEPT ![s] = @ \ gone]
  /\ Report(queue[s] \cap gone, status)

\* persist: the writes are chained, so the file holds some past state of the
\* queues, never older than the one before.
Persist ==
  /\ file # [queue |-> queue, rank |-> rank]
  /\ file' = [queue |-> queue, rank |-> rank]
  /\ UNCHANGED <<queue, rank, tasks, memory, openCode, bounds, history>>

-----------------------------------------------------------------------------
(* Requests.                                                               *)

\* The sessions that go when session s makes the queues too many: the ones whose
\* first item is oldest, never one with an item in flight.
Stale(s) ==
  LET others  == {x \in Queued \ {s} : sending[x] = None}
      surplus == Cardinality(Queued \cup {s}) - SessionLimit
  IN {x \in others : Cardinality({y \in others : First(y) < First(x)}) < surplus}

\* enqueue: a new item, which may push the first one out of its queue.
Put(s, i) ==
  LET pushed == IF Cardinality(queue[s]) < QueueLimit THEN {} ELSE {First(s)}
      stale  == Stale(s)
      kept(x) == IF x = s THEN (queue[x] \cup {i}) \ pushed
                 ELSE IF x \in stale THEN {} ELSE queue[x]
  IN
  /\ made' = i
  /\ queue' = [x \in Session |-> kept(x)]
  /\ Report(pushed \cup UNION {queue[x] : x \in stale}, "cancelled") /\ Tear(pushed)
  /\ timers' = [x \in Session |-> x = s \/ (timers[x] /\ x \notin stale)]
  /\ missed' = [missed EXCEPT ![s] = {}]
  /\ UNCHANGED <<rank, file, sending, backoff, aborted, held, ticks, openCode,
                 acts, lost, reruns, gaps, crashes, accepted, back>>

Enqueue(s) ==
  /\ made < MaxItems /\ alive[s]
  /\ Put(s, made + 1)
  /\ UNCHANGED tasks

\* enqueue with a scheduledTask: refused while another prompt of the task waits
\* anywhere and when something else would have to go.
EnqueueTask(s) ==
  /\ made < MaxItems /\ alive[s]
  /\ \A x \in Session : queue[x] \cap tasks = {}
  /\ Cardinality(queue[s]) < QueueLimit
  /\ s \in Queued \/ Cardinality(Queued) < SessionLimit
  /\ Put(s, made + 1)
  /\ tasks' = tasks \cup {made + 1}

Request == acts < MaxActs /\ acts' = acts + 1
NoOtherBound == UNCHANGED <<made, lost, reruns, gaps, crashes>>

\* People get items back, or remove them.
GiveBack(s, gone) ==
  /\ Request
  /\ Drop(s, gone, "cancelled")
  /\ back' = back \cup gone
  /\ UNCHANGED <<rank, tasks, file, sending, backoff, aborted, held, ticks,
                 openCode, accepted, torn>> /\ NoOtherBound

\* remove; take does the same to an item the scheduler did not queue.
Remove(s, i) ==
  /\ i \in queue[s] /\ sending[s] # i
  /\ GiveBack(s, {i}) /\ UNCHANGED <<timers, missed>>

\* Mutant: hands back the item in flight as well.
TakeEverything(s) ==
  LET taken == queue[s] \ tasks IN
  /\ taken # {}
  /\ GiveBack(s, taken) /\ UNCHANGED <<timers, missed>>

\* takeAll
TakeAll(s) ==
  LET taken == queue[s] \ ({sending[s]} \cup tasks) IN
  /\ taken # {}
  /\ GiveBack(s, taken) /\ UNCHANGED <<timers, missed>>

\* clear
Clear(s) ==
  /\ s \in Queued
  /\ GiveBack(s, queue[s] \ {sending[s]}) /\ Disarm(s) /\ UNCHANGED missed

\* reorder: any permutation of the whole queue, the item in flight included.
Reorder(s) ==
  /\ Request
  /\ \E p \in [queue[s] -> queue[s]] :
       /\ \A i, j \in queue[s] : p[i] = p[j] => i = j
       /\ \E i \in queue[s] : p[i] # i
       /\ rank' = [i \in Item |-> IF i \in queue[s] THEN rank[p[i]] ELSE rank[i]]
  /\ UNCHANGED <<queue, tasks, file, memory, openCode, history>> /\ NoOtherBound

\* Mutant: cancels the prompt in flight as well.
CancelInFlight ==
  LET hit == {s \in Session : queue[s] \cap tasks # {}} IN
  /\ Request
  /\ hit # {}
  /\ queue' = [s \in Session |-> queue[s] \ tasks]
  /\ Report(UNION {queue[s] \cap tasks : s \in hit}, "cancelled")
  /\ Arm(hit)
  /\ UNCHANGED <<rank, tasks, file, sending, backoff, aborted, held, ticks,
                 openCode, accepted, back, torn>> /\ NoOtherBound

\* cancelScheduledTask, when the task is disabled, deleted or gets another target.
CancelTask ==
  LET gone == tasks \ InFlight
      hit  == {s \in Session : queue[s] \cap gone # {}}
  IN
  /\ Request
  /\ hit # {}
  /\ queue' = [s \in Session |-> queue[s] \ gone]
  /\ Report(UNION {queue[s] \cap gone : s \in hit}, "cancelled")
  /\ Arm(hit)
  /\ back' = back \cup UNION {queue[s] \cap gone : s \in hit}
  /\ UNCHANGED <<rank, tasks, file, sending, backoff, aborted, held, ticks,
                 openCode, accepted, torn>> /\ NoOtherBound

\* setHold(true)
Hold(s) ==
  /\ Request
  /\ held' = [held EXCEPT ![s] = TRUE]
  /\ Disarm(s) /\ Misses(s, "hold")
  /\ UNCHANGED <<sending, backoff, aborted, ticks, stored, openCode, history>>
  /\ NoOtherBound

\* setHold(false)
Release(s) ==
  /\ held[s]
  /\ held' = [held EXCEPT ![s] = FALSE]
  /\ UNCHANGED <<sending, backoff, aborted, ticks, stored, openCode, bounds, history>>
  /\ Arm({s})

\* isHeld finds the hold expired.
HoldExpires(s) ==
  /\ held[s]
  /\ held' = [held EXCEPT ![s] = FALSE]
  /\ UNCHANGED <<sending, timers, missed, backoff, aborted, ticks, stored,
                 openCode, bounds, history>>

-----------------------------------------------------------------------------
(* Events from OpenCode (processPayload), and its reconnection.            *)

Hear(s) == hub[s] # <<>> /\ hub' = [hub EXCEPT ![s] = Tail(@)]
HearKeeps == UNCHANGED <<rank, tasks, file, sending, held, ticks, alive, turn,
                         subagent, bounds, accepted, back>>

\* Sessions without a queue are not looked at.
HearNothing(s) ==
  /\ Hear(s) /\ s \notin Queued
  /\ HearKeeps /\ UNCHANGED <<queue, timers, missed, backoff, aborted, torn, result>>

\* The session is idle; a completed reply does the same.
HearIdle(s) ==
  /\ Hear(s) /\ s \in Queued /\ Head(hub[s]) = "idle"
  /\ HearKeeps /\ UNCHANGED <<queue, backoff, aborted, torn, result>>
  /\ Arm({s})

HearBusy(s) ==
  /\ Hear(s) /\ s \in Queued /\ Head(hub[s]) = "busy"
  /\ Disarm(s)
  /\ HearKeeps /\ UNCHANGED <<queue, missed, backoff, aborted, torn, result>>

HearAborted(s) ==
  /\ Hear(s) /\ s \in Queued /\ Head(hub[s]) = "aborted"
  /\ aborted' = [aborted EXCEPT ![s] = TRUE]
  /\ HearKeeps /\ UNCHANGED <<queue, timers, missed, backoff, torn, result>>

HearDeleted(s) ==
  /\ Hear(s) /\ s \in Queued /\ Head(hub[s]) = "deleted"
  /\ Drop(s, queue[s], "cancelled") /\ Tear(queue[s])
  /\ Disarm(s)
  /\ backoff' = [backoff EXCEPT ![s] = None]
  /\ HearKeeps /\ UNCHANGED <<missed, aborted>>

\* reconcileAll on a connect of the hub: the events in between are lost.
Reconnect ==
  /\ gaps < MaxGaps /\ gaps' = gaps + 1
  /\ hub' = Everywhere(<<>>)
  /\ UNCHANGED <<stored, sending, backoff, aborted, held, ticks, alive, turn,
                 subagent, made, acts, lost, reruns, crashes, history>>
  /\ Arm(Session)

AbortWindowEnds(s) ==
  /\ aborted[s]
  /\ aborted' = [aborted EXCEPT ![s] = FALSE]
  /\ UNCHANGED <<sending, timers, backoff, held, ticks, missed, stored, openCode,
                 bounds, history>>

BackoffEnds(s) ==
  /\ backoff[s] # None
  /\ backoff' = [backoff EXCEPT ![s] = None]
  /\ UNCHANGED <<sending, timers, aborted, held, ticks, missed, stored, openCode,
                 bounds, history>>

-----------------------------------------------------------------------------
(* The tick.                                                               *)

\* The timer fires and there is nothing to do now.
TickStops(s) ==
  /\ timers[s]
  /\ queue[s] = {} \/ sending[s] # None \/ held[s]
  /\ Disarm(s)
  /\ IF queue[s] = {} THEN UNCHANGED missed
     ELSE Misses(s, IF sending[s] # None THEN "sending" ELSE "hold")
  /\ UNCHANGED <<sending, backoff, aborted, held, ticks, stored, openCode, bounds,
                 history>>

TickStarts(t, s) ==
  /\ ticks[t].pc = "idle" /\ timers[s]
  /\ queue[s] # {} /\ sending[s] = None /\ ~held[s]
  /\ ~aborted[s] /\ backoff[s] # First(s)
  /\ Disarm(s)
  /\ backoff' = [backoff EXCEPT ![s] = None]
  /\ ticks' = [ticks EXCEPT ![t] = [pc |-> "status", session |-> s, item |-> First(s)]]
  /\ UNCHANGED <<sending, aborted, held, missed, stored, openCode, bounds, history>>

Goes(t, pc) == ticks' = [ticks EXCEPT ![t].pc = pc]
Ends(t)     == ticks' = [ticks EXCEPT ![t] = IdleTick]
Outside     == UNCHANGED <<rank, tasks, file, aborted, held, openCode, back>>

\* What a stretch of a tick that only waits leaves alone.
Waits == Outside /\ UNCHANGED <<queue, sending, backoff, bounds, accepted, torn, result>>

\* Mutant: could not be asked, so it waits for the next event.
UnknownWaits(t) ==
  /\ ticks[t].pc = "status"
  /\ Waits /\ Ends(t) /\ UNCHANGED <<timers, missed>>

\* Could not be asked: armed again, after the target of a scheduled item was asked.
Unknown(t) ==
  /\ ticks[t].pc = "status"
  /\ Waits
  /\ IF ticks[t].item \in tasks
       THEN Goes(t, "validating") /\ UNCHANGED <<timers, missed>>
       ELSE Ends(t) /\ Arm({ticks[t].session})

TargetKept(t) ==
  /\ ticks[t].pc = "validating"
  /\ Waits /\ Ends(t) /\ Arm({ticks[t].session})

TargetRefused(t) ==
  /\ ticks[t].pc = "validating"
  /\ Drop(ticks[t].session, {ticks[t].item}, "failed")
  /\ Tear({ticks[t].item})
  /\ Ends(t) /\ Arm({ticks[t].session})
  /\ Outside /\ UNCHANGED <<sending, backoff, bounds, accepted>>

SeesBusy(t) ==
  /\ ticks[t].pc = "status" /\ turn[ticks[t].session]
  /\ Waits /\ Ends(t) /\ UNCHANGED <<timers, missed>>

\* Mutant: a state that could not be asked counts as idle.
SeesIdleOrNothing(t) ==
  /\ ticks[t].pc = "status"
  /\ Waits /\ Goes(t, "subagents") /\ UNCHANGED <<timers, missed>>

SeesIdle(t) ==
  /\ ticks[t].pc = "status"
  /\ alive[ticks[t].session] /\ ~turn[ticks[t].session]
  /\ Waits /\ Goes(t, "subagents") /\ UNCHANGED <<timers, missed>>

\* A subagent works, or could not be asked about.
SubagentsWork(t) ==
  /\ ticks[t].pc = "subagents"
  /\ Waits /\ Ends(t) /\ Arm({ticks[t].session})

\* Mutant: a tick that was faster is not noticed.
FirstAgain(t) ==
  LET s == ticks[t].session IN
  queue[s] # {} /\ First(s) = ticks[t].item

StillFirst(t) ==
  LET s == ticks[t].session IN
  queue[s] # {} /\ First(s) = ticks[t].item /\ sending[s] = None

\* The queue was changed in between, or another tick was faster.
Overtaken(t) ==
  LET s == ticks[t].session IN
  /\ ticks[t].pc = "subagents" /\ ~subagent[s] /\ ~StillFirst(t)
  /\ Waits /\ Ends(t) /\ UNCHANGED timers
  /\ IF timers[s] \/ queue[s] = {} \/ sending[s] # None THEN UNCHANGED missed
     ELSE Misses(s, "edit")

HandOver(t) ==
  LET s == ticks[t].session IN
  /\ ticks[t].pc = "subagents" /\ ~subagent[s] /\ StillFirst(t)
  /\ sending' = [sending EXCEPT ![s] = ticks[t].item]
  /\ Goes(t, IF ticks[t].item \in tasks THEN "before" ELSE "sending")
  /\ Outside
  /\ UNCHANGED <<queue, timers, missed, backoff, bounds, accepted, torn, result>>

\* beforeScheduledTaskSend
Consents(t) ==
  /\ ticks[t].pc = "before"
  /\ Waits /\ Goes(t, "sending") /\ UNCHANGED <<timers, missed>>

Resolved(t) == sending' = [sending EXCEPT ![ticks[t].session] = None]
SetBackoff(t, i) == backoff' = [backoff EXCEPT ![ticks[t].session] = i]

Refuses(t) ==
  /\ ticks[t].pc = "before"
  /\ Resolved(t) /\ SetBackoff(t, None)
  /\ Drop(ticks[t].session, {ticks[t].item}, "failed")
  /\ Ends(t) /\ Arm({ticks[t].session})
  /\ Outside /\ UNCHANGED <<bounds, accepted, torn>>

\* The catch branch: the item stays, and is due again after its backoff.
Fails(t) ==
  /\ Resolved(t) /\ SetBackoff(t, ticks[t].item)
  /\ Outside /\ UNCHANGED <<queue, accepted, torn, result>>
  /\ Ends(t) /\ Arm({ticks[t].session})

SendFails(t) ==
  /\ ticks[t].pc \in {"before", "sending"}
  /\ Fails(t) /\ UNCHANGED bounds

\* OpenCode takes the message: a turn begins, or the running one is steered.
Accepts(t) ==
  LET s == ticks[t].session IN
  /\ ticks[t].pc = "sending" /\ alive[s]
  /\ accepted' = [accepted EXCEPT ![ticks[t].item] = @ + 1]
  /\ turn' = [turn EXCEPT ![s] = TRUE]
  /\ hub' = IF turn[s] THEN hub ELSE [hub EXCEPT ![s] = Append(@, "busy")]
  /\ Goes(t, "answer")
  /\ UNCHANGED <<stored, sending, timers, backoff, aborted, held, missed, alive,
                 subagent, bounds, back, torn, result>>

AnswerLost(t) ==
  /\ ticks[t].pc = "answer"
  /\ lost < MaxLost /\ lost' = lost + 1
  /\ Fails(t) /\ UNCHANGED <<made, acts, reruns, gaps, crashes>>

Sent(t) ==
  /\ ticks[t].pc = "answer"
  /\ Drop(ticks[t].session, {ticks[t].item}, "sent")
  /\ Resolved(t) /\ SetBackoff(t, None)
  /\ Ends(t)
  /\ Outside /\ UNCHANGED <<timers, missed, bounds, accepted, torn>>

-----------------------------------------------------------------------------
(* OpenCode, people in the session, and restarts.                          *)

World == UNCHANGED <<stored, memory, history, made, lost, gaps, crashes>>
Emits(s, events) == hub' = [hub EXCEPT ![s] = @ \o events]

\* A turn ends, for now when a subagent works on.
TurnEnds(s) ==
  /\ turn[s]
  /\ turn' = [turn EXCEPT ![s] = FALSE]
  /\ Emits(s, <<"idle">>)
  /\ \/ UNCHANGED <<subagent, reruns>>
     \/ /\ ~subagent[s] /\ reruns < MaxReruns /\ reruns' = reruns + 1
        /\ subagent' = [subagent EXCEPT ![s] = TRUE]
  /\ World /\ UNCHANGED <<alive, acts>>

Begins(s) ==
  /\ turn' = [turn EXCEPT ![s] = TRUE]
  /\ hub' = IF turn[s] THEN hub ELSE [hub EXCEPT ![s] = Append(@, "busy")]

\* The subagent is done and its parent runs again.
SubagentReturns(s) ==
  /\ subagent[s]
  /\ subagent' = [subagent EXCEPT ![s] = FALSE]
  /\ Begins(s)
  /\ World /\ UNCHANGED <<alive, acts, reruns>>

Prompt(s) ==
  /\ Request /\ alive[s] /\ ~turn[s]
  /\ Begins(s)
  /\ World /\ UNCHANGED <<alive, subagent, reruns>>

Abort(s) ==
  /\ Request /\ turn[s]
  /\ turn' = [turn EXCEPT ![s] = FALSE]
  /\ Emits(s, <<"idle", "aborted">>)
  /\ World /\ UNCHANGED <<alive, subagent, reruns>>

Delete(s) ==
  /\ Request /\ alive[s]
  /\ alive' = [alive EXCEPT ![s] = FALSE]
  /\ turn' = [turn EXCEPT ![s] = FALSE]
  /\ subagent' = [subagent EXCEPT ![s] = FALSE]
  /\ Emits(s, <<"deleted">>)
  /\ World /\ UNCHANGED reruns

\* A restart: what was in memory is lost, start loads the file and arms.
Crash ==
  /\ crashes < MaxCrashes /\ crashes' = crashes + 1
  /\ queue' = file.queue /\ rank' = file.rank
  /\ sending' = Everywhere(None) /\ backoff' = Everywhere(None)
  /\ aborted' = Everywhere(FALSE) /\ held' = Everywhere(FALSE)
  /\ ticks' = [t \in Tick |-> IdleTick]
  /\ timers' = [s \in Session |-> queue'[s] # {}]
  /\ missed' = Everywhere({})
  /\ hub' = Everywhere(<<>>)
  /\ UNCHANGED <<tasks, file, alive, turn, subagent, made, acts, lost, reruns,
                 gaps, history>>

-----------------------------------------------------------------------------
Ticking(t) ==
  \/ Unknown(t) \/ TargetKept(t) \/ TargetRefused(t)
  \/ SeesBusy(t) \/ SeesIdle(t) \/ SubagentsWork(t) \/ Overtaken(t) \/ HandOver(t)
  \/ Consents(t) \/ Refuses(t) \/ SendFails(t) \/ Accepts(t)
  \/ AnswerLost(t) \/ Sent(t)

Hearing(s) ==
  HearNothing(s) \/ HearIdle(s) \/ HearBusy(s) \/ HearAborted(s) \/ HearDeleted(s)

Next ==
  \/ \E s \in Session :
       \/ Enqueue(s) \/ EnqueueTask(s)
       \/ \E i \in Item : Remove(s, i)
       \/ TakeAll(s) \/ Clear(s) \/ Reorder(s)
       \/ Hold(s) \/ Release(s) \/ HoldExpires(s)
       \/ Hearing(s) \/ AbortWindowEnds(s) \/ BackoffEnds(s)
       \/ TickStops(s) \/ \E t \in Tick : TickStarts(t, s)
       \/ TurnEnds(s) \/ SubagentReturns(s)
       \/ Prompt(s) \/ Abort(s) \/ Delete(s)
  \/ \E t \in Tick : Ticking(t)
  \/ CancelTask \/ Reconnect \/ Persist \/ Crash

Spec == Init /\ [][Next]_vars

\* Timers fire, requests to OpenCode end and its events arrive; turns end.  Asked
\* again and again, OpenCode tells what runs and takes a message.
Fairness ==
  /\ \A s \in Session :
       /\ WF_vars(Hearing(s)) /\ WF_vars(AbortWindowEnds(s)) /\ WF_vars(BackoffEnds(s))
       /\ WF_vars(TickStops(s)) /\ SF_vars(\E t \in Tick : TickStarts(t, s))
       /\ WF_vars(TurnEnds(s)) /\ WF_vars(SubagentReturns(s)) /\ WF_vars(HoldExpires(s))
  /\ \A t \in Tick :
       /\ WF_vars(Ticking(t))
       /\ SF_vars(SeesIdle(t)) /\ SF_vars(HandOver(t))
       /\ SF_vars(Consents(t)) /\ SF_vars(Accepts(t))

FairSpec == Spec /\ Fairness

-----------------------------------------------------------------------------
(* Properties.                                                             *)

HasTick(s) == \E t \in Tick : ticks[t].session = s

\* A message goes out once: however ticks overlap, retries and edits fall between
\* them, only an answer that is lost or a restart before the file is written makes
\* the queue send it again.
SentOnce == \A i \in Item : accepted[i] <= 1 + lost + crashes

\* A message people took back is not sent by the queue as well (the composer is
\* about to send it itself), not even when it was first in the queue and a tick was
\* just about to.
TakenBackStaysBack ==
  lost = 0 /\ crashes = 0 => \A i \in back : accepted[i] = 0

\* The scheduler is told the truth about its prompts: one it counts as cancelled or
\* failed was not sent, unless it was dropped in the middle of its send.
ToldTheTruth ==
  lost = 0 /\ crashes = 0 =>
    \A i \in Item \ torn : result[i] \in {"failed", "cancelled"} => accepted[i] = 0

\* No message overtakes an older one of its session, also not while that one
\* fails; people who reorder and restarts apart.
InOrder ==
  [][acts = 0 /\ crashes = 0 =>
       \A s \in Session : \A i, j \in queue[s] :
         (accepted'[j] > accepted[j] /\ i < j) => accepted[i] > 0]_vars

\* A message starts a turn of its own and is not steered into a running one, as
\* long as nobody else starts turns and no answer is lost (runtime.js:9, "a queued
\* prompt sent into a running turn would be steered into it").  A subagent whose
\* parent runs again between the two checks of a tick is the exception.
NotIntoATurn ==
  [][acts = 0 /\ lost = 0 /\ reruns = 0 =>
       \A s \in Session : \A i \in queue[s] :
         accepted'[i] > accepted[i] => ~turn[s]]_vars

\* A queue that can be sent has something coming that will look at it: a timer, a
\* tick, an event of a session still running.  The exceptions are the wake-ups that
\* came to nothing: during a hold, which arms nothing when it expires; in a tick
\* whose first item was edited away; during a send that outlasts its turn.
Watched ==
  \A s \in Queued :
    \/ timers[s] \/ HasTick(s)
    \/ turn[s] \/ subagent[s] \/ hub[s] # <<>>
    \/ missed[s] # {}

\* Every message leaves its queue some time, also when the UI that asserted a hold
\* is gone (DOCUMENTATION.md: "A hold expires on its own (default 5 min, cap 10
\* min) because the UI that asserted it may be gone"); the other wake-ups that come
\* to nothing, and sessions deleted unheard, apart.
HoldsExpire ==
  \A s \in Session, i \in Item :
    i \in queue[s] ~> i \notin queue[s] \/ missed[s] \ {"hold"} # {} \/ ~alive[s]
=============================================================================
