# A TLA+ verification of TaskHunter's server

TaskHunter's web server drives coding agents without anybody watching: a board takes
cards from a model's plan to a merged pull request, a queue sends messages when a
session falls idle, a scheduler opens sessions when they are due, and a loop keeps a
session working on its goal. This directory models these four in TLA+, checks the models with TLC
and proves their central facts with TLAPS. Source paths below are relative to
`packages/web/server/lib/`; `DOCUMENTATION.md` alone is `board/DOCUMENTATION.md`.

`PROJECT.json` lists, for every definition, the source lines it stands for, and
all runs, mutants, hazards, findings and theorems.

## 1. The system

### 1.1 The board pipeline (modelled)

One file, `board.json`, holds every card. The service (`board/service.js`) changes
it with load - modify - save, synchronously inside one Node process, so a single
operation is atomic. What is *not* atomic is everything that calls it: the
evaluator, the dispatcher and the reconciler hold a document or a decision across
awaits of seconds to minutes, and write back to a card that others have moved on.

| Part | State | Operations | Talks to |
|---|---|---|---|
| Service `board/service.js` | the cards: column, evaluation, lease, session, branch, PR facts, queue entry, check stage, three budgets | claim, abortClaim, linkSession, releaseStaleClaims, start/complete/failEvaluation, enterChecking, receipts, review and merge moves, update, taskAction, remove | everyone calls it |
| Evaluator `board/evaluator.js` | auto-retry counters and timers, in memory | evaluateTask: mark, ask the model (2 min timeout), complete or fail; retry once in auto mode | routes (`evaluateInBackground`), the model |
| Dispatcher `board/dispatcher.js` | nothing of its own | dispatchPass: oldest queued cards into free slots; claimTask: resolve project, claim, create session, grant, link | routes, reconciler, OpenCode, git |
| Reconciler `board/reconciler.js` | running flag | every 30 s: reclaim, dispatch, session states, checks, PR facts, one merge step | all of the others, OpenCode, GitHub |
| Checker `board/checker.js` | nothing of its own | deterministic checks, then a model's verdict; rebase; nudge, pass or block | model, OpenCode, GitHub |
| Receipts `board/agent-actions.js` | - | a worker reports finish, no-op or blocked | the card of the session's worktree |
| Startup resume (`board/reconciler.js`) | - | after a restart, wakes sessions of running cards | OpenCode |

Hard behaviours, and what makes each part correct:

- **Several dispatch passes at once** (reconciler, every approve and queue request,
  manual claims): capacity is looked at before an await and used after it. Correct:
  slots are not over-used without bound, no card is spawned twice, no session is
  lost, the attempt budget holds, a queued card gets its turn.
- **A model call against edits, moves and further calls**: correct: a running
  evaluation always has an answer coming, a plan is not replaced by a late answer,
  only a finished plan queues a card, retries dry up.
- **A reconcile pass on an old document**: between loading and writing lie status
  queries, a judge of up to two minutes per card and messages to workers. Correct:
  verdicts move only cards still being checked, the rounds are bounded and end.
- **A merge whose answer is lost or that a crash cuts off**: correct: what lands
  on the board is merged on GitHub, and the queue keeps moving.
- **Restarts**: all in-memory state goes, `board.json` stays. Correct: a claim
  cut off in the middle is recycled, a merge gone through is recognised.

The list of hazards with their source lines is in `PROJECT.json`.

### 1.2 The other loops over sessions (modelled)

Each of the three is a single process that reacts to timers, requests and OpenCode's
events, and asks OpenCode again before it acts, so the world has moved on between
what it saw and what it does.

| Part | State | Operations | Talks to |
|---|---|---|---|
| Message queue `message-queue/runtime.js` | a queue per session (20 messages at most, kept in a file), timers, holds, the hold after an abort, backoffs, the message in flight | enqueue, take back, clear, reorder, hold and release; a tick: is the session idle, do its subagents rest, does the scheduler consent, send; events of the hub; restart | OpenCode, its event hub, the scheduler, the composer |
| Scheduled tasks `scheduled-tasks/`, `projects/project-config.js` | timers, a queue of runs, slots, the tasks a server has read; the project's file with the last occurrence claimed | sync, fire, claim, run, complete, Run now, save, delete; restart | the file, which several servers share; OpenCode; the message queue |
| Session goal `session-goal/` | the goal in the session's metadata, one timer, one tick in flight | a tick: read the goal, ask what runs, judge the last turn, write, look again, prompt; pause after an abort; set, edit, resume, stop; restart | OpenCode, a model, people |

Hard behaviours, and what makes each part correct:

- **A queue that sends for people who can take back.** Correct: a message goes out
  once, in order, not into a running turn, and never after it was handed back; the
  scheduler is told the truth about its prompts; a queue that can be sent is watched
  by something: there is no polling, so a missed wake-up is a message never sent.
- **Two servers on one file of tasks.** Correct: an occurrence runs once, however
  servers, syncs and failed writes interleave; a task stays armed; runs wait only for
  slots; nothing is shown as running that does not run.
- **A loop that spends turns.** Correct: no more continuations than the settings
  allow, at most one that no check has approved, none after a person stopped it or
  for another goal, none into a running turn; an active goal ends or is watched.

### 1.3 The rest of the repository

`PROJECT.json` lists every component. Two server parts have control of their own and
are not modelled yet: permission auto-accept (`permission-auto-accept/`: a policy
looked up along a session's lineage while requests arrive) and dispatch results
(`dispatch-results/`: delivery, retries, restart).

Not planned: wrappers around git, GitHub, Linear, the file system, audio and push
services (their behaviour is that of what they wrap); route-level access checks;
the React client and the shells (rendering; the client's sync layer would be a
model of its own); `board/prompts.js` and `board/git-repo.js` (texts, one command).

## 2. The modules

| Module | Models | Extends |
|---|---|---|
| `BoardCard` | one card: its record and every operation of the service as an operator from card to card | Naturals |
| `BoardColumns` | abstract specification: the columns, their edges, people's requests, the attempt budget | Naturals |
| `BoardEvaluator` | Planning: evaluator and the routes that trigger it | BoardCard |
| `BoardDispatch` | Queued, Running: dispatch passes, reclaim, session states, receipts, startup resume | BoardCard |
| `BoardChecker` | Checking: the running, checking and PR phases of a pass | BoardCard |
| `BoardMerge` | Review, Merging: PR facts and the merge queue | BoardCard |
| `MessageQueue` | the queue, its ticks, OpenCode's sessions and events, the scheduler's prompts | Naturals, FiniteSets, Sequences |
| `ScheduledTasks` | the servers that share a project's tasks, and the file | Naturals, FiniteSets, Sequences |
| `SessionGoal` | one session's goal, the loop on it, its events and what people do | Naturals, Sequences |
| `BoardCardProofs` | lemmas about the operations of a card | BoardCard, TLAPS |
| `BoardEvaluatorProofs`, `BoardDispatchProofs`, `BoardCheckerProofs`, `BoardMergeProofs`, `MessageQueueProofs`, `ScheduledTasksProofs`, `SessionGoalProofs` | theorems about the module each is named after | that module, TLAPS |
| `MCDispatch`, `MCMerge`, `MCChecker`, `MCQueue`, `MCSchedule` | the situations TLC checks of a module: which disturbances may meet, on how many cards, sessions or servers | the module each is about |

Each process module owns the part of `board.json` its processes act on, and models
every process that writes to the same cards: people's requests are in all four.
`BoardChecker` and `BoardMerge` stand in for the columns before them by a card as
those leave it (`Launched`, `Delivered`, built from the same card operations).
`BoardColumns` is what ties them together: `BoardDispatch` and `BoardMerge`
implement it through `column`, `attempts`, `claiming` and `requests`
(`ImplementsColumns`), which is proved of both.

The scheduler meets the message queue where a task prompts an existing session: that
prompt is `EnqueueTask` and `CancelTask` of `MessageQueue`. Both the queue and the goal's
loop prompt OpenCode's sessions; each module has the session as its environment, where
prompts of the other one are among those of people (`Prompt`, `Prompts`).

**Correspondence.** An operator of `BoardCard` has its function's name, and a guard
`Can...` where the function throws 409. A process module has one action per stretch
of code between two awaits: `pc` says at which await a pass or call is, and its
record carries what the code keeps in local variables (the document loaded, the
session reference, the PR facts). Examples:

| Code | Model |
|---|---|
| `claimTask`: capacity test, `await resolveProject`, claim, `await create`, `await grant`, link | `BoardDispatch!Take` -> `Reserve` or `Refused` -> `Created` or `CreateFailed` -> `Linked` |
| `dispatchPass` | `BeginPass`, the above for each card, `EndPass` |
| `releaseStaleClaims` with the revision it loaded | `BeginReconcile`, `ReclaimResumes`, `ReclaimRecycles`, `ReclaimSaves`; `rec.dirty` is the 409 of the compare-and-save |
| `evaluateTask`: start, `await generate`, complete or fail | `Evaluate`; `Answer` or `Fail` |
| `checkTask`, `waiting`, `attemptRebase`, `applyVerdict` | `BoardChecker!SeenChecking`, `WaitingForCi`, `AttemptRebase`, `AskJudge` ... `Passed`, `NeedsWork`, `Sent` |
| the projects a pass resolves; `resolveProject` refusing one | `BoardDispatch!project` (none, known, or gone from the settings), `Refused`; `BoardMerge!lost` |
| `driveQueueItem` | `BoardMerge!Drive` with `DriveItem`, then `Updated`, `UpdateFails`, `Merges`, `MergeRefused`, `MergeFails` |
| `tick` of the queue, and the `dispatch` it calls | `MessageQueue!TickStarts`; `Unknown`, `SeesBusy` or `SeesIdle` (status), `TargetKept` or `TargetRefused` (validating), `SubagentsWork`, `Overtaken` or `HandOver` (subagents), `Consents` or `Refuses` (before), `Accepts` or `SendFails` (sending), `Sent` or `AnswerLost` (answer) |
| `start` after a restart, the asynchronous `persist` | `MessageQueue!Crash` (which loads `file`), `Persist` |
| `syncProject` | `ScheduledTasks!SyncBegins` or `SyncFails`, then `SyncTask` for each task |
| `runTask`: claim, session, completion | `Claim`, `ClaimLost` or `ClaimFails`; `SessionOpened`; `Complete`, `CompleteFails`, `RetryFails`; `pumpQueue` is the operator `Pump` inside the actions that call it |
| `tick` of the goal | `SessionGoal!TimerFires`, `ReadsGoal`, `Quiet`, `LoadsMessages`, `Checked` or `Unchecked`, `ReadsAgain`, `Settles` or `WritesTurn`, `TailStands`, `Continues` |
| `pauseAfterAbort` | `HearAborted`, `PausesAfterAbort` or `NothingToPause` |

**Abstractions.** Texts are revision numbers; a plan is its deliverable, its kind of
review and the revision it judged. `queuedAt` and `enqueuedAt` are numbers of a
logical clock (only their order is used). A lease is live or not: heartbeats make it
live, `LeaseExpires` ends it at any time, bounded only when the worker behind it is
alive. `check.at` is an age in reconcile intervals. A worktree directory is
identified with its session, as `linkSession` records both together. A branch name
is its `-r<attempts>` suffix. A project is there or not: `BoardDispatch` tells a card without
one from a card whose project the settings lost, as the code skips the first and refuses the
second after an await; in `BoardMerge` both keep a card from being driven. Where a project
is resolved in one step with what follows (the running cards of a pass, the head of the
merge queue), it counts as it was at that step. A judge's prompt and evidence are reduced to its
verdict. GitHub answers with the facts it has, or fails.

A queued message is its number, in the order of creation; sending it succeeds, fails, or
succeeds and loses its answer. A timer of the queue or the goal is armed or not: it fires some
time, and a hold or a backoff is something that ends some time. In
`ScheduledTasks` occurrence *n* of a task is due at tick 2*n* of the clock, and tick
2*n* - 1 stands for the five seconds before it in which `computeNextRunAt` already gives the
occurrence after; writes of a file are atomic (the code has a lock file), only sessions
and runs that wait for a slot outlast an occurrence. A goal's tokens are
abstracted to whether its budget is used up, its check to a verdict or a failure.

**Bounds.** Every counter that could grow without end has a constant. Requests of
people: `MaxActs`, `MaxEdits`, `MaxLists` (views of the tasks, each a sync), `MaxManual`
(Run now), `MaxPrompts`. Faults: `MaxCrashes` (restarts), `MaxExpiries`
(leases of live workers running out), `MaxRefusals` (merges), `MaxLost` (answers),
`MaxGaps` (reconnections of the hub), `MaxFaults` (failing writes or requests). The
outside: `MaxPrChanges`, `MaxRelaunches`, `MaxSkips` (ticks that find a pass running),
`MaxReruns` (turns that end while a subagent works), `MaxUnheard` (events under way).
Size: `Call`, `Pass` and `Tick` (processes together), `MaxItems` (messages), `MaxClock`.
They bound only the environment; nothing the code does itself is cut off, except that
`BoardEvaluator` refuses to start a call when all of `Call` are in flight and `MessageQueue`
a tick when all of `Tick` are. `QueueLimit`, `SessionLimit`, `Limit`, `MaxConcurrent` and
the retry budgets are the code's own limits, made small.

## 3. The runs

The board's budgets are 1 (`MaxAttempts = CheckRetries = MergeRetries = 1`): the
first retry, the last one and the one past the budget all happen. `CHECK_DEADLOCK
FALSE` is set where the bounded environment lets the system come to rest. No run uses
TLC's symmetry, as liveness is checked; `MCDispatch` picks one of the values no definition
tells apart by a predicate instead.

Several runs go over *situations*, which their MC module states: the disturbances that
may meet in one behaviour. All disturbances together would be out of reach, one at a
time would miss the cases where two meet.

### Passing runs

| Run | Instance | Shows |
|---|---|---|
| `evaluator_auto` | 1 card, 3 calls together, 2 edits, 4 requests, 1 restart, auto mode | without a restart a running evaluation has a call (`OnlyCrashStrands`) and ends (`EvaluationSettles`); `PlanStands`, `QueuedByPlan`, `RetriesDryUp` with the restart too |
| `dispatch` | five situations: 3 cards, 2 passes and the reconciler for 1 slot; 2 cards, each with a project, without one or with one that was removed, in turn in 1 slot; 1 card and two passes, with 2 sessions; 1 card and 2 requests of people; 1 card, 1 restart and 1 lease lost under a live worker | `CapacityBound`: every pass but one may be one card too late, never more; `NoTwinSpawn`: two passes after the same card create one session; `NoOrphanWorker`; `FreshBranch` over all retries and with two passes; `ResumesWithinBudget`, `RequeuesWithinBudget`; columns change along the edges of `BoardColumns`; `QueueDrains`: a card within reach of the passes leaves the queue; `ClaimsSettle`: a running card does not stay without a session |
| `checker_verdicts` | 1 card, 2 sessions, two of: 1 request, 1 change on GitHub, 1 launch more; or a restart and a skipped tick | late verdicts advance or send back only work (`AdvancesOnlyWork`), `NudgesBounded`, `NudgingEnds`; until the card is launched anew, `PassNeedsPr` and `FirstLaunchIsReviewed` |
| `merge_queue` | 2 cards, each with or without a project, and a change of the base; or 1 card, 1 change, 1 refusal or lost answer, 2 requests, 1 restart | `LandsOnlyMerged`, columns along the edges, `QueueMoves`: every card leaves the queue, also the second one and after a merge whose answer never came, unless a head that cannot be moved stays where it is |
| `message_queue` | 1 session, 2 ticks, 2 messages and 1 disturbance or a restart; 3 messages, one more than the queue takes; 2 sessions, one more than have queues | `SentOnce`, `InOrder`, `TakenBackStaysBack`, `ToldTheTruth`, `NotIntoATurn`, `Watched` |
| `scheduled_tasks` | 2 occurrences; 2 servers and 1 task, or 1 server, 2 tasks and 1 slot, with two of a disturbance and failing writes; or 2 servers and 2 tasks | `ClaimedOnce`, `Armed`, `Served`, `ShownRunning` |
| `session_goal` | 2 turns, 1 prompt or subagent, 2 deeds of people, 2 failing requests, 1 restart | `Capped`, `NeverBlind`, `Watched`, `NotIntoATurn`, `OwnGoal`, `StopHolds`; left alone, the goal ends (`GoalEnds`) |

Why these sizes: the races are between one card's processes, so one card and as many processes as
can meet on it is the interesting instance; more cards matter where cards compete (slots: three
cards for one slot and two passes plus the reconciler's; queue order: two). Two sessions are
needed where a card is worked on twice: after a request, after a lapse of the lease or a restart,
between two passes. Where two requests, or a restart and a lapse, meet on one card, one session is
enough to lose, and `dispatch` makes one, and has two requests meet only until an attempt has
failed; its safety properties are proved for all of these at once (section 4). The queue needs two
ticks (what a second one can do to the first is all a third could do), two messages for order, one
more than a limit for the limit. A scheduler's occurrence can meet only its neighbours, so two of
them, two servers for the file and two tasks for the slot. The goal's cap of two has a first turn,
a last one and one past it. Types are proved of every module (section 4); TLC checks them too
where the invariant says the most, in `BoardChecker`.

### Violation runs: where code and documentation disagree

Each checks one sentence of the documentation or a comment, and TLC finds a behaviour
of the code that breaks it. The exact quotes are in `PROJECT.json`, "findings".

| Run | The promise | What the code does |
|---|---|---|
| `dispatch_stale_session` | checked when its session goes idle | the session of the previous claim counts while the new one is being created |
| `dispatch_heartbeat` | a live heartbeat gives the resume budget back | a lease found expired and renewed leaves `resumeAttempts` spent |
| `checker_stale_plan` | human plans go to review | the verdict is routed by the plan loaded minutes before |
| `checker_waiting` | waiting stages time out | every pass restarts their clock |
| `queue_holds` | a hold expires because the UI that asserted it may be gone | the expiry of a hold arms no timer, so the queue stays where it is |

### Departures the properties leave room for

Where the code departs from what its documentation leads one to expect, and the
models follow the code, a property says how far it goes or names the condition under
which it holds (dropping it makes TLC produce the behaviour); where neither is
mentioned, no property is stated.

- *Planning.* An answer to the text before an edit completes the evaluation of the
  text after it (`service.js:611` looks only for a running evaluation). A restart
  leaves an evaluation running with no call behind it; evaluate, retry and approve
  refuse the card until it is edited (`OnlyCrashStrands` sets restarts apart). A card
  dragged back to planning with its old plan is not judged again.
- *Capacity.* `claimTask` tests `maxConcurrent` before an await and claims after it.
  `CapacityBound` is the bound that does hold.
- *Claims.* A card dragged to backlog while its session is created is queued by
  `abortClaim` when that fails. A card dragged out and back into the queue in
  mid-claim, or whose lease runs out then, is claimed again by another pass
  (`NoTwinSpawn` excludes requests and expiries).
- *Branches.* The comment at `dispatcher.js:85` promises a fresh branch for every rework. The suffix
  of a branch is `attempts`, which a return, an edit or a move does not raise, so a card people queue
  again can find its branch taken (`FreshBranch` excludes requests). And it is read before an await:
  when another pass fails on the card in between and raises `attempts`, the older name is used again,
  creating its worktree fails, and that costs an attempt. `FreshBranch` says that this is
  the only way, and that one pass alone never gets there.
- *Resume.* Reclaim wakes a worker first and counts later, with a save that is
  refused when anything else was saved: `ResumesWithinBudget` counts the wakes on
  record. Its bound is what the comment at `service.js:641` promises; `DOCUMENTATION.md:57` promises
  the opposite (`dispatch_heartbeat`).
- *Queued cards without a project*, or with one that was removed, stay where they are, and
  `nextQueued` counts them into the slice before `dispatchPass` skips them (`dispatcher.js:167`): as
  many as there are free slots keep everything younger waiting for good. `QueueDrains` speaks of the
  cards with fewer of these ahead of them (`Reachable`).
- *Checker.* `blockTask` looks at no column, so an exhausted round blocks a card that
  has left checking; `moveToMerging` also takes a card that is in review. The
  update-branch calls of the checker are counted nowhere. A PR fact asked for before a
  new launch is written to the card after it (`PassNeedsPr` excludes launches).
- *Merging.* The rebase after a 405 does not look at the retries used, and an
  update-branch that fails (`reconciler.js:234`) uses none up. Only the oldest entry is driven, and
  nothing takes it out of the way when its project is gone (`reconciler.js:198`), when GitHub keeps its pull
  request blocked, unstable, a draft or uncomputed, or behind with an update-branch that never succeeds:
  `QueueMoves` names these heads (`Held`), and each of them does make TLC find a queue that stands
  still when it is left out. A card dragged
  from merging to review keeps its queue entry, and `merge` refuses it.
- *A pull request behind its base* that is mergeable is neither rebased by the checker
  nor judged (`checker.js:121`).
- *Queue.* Three wake-ups come to nothing and leave a queue unwatched until the next
  event or request: those during a hold, in a tick whose first message was edited
  away (`message-queue/runtime.js:724`), during a send that outlasts its turn; `Watched`
  names them. A message that is in flight when its queue overflows is dropped, and was
  sent all the same (`ToldTheTruth` sets those apart). A lost answer or a restart
  sends a message again (`SentOnce` counts them).
- *Scheduler.* The claim compares with the last occurrence claimed, so a run that waited
  for a slot past the next occurrence claims an occurrence after a later one was, and a
  save, which writes back the task as it was listed, undoes a claim: `ClaimedOnce` sets
  both apart. The end of a one-time task disables it, or brings it back, whatever people
  did with it meanwhile (`scheduled-tasks/runtime.js:1016`). A failing write at the start of a run by
  hand costs the task its timer, although `scheduled-tasks/DOCUMENTATION.md:68-71` promises it is armed
  again (`lost` in `Armed`), and its end does not look at the queue (`Served`). After a change
  by people the other servers keep the task as they have read it, so an occurrence to come is known to
  one server, and to none while that one is down for a restart or after two failed writes
  (`Armed`).
- *Goal.* The write of a tick compares only the goal's id (`session-goal/runtime.js:428`), so a goal
  paused while a tick is in flight is still counted, continued or settled, although the
  comment at `420` says a person's pause is not overwritten: `StopHolds` speaks of stops with no tick in
  flight. Nor is the write atomic with the reading before it: `writeGoal` reads the session, compares,
  and awaits `persistSessionGoal`, which reads, merges and sends once more without comparing
  (`taskhunter-sessions/session-metadata-store.js:217-231`). A goal set in between is erased, one that was cleared comes
  back, a stopped one is active again, although the comment at `416` and
  `session-goal/DOCUMENTATION.md:44` promise that such a write is dropped. `OwnGoal` allows this and
  nothing else. A timer that fires, a goal that is set and an abort that is heard while a tick
  is in flight arm nothing (`runtime.js:852`, `895`, `922`), and a goal the tick writes
  back as active after it was stopped is watched by nobody; `Watched` lists these. The comment at `642`
  wants the tokens of the turns before the goal as baseline; the code takes the largest such turn.

### Fairness

Only what the scheduling of the code justifies. Weak fairness of the reconcile loop
(an interval timer whose passes catch their errors), of the steps that follow an
await (every await has a timeout or an answer), of the retry timers, and of workers
stopping some time. The loop's fairness is strong in `BoardDispatch`, where `Pass` bounds how many
claims of people run together and the loop's own pass takes one of them; in the code it needs none.
`LeaseExpires` is fair only for a claim with nobody alive behind
it: nothing renews that lease, so its time passes. Strong fairness is assumed of the
outside world where a promise is repeated: asked again and again, the settings that
have a card's project can be read (`Reserve`, which a card without a project or with a removed one
never enables), OpenCode tells a status, GitHub tells the facts of a pull request whose card has its
project, the model gives a verdict. Nothing makes CI pass, a review arrive, GitHub update a branch
or a project come back. People are never fair, crashes are bounded.
The queue and the goal add: timers fire, events of the hub arrive, turns and subagents
end; asked again and again OpenCode tells what runs and takes a message. `GoalEnds`
needs no strong fairness, as a failing request is bounded and its tick ends with it.
`checker_stale_plan`, `dispatch_stale_session` and `dispatch_heartbeat` are violations of safety and need no
fairness; the two temporal counterexamples, `checker_waiting` and `queue_holds`, are
under `FairSpec`.

## 4. What is proved

TLAPS, for every value of the constants that satisfies the assumptions:

| Module | Theorems | State, of `Spec` |
|---|---|---|
| BoardEvaluator | `EvaluatorTypeOK`, `EvaluatorOnlyCrashStrands`, `EvaluatorPlanStands`, `EvaluatorQueuedByPlan` | `[]TypeOK`, `[]OnlyCrashStrands`, `PlanStands`, `QueuedByPlan` |
| BoardDispatch | `DispatchTypeOK`, `DispatchCapacityBound`, `DispatchResumesWithinBudget` | `[]TypeOK`, `[]CapacityBound`, `[]ResumesWithinBudget` |
| | `DispatchNoOrphanWorker`, `DispatchNoTwinSpawn`, `DispatchRequeuesWithinBudget` | `[]NoOrphanWorker`, `[]NoTwinSpawn`, `RequeuesWithinBudget` |
| | `DispatchFreshBranch` | `[]FreshBranch` |
| | `DispatchImplementsColumns` | `ImplementsColumns`: it implements BoardColumns |
| BoardChecker | `CheckerTypeOK`, `CheckerNudgesBounded`, `CheckerAdvancesOnlyWork`, `CheckerPassNeedsPr`, `CheckerFirstLaunchIsReviewed` | `[]TypeOK`, `[]NudgesBounded`, `AdvancesOnlyWork`, `PassNeedsPr`, `FirstLaunchIsReviewed` |
| BoardMerge | `MergeTypeOK`, `MergeLandsOnlyMerged`, `MergeImplementsColumns` | `[]TypeOK`, `LandsOnlyMerged`, `ImplementsColumns` |
| MessageQueue | `TypeSafe`, `SentOnceSafe`, `TakenBackSafe`, `ToldTruthSafe`, `QueueWatched`, `SentInOrder`, `SentWhenIdle` | `[]TypeOK`, `[]SentOnce`, `[]TakenBackStaysBack`, `[]ToldTheTruth`, `[]Watched`, `InOrder`, `NotIntoATurn` |
| ScheduledTasks | `Typed`, `RunsOnce`, `QueueServed`, `MarkIsTrue`, `AlwaysArmed` | `[]TypeOK`, `[]ClaimedOnce`, `[]Served`, `[]ShownRunning`, `[]Armed` |
| SessionGoal | `Typed`, `CapHolds`, `BlindOnce`, `AlwaysWatched`, `SendsAtRest`, `StopIsFinal`, `WritesOwnGoal` | `[]TypeOK`, `[]Capped`, `[]NeverBlind`, `[]Watched`, `NotIntoATurn`, `StopHolds`, `OwnGoal` |

These are all the safety properties the passing runs check.

**Assumptions.** `ConfigAssumption`: the ranges `validateConfig` accepts.
`NoneAssumption`: `None`, which stands for `null`, is no session, number, lease, pull
request or evaluation of a card, and no record of a scheduled task. Per module: the sets of cards,
passes, sessions, ticks and tasks are finite where their number is counted, `None` is not one
of their members, limits and bounds are natural numbers. Nothing else is assumed.

**Lemmas about the card** (`BoardCardProofs`): every service operation maps a `Card`
to a `Card`. The type invariants are then one case per action.

**Evaluator.** `OnlyCrashStrands` is inductive together with `TypeOK`, but not for an
obvious reason: an answer removes a call, and the evaluation it leaves running might
have been another call's. It is safe because ending a call settles *any* running
evaluation of its card (`EndOfCallLive`), which is also why answers to old texts are
taken (section 3, departures). `PlanStands` is an action property: only
`Edit` takes a finished plan away; starting, completing and failing all require that
there is none. `QueuedByPlan` is one case per action: apart from requests only
`CompleteEvaluation` queues a card, and only with the plan it has just stored.

**Dispatch.** `TypeOK` is not inductive: `Linked` stores the session a pass holds,
and `Reserve` the branch, so a pass that is granting must have a session, one that is
creating a branch, and so on; `PassInv` says so, and `TypeInv == TypeOK /\ PassInv`.
`CapacityBound` needs more: a pass that has found a free slot may use it after any
number of others did. The invariant

    Capacity == |ActiveCards| + |Resolving| <= MaxConcurrent + (|Pass| - 1) + bypass

counts the passes between test and claim. When a pass takes a card, the test just
made gives `|ActiveCards| < MaxConcurrent`, and at most `|Pass| - 1` others are
resolving; a claim moves one from the second count to the first; every other step
that makes a card active is counted in `bypass` (return, resume, a heartbeat on an
expired lease).

**Resume budget.** `nudges` counts the wakes of a card on record, `resumeAttempts`
is what the code counts. The invariant `Budget` has two parts. `WithinBudget`: a
card's `nudges` are at most `maxAttempts`, and at most its `resumeAttempts` while it
runs; a recycled card starts from zero attempts, so the bound itself must be in the
invariant. `ReclaimKnows`: as long as no other save intervened (`~rec.dirty`), every
card reclaim has woken or still may wake runs and has budget left; this carries the
test made on the loaded document across the wake-up messages to the final save.
Every other operation is `Quiet` on a card: it runs afterwards only if it ran
before, on the same count. Claim and return, which do put a card to work, reset both.

**Sessions, branches and columns of the dispatch.** All three rest on one lemma, `EveryStep`:
every action is, for the cards, one of a few abstract steps (a person acts, a worker acts,
a lease expires; `Reserve`, `Created`, `CreateFailed`, `Linked`; the final save of reclaim;
a crash). The invariant `Safe == TypeInv /\ Budget /\ Workers /\ Claims /\ Branches` is kept by each:
`Workers` says that a session that exists is on record at a card or in the hands of the pass that
created it; `Claims` that as long as people stay away and no lease runs out a card being claimed is in the hands of one
pass, whose tests are therefore still true; `Branches` that the suffixes used, and those in the hands of
passes that create a session, are below the one the card would use next, that a pass awaiting its project
has a suffix that is no later, and the very next one when it is alone, and that of two
passes about to create the same branch neither has the card's present suffix. `ImplementsColumns` then takes one case per abstract step.

**Checker.** A pass works on a copy for minutes, so its invariant says what the copy is still worth:
`Inv == TypeOK /\ Hand /\ Known /\ Rounds`. `Hand` is what the pass holds at each
await, and that every card it may ask about has a session. `Known` is what the copy still
says of the card: its rounds, for nobody but the pass counts them up, and until it
is launched anew its plan and that it had a pull request. `Rounds` says that every message a
worker got is a round on record, but for one on its way and those of cards that left the
column before theirs was counted. Most steps are `Gentle`, which is enough to keep all of it
and to be `Lawful`; the start of a pass, the loading of facts, a verdict that sends the worker back and a
new launch are taken one by one.

**Merge queue.** `TypeOK` needs to know what a pass has in hand at each await
(`HandInv`). Behind `LandsOnlyMerged` stands that a merge on GitHub is final: neither
the board's facts (`BoardBehind`) nor the fact a pass carries (`PassBehind`) is ever
ahead of GitHub, so what is recorded as merged is merged there, however late the record.
For the refinement each step is put into one of three classes: `Quiet` (no
column changes), `Piped` (one card moves along an edge of the pipeline) and `Requested`
(a person moves a card and `requests` counts it); each class is a step of `BoardColumns`
or a stutter. A queue's oldest entry exists because a subset of a finite set has a
maximum (`MaxExists`, by well-foundedness of strict subsets).

**Message queue.** A message is in one queue at most (`Separate`), a session has one
send at a time and knows of it (`OneSend`), and what is queued and not on its way was
accepted only by sends whose answer was lost or forgotten (`Counted`). So a send adds
one to a message that had none but those, and what people took back (`OutOfReach`) is
neither queued nor with a send. Four invariants are built on this one. `Orderly`: a tick whose message still waits
works on the oldest one, and what is being sent meanwhile is that message; new ones are
younger and everything else only takes messages away. `Alone`: after a tick has seen its session idle, a
turn can only have begun for the tick's own message, which leaves the queue before `sending` is
free again, so `StillFirst` refuses. `Told`: what the scheduler counts as cancelled or failed was never
accepted, is in no queue and in no send, and `Gone` stays so. `Looked`: with each message waiting goes an
eye on it (a timer, a turn, a subagent, an event that wakes, a wake-up that came to
nothing) or a tick; what puts an eye out opens another. It needs
that the news of a turn's begin is followed by the news of its end (`Heard`), as the former
clears the timer, that `sending` always has its tick, and that a
tick awaiting its answer leaves either an eye or no message behind.

**Scheduled tasks.** Types need that what waits or has begun has fallen due
(`Fallen`), which keeps each next occurrence within range. `ClaimedOnce` follows from `Last`:
what ran of a task is not after the last occurrence claimed in the file, and that one
ran. A claim writes a later one; every other step is `Unclaimed`, or replaces the record by an
older copy and says so in `rewound`. `Served` follows from `Line`: the slots taken are those of
the runs under way, and what waits waits for a slot; that `pumpQueue` leaves no free slot with an
entry behind (`PumpPumps`) is shown with the first entry it could start (`FirstExists`).
`ShownRunning` follows from `Shown`: a mark in the file has a run that has begun and not written its end, and a run
that writes its end a second time had the one fault. `Armed` follows from `Expects`: a server `Sees` a
task when its copy agrees with the stored one and it is `Led` to it, by a sync under way, by a timer that is
not late, by its place among the slots, or by the loss the property names. Only a crash or a change by people
ends that for a server (`SeesStep`), and until people change something all copies agree (`Same`).

**Session goal.** A tick awaits between reading and writing, so the invariant says await
by await what the copy it carries is still worth: it is the goal's (`Carries`), nobody
adds to the turns it has seen (`BelowCap`), a turn is counted before it is sent
(`Counted`) and a failed check recorded before the turn it lets through (`Recorded`), a
stopped goal is settled or about to be (`Halted`), the session it is about to prompt has
rested since it looked (`Rested`), and an active goal at rest is followed by a timer, a tick or an
event (`Followed`). Each part lasts by a lemma with one case per action.

**Only model-checked.** Liveness (`EvaluationSettles`, `RetriesDryUp`, `QueueDrains`,
`ClaimsSettle`, `NudgingEnds`, `QueueMoves`, `GoalEnds`), which the prover does not reach: it has
no rules for `ENABLED`, and so for fairness. Everything else the runs check is proved.

## 5. What is not modelled

- `updateConfig`: the configuration is a constant. Lowering `maxConcurrent` leaves
  more cards active than it says, which the service does not promise otherwise.
- The reasons for refusing a request that depend on the project (git repository), adoption of a directory by git, the migration of version 1 files.
- Compare-and-save of single operations: they load and save without an await between.
- Comment threads, labels, ordering within a column, notifications, logs.
- Content of prompts, diffs and answers: a verdict is any verdict.
- In `BoardChecker`: projects that do not resolve, and an interruption that cannot be asked
  for (`reconciler.js:95`, `112`); both are in `BoardDispatch`, which has the same steps.
- *Queue:* attachments and the route a message is sent on; limits on its size; a `load()` that fails
  at the start (`message-queue/runtime.js:956`) and leaves the queue empty.
- *Scheduler:* several projects and the global slot limit; loop files; what a run that
  timed out still does in the background; the project's setup in the same file; two syncs of one
  project at once in one server; the lock of the file is taken as perfect, though one that a crash left
  behind is broken after a time (`projects/project-config.js:495-504`). Prompts into existing sessions are modelled in `MessageQueue`.
- *Goal:* how tokens are counted, the file of the objective, the questions the checker is asked.

## 6. Plan

1. Done: the board pipeline, the message queue, the scheduled tasks, the session goal;
   proofs: the types of all modules, every safety property of the runs, and the two
   refinements of `BoardColumns`.
2. `AutoAccept` (policies along a session's lineage), dispatch results (delivered at
   least once, not twice without a restart); later the client's sync layer.
3. Proofs: `BoardChecker` and `BoardEvaluator` as implementations of `BoardColumns`, so that
   all four board modules have one contract; an abstract queue (each message waiting, sent or
   taken back, once) that `MessageQueue` implements.
