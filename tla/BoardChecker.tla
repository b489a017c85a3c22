---------------------------- MODULE BoardChecker ----------------------------
(***************************************************************************)
(* The Checking column: the running, checking and PR-facts phases of       *)
(* board/reconciler.js with board/checker.js.  One reconcile pass runs at  *)
(* a time and works on the document it loaded at its start, one card after *)
(* the other; it gives up control while it asks for session states, diffs, *)
(* answers, a model's verdict (up to two minutes for each card), sends a   *)
(* message or asks GitHub.  Meanwhile workers report, people move cards,   *)
(* pull requests change and cards are launched again.                      *)
(*                                                                         *)
(* Leases of running cards are renewed by the pass and do not expire here; *)
(* reclaim and dispatch are BoardDispatch's, merging is BoardMerge's.      *)
(***************************************************************************)
EXTENDS BoardCard, FiniteSets

CONSTANTS
  CardId,         \* cards of the board
  WaitingTimeout, \* WAITING_TIMEOUT_MS, in intervals of the reconcile loop
  MaxSkips,       \* bound on ticks that find the pass still running
  MaxPrChanges,   \* bound on what changes on GitHub
  MaxActs,        \* bound on what the human does
  MaxRelaunches,  \* bound on launches after the first
  MaxCrashes      \* bound on restarts

ASSUME CheckerAssumption ==
  /\ IsFiniteSet(CardId) /\ None \notin CardId
  /\ WaitingTimeout \in Nat \ {0}
  /\ MaxSkips \in Nat /\ MaxPrChanges \in Nat /\ MaxActs \in Nat
  /\ MaxRelaunches \in Nat /\ MaxCrashes \in Nat

VARIABLES
  cards,     \* board.json
  sessions,  \* worker sessions in OpenCode
  github,    \* the pull request of each card's current branch
  rec,       \* the reconcile pass
  skips, prChanges, acts, relaunches, crashes, \* what has been spent of the bounds
  nudges     \* history: self-heal messages sent since the card was launched

vars == <<cards, sessions, github, rec, skips, prChanges, acts, relaunches,
          crashes, nudges>>
bounds  == <<skips, prChanges, acts, relaunches, crashes>>

SessionState == {"unused", "busy", "idle", "aborted", "gone"}

\* At "looking" the pass takes the next card of todo; at "seen" it has the
\* status of that card's session; "check" is checkTask up to its first await,
\* "judging", "sending", "rebasing" and "resolving" are awaits; at "facts" it
\* takes the next card of the document it loaded for the PR facts.
RecState ==
  [pc : {"idle", "looking", "seen", "check", "judging", "sending", "rebasing",
         "facts", "resolving", "resolved"},
   todo : SUBSET CardId, card : CardId \cup {None},
   seen : SessionState \cup {"unknown"},
   snap : [CardId -> Card \cup {None}],  \* of the cards still to be looked at
   fact : Pr \cup {None}]

TypeOK ==
  /\ cards \in [CardId -> Card]
  /\ sessions \in [Session -> SessionState]
  /\ github \in [CardId -> Pr \cup {None}]
  /\ rec \in RecState
  /\ skips \in Nat /\ prChanges \in Nat /\ acts \in Nat /\ relaunches \in Nat /\ crashes \in Nat
  /\ nudges \in [CardId -> Nat]

IdleRec == [pc |-> "idle", todo |-> {}, card |-> None, seen |-> "unknown",
            snap |-> [c \in CardId |-> None], fact |-> None]

\* queuedAt and enqueuedAt are not compared here.
Stamp == 1

Plans == [deliverable : {"pr", "report"}, review : {"human", "green"}, text : {0}]

\* A card judged with a plan, claimed, and linked to its session.
Launched(k, plan, session) ==
  LinkSession(Claim([k EXCEPT !.evaluation = [status |-> "done", plan |-> plan],
                              !.queuedAt = Stamp], k.attempts), session)

Init ==
  /\ \E plan \in [CardId -> Plans], on \in [CardId -> Session] :
       /\ \A c, d \in CardId : on[c] = on[d] => c = d
       /\ cards = [c \in CardId |-> Launched(NewCard("queued", Stamp), plan[c], on[c])]
       /\ sessions = [s \in Session |-> IF \E c \in CardId : on[c] = s
                                          THEN "busy" ELSE "unused"]
  /\ github = [c \in CardId |-> None]
  /\ rec = IdleRec
  /\ skips = 0 /\ prChanges = 0 /\ acts = 0 /\ relaunches = 0 /\ crashes = 0
  /\ nudges = [c \in CardId |-> 0]

-----------------------------------------------------------------------------
(* Time, counted in ticks of the 30 second loop; only the age of a waiting *)
(* stage is ever read.                                                     *)

WaitStages == {"waiting-ci", "waiting-diff", "waiting-answer"}

Older(k) ==
  IF k = None \/ k.check = None \/ k.check.stage \notin WaitStages THEN k
  ELSE [k EXCEPT !.check.age = IF @ > WaitingTimeout THEN @ ELSE @ + 1]
Aged(f) == [c \in CardId |-> Older(f[c])]
Only(f, set) == [c \in CardId |-> IF c \in set THEN f[c] ELSE None]

\* A tick with no pass running starts one: it loads the document.
BeginPass ==
  LET todo == {c \in CardId : cards[c].status = "checking"
                 \/ (cards[c].status = "running" /\ cards[c].sessionRef # None)} IN
  /\ rec.pc = "idle"
  /\ cards' = Aged(cards)
  /\ rec' = [IdleRec EXCEPT !.pc = "looking", !.todo = todo,
                            !.snap = Only(Aged(cards), todo)]
  /\ UNCHANGED <<sessions, github, bounds, nudges>>

\* A tick that finds the pass running is skipped.
SkippedTick ==
  /\ rec.pc # "idle"
  /\ skips < MaxSkips
  /\ skips' = skips + 1
  /\ cards' = Aged(cards)
  /\ rec' = [rec EXCEPT !.snap = Aged(@)]
  /\ UNCHANGED <<sessions, github, prChanges, acts, relaunches, crashes, nudges>>

-----------------------------------------------------------------------------
(* The cards of a pass.                                                    *)

Now == cards[rec.card]       \* the card as it is
Was == rec.snap[rec.card]    \* the card as the pass loaded it

\* On to the next card; the card just done is forgotten.
Onward == [rec EXCEPT !.pc = "looking", !.card = None, !.seen = "unknown",
                      !.snap = Only(@, rec.todo)]

Write(k) == cards' = [cards EXCEPT ![rec.card] = k]

\* A write of the pass: on a deleted card it throws, which ends the pass.
WriteAndGoOn(k) ==
  IF Exists(Now) THEN Write(k) /\ rec' = Onward
  ELSE UNCHANGED cards /\ rec' = IdleRec

\* The same inside a try block of its own.
TryWriteAndGoOn(k) ==
  /\ rec' = Onward
  /\ IF Exists(Now) THEN Write(k) ELSE UNCHANGED cards

WorldSame == UNCHANGED <<sessions, github, bounds, nudges>>

\* The status of the next card's session; asking can fail.
Looks(c) ==
  /\ rec.pc = "looking" /\ c \in rec.todo
  /\ \E seen \in {sessions[rec.snap[c].sessionRef], "unknown"} :
       rec' = [rec EXCEPT !.pc = "seen", !.card = c, !.seen = seen,
                          !.todo = @ \ {c}]
  /\ UNCHANGED cards /\ WorldSame

HeartbeatOrInterrupted ==
  /\ rec.pc = "seen" /\ Was.status = "running"
  /\ \/ rec.seen = "busy" /\ WriteAndGoOn(RefreshLease(Now))
     \/ rec.seen \in {"aborted", "gone"} /\ WriteAndGoOn(WorkerInterrupted(Now))
     \/ \* unknown, or idle within the grace period
        rec.seen \in {"unknown", "idle"} /\ rec' = Onward /\ UNCHANGED cards
  /\ WorldSame

\* Idle past the grace period: the card is checked in the same pass.
IdlePastGrace ==
  /\ rec.pc = "seen" /\ Was.status = "running" /\ rec.seen = "idle"
  /\ IF Exists(Now)
       THEN /\ Write(EnterChecking(Now))
            /\ rec' = [rec EXCEPT !.pc = "check", !.snap[rec.card].status = "checking"]
       ELSE UNCHANGED cards /\ rec' = IdleRec
  /\ WorldSame

\* Checking: the session picked work up again, or the checker's turn.
SeenChecking ==
  /\ rec.pc = "seen" /\ Was.status = "checking"
  /\ IF rec.seen = "busy" THEN WriteAndGoOn(BackToRunning(Now))
     ELSE rec' = [rec EXCEPT !.pc = "check"] /\ UNCHANGED cards
  /\ WorldSame

-----------------------------------------------------------------------------
(* attemptRebase and checkTask, on the card as it was loaded.              *)

PrBlocked(pr)   == pr.mergeable = "no" /\ pr.checks \in {"behind", "dirty"}
Judgeable(pr)   == pr.mergeable = "yes" /\ pr.checks \in {"clean", "unknown"}
NeedsRebase(k)  == UnmergedPr(k) /\ PrBlocked(k.pr)
PrPlan(k)       == HasPlan(k) /\ k.evaluation.plan.deliverable = "pr"

AttemptRebase ==
  /\ rec.pc = "check" /\ NeedsRebase(Was)
  /\ IF Was.checkAttempts + 1 > MergeRetries
       THEN TryWriteAndGoOn(BlockTask(Now, "checks failed"))
       ELSE rec' = [rec EXCEPT !.pc = "rebasing"] /\ UNCHANGED cards
  /\ WorldSame

Facts(checks, mergeable) ==
  [state |-> "open", draft |-> FALSE, mergeable |-> mergeable, checks |-> checks]

\* updateBranch answered.
Rebased ==
  /\ rec.pc = "rebasing"
  /\ github' = [github EXCEPT ![rec.card] =
                  IF @ # None /\ @.state = "open"
                    THEN Facts("unknown", "computing") ELSE @]
  /\ TryWriteAndGoOn(SetCheck(Now, "rebasing"))
  /\ UNCHANGED <<sessions, bounds, nudges>>

RebaseFailed ==
  rec.pc = "rebasing" /\ rec' = Onward /\ UNCHANGED cards /\ WorldSame

\* waiting: the same stage for longer than the timeout counts as an attempt.
Waited(stage) ==
  Was.check # None /\ Was.check.stage = stage /\ Was.check.age > WaitingTimeout

Waiting(stage) ==
  LET attempts == Was.checkAttempts + 1 IN
  WriteAndGoOn(
    IF ~Waited(stage) THEN SetCheck(Now, stage)
    ELSE IF attempts > CheckRetries THEN BlockTask(Now, "checks failed")
    ELSE [SetCheck(Now, stage) EXCEPT !.checkAttempts = attempts])

WaitingForCi ==
  /\ rec.pc = "check" /\ UnmergedPr(Was) /\ ~PrBlocked(Was.pr) /\ ~Judgeable(Was.pr)
  /\ Waiting("waiting-ci")
  /\ WorldSame

\* The diff or the final answer is fetched and given to the model.
AskJudge ==
  /\ rec.pc = "check"
  /\ UnmergedPr(Was) => Judgeable(Was.pr)
  /\ rec' = [rec EXCEPT !.pc = "judging"]
  /\ UNCHANGED cards /\ WorldSame

\* There was no diff, or no answer, to judge.
NothingToJudge ==
  /\ rec.pc = "judging"
  /\ \/ UnmergedPr(Was) /\ Waiting("waiting-diff")
     \/ ~UnmergedPr(Was) /\ ~PrPlan(Was) /\ Waiting("waiting-answer")
  /\ WorldSame

JudgeFailed ==
  rec.pc = "judging" /\ WriteAndGoOn(SetCheck(Now, "check-error")) /\ WorldSame

GreenWhateverThePlan(k) == HasPlan(k) /\ k.pr # None /\ ~k.pr.draft \* mutant

\* routePassed; a PR plan without an unmerged pull request does not pass.
Green(k) == /\ HasPlan(k) /\ k.evaluation.plan.review = "green"
            /\ k.pr # None /\ ~k.pr.draft

RoutePassed(now, was) ==
  IF Green(was) THEN MoveToMerging(now, Stamp) ELSE MoveToReview(now)

PassedWithoutPr == \* mutant
  rec.pc = "judging" /\ WriteAndGoOn(RoutePassed(Now, Was)) /\ WorldSame

Passed ==
  /\ rec.pc = "judging"
  /\ UnmergedPr(Was) \/ ~PrPlan(Was)
  /\ WriteAndGoOn(RoutePassed(Now, Was))
  /\ WorldSame

Wakes(s) == s # None /\ sessions[s] \in {"busy", "idle", "aborted"}

OutOfRoundsTooLate(k) == k.checkAttempts > CheckRetries \* mutant

OutOfRounds(k) == k.checkAttempts + 1 > CheckRetries

\* needs_work: the message to the worker, if the budget allows another round.
\* nudges is counted only as far as it matters.
NeedsWork ==
  /\ rec.pc = "judging"
  /\ IF OutOfRounds(Was)
       THEN /\ WriteAndGoOn(BlockTask(Now, "checks failed"))
            /\ UNCHANGED <<sessions, nudges>>
       ELSE /\ rec' = [rec EXCEPT !.pc = "sending"]
            /\ IF Wakes(Was.sessionRef)
                 THEN /\ sessions' = [sessions EXCEPT ![Was.sessionRef] = "busy"]
                      /\ nudges' = [nudges EXCEPT ![rec.card] =
                            IF @ > CheckRetries + acts + crashes THEN @ ELSE @ + 1]
                 ELSE UNCHANGED <<sessions, nudges>>
            /\ UNCHANGED cards
  /\ UNCHANGED <<github, bounds>>

\* The message went out, or failed, which is only logged.
Sent ==
  /\ rec.pc = "sending"
  /\ WriteAndGoOn(SendBackForRework(Now, Was.checkAttempts + 1))
  /\ WorldSame

-----------------------------------------------------------------------------
(* The PR facts.                                                           *)

LoadFacts ==
  LET todo == {c \in CardId : /\ cards[c].status \in {"running", "checking",
                                                     "review", "merging"}
                              /\ cards[c].pr = None \/ UnmergedPr(cards[c])} IN
  /\ rec.pc = "looking" /\ rec.todo = {}
  /\ rec' = [IdleRec EXCEPT !.pc = "facts", !.todo = todo, !.snap = Only(cards, todo)]
  /\ UNCHANGED cards /\ WorldSame

\* What GitHub says of the branch the card had; unreachable counts as nothing.
ResolvePr(c) ==
  /\ rec.pc = "facts" /\ c \in rec.todo
  /\ \E fact \in {github[c], None} :
       rec' = [rec EXCEPT !.pc = "resolved", !.card = c, !.fact = fact,
                          !.todo = @ \ {c}]
  /\ UNCHANGED cards /\ WorldSame

WriteFact ==
  LET next == [rec EXCEPT !.pc = "facts", !.card = None, !.fact = None,
                          !.snap = Only(@, rec.todo)] IN
  /\ rec.pc = "resolved"
  /\ IF rec.fact = None \/ rec.fact = Was.pr THEN rec' = next /\ UNCHANGED cards
     ELSE IF Exists(Now) THEN rec' = next /\ Write(SetPr(Now, rec.fact))
     ELSE rec' = IdleRec /\ UNCHANGED cards
  /\ WorldSame

EndPass ==
  rec.pc = "facts" /\ rec.todo = {} /\ rec' = IdleRec /\ UNCHANGED cards /\ WorldSame

-----------------------------------------------------------------------------
(* Workers, GitHub, the human, restarts.                                   *)

WorkerStops(s) ==
  /\ sessions[s] = "busy"
  /\ sessions' = [sessions EXCEPT ![s] = "idle"]
  /\ UNCHANGED <<cards, github, rec, bounds, nudges>>

Receipt(s, c) ==
  /\ sessions[s] = "busy"
  /\ cards[c].sessionRef = s
  /\ CanReceipt(cards[c])
  /\ \E k \in {WorkerFinish(cards[c]), WorkerNoop(cards[c]),
               BlockTask(cards[c], "worker blocked")} :
       cards' = [cards EXCEPT ![c] = k]
  /\ UNCHANGED <<sessions, github, rec, bounds, nudges>>

\* What GitHub reports of an open pull request: undecided (being computed, or CI
\* under way, which the checker treats alike), ready, ready as a draft, in conflict.
OpenFacts == {Facts("unknown", "computing"), Facts("clean", "yes"),
              Facts("dirty", "no"), [Facts("unknown", "yes") EXCEPT !.draft = TRUE]}

\* A worker opens the pull request of its card.
PrOpens(c) ==
  /\ github[c] = None
  /\ cards[c].sessionRef # None /\ sessions[cards[c].sessionRef] = "busy"
  /\ github' = [github EXCEPT ![c] = Facts("unknown", "computing")]
  /\ UNCHANGED <<cards, sessions, rec, bounds, nudges>>

\* CI ends, the base moves, the pull request is merged or closed.
PrChanges(c) ==
  /\ github[c] # None /\ github[c].state = "open"
  /\ prChanges < MaxPrChanges /\ prChanges' = prChanges + 1
  /\ \E pr \in OpenFacts \cup {[github[c] EXCEPT !.state = "merged"],
                               [github[c] EXCEPT !.state = "closed",
                                                 !.mergeable = "computing"]} :
       pr # github[c] /\ github' = [github EXCEPT ![c] = pr]
  /\ UNCHANGED <<cards, sessions, rec, skips, acts, relaunches, crashes, nudges>>

Human(c, k) ==
  /\ acts < MaxActs
  /\ acts' = acts + 1
  /\ cards' = [cards EXCEPT ![c] = k]
  /\ UNCHANGED <<github, rec, skips, prChanges, relaunches, crashes, nudges>>

MoveCard(c, target) ==
  CanMove(cards[c], target) /\ Human(c, Move(cards[c], target, Stamp)) /\ UNCHANGED sessions
EditCard(c) ==
  Exists(cards[c]) /\ Human(c, Edit(cards[c])) /\ UNCHANGED sessions
RemoveCard(c) ==
  CanRemove(cards[c]) /\ Human(c, Remove(cards[c])) /\ UNCHANGED sessions
ReturnCard(c) ==
  /\ CanReturn(cards[c])
  /\ Human(c, Return(cards[c], Stamp))
  /\ sessions' = IF Wakes(cards[c].sessionRef)
                   THEN [sessions EXCEPT ![cards[c].sessionRef] = "busy"] ELSE sessions
HumanOnSession(s) ==
  /\ acts < MaxActs /\ acts' = acts + 1
  /\ \/ sessions[s] \in {"idle", "aborted"} /\ sessions' = [sessions EXCEPT ![s] = "busy"]
     \/ sessions[s] = "busy" /\ sessions' = [sessions EXCEPT ![s] = "aborted"]
     \/ Wakes(s) /\ sessions' = [sessions EXCEPT ![s] = "gone"]
  /\ UNCHANGED <<cards, github, rec, skips, prChanges, relaunches, crashes, nudges>>

\* A card in planning or the queue is judged, approved and claimed again
\* (BoardEvaluator, BoardDispatch): a new session and branch, and a new plan when
\* an edit has taken the old one.
Relaunch(c) ==
  LET k == cards[c] IN
  /\ k.status \in {"planning", "queued"}
  /\ relaunches < MaxRelaunches
  /\ relaunches' = relaunches + 1
  /\ \E plan \in Plans, s \in Session :
       /\ HasPlan(k) => plan = k.evaluation.plan
       /\ sessions[s] = "unused"
       /\ sessions' = [sessions EXCEPT ![s] = "busy"]
       /\ cards' = [cards EXCEPT ![c] =
                      Launched([k EXCEPT !.attempts = @ + 1], plan, s)]
  /\ github' = [github EXCEPT ![c] = None]
  /\ nudges' = [nudges EXCEPT ![c] = 0]
  /\ UNCHANGED <<rec, skips, prChanges, acts, crashes>>

Crash ==
  /\ crashes < MaxCrashes
  /\ crashes' = crashes + 1
  /\ rec' = IdleRec
  /\ UNCHANGED <<cards, sessions, github, skips, prChanges, acts, relaunches, nudges>>

-----------------------------------------------------------------------------
Looking ==
  (\E c \in CardId : Looks(c)) \/ HeartbeatOrInterrupted \/ IdlePastGrace \/ SeenChecking

Checking ==
  \/ AttemptRebase \/ Rebased \/ RebaseFailed \/ WaitingForCi \/ AskJudge
  \/ NothingToJudge \/ JudgeFailed \/ Passed \/ NeedsWork \/ Sent

RefreshingFacts ==
  LoadFacts \/ (\E c \in CardId : ResolvePr(c)) \/ WriteFact \/ EndPass

Next ==
  \/ BeginPass \/ SkippedTick \/ Looking \/ Checking \/ RefreshingFacts
  \/ \E s \in Session :
       WorkerStops(s) \/ HumanOnSession(s) \/ \E c \in CardId : Receipt(s, c)
  \/ \E c \in CardId :
       \/ PrOpens(c) \/ PrChanges(c) \/ EditCard(c) \/ RemoveCard(c)
       \/ ReturnCard(c) \/ Relaunch(c) \/ \E target \in Status : MoveCard(c, target)
  \/ Crash

Spec == Init /\ [][Next]_vars

\* The loop keeps ticking and its awaits end; workers stop some time; asked
\* again and again, OpenCode tells the status of a session, the grace period of
\* an idle one passes, and the model gives a verdict.
Fairness ==
  /\ WF_vars(BeginPass) /\ WF_vars(Looking) /\ WF_vars(Checking)
  /\ WF_vars(RefreshingFacts)
  /\ \A c \in CardId : SF_vars(Looks(c) /\ rec'.seen # "unknown")
  /\ SF_vars(IdlePastGrace) /\ SF_vars(NeedsWork \/ Passed)
  /\ \A s \in Session : WF_vars(WorkerStops(s))

FairSpec == Spec /\ Fairness
-----------------------------------------------------------------------------
(* Properties.                                                             *)

\* A step of the pipeline, the workers or GitHub: nobody asked for it.
Unasked == acts' = acts /\ relaunches' = relaunches
Moves(c, set) == cards'[c].status # cards[c].status /\ cards'[c].status \in set

\* A verdict advances a card, or sends it back to its worker, only while it is
\* still being worked on or checked: people who took it to another column during
\* the model's two minutes keep it there.  (moveToMerging also takes cards in
\* review.)
AdvancesOnlyWork ==
  [][\A c \in CardId :
       Unasked /\ Moves(c, {"running", "checking", "review", "merging"})
         => \/ cards[c].status \in {"running", "checking"}
            \/ cards[c].status = "review" /\ cards'[c].status = "merging"]_vars

\* A worker is sent back at most checkRetries times per launch.  Only a round
\* that people or a restart cut off before it was counted comes on top.
NudgesBounded == \A c \in CardId : nudges[c] <= CheckRetries + acts + crashes

\* A card with a PR plan is passed only when a pull request was opened for its
\* branch (DOCUMENTATION.md: "a PR deliverable never passes without an open PR"),
\* as long as it is not launched again while the pass holds its facts.
PassNeedsPr ==
  [][\A c \in CardId :
       (/\ Unasked /\ relaunches = 0 /\ PrPlan(cards[c])
        /\ Moves(c, {"review", "merging"}) /\ cards'[c].blockedReason = "none")
         => github[c] # None]_vars

\* A card whose plan wants a human's review is merged only when one asks for it
\* (DOCUMENTATION.md, columns: "pass -> review (human plans) or merging (green
\* plans)").
HumanPlansAreReviewed ==
  [][\A c \in CardId :
       Unasked /\ Moves(c, {"merging"})
         => HasPlan(cards[c]) /\ cards[c].evaluation.plan.review = "green"]_vars

\* The same of the first launch of a card, up to the moment people take it back:
\* only a card launched again can be routed by the plan of the launch before.
FirstLaunchIsReviewed ==
  [][\A c \in CardId :
       (Unasked /\ relaunches = 0 /\ Moves(c, {"merging"}) /\ HasPlan(cards[c]))
         => cards[c].evaluation.plan.review = "green"]_vars

\* A card waiting for CI does not wait forever (checker.js, waiting: "This
\* prevents waiting-ci / waiting-diff / waiting-answer from spinning forever in
\* checking").
WaitsForCi(c) == /\ cards[c].status = "checking" /\ cards[c].check # None
                 /\ cards[c].check.stage = "waiting-ci"
WaitingIsFinite == \A c \in CardId : WaitsForCi(c) ~> ~WaitsForCi(c)

\* A worker that never opens the pull request its plan asks for is not nudged
\* forever, whatever restarts and skipped ticks fall between, as long as nobody
\* intervenes: in the end the card needs a person's attention, blocked or, when the
\* worker said that nothing needs doing, in review (DOCUMENTATION.md: "past
\* budget it is blocked instead of waiting indefinitely").
NudgingEnds ==
  \A c \in CardId :
    (PrPlan(cards[c]) /\ [](github[c] = None /\ acts = 0 /\ relaunches = 0))
      => <>(cards[c].status \in {"blocked", "review"})
=============================================================================
