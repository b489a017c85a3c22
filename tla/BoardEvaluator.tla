--------------------------- MODULE BoardEvaluator ---------------------------
(***************************************************************************)
(* The Planning column: board/evaluator.js together with the routes that   *)
(* trigger it.  A card entering planning is judged by one model call that  *)
(* takes up to two minutes; meanwhile the card can be edited, moved,       *)
(* approved or deleted, other calls can be started on it, and the server   *)
(* can go down.  An answer is applied to the card as it is when the answer *)
(* arrives.                                                                *)
(***************************************************************************)
EXTENDS BoardCard, FiniteSets

CONSTANTS
  CardId,     \* cards of the board
  Call,       \* model calls that may be in flight together (bounds the model)
  MaxEdits,   \* bound on the edits of one card
  MaxActs,    \* bound on the human's other requests
  MaxCrashes  \* bound on the server's restarts

\* EVALUATOR_MAX_AUTO_RETRIES
MaxAutoRetries == 1

\* The card a model call is about, and the revision of its text that was sent.
InFlight == [card : CardId, text : Nat]

ASSUME EvaluatorAssumption ==
  /\ IsFiniteSet(CardId)
  /\ None \notin CardId /\ None \notin InFlight
  /\ MaxEdits \in Nat /\ MaxActs \in Nat /\ MaxCrashes \in Nat

VARIABLES
  cards,   \* board.json
  calls,   \* evaluateTask runs awaiting generate: the card and the text sent
  retried, \* autoRetryCounts
  timers,  \* auto-retry timers pending per card
  acts,    \* human requests so far
  crashes  \* restarts so far

vars == <<cards, calls, retried, timers, acts, crashes>>

TypeOK ==
  /\ cards \in [CardId -> Card]
  /\ calls \in [Call -> InFlight \cup {None}]
  /\ retried \in [CardId -> Nat]
  /\ timers \in [CardId -> Nat]
  /\ acts \in Nat
  /\ crashes \in Nat

\* queuedAt is set once per card, so the next stamp counts the cards that have one.
Stamp == 1 + Cardinality({c \in CardId : cards[c].queuedAt > 0})

Init ==
  /\ cards \in [CardId -> {NewCard("backlog", 0)}]
  /\ calls = [i \in Call |-> None]
  /\ retried = [c \in CardId |-> 0]
  /\ timers = [c \in CardId |-> 0]
  /\ acts = 0
  /\ crashes = 0

-----------------------------------------------------------------------------
\* evaluateTask up to the await: the card is marked, the text is sent.
Evaluate(c, k) ==
  /\ cards' = [cards EXCEPT ![c] = StartEvaluation(k)]
  /\ \E i \in Call :
       /\ calls[i] = None
       /\ calls' = [calls EXCEPT ![i] = [card |-> c, text |-> k.text]]

\* A route saves k and calls evaluateInBackground.
SaveAndJudge(c, k) ==
  IF CanStartEvaluation(k) THEN Evaluate(c, k)
  ELSE cards' = [cards EXCEPT ![c] = k] /\ UNCHANGED calls

\* Requests of the human; MaxActs bounds them.
Human(c, k) ==
  /\ acts < MaxActs
  /\ acts' = acts + 1
  /\ SaveAndJudge(c, k)
  /\ UNCHANGED <<retried, timers, crashes>>

\* PATCH with a title or description.
EditCard(c) ==
  /\ Exists(cards[c])
  /\ cards[c].text < MaxEdits
  /\ SaveAndJudge(c, Edit(cards[c]))
  /\ UNCHANGED <<retried, timers, acts, crashes>>

\* PATCH with a column.
MoveCard(c, target) ==
  CanMove(cards[c], target) /\ Human(c, Move(cards[c], target, Stamp))

\* PATCH with labels, or POST evaluate: judges a card that can be judged.
Rejudge(c) == CanStartEvaluation(cards[c]) /\ Human(c, cards[c])

ApproveCard(c) == CanApprove(cards[c]) /\ Human(c, Approve(cards[c], Stamp))

RetryCard(c) ==
  CanRetryEvaluation(cards[c]) /\ Human(c, RetryEvaluation(cards[c]))

RemoveCard(c) ==
  /\ CanRemove(cards[c])
  /\ acts < MaxActs
  /\ acts' = acts + 1
  /\ cards' = [cards EXCEPT ![c] = Remove(cards[c])]
  /\ UNCHANGED <<calls, retried, timers, crashes>>

ArmAutoRetryUncounted(c) == \* mutant
  /\ timers' = [timers EXCEPT ![c] = IF Automation = "auto" THEN @ + 1 ELSE @]
  /\ UNCHANGED retried

\* The catch block: in auto mode one more try is armed.
ArmAutoRetry(c) ==
  IF /\ Automation = "auto"
     /\ retried[c] < MaxAutoRetries
     /\ cards[c].checkAttempts < MaxAttempts
  THEN /\ retried' = [retried EXCEPT ![c] = @ + 1]
       /\ timers' = [timers EXCEPT ![c] = @ + 1]
  ELSE UNCHANGED <<retried, timers>>

\* generate answered with a plan.  When the card has no running evaluation any
\* more completeEvaluation throws, failEvaluation throws too, and only the
\* retry bookkeeping of the catch block is left.
Answer(i, plan) ==
  LET c == calls[i].card IN
  /\ calls[i] # None
  /\ plan.text = calls[i].text
  /\ calls' = [calls EXCEPT ![i] = None]
  /\ IF CanSettleEvaluation(cards[c])
       THEN /\ cards' = [cards EXCEPT ![c] = CompleteEvaluation(@, plan, Stamp)]
            /\ retried' = [retried EXCEPT ![c] = 0]
            /\ UNCHANGED timers
       ELSE ArmAutoRetry(c) /\ UNCHANGED cards
  /\ UNCHANGED <<acts, crashes>>

FailUnrecorded(i) == \* mutant
  /\ calls[i] # None
  /\ calls' = [calls EXCEPT ![i] = None]
  /\ ArmAutoRetry(calls[i].card)
  /\ UNCHANGED <<cards, acts, crashes>>

\* generate failed, timed out, or answered something that is no launch plan.
Fail(i) ==
  LET c == calls[i].card IN
  /\ calls[i] # None
  /\ calls' = [calls EXCEPT ![i] = None]
  /\ cards' = IF CanSettleEvaluation(cards[c])
                THEN [cards EXCEPT ![c] = FailEvaluation(@)] ELSE cards
  /\ ArmAutoRetry(c)
  /\ UNCHANGED <<acts, crashes>>

\* The auto-retry timer.
Retry2s(c) ==
  /\ timers[c] > 0
  /\ timers' = [timers EXCEPT ![c] = @ - 1]
  /\ IF CanRetryEvaluation(cards[c])
       THEN Evaluate(c, RetryEvaluation(cards[c]))
       ELSE UNCHANGED <<cards, calls>>
  /\ UNCHANGED <<retried, acts, crashes>>

\* The process ends and starts again: board.json is all that is left.
Crash ==
  /\ crashes < MaxCrashes
  /\ crashes' = crashes + 1
  /\ calls' = [i \in Call |-> None]
  /\ retried' = [c \in CardId |-> 0]
  /\ timers' = [c \in CardId |-> 0]
  /\ UNCHANGED <<cards, acts>>

\* The plans a call can answer with; goal text and rationale are left out.
PlanOf(i) == [deliverable : {"pr", "report"}, review : {"human", "green"},
              text : {calls[i].text}]

Next ==
  \/ \E c \in CardId :
       \/ EditCard(c) \/ Rejudge(c) \/ ApproveCard(c) \/ RetryCard(c)
       \/ RemoveCard(c) \/ Retry2s(c)
       \/ \E target \in Status : MoveCard(c, target)
  \/ \E i \in Call :
       \/ calls[i] # None /\ \E plan \in PlanOf(i) : Answer(i, plan)
       \/ Fail(i)
  \/ Crash

\* Every call ends (generate has a timeout of two minutes) and every timer fires.
Fairness ==
  /\ \A i \in Call :
       WF_vars(Fail(i) \/ (calls[i] # None /\ \E plan \in PlanOf(i) : Answer(i, plan)))
  /\ \A c \in CardId : WF_vars(Retry2s(c))

Spec == Init /\ [][Next]_vars /\ Fairness

-----------------------------------------------------------------------------
\* An evaluation marked running has a model call behind it, whatever answers
\* of older calls came in meanwhile (service.js, startEvaluation: "Only
\* planning cards without a live evaluation start a fresh one").  A card marked
\* running with no call can be neither re-evaluated, retried nor approved.
RunningEvaluationIsLive ==
  \A c \in CardId :
    CanSettleEvaluation(cards[c]) =>
      \E i \in Call : calls[i] # None /\ calls[i].card = c

\* Nothing but a restart strands a running evaluation: in whatever order calls
\* are started, answered, failed and retried, while cards are edited, moved and
\* judged again, the last call of a running evaluation is not gone.
OnlyCrashStrands == crashes = 0 => RunningEvaluationIsLive

\* A plan that is there stays until the card's text changes: no late answer or
\* failure of another call replaces it (completeEvaluation, failEvaluation).
PlanStands ==
  [][\A c \in CardId :
       HasPlan(cards[c]) => \/ cards'[c].evaluation = cards[c].evaluation
                            \/ cards'[c].text # cards[c].text]_vars

\* Only a human or a finished plan puts a card into the queue: a step that is
\* not a request leaves planning for queued only with a plan, in auto mode.
QueuedByPlan ==
  [][\A c \in CardId :
       (cards[c].status # "queued" /\ cards'[c].status = "queued" /\ acts' = acts) =>
         Automation = "auto" /\ cards[c].status = "planning" /\ HasPlan(cards'[c])]_vars

\* A running evaluation of a card that stays on the board ends (the spinner in
\* Planning stops) as long as the server stays up.
EvaluationSettles ==
  \A c \in CardId :
    CanSettleEvaluation(cards[c]) ~> ~CanSettleEvaluation(cards[c]) \/ crashes > 0

\* Automatic retries dry up: with no further requests the board comes to rest,
\* even when every call fails (evaluator.js: "to avoid infinite loops").
RetriesDryUp == <>[](\A i \in Call : calls[i] = None)
=============================================================================
