------------------------ MODULE BoardEvaluatorProofs ------------------------
(***************************************************************************)
(* The Planning column for every number of cards, model calls, edits,      *)
(* requests and restarts: types, the liveness of running evaluations up to *)
(* restarts, and the protection of plans against late answers.             *)
(***************************************************************************)
EXTENDS BoardEvaluator, BoardCardProofs, FiniteSetTheorems

LEMMA StampType == Stamp \in Nat
<1> DEFINE stamped == {c \in CardId : cards[c].queuedAt > 0}
<1>1. IsFiniteSet(stamped)
  BY EvaluatorAssumption, FS_Subset
<1>2. Cardinality(stamped) \in Nat
  BY <1>1, FS_CardinalityType
<1> QED
  BY <1>2 DEF Stamp

\* A card is only ever replaced by a card.
LEMMA StoreType ==
  ASSUME TypeOK, NEW c \in CardId, NEW k \in Card
  PROVE  [cards EXCEPT ![c] = k] \in [CardId -> Card]
BY DEF TypeOK

\* A new call is about a card of the board; whatever k is saved and judged, the
\* cards and the calls stay what they are.
LEMMA EvaluateType ==
  ASSUME TypeOK, NEW c \in CardId, NEW k \in Card, Evaluate(c, k)
  PROVE  cards' \in [CardId -> Card] /\ calls' \in [Call -> InFlight \cup {None}]
<1>1. cards' \in [CardId -> Card]
  BY StartEvaluationType, StoreType DEF Evaluate
<1>2. [card |-> c, text |-> k.text] \in InFlight
  BY DEF InFlight, Card
<1> QED
  BY <1>1, <1>2 DEF Evaluate, TypeOK

LEMMA SaveAndJudgeType ==
  ASSUME TypeOK, NEW c \in CardId, NEW k \in Card, SaveAndJudge(c, k)
  PROVE  cards' \in [CardId -> Card] /\ calls' \in [Call -> InFlight \cup {None}]
<1>1. CASE CanStartEvaluation(k)
  BY <1>1, EvaluateType DEF SaveAndJudge
<1>2. CASE ~CanStartEvaluation(k)
  BY <1>2, StoreType DEF SaveAndJudge, TypeOK
<1> QED
  BY <1>1, <1>2

LEMMA HumanType ==
  ASSUME TypeOK, NEW c \in CardId, NEW k \in Card, Human(c, k)
  PROVE  TypeOK'
<1>1. cards' \in [CardId -> Card] /\ calls' \in [Call -> InFlight \cup {None}]
  BY SaveAndJudgeType DEF Human
<1> QED
  BY <1>1 DEF Human, TypeOK

LEMMA ArmAutoRetryType ==
  ASSUME TypeOK, NEW c \in CardId, ArmAutoRetry(c)
  PROVE  retried' \in [CardId -> Nat] /\ timers' \in [CardId -> Nat]
BY DEF TypeOK, ArmAutoRetry

\* Every step keeps the types (cards are cards, calls are about cards).
LEMMA TypeStep ==
  ASSUME TypeOK, [Next]_vars
  PROVE  TypeOK'
<1>0. \A c \in CardId : cards[c] \in Card
  BY DEF TypeOK
<1>1. ASSUME NEW c \in CardId, EditCard(c)
      PROVE  TypeOK'
  <2>1. Edit(cards[c]) \in Card
    BY <1>0, EditType
  <2> QED
    BY <1>1, <2>1, SaveAndJudgeType DEF EditCard, TypeOK
<1>2. ASSUME NEW c \in CardId, Rejudge(c)
      PROVE  TypeOK'
  BY <1>0, <1>2, HumanType DEF Rejudge
<1>3. ASSUME NEW c \in CardId, ApproveCard(c)
      PROVE  TypeOK'
  BY <1>0, <1>3, HumanType, ApproveType, StampType DEF ApproveCard
<1>4. ASSUME NEW c \in CardId, RetryCard(c)
      PROVE  TypeOK'
  BY <1>0, <1>4, HumanType, RetryEvaluationType DEF RetryCard
<1>5. ASSUME NEW c \in CardId, RemoveCard(c)
      PROVE  TypeOK'
  <2>1. Remove(cards[c]) \in Card
    BY <1>0, RemoveType
  <2> QED
    BY <1>5, <2>1, StoreType DEF RemoveCard, TypeOK
<1>6. ASSUME NEW c \in CardId, Retry2s(c)
      PROVE  TypeOK'
  <2>1. cards' \in [CardId -> Card] /\ calls' \in [Call -> InFlight \cup {None}]
    <3>1. CASE CanRetryEvaluation(cards[c])
      BY <1>0, <1>6, <3>1, RetryEvaluationType, EvaluateType DEF Retry2s
    <3>2. CASE ~CanRetryEvaluation(cards[c])
      BY <1>6, <3>2 DEF Retry2s, TypeOK
    <3> QED
      BY <3>1, <3>2
  <2>2. timers' \in [CardId -> Nat]
    BY <1>6 DEF Retry2s, TypeOK
  <2> QED
    BY <1>6, <2>1, <2>2 DEF Retry2s, TypeOK
<1>7. ASSUME NEW c \in CardId, NEW target \in Status, MoveCard(c, target)
      PROVE  TypeOK'
  BY <1>0, <1>7, HumanType, MoveType, StampType DEF MoveCard
<1>8. ASSUME NEW i \in Call, calls[i] # None, NEW plan \in PlanOf(i), Answer(i, plan)
      PROVE  TypeOK'
  <2>1. calls[i].card \in CardId /\ calls[i].text \in Nat
    BY <1>8 DEF TypeOK, InFlight
  <2>2. plan \in Plan
    BY <2>1, <1>8 DEF PlanOf, Plan
  <2>3. calls' \in [Call -> InFlight \cup {None}]
    BY <1>8 DEF Answer, TypeOK
  <2>4. CASE CanSettleEvaluation(cards[calls[i].card])
    <3>1. CompleteEvaluation(cards[calls[i].card], plan, Stamp) \in Card
      BY <1>0, <2>1, <2>2, StampType, CompleteEvaluationType
    <3>2. cards' \in [CardId -> Card]
      BY <1>8, <2>1, <2>4, <3>1, StoreType DEF Answer, TypeOK
    <3> QED
      BY <1>8, <2>1, <2>3, <2>4, <3>2 DEF Answer, TypeOK
  <2>5. CASE ~CanSettleEvaluation(cards[calls[i].card])
    <3>1. retried' \in [CardId -> Nat] /\ timers' \in [CardId -> Nat]
      BY <1>8, <2>1, <2>5, ArmAutoRetryType DEF Answer
    <3> QED
      BY <1>8, <2>3, <2>5, <3>1 DEF Answer, TypeOK
  <2> QED
    BY <2>4, <2>5
<1>9. ASSUME NEW i \in Call, Fail(i)
      PROVE  TypeOK'
  <2>1. calls[i].card \in CardId
    BY <1>9 DEF Fail, TypeOK, InFlight
  <2>2. FailEvaluation(cards[calls[i].card]) \in Card
    BY <1>0, <2>1, FailEvaluationType
  <2>3. cards' \in [CardId -> Card]
    BY <1>9, <2>1, <2>2, StoreType DEF Fail, TypeOK
  <2>4. retried' \in [CardId -> Nat] /\ timers' \in [CardId -> Nat]
    BY <1>9, <2>1, ArmAutoRetryType DEF Fail
  <2>5. calls' \in [Call -> InFlight \cup {None}]
    BY <1>9 DEF Fail, TypeOK
  <2> QED
    BY <1>9, <2>3, <2>4, <2>5 DEF Fail, TypeOK
<1>10. CASE Crash
  BY <1>10 DEF Crash, TypeOK
<1>11. CASE UNCHANGED vars
  BY <1>11 DEF vars, TypeOK
<1> QED
  BY <1>1, <1>2, <1>3, <1>4, <1>5, <1>6, <1>7, <1>8, <1>9, <1>10, <1>11 DEF Next

LEMMA TypeInit == Init => TypeOK
<1> SUFFICES ASSUME Init PROVE TypeOK
  OBVIOUS
<1>1. NewCard("backlog", 0) \in Card
  BY NewCardType DEF Status
<1> QED
  BY <1>1 DEF Init, TypeOK

\* The types of BoardEvaluator, for all values of its constants.
THEOREM EvaluatorTypeOK == Spec => []TypeOK
<1>1. TypeOK /\ [Next]_vars => TypeOK'
  BY TypeStep
<1> QED
  BY TypeInit, <1>1, PTL DEF Spec

-----------------------------------------------------------------------------
(* Running evaluations.                                                    *)

\* Judging a card puts a call behind it and takes none from the others.
LEMMA EvaluateLive ==
  ASSUME TypeOK, RunningEvaluationIsLive, NEW c \in CardId, NEW k \in Card,
         Evaluate(c, k)
  PROVE  RunningEvaluationIsLive'
<1>1. PICK i \in Call : /\ calls[i] = None
                        /\ calls' = [calls EXCEPT ![i] = [card |-> c, text |-> k.text]]
  BY DEF Evaluate
<1>2. calls'[i] # None /\ calls'[i].card = c
  <2>1. [card |-> c, text |-> k.text] \in InFlight
    BY DEF InFlight, Card
  <2>2. None \notin InFlight
    BY EvaluatorAssumption
  <2> QED
    BY <1>1, <2>1, <2>2 DEF TypeOK
<1>3. ASSUME NEW d \in CardId, d # c, CanSettleEvaluation(cards'[d])
      PROVE  \E j \in Call : calls'[j] # None /\ calls'[j].card = d
  <2>1. cards'[d] = cards[d]
    BY <1>3 DEF Evaluate, TypeOK
  <2>2. PICK j \in Call : calls[j] # None /\ calls[j].card = d
    BY <1>3, <2>1 DEF RunningEvaluationIsLive
  <2>3. calls'[j] = calls[j]
    BY <1>1, <2>2 DEF TypeOK
  <2> QED
    BY <2>2, <2>3
<1> QED
  BY <1>2, <1>3 DEF RunningEvaluationIsLive
\* Saving a card without judging it loses no call either.
LEMMA StoreLive ==
  ASSUME TypeOK, RunningEvaluationIsLive, NEW c \in CardId, NEW k,
         CanSettleEvaluation(k) => CanSettleEvaluation(cards[c]),
         cards' = [cards EXCEPT ![c] = k], calls' = calls
  PROVE  RunningEvaluationIsLive'
<1> SUFFICES ASSUME NEW d \in CardId, CanSettleEvaluation(cards'[d])
             PROVE  CanSettleEvaluation(cards[d])
  BY DEF RunningEvaluationIsLive
<1>1. cards'[d] = IF d = c THEN k ELSE cards[d]
  BY DEF TypeOK
<1> QED
  BY <1>1

LEMMA HumanLive ==
  ASSUME TypeOK, RunningEvaluationIsLive, NEW c \in CardId, NEW k \in Card,
         CanSettleEvaluation(k) => CanSettleEvaluation(cards[c]), SaveAndJudge(c, k)
  PROVE  RunningEvaluationIsLive'
<1>1. CASE CanStartEvaluation(k)
  BY <1>1, EvaluateLive DEF SaveAndJudge
<1>2. CASE ~CanStartEvaluation(k)
  BY <1>2, StoreLive DEF SaveAndJudge
<1> QED
  BY <1>1, <1>2

\* The end of call i: its card is not left running, the others keep their calls.
LEMMA EndOfCallLive ==
  ASSUME TypeOK, RunningEvaluationIsLive, NEW i \in Call, calls[i] # None,
         NEW k, ~CanSettleEvaluation(k),
         cards' = [cards EXCEPT ![calls[i].card] = k],
         calls' = [calls EXCEPT ![i] = None]
  PROVE  RunningEvaluationIsLive'
<1> SUFFICES ASSUME NEW d \in CardId, CanSettleEvaluation(cards'[d])
             PROVE  \E j \in Call : calls'[j] # None /\ calls'[j].card = d
  BY DEF RunningEvaluationIsLive
<1>1. calls[i].card \in CardId
  BY DEF TypeOK, InFlight
<1>2. d # calls[i].card /\ cards'[d] = cards[d]
  BY <1>1 DEF TypeOK
<1>3. PICK j \in Call : calls[j] # None /\ calls[j].card = d
  BY <1>2 DEF RunningEvaluationIsLive
<1>4. calls'[j] = calls[j]
  BY <1>2, <1>3 DEF TypeOK
<1> QED
  BY <1>3, <1>4

LEMMA LiveStep ==
  ASSUME TypeOK, RunningEvaluationIsLive, [Next]_vars, crashes' = crashes
  PROVE  RunningEvaluationIsLive'
<1>0. \A c \in CardId : cards[c] \in Card
  BY DEF TypeOK
<1>1. ASSUME NEW c \in CardId, EditCard(c)
      PROVE  RunningEvaluationIsLive'
  <2>1. Edit(cards[c]) \in Card
    BY <1>0, EditType
  <2>2. Edit(cards[c]).evaluation = None
    BY <1>0 DEF Edit, Card
  <2>3. ~CanSettleEvaluation(Edit(cards[c]))
    BY <2>2 DEF CanSettleEvaluation
  <2> QED
    BY <1>1, <2>1, <2>3, HumanLive DEF EditCard
<1>2. ASSUME NEW c \in CardId, Rejudge(c)
      PROVE  RunningEvaluationIsLive'
  BY <1>0, <1>2, HumanLive DEF Rejudge, Human
<1>3. ASSUME NEW c \in CardId, ApproveCard(c)
      PROVE  RunningEvaluationIsLive'
  <2>1. Approve(cards[c], Stamp) \in Card
    BY <1>0, ApproveType, StampType
  <2>2. ~CanSettleEvaluation(Approve(cards[c], Stamp))
    BY <1>0, <1>3 DEF ApproveCard, CanApprove, HasPlan, Approve, EnterQueued,
                      CanSettleEvaluation, Card
  <2> QED
    BY <1>3, <2>1, <2>2, HumanLive DEF ApproveCard, Human
<1>4. ASSUME NEW c \in CardId, RetryCard(c)
      PROVE  RunningEvaluationIsLive'
  <2>1. /\ RetryEvaluation(cards[c]) \in Card
        /\ ~CanSettleEvaluation(RetryEvaluation(cards[c]))
    BY <1>0, RetryEvaluationType DEF RetryEvaluation, CanSettleEvaluation, Card
  <2> QED
    BY <1>4, <2>1, HumanLive DEF RetryCard, Human
<1>5. ASSUME NEW c \in CardId, RemoveCard(c)
      PROVE  RunningEvaluationIsLive'
  <2>1. ~CanSettleEvaluation(Remove(cards[c]))
    BY <1>0 DEF Remove, CanSettleEvaluation, Exists, Card
  <2> QED
    BY <1>5, <2>1, StoreLive DEF RemoveCard
<1>6. ASSUME NEW c \in CardId, Retry2s(c)
      PROVE  RunningEvaluationIsLive'
  <2>1. CASE CanRetryEvaluation(cards[c])
    BY <1>0, <1>6, <2>1, RetryEvaluationType, EvaluateLive DEF Retry2s
  <2>2. CASE ~CanRetryEvaluation(cards[c])
    BY <1>6, <2>2 DEF Retry2s, RunningEvaluationIsLive
  <2> QED
    BY <2>1, <2>2
<1>7. ASSUME NEW c \in CardId, NEW target \in Status, MoveCard(c, target)
      PROVE  RunningEvaluationIsLive'
  <2>1. Move(cards[c], target, Stamp) \in Card
    BY <1>0, MoveType, StampType
  <2>2. Move(cards[c], target, Stamp).evaluation = cards[c].evaluation
    BY <1>0 DEF Move, Card
  <2>3. CanSettleEvaluation(Move(cards[c], target, Stamp))
          => CanSettleEvaluation(cards[c])
    BY <1>7, <2>2 DEF MoveCard, CanMove, CanSettleEvaluation
  <2> QED
    BY <1>7, <2>1, <2>3, HumanLive DEF MoveCard, Human
<1>8. ASSUME NEW i \in Call, calls[i] # None, NEW plan \in PlanOf(i), Answer(i, plan)
      PROVE  RunningEvaluationIsLive'
  <2> DEFINE k == cards[calls[i].card]
             done == CompleteEvaluation(k, plan, Stamp)
  <2>1. k \in Card
    BY <1>0, <1>8 DEF TypeOK, InFlight
  <2>2. CASE CanSettleEvaluation(k)
    <3>1. done.evaluation = [status |-> "done", plan |-> plan]
      BY <2>1 DEF CompleteEvaluation, EnterQueued, Card
    <3>2. ~CanSettleEvaluation(done)
      BY <3>1 DEF CanSettleEvaluation
    <3> QED
      BY <1>8, <2>2, <3>2, EndOfCallLive DEF Answer
  <2>3. CASE ~CanSettleEvaluation(k)
    <3>1. cards' = [cards EXCEPT ![calls[i].card] = k]
      BY <1>8, <2>3 DEF Answer, TypeOK
    <3> QED
      BY <1>8, <2>3, <3>1, EndOfCallLive DEF Answer
  <2> QED
    BY <2>2, <2>3
<1>9. ASSUME NEW i \in Call, Fail(i)
      PROVE  RunningEvaluationIsLive'
  <2> DEFINE k == cards[calls[i].card]
  <2>1. k \in Card
    BY <1>0, <1>9 DEF Fail, TypeOK, InFlight
  <2>2. CASE CanSettleEvaluation(k)
    <3>1. ~CanSettleEvaluation(FailEvaluation(k))
      BY <2>1 DEF FailEvaluation, CanSettleEvaluation, Card
    <3> QED
      BY <1>9, <2>2, <3>1, EndOfCallLive DEF Fail
  <2>3. CASE ~CanSettleEvaluation(k)
    <3>1. cards' = [cards EXCEPT ![calls[i].card] = k]
      BY <1>9, <2>3 DEF Fail, TypeOK
    <3> QED
      BY <1>9, <2>3, <3>1, EndOfCallLive DEF Fail
  <2> QED
    BY <2>2, <2>3
<1>10. CASE Crash
  BY <1>10 DEF Crash, TypeOK
<1>11. CASE UNCHANGED vars
  BY <1>11 DEF vars, RunningEvaluationIsLive
<1> QED
  BY <1>1, <1>2, <1>3, <1>4, <1>5, <1>6, <1>7, <1>8, <1>9, <1>10, <1>11 DEF Next

\* Restarts apart, a running evaluation always has a model call behind it, for
\* any number of cards and calls and whatever people do (evaluator.js).
THEOREM EvaluatorOnlyCrashStrands == Spec => []OnlyCrashStrands
<1>1. Init => OnlyCrashStrands
  BY DEF Init, OnlyCrashStrands, RunningEvaluationIsLive, CanSettleEvaluation, NewCard
<1>2. TypeOK /\ OnlyCrashStrands /\ [Next]_vars => OnlyCrashStrands'
  <2> SUFFICES ASSUME TypeOK, OnlyCrashStrands, [Next]_vars, crashes' = 0
               PROVE  RunningEvaluationIsLive'
    BY DEF OnlyCrashStrands
  <2>1. crashes' = crashes \/ crashes' = crashes + 1
    BY DEF Next, vars, EditCard, Rejudge, ApproveCard, RetryCard, RemoveCard,
           Retry2s, MoveCard, Human, Answer, Fail, Crash
  <2>2. crashes' = crashes
    BY <2>1 DEF TypeOK
  <2> QED
    BY <2>2, LiveStep DEF OnlyCrashStrands
<1> QED
  BY <1>1, <1>2, EvaluatorTypeOK, PTL DEF Spec
-----------------------------------------------------------------------------
(* Plans.                                                                  *)

\* What saving and judging k does to the plan and the text of card d: a card
\* that may be judged has no plan, and the rest is left as it was given.
LEMMA SaveAndJudgePlan ==
  ASSUME TypeOK, NEW c \in CardId, NEW k \in Card, SaveAndJudge(c, k),
         NEW d \in CardId
  PROVE  \/ cards'[d] = IF d = c THEN k ELSE cards[d]
         \/ /\ d = c /\ ~HasPlan(k)
            /\ cards'[d] = StartEvaluation(k)
BY DEF SaveAndJudge, Evaluate, CanStartEvaluation, HasPlan, TypeOK

PlanKept(k, next) == \/ next.evaluation = k.evaluation
                     \/ next.text # k.text

LEMMA PlanStandsStep ==
  ASSUME TypeOK, [Next]_vars, NEW d \in CardId, HasPlan(cards[d])
  PROVE  PlanKept(cards[d], cards'[d])
<1>0. \A c \in CardId : cards[c] \in Card
  BY DEF TypeOK
<1>a. ASSUME NEW c \in CardId, NEW k \in Card, SaveAndJudge(c, k),
             HasPlan(cards[c]) => HasPlan(k) /\ k.evaluation = cards[c].evaluation
      PROVE  PlanKept(cards[d], cards'[d])
  BY <1>a, SaveAndJudgePlan DEF PlanKept
<1>1. ASSUME NEW c \in CardId, EditCard(c)
      PROVE  PlanKept(cards[d], cards'[d])
  <2>1. Edit(cards[c]) \in Card
    BY <1>0, EditType
  <2>2. /\ Edit(cards[c]).text = cards[c].text + 1
        /\ StartEvaluation(Edit(cards[c])).text = cards[c].text + 1
    BY <1>0 DEF Edit, StartEvaluation, Card
  <2>3. cards[c].text + 1 # cards[c].text
    BY <1>0 DEF Card
  <2> QED
    BY <1>1, <2>1, <2>2, <2>3, SaveAndJudgePlan DEF EditCard, PlanKept
<1>2. ASSUME NEW c \in CardId, Rejudge(c)
      PROVE  PlanKept(cards[d], cards'[d])
  BY <1>0, <1>2, <1>a DEF Rejudge, Human
<1>3. ASSUME NEW c \in CardId, ApproveCard(c)
      PROVE  PlanKept(cards[d], cards'[d])
  <2>1. Approve(cards[c], Stamp) \in Card
    BY <1>0, ApproveType, StampType
  <2>2. Approve(cards[c], Stamp).evaluation = cards[c].evaluation
    BY <1>0 DEF Approve, EnterQueued, Card
  <2> QED
    BY <1>3, <2>1, <2>2, <1>a DEF ApproveCard, Human, HasPlan
<1>4. ASSUME NEW c \in CardId, RetryCard(c)
      PROVE  PlanKept(cards[d], cards'[d])
  <2>1. RetryEvaluation(cards[c]) \in Card /\ ~HasPlan(cards[c])
    BY <1>0, <1>4, RetryEvaluationType DEF RetryCard, CanRetryEvaluation, HasPlan
  <2> QED
    BY <1>4, <2>1, <1>a DEF RetryCard, Human
<1>5. ASSUME NEW c \in CardId, RemoveCard(c)
      PROVE  PlanKept(cards[d], cards'[d])
  <2>1. Remove(cards[c]).evaluation = cards[c].evaluation
    BY <1>0 DEF Remove, Card
  <2>2. cards'[d] = IF d = c THEN Remove(cards[c]) ELSE cards[d]
    BY <1>5 DEF RemoveCard, TypeOK
  <2> QED
    BY <2>1, <2>2 DEF PlanKept
<1>6. ASSUME NEW c \in CardId, Retry2s(c)
      PROVE  PlanKept(cards[d], cards'[d])
  <2>1. CASE CanRetryEvaluation(cards[c])
    <3>1. c # d
      BY <2>1 DEF CanRetryEvaluation, HasPlan
    <3> QED
      BY <1>6, <2>1, <3>1 DEF Retry2s, Evaluate, TypeOK, PlanKept
  <2>2. CASE ~CanRetryEvaluation(cards[c])
    BY <1>6, <2>2 DEF Retry2s, PlanKept
  <2> QED
    BY <2>1, <2>2
<1>7. ASSUME NEW c \in CardId, NEW target \in Status, MoveCard(c, target)
      PROVE  PlanKept(cards[d], cards'[d])
  <2>1. Move(cards[c], target, Stamp) \in Card
    BY <1>0, MoveType, StampType
  <2>2. Move(cards[c], target, Stamp).evaluation = cards[c].evaluation
    BY <1>0 DEF Move, Card
  <2> QED
    BY <1>7, <2>1, <2>2, <1>a DEF MoveCard, Human, HasPlan
<1>8. ASSUME NEW i \in Call, calls[i] # None, NEW plan \in PlanOf(i), Answer(i, plan)
      PROVE  PlanKept(cards[d], cards'[d])
  <2>1. CanSettleEvaluation(cards[calls[i].card]) => calls[i].card # d
    BY DEF CanSettleEvaluation, HasPlan
  <2> QED
    BY <1>8, <2>1 DEF Answer, TypeOK, PlanKept
<1>9. ASSUME NEW i \in Call, Fail(i)
      PROVE  PlanKept(cards[d], cards'[d])
  <2>1. CanSettleEvaluation(cards[calls[i].card]) => calls[i].card # d
    BY DEF CanSettleEvaluation, HasPlan
  <2> QED
    BY <1>9, <2>1 DEF Fail, TypeOK, PlanKept
<1>10. CASE Crash
  BY <1>10 DEF Crash, PlanKept
<1>11. CASE UNCHANGED vars
  BY <1>11 DEF vars, PlanKept
<1> QED
  BY <1>1, <1>2, <1>3, <1>4, <1>5, <1>6, <1>7, <1>8, <1>9, <1>10, <1>11 DEF Next

\* No late answer or failure, of any number of calls in flight, replaces a plan
\* that is there (completeEvaluation and failEvaluation of service.js).
THEOREM EvaluatorPlanStands == Spec => PlanStands
<1>1. TypeOK /\ [Next]_vars
        => [\A c \in CardId :
              HasPlan(cards[c]) => \/ cards'[c].evaluation = cards[c].evaluation
                                   \/ cards'[c].text # cards[c].text]_vars
  BY PlanStandsStep DEF PlanKept
<1> QED
  BY <1>1, EvaluatorTypeOK, PTL DEF Spec, PlanStands
-----------------------------------------------------------------------------
(* The way into the queue.                                                 *)

EntersQueue(k, next) == k.status # "queued" /\ next.status = "queued"

\* Every request of a person but an edit is counted.
LEMMA RequestsCount ==
  ASSUME TypeOK, NEW c \in CardId,
         \/ Rejudge(c) \/ ApproveCard(c) \/ RetryCard(c) \/ RemoveCard(c)
         \/ \E target \in Status : MoveCard(c, target)
  PROVE  acts' # acts
<1>1. acts' = acts + 1
  BY DEF Rejudge, ApproveCard, RetryCard, RemoveCard, MoveCard, Human
<1> QED
  BY <1>1 DEF TypeOK

\* Judging a card, on its own or after an edit, puts nothing into the queue.
LEMMA JudgingQueuesNothing ==
  ASSUME TypeOK, NEW c \in CardId, EditCard(c) \/ Retry2s(c), NEW d \in CardId
  PROVE  ~EntersQueue(cards[d], cards'[d])
<1>0. cards[c] \in Card
  BY DEF TypeOK
<1>1. CASE EditCard(c)
  <2>1. Edit(cards[c]) \in Card
    BY <1>0, EditType
  <2>2. /\ Edit(cards[c]).status # "queued"
        /\ StartEvaluation(Edit(cards[c])).status # "queued"
    BY <1>0 DEF Edit, StartEvaluation, Card
  <2> QED
    BY <1>1, <2>1, <2>2, SaveAndJudgePlan DEF EditCard, EntersQueue
<1>2. CASE Retry2s(c)
  <2>1. CASE CanRetryEvaluation(cards[c])
    <3>1. StartEvaluation(RetryEvaluation(cards[c])).status = cards[c].status
      BY <1>0 DEF StartEvaluation, RetryEvaluation, Card
    <3> QED
      BY <1>2, <2>1, <3>1 DEF Retry2s, Evaluate, EntersQueue, TypeOK
  <2>2. CASE ~CanRetryEvaluation(cards[c])
    BY <1>2, <2>2 DEF Retry2s, EntersQueue
  <2> QED
    BY <2>1, <2>2
<1> QED
  BY <1>1, <1>2

\* An answer queues its own card only: with the plan it brought, from planning,
\* in auto mode.
LEMMA AnswerQueuesByPlan ==
  ASSUME TypeOK, NEW i \in Call, calls[i] # None, NEW plan \in PlanOf(i),
         Answer(i, plan), NEW d \in CardId, EntersQueue(cards[d], cards'[d])
  PROVE  Automation = "auto" /\ cards[d].status = "planning" /\ HasPlan(cards'[d])
<1> DEFINE k == cards[d]
           done == CompleteEvaluation(k, plan, Stamp)
<1>1. k \in Card
  BY DEF TypeOK
<1>2. calls[i].card = d /\ CanSettleEvaluation(k) /\ cards'[d] = done
  BY DEF Answer, TypeOK, EntersQueue
<1>3. done.evaluation = [status |-> "done", plan |-> plan]
  BY <1>1 DEF CompleteEvaluation, EnterQueued, Card
<1>4. HasPlan(done)
  <2>1. plan \in Plan
    BY <1>2 DEF PlanOf, Plan, TypeOK, InFlight
  <2>2. done.evaluation # None
    BY <1>3, <2>1, NoneAssumption DEF Evaluation
  <2> QED
    BY <1>3, <2>2 DEF HasPlan
<1>5. Automation = "auto" /\ k.status = "planning"
  BY <1>1, <1>2 DEF EntersQueue, CompleteEvaluation, Card
<1> QED
  BY <1>2, <1>4, <1>5

LEMMA QueuedByPlanStep ==
  ASSUME TypeOK, [Next]_vars, acts' = acts,
         NEW d \in CardId, EntersQueue(cards[d], cards'[d])
  PROVE  Automation = "auto" /\ cards[d].status = "planning" /\ HasPlan(cards'[d])
<1>1. ASSUME NEW c \in CardId,
             \/ EditCard(c) \/ Rejudge(c) \/ ApproveCard(c) \/ RetryCard(c)
             \/ RemoveCard(c) \/ Retry2s(c)
             \/ \E target \in Status : MoveCard(c, target)
      PROVE  FALSE
  BY <1>1, RequestsCount, JudgingQueuesNothing
<1>2. ASSUME NEW i \in Call, calls[i] # None, NEW plan \in PlanOf(i), Answer(i, plan)
      PROVE  Automation = "auto" /\ cards[d].status = "planning" /\ HasPlan(cards'[d])
  BY <1>2, AnswerQueuesByPlan
<1>3. ASSUME NEW i \in Call, Fail(i)
      PROVE  FALSE
  <2>1. cards[d] \in Card /\ FailEvaluation(cards[d]).status = cards[d].status
    BY DEF TypeOK, FailEvaluation, Card
  <2> QED
    BY <1>3, <2>1 DEF Fail, EntersQueue, TypeOK
<1>4. CASE Crash
  BY <1>4 DEF Crash, EntersQueue
<1>5. CASE UNCHANGED vars
  BY <1>5 DEF vars, EntersQueue
<1> QED
  BY <1>1, <1>2, <1>3, <1>4, <1>5 DEF Next

\* Only a person, or in auto mode a finished plan of a card in planning, puts a
\* card into the queue: for any number of calls in flight, whatever answers late
\* or fails (completeEvaluation and the retries of evaluator.js).
THEOREM EvaluatorQueuedByPlan == Spec => QueuedByPlan
<1>1. TypeOK /\ [Next]_vars
        => [\A c \in CardId :
              (cards[c].status # "queued" /\ cards'[c].status = "queued" /\ acts' = acts) =>
                Automation = "auto" /\ cards[c].status = "planning" /\ HasPlan(cards'[c])]_vars
  BY QueuedByPlanStep DEF EntersQueue
<1> QED
  BY <1>1, EvaluatorTypeOK, PTL DEF Spec, QueuedByPlan
=============================================================================
