------------------------- MODULE BoardCheckerProofs -------------------------
(***************************************************************************)
(* The Checking column for every number of cards, people, launches and     *)
(* restarts: types, the budget of messages to a worker, and that verdicts  *)
(* reach only the cards and the plans they were asked for.                 *)
(***************************************************************************)
EXTENDS BoardChecker, BoardCardProofs

\* A card with a session, which every launched card keeps.
Staffed(k) == k \in Card /\ k.sessionRef \in Session

\* The same card as far as verdicts and budgets go.
Alike(k, n) ==
  /\ Staffed(n) /\ n.evaluation = k.evaluation
  /\ n.pr = k.pr /\ n.checkAttempts = k.checkAttempts

-----------------------------------------------------------------------------
(* The operations of the board used here.                                  *)

LEMMA OlderOp ==
  ASSUME NEW k, Staffed(k)
  PROVE  Alike(k, Older(k)) /\ Older(k).status = k.status
PROOF
<1> DEFINE age == IF k.check.age > WaitingTimeout THEN k.check.age ELSE k.check.age + 1
<1>1. CASE k = None \/ k.check = None \/ k.check.stage \notin WaitStages
  BY <1>1 DEF Older, Alike
<1>2. CASE ~(k = None \/ k.check = None \/ k.check.stage \notin WaitStages)
  <2>1. k.check \in Check
    BY <1>2 DEF Staffed, Card
  <2>2. [k.check EXCEPT !.age = age] \in Check
    BY <2>1 DEF Check
  <2>3. Older(k) = [k EXCEPT !.check = [k.check EXCEPT !.age = age]]
    BY <1>2 DEF Older
  <2> HIDE DEF age
  <2> QED BY <2>2, <2>3 DEF Alike, Staffed, Card
<1> QED BY <1>1, <1>2

LEMMA RefreshOp ==
  ASSUME NEW k, Staffed(k)
  PROVE  Alike(k, RefreshLease(k)) /\ RefreshLease(k).status = k.status
PROOF
<1>1. RefreshLease(k) \in Card
  BY RefreshLeaseType DEF Staffed
<1> QED BY <1>1 DEF Alike, Staffed, RefreshLease, Card

LEMMA LeasedIsStaffed ==
  ASSUME NEW k, Staffed(k)
  PROVE  LeasedSession(k) \in Session
BY DEF Staffed, Card, Lease, LeasedSession

LEMMA ParkOp ==
  ASSUME NEW k, Staffed(k), NEW why \in Reason
  PROVE  /\ Alike(k, ParkInReview(k, why)) /\ ParkInReview(k, why).status = "review"
         /\ ParkInReview(k, why).blockedReason = why
PROOF
<1>1. ParkInReview(k, why) \in Card
  BY ParkInReviewType DEF Staffed
<1> QED BY <1>1, LeasedIsStaffed DEF Alike, Staffed, ParkInReview, Card

LEMMA EnterCheckingOp ==
  ASSUME NEW k, Staffed(k)
  PROVE  /\ Alike(k, EnterChecking(k))
         /\ EnterChecking(k).status = IF k.status = "running" THEN "checking" ELSE k.status
PROOF
<1>1. EnterChecking(k) \in Card
  BY EnterCheckingType DEF Staffed
<1>2. CASE k.status # "running"
  BY <1>2 DEF EnterChecking, Alike
<1>3. CASE k.status = "running"
  <2>1. EnterChecking(k) = [k EXCEPT !.status = "checking", !.sessionRef = LeasedSession(k),
                                     !.lease = None]
    BY <1>3 DEF EnterChecking
  <2> QED BY <1>1, <1>3, <2>1, LeasedIsStaffed DEF Alike, Staffed, Card
<1> QED BY <1>2, <1>3

LEMMA BackToRunningOp ==
  ASSUME NEW k, Staffed(k)
  PROVE  /\ Alike(k, BackToRunning(k))
         /\ BackToRunning(k).status = IF k.status = "checking" THEN "running" ELSE k.status
PROOF
<1>1. k.sessionRef # None
  BY NoneAssumption DEF Staffed
<1>2. NewLease(k.sessionRef) \in Lease
  BY LeaseType DEF Staffed
<1>3. CASE k.status # "checking"
  BY <1>3 DEF BackToRunning, Alike
<1>4. CASE k.status = "checking"
  <2>1. BackToRunning(k) = [k EXCEPT !.status = "running", !.check = None,
                                     !.lease = NewLease(k.sessionRef)]
    BY <1>1, <1>4 DEF BackToRunning
  <2> DEFINE m == [k EXCEPT !.status = "running", !.check = None,
                            !.lease = NewLease(k.sessionRef)]
  <2>2. m \in Card
    BY <1>2 DEF Staffed, Card, Status
  <2>3. /\ m.sessionRef = k.sessionRef /\ m.evaluation = k.evaluation /\ m.pr = k.pr
        /\ m.status = "running" /\ m.checkAttempts = k.checkAttempts
    BY DEF Staffed, Card
  <2> HIDE DEF m
  <2> QED BY <1>4, <2>1, <2>2, <2>3 DEF Alike, Staffed, m
<1> QED BY <1>3, <1>4

Stages == {"worker-finish", "waiting-ci", "waiting-diff", "waiting-answer", "rebasing",
           "check-error"}

LEMMA SetCheckOp ==
  ASSUME NEW k, Staffed(k), NEW stage \in Stages
  PROVE  Alike(k, SetCheck(k, stage)) /\ SetCheck(k, stage).status = k.status
PROOF
<1>1. [stage |-> stage, age |-> 0] \in Check
  BY DEF Check, Stages
<1> QED BY <1>1 DEF SetCheck, Alike, Staffed, Card

LEMMA BlockOp ==
  ASSUME NEW k, Staffed(k), NEW why \in Reason
  PROVE  Alike(k, BlockTask(k, why)) /\ BlockTask(k, why).status = "blocked"
PROOF
<1>1. BlockTask(k, why) \in Card
  BY BlockTaskType DEF Staffed
<1> QED BY <1>1 DEF BlockTask, Alike, Staffed, Card

LEMMA MoveToReviewOp ==
  ASSUME NEW k, Staffed(k)
  PROVE  /\ Alike(k, MoveToReview(k))
         /\ MoveToReview(k).status = IF k.status = "checking" THEN "review" ELSE k.status
PROOF
<1>1. CASE k.status # "checking"
  BY <1>1 DEF MoveToReview, Alike
<1>2. CASE k.status = "checking"
  <2>1. MoveToReview(k) = [k EXCEPT !.status = "review", !.check = None]
    BY <1>2 DEF MoveToReview
  <2>2. "review" \in Status
    BY DEF Status
  <2> QED BY <1>2, <2>1, <2>2 DEF Alike, Staffed, Card
<1> QED BY <1>1, <1>2

LEMMA MoveToMergingOp ==
  ASSUME NEW k, Staffed(k)
  PROVE  /\ Alike(k, MoveToMerging(k, Stamp))
         /\ MoveToMerging(k, Stamp).status =
              IF k.status \in {"checking", "review"} THEN "merging" ELSE k.status
PROOF
<1> DEFINE q == IF k.queue # None THEN k.queue
                ELSE [state |-> "queued", enqueuedAt |-> Stamp, rebaseAttempts |-> 0]
<1>1. q \in Queue \cup {None}
  BY DEF Staffed, Card, Queue, Stamp
<1>2. CASE k.status \notin {"checking", "review"}
  BY <1>2 DEF MoveToMerging, Alike
<1>3. CASE k.status \in {"checking", "review"}
  <2>1. MoveToMerging(k, Stamp) = [k EXCEPT !.status = "merging", !.check = None, !.queue = q]
    BY <1>3 DEF MoveToMerging
  <2> HIDE DEF q
  <2> DEFINE m == [k EXCEPT !.status = "merging", !.check = None, !.queue = q]
  <2>2. m \in Card
    BY <1>1 DEF Staffed, Card, Status
  <2>3. /\ m.sessionRef = k.sessionRef /\ m.evaluation = k.evaluation /\ m.pr = k.pr
        /\ m.status = "merging" /\ m.checkAttempts = k.checkAttempts
    BY DEF Staffed, Card
  <2> HIDE DEF m
  <2> QED BY <1>3, <2>1, <2>2, <2>3 DEF Alike, Staffed, m
<1> QED BY <1>2, <1>3

LEMMA SendBackOp ==
  ASSUME NEW k, Staffed(k), NEW n \in Nat
  PROVE  /\ Staffed(SendBackForRework(k, n))
         /\ SendBackForRework(k, n).evaluation = k.evaluation
         /\ SendBackForRework(k, n).pr = k.pr
         /\ SendBackForRework(k, n).status = IF k.status = "checking" THEN "running" ELSE k.status
         /\ SendBackForRework(k, n).checkAttempts =
              IF k.status = "checking" THEN n ELSE k.checkAttempts
PROOF
<1>1. k.sessionRef # None
  BY NoneAssumption DEF Staffed
<1>2. NewLease(k.sessionRef) \in Lease
  BY LeaseType DEF Staffed
<1>3. CASE k.status # "checking"
  BY <1>3 DEF SendBackForRework
<1>4. CASE k.status = "checking"
  <2>1. SendBackForRework(k, n) =
          [k EXCEPT !.status = "running", !.checkAttempts = n, !.check = None,
                    !.lease = NewLease(k.sessionRef)]
    BY <1>1, <1>4 DEF SendBackForRework
  <2> DEFINE m == [k EXCEPT !.status = "running", !.checkAttempts = n, !.check = None,
                            !.lease = NewLease(k.sessionRef)]
  <2>2. m \in Card
    BY <1>2 DEF Staffed, Card, Status
  <2>3. /\ m.sessionRef = k.sessionRef /\ m.evaluation = k.evaluation /\ m.pr = k.pr
        /\ m.status = "running" /\ m.checkAttempts = n
    BY DEF Staffed, Card
  <2> HIDE DEF m
  <2> QED BY <1>4, <2>1, <2>2, <2>3 DEF Staffed, m
<1> QED BY <1>3, <1>4

LEMMA FinishOp ==
  ASSUME NEW k, Staffed(k)
  PROVE  Alike(k, WorkerFinish(k)) /\ WorkerFinish(k).status = "checking"
PROOF
<1>1. WorkerFinish(k) \in Card
  BY WorkerFinishType DEF Staffed
<1>2. CASE k.status = "checking"
  BY <1>2 DEF WorkerFinish, Alike
<1>3. CASE k.status # "checking"
  <2> DEFINE check == [stage |-> "worker-finish", age |-> 0]
  <2>1. WorkerFinish(k) = [k EXCEPT !.status = "checking", !.sessionRef = LeasedSession(k),
                                    !.lease = None, !.check = check]
    BY <1>3 DEF WorkerFinish
  <2> HIDE DEF check
  <2> QED BY <1>1, <2>1, LeasedIsStaffed DEF Alike, Staffed, Card
<1> QED BY <1>2, <1>3

LEMMA SetPrOp ==
  ASSUME NEW k, Staffed(k), NEW pr \in Pr
  PROVE  /\ Staffed(SetPr(k, pr)) /\ SetPr(k, pr).evaluation = k.evaluation
         /\ SetPr(k, pr).checkAttempts = k.checkAttempts
         /\ SetPr(k, pr).status = k.status
BY DEF SetPr, Staffed, Card

\* What people do to a card takes at most its plan away.
Asked(k, n) ==
  /\ Staffed(n) /\ n.evaluation \in {None, k.evaluation}
  /\ n.pr = k.pr /\ n.checkAttempts = k.checkAttempts

LEMMA MoveOp ==
  ASSUME NEW k, Staffed(k), NEW target \in Status
  PROVE  Asked(k, Move(k, target, Stamp))
PROOF
<1> DEFINE why == IF target = "blocked" THEN "by hand"
                  ELSE IF k.status = "blocked" THEN "none" ELSE k.blockedReason
           at  == IF target = "queued" /\ k.queuedAt = 0 THEN Stamp ELSE k.queuedAt
<1>1. Move(k, target, Stamp) = [k EXCEPT !.status = target, !.blockedReason = why,
                                         !.queuedAt = at]
  BY DEF Move
<1>2. Move(k, target, Stamp) \in Card
  BY MoveType DEF Staffed, Stamp
<1> HIDE DEF why, at
<1> QED BY <1>1, <1>2 DEF Asked, Staffed, Card

LEMMA EditOp ==
  ASSUME NEW k, Staffed(k)
  PROVE  Asked(k, Edit(k))
PROOF
<1>1. Edit(k) \in Card
  BY EditType DEF Staffed
<1> QED BY <1>1 DEF Edit, Asked, Staffed, Card

LEMMA RemoveOp ==
  ASSUME NEW k, Staffed(k)
  PROVE  Asked(k, Remove(k))
PROOF
<1>1. Remove(k) \in Card
  BY RemoveType DEF Staffed
<1> QED BY <1>1 DEF Remove, Asked, Staffed, Card

LEMMA ReturnOp ==
  ASSUME NEW k, Staffed(k)
  PROVE  Asked(k, Return(k, Stamp))
PROOF
<1>1. Return(k, Stamp) \in Card
  BY ReturnType DEF Staffed, Stamp
<1>2. k.sessionRef # None
  BY NoneAssumption DEF Staffed
<1>3. Return(k, Stamp) = [k EXCEPT !.queue = None, !.status = "running",
                                   !.lease = NewLease(k.sessionRef)]
  BY <1>2 DEF Return, Staffed, Card
<1> QED BY <1>1, <1>3 DEF Asked, Staffed, Card

\* A launch starts with no messages counted and no pull request.
LEMMA LaunchedOp ==
  ASSUME NEW k \in Card, NEW plan \in Plans, NEW s \in Session
  PROVE  /\ Staffed(Launched(k, plan, s)) /\ Launched(k, plan, s).status = "running"
         /\ Launched(k, plan, s).checkAttempts = 0 /\ Launched(k, plan, s).pr = None
PROOF
<1> DEFINE done == [status |-> "done", plan |-> plan]
           j == [k EXCEPT !.evaluation = done, !.queuedAt = Stamp]
           m == Claim(j, k.attempts)
           n == LinkSession(m, s)
<1>1. done \in Evaluation
  BY DEF Evaluation, Plans, Plan
<1> HIDE DEF done
<1>2. j \in Card /\ k.attempts \in Nat
  BY <1>1 DEF Card, Stamp
<1> HIDE DEF j
<1>3. m \in Card
  BY <1>2, ClaimType
<1>4. m.status = "running" /\ m.checkAttempts = 0 /\ m.pr = None
  BY <1>2 DEF Claim, Card
<1> HIDE DEF m
<1>5. n \in Card
  BY <1>3, LinkSessionType
<1>6. /\ n.status = m.status /\ n.checkAttempts = m.checkAttempts /\ n.pr = m.pr
      /\ n.sessionRef = s
  BY <1>3 DEF LinkSession, Card
<1> HIDE DEF n
<1> QED BY <1>4, <1>5, <1>6 DEF Launched, Staffed, n, m, j, done

-----------------------------------------------------------------------------
(* The invariant.                                                          *)

AtCard == {"seen", "check", "judging", "sending", "rebasing", "resolved"}
InCheck == {"check", "judging", "sending", "rebasing"}

\* The pass still has the card before it, as it was loaded.
Held(c) == c \in rec.todo \/ rec.card = c

\* What the pass has in hand at each await.
Hand ==
  /\ rec.pc \in AtCard => rec.card \in CardId
  /\ rec.pc \notin AtCard => rec.card = None
  /\ rec.pc = "idle" => rec.todo = {}
  /\ rec.card \notin rec.todo
  /\ rec.pc \in InCheck => rec.snap[rec.card].status = "checking"
  /\ \A c \in CardId : Staffed(cards[c]) /\ (Held(c) => Staffed(rec.snap[c]))

\* What the copy still says of the card: its rounds, for the pass alone counts them,
\* and before the next launch its plan and that it had a pull request.
Known ==
  /\ \A c \in CardId : Held(c) =>
       /\ cards[c].checkAttempts <= rec.snap[c].checkAttempts
       /\ relaunches = 0 =>
            /\ cards[c].evaluation \in {None, rec.snap[c].evaluation}
            /\ rec.snap[c].pr # None => github[c] # None
  /\ relaunches = 0 =>
       /\ \A c \in CardId : cards[c].pr # None => github[c] # None
       /\ rec.pc = "resolved" /\ rec.fact # None => github[rec.card] # None

\* The pass may still wake the worker of this card; it has woken it, and the round is
\* not counted yet.
Sending(c) == rec.card = c /\ rec.pc = "sending"
Due(c)     == Held(c) /\ ~Sending(c) /\ rec.pc \notin {"facts", "resolved"}

\* Every message is a round on record, but for one that people or a restart cut off.
Paid(c, n) == nudges[c] + n <= cards[c].checkAttempts + acts + crashes

\* One message too many is on its way, or the card has left its column, and only people
\* bring it back.
Counted(c) ==
  /\ nudges[c] <= CheckRetries + acts + crashes
  /\ nudges[c] <= cards[c].checkAttempts + acts + crashes + 1
  /\ cards[c].status = "running" \/ (cards[c].status = "checking" /\ ~Sending(c)) => Paid(c, 0)
  /\ Due(c) => Paid(c, 0)
  /\ Due(c) /\ rec.snap[c].status = "checking" /\ cards[c].status = "running" => Paid(c, 1)
  /\ cards[c].status \in {"planning", "queued"} => acts > 0

Rounds == \A c \in CardId : Counted(c)

Inv == TypeOK /\ Hand /\ Known /\ Rounds

-----------------------------------------------------------------------------
(* What a step does to a card.                                             *)

\* The pass lets cards go; what it keeps it keeps as it was.
Drops ==
  \A c \in CardId : Held(c)' =>
    /\ Held(c) /\ (Due(c)' => Due(c)) /\ (Sending(c)' => Sending(c) \/ Due(c))
    /\ Alike(rec.snap[c], rec'.snap[c])
    /\ rec'.snap[c].status = rec.snap[c].status \/ cards'[c].status # "running"

\* The judge has passed the card with a pull request if its plan wants one.
Passes(c) == Held(c) /\ (UnmergedPr(rec.snap[c]) \/ ~PrPlan(rec.snap[c]))

\* The pipeline's ways between the columns.
Flows(c) ==
  LET from == cards[c].status  to == cards'[c].status IN
  \/ to = from \/ to = "blocked"
  \/ from = "running" /\ to = "checking"
  \/ from = "checking" /\ to = "running" /\ ~Due(c)' /\ ~Sending(c)'
  \/ from \in {"running", "checking"} /\ to = "review"
       /\ (cards'[c].blockedReason # "none" \/ Passes(c))
  \/ from \in {"checking", "review"} /\ to = "merging"
       /\ Passes(c) /\ Green(rec.snap[c])

\* A round that is no longer on its way is counted, unless the card has left or a
\* restart came between.
Settles(c) ==
  Sending(c) /\ ~Sending(c)' =>
    \/ crashes' = crashes + 1
    \/ cards[c].status = "checking" => cards'[c].checkAttempts > cards[c].checkAttempts
    
Keeps(c) ==
  /\ Staffed(cards'[c]) /\ cards'[c].evaluation \in {None, cards[c].evaluation}
  /\ \/ cards'[c].pr = cards[c].pr
     \/ relaunches = 0 /\ cards'[c].pr # None => github'[c] # None
  /\ cards'[c].checkAttempts >= cards[c].checkAttempts
  /\ Held(c)' => cards'[c].checkAttempts = cards[c].checkAttempts

\* A step that wakes nobody and launches nothing.
Gentle ==
  /\ nudges' = nudges /\ relaunches' = relaunches
  /\ acts' \in {acts, acts + 1} /\ crashes' \in {crashes, crashes + 1}
  /\ \A c \in CardId : github[c] # None => github'[c] # None
  /\ rec'.pc = "resolved" /\ rec'.fact # None /\ relaunches = 0 => github'[rec'.card] # None
  /\ Drops
  /\ \A c \in CardId : Keeps(c) /\ Settles(c) /\ (Flows(c) \/ acts' = acts + 1)

Lawful == Inv' /\ \A c \in CardId : acts' = acts /\ relaunches' = relaunches => Flows(c)

HandTypes ==
  /\ TypeOK'
  /\ rec'.pc \in AtCard => rec'.card \in CardId
  /\ rec'.pc \notin AtCard => rec'.card = None
  /\ rec'.pc = "idle" => rec'.todo = {}
  /\ rec'.card \notin rec'.todo
  /\ rec'.pc \in InCheck => rec'.snap[rec'.card].status = "checking"

LEMMA GentleIsLawful ==
  ASSUME Inv, HandTypes, Gentle
  PROVE  Lawful
PROOF
<1>1. Hand'
  BY DEF Hand, HandTypes, Gentle, Drops, Keeps, Alike
<1>2. Known'
  <2>1. \A c \in CardId : cards[c].checkAttempts \in Nat
    BY DEF Inv, Hand, Staffed, Card
  <2>2. ASSUME NEW c \in CardId, Held(c)'
        PROVE  /\ cards'[c].checkAttempts <= rec'.snap[c].checkAttempts
               /\ relaunches = 0 =>
                    /\ cards'[c].evaluation \in {None, rec'.snap[c].evaluation}
                    /\ rec'.snap[c].pr # None => github'[c] # None
    BY <2>2 DEF Inv, Known, Gentle, Drops, Keeps, Alike
  <2>3. ASSUME relaunches = 0, NEW c \in CardId, cards'[c].pr # None
        PROVE  github'[c] # None
    BY <2>3 DEF Inv, Known, Gentle, Keeps
  <2> QED BY <2>2, <2>3 DEF Known, Gentle
<1>3. Rounds'
  <2> SUFFICES ASSUME NEW c \in CardId
               PROVE  Counted(c)'
    BY DEF Rounds
  <2>0. /\ cards[c].checkAttempts \in Nat /\ cards'[c].checkAttempts \in Nat
        /\ acts \in Nat /\ crashes \in Nat /\ nudges[c] \in Nat /\ CheckRetries \in Nat
    BY ConfigAssumption DEF Inv, Hand, TypeOK, Gentle, Keeps, Staffed, Card
  <2>1. Counted(c) /\ Keeps(c) /\ Settles(c) /\ (Flows(c) \/ acts' = acts + 1)
    BY DEF Inv, Rounds, Gentle
  <2>2. /\ acts' = acts \/ acts' = acts + 1
        /\ crashes' = crashes \/ crashes' = crashes + 1 
        /\ nudges'[c] = nudges[c]
    BY DEF Gentle
  <2>3. /\ Due(c)' => Due(c)
        /\ Due(c)' => rec'.snap[c].status = rec.snap[c].status \/ cards'[c].status # "running"
        /\ Sending(c)' => Sending(c) \/ Due(c)
    BY DEF Gentle, Drops, Due, Sending, Held
  <2>4. ~(Sending(c) /\ Due(c)) /\ ~(Sending(c)' /\ Due(c)')
    BY DEF Sending, Due
  <2>5. /\ nudges'[c] <= CheckRetries + acts' + crashes'
        /\ nudges'[c] <= cards'[c].checkAttempts + acts' + crashes' + 1
        /\ Due(c)' => Paid(c, 0)'
    BY <2>0, <2>1, <2>2, <2>3 DEF Counted, Keeps, Paid
  <2>6. ASSUME cards'[c].status = "running"
        PROVE  Paid(c, 0)'
    BY <2>0, <2>1, <2>2, <2>3, <2>4, <2>6 DEF Counted, Keeps, Paid, Settles, Flows
  <2>7. ASSUME cards'[c].status = "checking", ~Sending(c)'
        PROVE  Paid(c, 0)'
    BY <2>0, <2>1, <2>2, <2>3, <2>4, <2>7 DEF Counted, Keeps, Paid, Settles, Flows
  <2>8. ASSUME Due(c)', rec'.snap[c].status = "checking", cards'[c].status = "running"
        PROVE  Paid(c, 1)'
    BY <2>0, <2>1, <2>2, <2>3, <2>4, <2>8 DEF Counted, Keeps, Paid, Flows
  <2>9. ASSUME cards'[c].status \in {"planning", "queued"}
        PROVE  acts' > 0
    BY <2>0, <2>1, <2>2, <2>9 DEF Counted, Flows
  <2> QED BY <2>5, <2>6, <2>7, <2>8, <2>9 DEF Counted
<1>4. acts \in Nat /\ TypeOK'
  BY DEF Inv, TypeOK, HandTypes
<1> QED BY <1>1, <1>2, <1>3, <1>4 DEF Lawful, Inv, Gentle

-----------------------------------------------------------------------------
(* Kinds of gentle steps.                                                  *)

LEMMA AlikeSelf ==
  ASSUME NEW k, Staffed(k)
  PROVE  Alike(k, k)
BY DEF Alike

\* The pass is done with its card, or with everything.
LEMMA LetsGo ==
  ASSUME Inv, rec.pc \in AtCard \ {"resolved"}, rec' \in {Onward, IdleRec}
  PROVE  /\ rec' \in RecState /\ rec'.pc \in {"looking", "idle"} /\ rec'.card = None
         /\ rec'.todo \in {rec.todo, {}} /\ (rec'.pc = "idle" => rec'.todo = {})
         /\ rec'.card \notin rec'.todo /\ Drops
PROOF
<1>0. rec \in RecState /\ None \notin CardId /\ Hand
  BY CheckerAssumption DEF Inv, TypeOK
<1>1. CASE rec' = IdleRec
  <2>1. /\ rec' \in RecState /\ rec'.pc = "idle" /\ rec'.card = None /\ rec'.todo = {}
    BY <1>1 DEF IdleRec, RecState
  <2> QED BY <1>0, <2>1 DEF Drops, Held
<1>2. CASE rec' = Onward
  <2> DEFINE snap == Only(rec.snap, rec.todo)
  <2>1. /\ snap \in [CardId -> Card \cup {None}]
        /\ \A c \in rec.todo : snap[c] = rec.snap[c]
    BY <1>0 DEF Only, RecState
  <2>2. /\ rec'.pc = "looking" /\ rec'.card = None /\ rec'.todo = rec.todo
        /\ rec'.snap = snap
    BY <1>0, <1>2 DEF Onward, RecState
  <2> HIDE DEF snap
  <2>3. rec' \in RecState
    BY <1>0, <1>2, <2>1, <2>2 DEF Onward, RecState, snap
  <2>4. None \notin rec'.todo
    BY <1>0, <2>2 DEF RecState
  <2>5. Drops
    <3> SUFFICES ASSUME NEW c \in CardId, Held(c)'
                 PROVE  /\ Held(c) /\ (Due(c)' => Due(c)) /\ (Sending(c)' => Sending(c) \/ Due(c))
                        /\ Alike(rec.snap[c], rec'.snap[c])
                        /\ rec'.snap[c].status = rec.snap[c].status
      BY DEF Drops
    <3>1. c \in rec.todo /\ c # rec.card
      BY <1>0, <2>2 DEF Held, Hand
    <3>2. Held(c) /\ Due(c) /\ ~Sending(c)'
      BY <2>2, <3>1 DEF Held, Due, Sending, AtCard
    <3>3. rec'.snap[c] = rec.snap[c]
      BY <2>1, <2>2, <3>1
    <3> QED BY <1>0, <3>2, <3>3, AlikeSelf DEF Hand
  <2> QED BY <2>2, <2>3, <2>4, <2>5
<1> QED BY <1>1, <1>2

\* Where the card of the pass may be moved.
Goes(k) ==
  LET from == Now.status IN
  \/ k.status \in {from, "blocked"}
  \/ from = "checking" /\ k.status = "running"
  \/ from \in {"running", "checking"} /\ k.status = "review"
       /\ (k.blockedReason # "none" \/ Passes(rec.card))
  \/ from \in {"checking", "review"} /\ k.status = "merging"
       /\ Passes(rec.card) /\ Green(Was)

SameBounds ==
  /\ skips' = skips /\ prChanges' = prChanges /\ acts' = acts /\ relaunches' = relaunches
  /\ crashes' = crashes

\* The pass writes its card and is done with it; of a round it has sent it counts one.
LEMMA WroteLawful ==
  ASSUME Inv, rec.pc \in AtCard \ {"resolved"}, rec' \in {Onward, IdleRec},
         sessions' = sessions, SameBounds, nudges' = nudges,
         github' \in [CardId -> Pr \cup {None}],
         \A c \in CardId : github[c] # None => github'[c] # None,
         NEW k, Staffed(k), k.evaluation = Now.evaluation, k.pr = Now.pr,
         k.checkAttempts >= Now.checkAttempts, Goes(k), cards' = cards \/ Write(k),
         rec.pc = "sending" /\ Now.status = "checking" =>
           Write(k) /\ k.checkAttempts > Now.checkAttempts
  PROVE  Lawful
PROOF
<1>0. /\ rec.card \in CardId /\ rec.card \notin rec.todo /\ cards \in [CardId -> Card]
      /\ None \notin CardId /\ TypeOK /\ Hand /\ acts \in Nat /\ crashes \in Nat
  BY CheckerAssumption DEF Inv, TypeOK, Hand
<1>1. /\ rec' \in RecState /\ rec'.pc \in {"looking", "idle"} /\ rec'.card = None
      /\ rec'.todo \in {rec.todo, {}} /\ (rec'.pc = "idle" => rec'.todo = {})
      /\ rec'.card \notin rec'.todo /\ Drops
  BY LetsGo
<1>2. \A c \in CardId : cards'[c] = cards[c] \/ (c = rec.card /\ cards'[c] = k)
  BY <1>0 DEF Write
<1>3. TypeOK'
  <2>1. cards' \in [CardId -> Card]
    BY <1>0 DEF Write, Staffed
  <2> QED BY <1>0, <1>1, <2>1 DEF TypeOK, SameBounds
<1>4. HandTypes
  BY <1>1, <1>3 DEF HandTypes, AtCard, InCheck
<1>5. ASSUME NEW c \in CardId
      PROVE  Keeps(c) /\ Settles(c) /\ Flows(c)
  <2>0. cards[c].checkAttempts \in Nat /\ Staffed(cards[c])
    BY <1>0 DEF Hand, Card
  <2>1. CASE cards'[c] = cards[c] /\ c # rec.card
    BY <2>0, <2>1 DEF Keeps, Settles, Flows, Sending
  <2>2. CASE c = rec.card
    <3>0. cards'[c] = cards[c] \/ cards'[c] = k
      BY <1>2
    <3>1. ~Held(c)'
      BY <1>0, <1>1, <2>2 DEF Held
    <3>2. ~Due(c)' /\ ~Sending(c)'
      BY <3>1 DEF Due, Sending, Held
    <3>3. Keeps(c)
      BY <2>0, <2>2, <3>0, <3>1 DEF Keeps, Now
    <3>4. Settles(c)
      BY <1>0, <2>2, <3>0 DEF Settles, Sending, Now, Write
    <3>5. Flows(c)
      BY <2>2, <3>0, <3>2 DEF Flows, Goes, Now, Was
    <3> QED BY <3>3, <3>4, <3>5
  <2> QED BY <1>2, <2>1, <2>2
<1>6. Gentle
  BY <1>0, <1>1, <1>5 DEF Gentle, SameBounds
<1> QED BY <1>4, <1>6, GentleIsLawful

-----------------------------------------------------------------------------
(* The cards of a pass.                                                    *)

\* The card of the pass, as it is and as it was loaded.
LEMMA HandCard ==
  ASSUME Inv, rec.pc \in AtCard
  PROVE  /\ rec.card \in CardId /\ Staffed(Now) /\ Staffed(Was)
         /\ Now.checkAttempts <= Was.checkAttempts
         /\ Now.checkAttempts \in Nat /\ Was.checkAttempts \in Nat
         /\ github \in [CardId -> Pr \cup {None}] /\ sessions \in [Session -> SessionState]
PROOF
<1>1. rec.card \in CardId /\ Held(rec.card)
  BY DEF Inv, Hand, Held
<1>2. Staffed(Now) /\ Staffed(Was) /\ Now.checkAttempts <= Was.checkAttempts
  BY <1>1 DEF Inv, Hand, Known, Now, Was
<1> QED BY <1>1, <1>2 DEF Staffed, Card, Inv, TypeOK

LEMMA GoOnLawful ==
  ASSUME Inv, rec.pc \in AtCard \ {"resolved"}, WorldSame,
         NEW k, Alike(Now, k), Goes(k), rec.pc # "sending",
         WriteAndGoOn(k) \/ TryWriteAndGoOn(k) \/ (rec' = Onward /\ cards' = cards)
  PROVE  Lawful
PROOF
<1>1. rec' \in {Onward, IdleRec} /\ (cards' = cards \/ Write(k))
  BY DEF WriteAndGoOn, TryWriteAndGoOn
<1>2. SameBounds /\ sessions' = sessions /\ nudges' = nudges /\ github' = github
  BY DEF WorldSame, bounds, SameBounds
<1>3. /\ Staffed(k) /\ k.evaluation = Now.evaluation /\ k.pr = Now.pr
      /\ k.checkAttempts >= Now.checkAttempts
  BY HandCard DEF Alike
<1> QED BY <1>1, <1>2, <1>3, HandCard, WroteLawful

\* The pass turns to the next await with the same card.
LEMMA TurnsLawful ==
  ASSUME Inv, WorldSame, cards' = cards, rec.pc \in AtCard \ {"resolved", "sending"},
         Was.status = "checking",
         NEW pc \in {"check", "judging", "rebasing"}, rec' = [rec EXCEPT !.pc = pc]
  PROVE  Lawful
PROOF
<1>1. rec \in RecState /\ TypeOK /\ Hand /\ Known
  BY DEF Inv, TypeOK
<1>2. /\ rec'.pc = pc /\ rec'.card = rec.card /\ rec'.todo = rec.todo /\ rec'.snap = rec.snap
      /\ rec' \in RecState
  BY <1>1 DEF RecState
<1>3. /\ SameBounds /\ sessions' = sessions /\ nudges' = nudges /\ github' = github
  BY DEF WorldSame, bounds, SameBounds
<1>4. HandTypes
  BY <1>1, <1>2, <1>3 DEF HandTypes, TypeOK, SameBounds, Hand, AtCard, InCheck, Was
<1>5. Drops
  BY <1>1, <1>2, AlikeSelf DEF Drops, Held, Due, Sending, Hand, AtCard
<1>6. \A c \in CardId : cards[c].checkAttempts \in Nat
  BY <1>1 DEF Hand, Staffed, Card
<1>7. \A c \in CardId : Keeps(c) /\ Settles(c) /\ Flows(c)
  BY <1>1, <1>2, <1>6 DEF Keeps, Settles, Sending, Flows, Hand
<1>8. acts \in Nat /\ crashes \in Nat
  BY <1>1 DEF TypeOK
<1>9. Gentle
  BY <1>2, <1>3, <1>5, <1>7, <1>8 DEF Gentle, SameBounds
<1> QED BY <1>4, <1>9, GentleIsLawful

LEMMA LooksLawful ==
  ASSUME Inv, NEW c \in CardId, Looks(c)
  PROVE  Lawful
PROOF
<1>1. rec \in RecState /\ TypeOK /\ Hand /\ None \notin CardId /\ rec.card = None
  BY CheckerAssumption DEF Inv, TypeOK, Hand, Looks, AtCard
<1>2. rec.snap[c].sessionRef \in Session
  BY <1>1 DEF Hand, Held, Staffed, Looks
<1>3. PICK seen \in {sessions[rec.snap[c].sessionRef], "unknown"} :
        rec' = [rec EXCEPT !.pc = "seen", !.card = c, !.seen = seen, !.todo = @ \ {c}]
  BY DEF Looks
<1>4. seen \in SessionState \cup {"unknown"}
  BY <1>1, <1>2 DEF TypeOK
<1>5. /\ rec'.pc = "seen" /\ rec'.card = c /\ rec'.todo = rec.todo \ {c}
      /\ rec'.snap = rec.snap /\ rec' \in RecState
  BY <1>1, <1>3, <1>4 DEF RecState
<1>6. SameBounds /\ sessions' = sessions /\ nudges' = nudges /\ github' = github /\ cards' = cards
  BY DEF Looks, WorldSame, bounds, SameBounds
<1>7. HandTypes
  BY <1>1, <1>5, <1>6 DEF HandTypes, TypeOK, SameBounds, AtCard, InCheck
<1>8. Drops
  BY <1>1, <1>5, AlikeSelf DEF Drops, Held, Due, Sending, Hand, Looks
<1>9. \A d \in CardId : cards[d].checkAttempts \in Nat
  BY <1>1 DEF Hand, Staffed, Card
<1>10. \A d \in CardId : Keeps(d) /\ Settles(d) /\ Flows(d)
  BY <1>1, <1>6, <1>9 DEF Keeps, Settles, Sending, Flows, Hand, Looks
<1>11. acts \in Nat /\ crashes \in Nat
  BY <1>1 DEF TypeOK
<1>12. Gentle
  BY <1>5, <1>6, <1>8, <1>10, <1>11 DEF Gentle, SameBounds
<1> QED BY <1>7, <1>12, GentleIsLawful

LEMMA SeenLawful ==
  ASSUME Inv, HeartbeatOrInterrupted \/ SeenChecking
  PROVE  Lawful
PROOF
<1>0. rec.pc = "seen" /\ Staffed(Now) /\ WorldSame
  BY HandCard DEF HeartbeatOrInterrupted, SeenChecking, AtCard
<1>1. CASE HeartbeatOrInterrupted
  <2>1. CASE WriteAndGoOn(RefreshLease(Now))
    BY <1>0, <2>1, RefreshOp, GoOnLawful DEF AtCard, Goes
  <2>2. CASE WriteAndGoOn(WorkerInterrupted(Now))
    <3>1. "interrupted" \in Reason
      BY DEF Reason
    <3>2. /\ Alike(Now, WorkerInterrupted(Now))
          /\ \/ WorkerInterrupted(Now).status = Now.status
             \/ /\ Now.status = "running" /\ WorkerInterrupted(Now).status = "review"
                /\ WorkerInterrupted(Now).blockedReason = "interrupted"
      BY <1>0, <3>1, ParkOp, AlikeSelf DEF WorkerInterrupted
    <3> HIDE DEF WorkerInterrupted
    <3> QED BY <1>0, <2>2, <3>2, GoOnLawful DEF AtCard, Goes
  <2>3. CASE rec' = Onward /\ cards' = cards
    BY <1>0, <2>3, AlikeSelf, GoOnLawful DEF AtCard, Goes
  <2> QED BY <1>1, <2>1, <2>2, <2>3 DEF HeartbeatOrInterrupted
<1>2. CASE SeenChecking
  <2>1. CASE WriteAndGoOn(BackToRunning(Now))
    BY <1>0, <2>1, BackToRunningOp, GoOnLawful DEF AtCard, Goes
  <2>2. CASE rec' = [rec EXCEPT !.pc = "check"] /\ cards' = cards
    BY <1>0, <1>2, <2>2, TurnsLawful DEF AtCard, SeenChecking
  <2> QED BY <1>2, <2>1, <2>2 DEF SeenChecking
<1> QED BY <1>1, <1>2

LEMMA IdlePastGraceLawful ==
  ASSUME Inv, IdlePastGrace
  PROVE  Lawful
PROOF
<1>0. /\ rec.pc = "seen" /\ rec.card \in CardId /\ Staffed(Now) /\ Staffed(Was) /\ WorldSame
      /\ rec.card \notin rec.todo
  BY HandCard DEF IdlePastGrace, AtCard, Inv, Hand
<1>1. rec \in RecState /\ TypeOK /\ Hand /\ Known
  BY DEF Inv, TypeOK
<1>2. CASE ~Exists(Now)
  <2>1. rec' \in {Onward, IdleRec} /\ cards' = cards /\ SameBounds /\ sessions' = sessions
        /\ nudges' = nudges /\ github' = github
    BY <1>0, <1>2 DEF IdlePastGrace, WorldSame, bounds, SameBounds
  <2> QED BY <1>0, <2>1, HandCard, WroteLawful DEF AtCard, Goes
<1>3. CASE Exists(Now)
  <2> DEFINE k == EnterChecking(Now)
             was == [Was EXCEPT !.status = "checking"]
  <2>1. Alike(Now, k) /\ k.status = IF Now.status = "running" THEN "checking" ELSE Now.status
    BY <1>0, EnterCheckingOp
  <2>2. Alike(Was, was) /\ was.status = "checking"
    BY <1>0 DEF Alike, Staffed, Card, Status
  <2>3. cards' = [cards EXCEPT ![rec.card] = k]
    BY <1>3 DEF IdlePastGrace, Write
  <2>4. rec' = [rec EXCEPT !.pc = "check", !.snap = [rec.snap EXCEPT ![rec.card] = was]]
    BY <1>0, <1>1, <1>3 DEF IdlePastGrace, RecState, Was
  <2> HIDE DEF k, was
  <2>5. /\ rec'.pc = "check" /\ rec'.card = rec.card /\ rec'.todo = rec.todo
        /\ rec'.snap = [rec.snap EXCEPT ![rec.card] = was]
    BY <1>1, <2>4 DEF RecState
  <2>6. /\ rec'.snap \in [CardId -> Card \cup {None}] /\ rec'.snap[rec.card] = was
        /\ \A c \in CardId \ {rec.card} : rec'.snap[c] = rec.snap[c]
    BY <1>0, <1>1, <2>2, <2>5 DEF RecState, Alike, Staffed
  <2>7. rec' \in RecState
    BY <1>1, <2>4, <2>5, <2>6 DEF RecState
  <2>8. SameBounds /\ sessions' = sessions /\ nudges' = nudges /\ github' = github
    BY <1>0 DEF WorldSame, bounds, SameBounds
  <2>9. /\ cards' \in [CardId -> Card] /\ cards'[rec.card] = k
        /\ \A c \in CardId \ {rec.card} : cards'[c] = cards[c]
    BY <1>0, <1>1, <2>1, <2>3 DEF TypeOK, Alike, Staffed
  <2>10. HandTypes
    BY <1>0, <1>1, <2>2, <2>5, <2>6, <2>7, <2>8, <2>9
    DEF HandTypes, TypeOK, SameBounds, AtCard, InCheck
  <2>11. Drops
    <3> SUFFICES ASSUME NEW c \in CardId, Held(c)'
                 PROVE  /\ Held(c) /\ (Due(c)' => Due(c)) /\ ~Sending(c)'
                        /\ Alike(rec.snap[c], rec'.snap[c])
                        /\ rec'.snap[c].status = rec.snap[c].status \/ cards'[c].status # "running"
      BY DEF Drops
    <3>1. Held(c) /\ (Due(c)' => Due(c)) /\ ~Sending(c)'
      BY <1>0, <2>5 DEF Held, Due, Sending
    <3>2. CASE c = rec.card
      BY <2>1, <2>2, <2>6, <2>9, <3>1, <3>2 DEF Was
    <3>3. CASE c # rec.card
      BY <1>1, <2>6, <3>1, <3>3, AlikeSelf DEF Hand
    <3> QED BY <3>1, <3>2, <3>3
  <2>12. \A c \in CardId : Keeps(c) /\ Settles(c) /\ Flows(c)
    <3> TAKE c \in CardId
    <3>1. cards[c].checkAttempts \in Nat /\ Staffed(cards[c])
      BY <1>1 DEF Hand, Staffed, Card
    <3>2. CASE c = rec.card
      BY <1>0, <2>1, <2>9, <3>1, <3>2 DEF Keeps, Settles, Sending, Flows, Alike, Now
    <3>3. CASE c # rec.card
      BY <1>0, <2>9, <3>1, <3>3 DEF Keeps, Settles, Sending, Flows
    <3> QED BY <3>2, <3>3
  <2>13. acts \in Nat /\ crashes \in Nat
    BY <1>1 DEF TypeOK
  <2>14. Gentle
    BY <2>5, <2>8, <2>11, <2>12, <2>13 DEF Gentle, SameBounds
  <2> QED BY <2>10, <2>14, GentleIsLawful
<1> QED BY <1>2, <1>3

-----------------------------------------------------------------------------
(* The checks of a card.                                                   *)

\* The card of the pass is being checked.
LEMMA CheckCard ==
  ASSUME Inv, rec.pc \in InCheck
  PROVE  Was.status = "checking" /\ rec.pc \in AtCard \ {"resolved"}
BY DEF Inv, Hand, InCheck, AtCard, Was

LEMMA Reasons == "checks failed" \in Reason /\ "worker blocked" \in Reason
BY DEF Reason

LEMMA WaitingLawful ==
  ASSUME Inv, rec.pc \in {"check", "judging"}, WorldSame,
         NEW stage \in Stages, Waiting(stage)
  PROVE  Lawful
PROOF
<1>0. /\ rec.pc \in AtCard \ {"resolved"} /\ rec.pc # "sending" /\ Staffed(Now)
      /\ Now.checkAttempts \in Nat /\ Was.checkAttempts \in Nat
      /\ Now.checkAttempts <= Was.checkAttempts
  BY HandCard DEF AtCard
<1> DEFINE n == [SetCheck(Now, stage) EXCEPT !.checkAttempts = Was.checkAttempts + 1]
<1>1. CASE WriteAndGoOn(SetCheck(Now, stage))
  BY <1>0, <1>1, SetCheckOp, GoOnLawful DEF Goes
<1>2. CASE WriteAndGoOn(BlockTask(Now, "checks failed"))
  BY <1>0, <1>2, BlockOp, Reasons, GoOnLawful DEF Goes
<1>3. CASE WriteAndGoOn(n)
  <2>1. Alike(Now, SetCheck(Now, stage)) /\ SetCheck(Now, stage).status = Now.status
    BY <1>0, SetCheckOp
  <2>2. /\ Staffed(n) /\ n.evaluation = Now.evaluation /\ n.pr = Now.pr
        /\ n.status = Now.status /\ n.checkAttempts = Was.checkAttempts + 1
    BY <1>0, <2>1 DEF Alike, Staffed, Card
  <2> HIDE DEF n
  <2>3. n.checkAttempts >= Now.checkAttempts
    BY <1>0, <2>2
  <2>4. rec' \in {Onward, IdleRec} /\ (cards' = cards \/ Write(n))
    BY <1>3 DEF WriteAndGoOn
  <2>5. SameBounds /\ sessions' = sessions /\ nudges' = nudges /\ github' = github
    BY DEF WorldSame, bounds, SameBounds
  <2> QED BY <1>0, <2>2, <2>3, <2>4, <2>5, HandCard, WroteLawful DEF Goes
<1> HIDE DEF n
<1>4. \/ WriteAndGoOn(SetCheck(Now, stage)) \/ WriteAndGoOn(BlockTask(Now, "checks failed"))
      \/ WriteAndGoOn(n)
  BY DEF Waiting, n
<1> QED BY <1>1, <1>2, <1>3, <1>4

\* Facts are not None.
LEMMA NoneIsNoPr == \A pr \in Pr : pr # None
BY NoneAssumption

LEMMA RebaseLawful ==
  ASSUME Inv, AttemptRebase \/ Rebased \/ RebaseFailed
  PROVE  Lawful
PROOF
<1>0. /\ rec.pc \in {"check", "rebasing"} /\ rec.pc \in AtCard \ {"resolved"}
      /\ Staffed(Now) /\ Was.status = "checking" /\ Now.checkAttempts \in Nat
      /\ rec.card \in CardId /\ github \in [CardId -> Pr \cup {None}]
  BY CheckCard, HandCard DEF AttemptRebase, Rebased, RebaseFailed, InCheck
<1>1. CASE AttemptRebase
  <2>1. CASE TryWriteAndGoOn(BlockTask(Now, "checks failed"))
    BY <1>0, <1>1, <2>1, BlockOp, Reasons, GoOnLawful DEF Goes, AttemptRebase
  <2>2. CASE rec' = [rec EXCEPT !.pc = "rebasing"] /\ cards' = cards
    BY <1>0, <1>1, <2>2, TurnsLawful DEF AttemptRebase
  <2> QED BY <1>1, <2>1, <2>2 DEF AttemptRebase
<1>2. CASE Rebased
  <2> DEFINE k == SetCheck(Now, "rebasing")
  <2>1. Alike(Now, k) /\ k.status = Now.status
    BY <1>0, SetCheckOp DEF Stages
  <2>2. rec' \in {Onward, IdleRec} /\ (cards' = cards \/ Write(k))
    BY <1>2 DEF Rebased, TryWriteAndGoOn
  <2>3. SameBounds /\ sessions' = sessions /\ nudges' = nudges
    BY <1>2 DEF Rebased, bounds, SameBounds
  <2>4. Facts("unknown", "computing") \in Pr
    BY DEF Facts, Pr
  <2>5. /\ github' \in [CardId -> Pr \cup {None}]
        /\ \A c \in CardId : github[c] # None => github'[c] # None
    <3> DEFINE pr == IF github[rec.card] # None /\ github[rec.card].state = "open"
                       THEN Facts("unknown", "computing") ELSE github[rec.card]
    <3>1. github' = [github EXCEPT ![rec.card] = pr]
      BY <1>2 DEF Rebased
    <3>2. pr \in Pr \cup {None}
      BY <1>0, <2>4
    <3>3. github[rec.card] # None => pr # None
      BY NoneIsNoPr, <2>4
    <3> HIDE DEF pr
    <3> QED BY <1>0, <3>1, <3>2, <3>3
  <2> HIDE DEF k
  <2> QED BY <1>0, <1>2, <2>1, <2>2, <2>3, <2>5, WroteLawful DEF Goes, Alike, Rebased
<1>3. CASE RebaseFailed
  BY <1>0, <1>3, AlikeSelf, GoOnLawful DEF RebaseFailed, Goes
<1> QED BY <1>1, <1>2, <1>3

LEMMA JudgeLawful ==
  ASSUME Inv, WaitingForCi \/ AskJudge \/ NothingToJudge \/ JudgeFailed
  PROVE  Lawful
PROOF
<1>0. /\ rec.pc \in {"check", "judging"} /\ rec.pc \in AtCard \ {"resolved"}
      /\ Staffed(Now) /\ Was.status = "checking" /\ WorldSame
  BY CheckCard, HandCard DEF WaitingForCi, AskJudge, NothingToJudge, JudgeFailed, InCheck
<1>1. CASE WaitingForCi
  BY <1>0, <1>1, WaitingLawful DEF WaitingForCi, Stages
<1>2. CASE AskJudge
  BY <1>0, <1>2, TurnsLawful DEF AskJudge
<1>3. CASE NothingToJudge
  BY <1>0, <1>3, WaitingLawful DEF NothingToJudge, Stages
<1>4. CASE JudgeFailed
  BY <1>0, <1>4, SetCheckOp, GoOnLawful DEF JudgeFailed, Goes, Stages
<1> QED BY <1>1, <1>2, <1>3, <1>4

LEMMA PassedLawful ==
  ASSUME Inv, Passed
  PROVE  Lawful
PROOF
<1>0. /\ rec.pc = "judging" /\ rec.pc \in AtCard \ {"resolved"} /\ Staffed(Now)
      /\ Passes(rec.card) /\ WorldSame
  BY CheckCard, HandCard DEF Passed, InCheck, Passes, Held, Was
<1> DEFINE k == RoutePassed(Now, Was)
<1>1. CASE Green(Was)
  <2>1. k = MoveToMerging(Now, Stamp)
    BY <1>1 DEF RoutePassed
  <2>2. Alike(Now, k) /\ Goes(k)
    BY <1>0, <1>1, <2>1, MoveToMergingOp DEF Goes
  <2> HIDE DEF k
  <2> QED BY <1>0, <2>2, GoOnLawful DEF Passed, k
<1>2. CASE ~Green(Was)
  <2>1. k = MoveToReview(Now)
    BY <1>2 DEF RoutePassed
  <2>2. Alike(Now, k) /\ Goes(k)
    BY <1>0, <2>1, MoveToReviewOp DEF Goes
  <2> HIDE DEF k
  <2> QED BY <1>0, <2>2, GoOnLawful DEF Passed, k
<1> QED BY <1>1, <1>2

LEMMA SentLawful ==
  ASSUME Inv, Sent
  PROVE  Lawful
PROOF
<1>0. /\ rec.pc = "sending" /\ rec.pc \in AtCard \ {"resolved"} /\ Staffed(Now)
      /\ Now.checkAttempts \in Nat /\ Was.checkAttempts \in Nat
      /\ Now.checkAttempts <= Was.checkAttempts
      /\ github \in [CardId -> Pr \cup {None}]
  BY CheckCard, HandCard DEF Sent, InCheck
<1> DEFINE k == SendBackForRework(Now, Was.checkAttempts + 1)
<1>1. /\ Staffed(k) /\ k.evaluation = Now.evaluation /\ k.pr = Now.pr
      /\ k.status = IF Now.status = "checking" THEN "running" ELSE Now.status
      /\ k.checkAttempts =
           IF Now.status = "checking" THEN Was.checkAttempts + 1 ELSE Now.checkAttempts
  <2>1. Was.checkAttempts + 1 \in Nat
    BY <1>0
  <2> QED BY <1>0, <2>1, SendBackOp
<1>2. WriteAndGoOn(k)
  BY DEF Sent
<1> HIDE DEF k
<1>3. rec' \in {Onward, IdleRec} /\ (cards' = cards \/ Write(k))
  BY <1>2 DEF WriteAndGoOn
<1>4. Now.status = "checking" => Write(k)
  BY <1>2 DEF WriteAndGoOn, Exists, Removed
<1>5. SameBounds /\ sessions' = sessions /\ nudges' = nudges /\ github' = github
  BY DEF Sent, WorldSame, bounds, SameBounds
<1>6. /\ k.checkAttempts >= Now.checkAttempts /\ Goes(k)
      /\ Now.status = "checking" => k.checkAttempts > Now.checkAttempts
  BY <1>0, <1>1 DEF Goes
<1> QED BY <1>0, <1>1, <1>3, <1>4, <1>5, <1>6, WroteLawful

\* The message: the one step that spends of the budget.
LEMMA NeedsWorkLawful ==
  ASSUME Inv, NeedsWork
  PROVE  Lawful
PROOF
<1>0. /\ rec.pc = "judging" /\ rec.pc \in AtCard \ {"resolved"} /\ Staffed(Now)
      /\ Now.checkAttempts \in Nat /\ Was.checkAttempts \in Nat /\ Was.status = "checking"
      /\ Now.checkAttempts <= Was.checkAttempts /\ rec.card \in CardId /\ rec.card \notin rec.todo
      /\ Was.sessionRef \in Session
  BY CheckCard, HandCard DEF NeedsWork, InCheck, Staffed, Inv, Hand
<1>1. CASE OutOfRounds(Was)
  <2>1. WriteAndGoOn(BlockTask(Now, "checks failed")) /\ WorldSame
    BY <1>1 DEF NeedsWork, WorldSame
  <2> QED BY <1>0, <2>1, BlockOp, Reasons, GoOnLawful DEF Goes
<1>2. CASE ~OutOfRounds(Was)
  <2>0. rec \in RecState /\ TypeOK /\ Hand /\ Known /\ Rounds
    BY DEF Inv, TypeOK
  <2>1. rec' = [rec EXCEPT !.pc = "sending"] /\ cards' = cards /\ github' = github
    BY <1>2 DEF NeedsWork
  <2>2. /\ rec'.pc = "sending" /\ rec'.card = rec.card /\ rec'.todo = rec.todo
        /\ rec'.snap = rec.snap /\ rec' \in RecState
    BY <2>0, <2>1 DEF RecState
  <2>3. SameBounds
    BY DEF NeedsWork, bounds, SameBounds
  <2>4. sessions' \in [Session -> SessionState]
    BY <1>0, <1>2, <2>0 DEF NeedsWork, TypeOK, SessionState
  <2>5. /\ nudges' \in [CardId -> Nat]
        /\ \A c \in CardId \ {rec.card} : nudges'[c] = nudges[c]
        /\ nudges'[rec.card] \in {nudges[rec.card], nudges[rec.card] + 1}
    BY <1>0, <1>2, <2>0 DEF NeedsWork, TypeOK
  <2>6. TypeOK'
    BY <2>0, <2>1, <2>2, <2>3, <2>4, <2>5 DEF TypeOK, SameBounds
  <2>7. Hand'
    BY <1>0, <2>0, <2>1, <2>2 DEF Hand, Held, AtCard, InCheck, Was
  <2>8. Known'
    BY <2>0, <2>1, <2>2, <2>3 DEF Known, Held, SameBounds
  <2>9. ASSUME NEW c \in CardId
        PROVE  Counted(c)'
    <3>0. /\ cards[c].checkAttempts \in Nat /\ acts \in Nat /\ crashes \in Nat
          /\ nudges[c] \in Nat /\ CheckRetries \in Nat /\ Counted(c)
      BY <2>0, ConfigAssumption DEF Hand, Staffed, Card, TypeOK, Rounds
    <3>1. cards'[c] = cards[c] /\ acts' = acts /\ crashes' = crashes /\ rec'.snap[c] = rec.snap[c]
      BY <2>1, <2>2, <2>3 DEF SameBounds
    <3>2. CASE c = rec.card
      <4>1. Due(c) /\ ~Due(c)' /\ Sending(c)'
        BY <1>0, <2>2, <3>2 DEF Due, Held, Sending
      <4>2. cards[c].checkAttempts <= Was.checkAttempts /\ Was.checkAttempts + 1 <= CheckRetries
        BY <1>0, <1>2, <3>0, <3>2 DEF OutOfRounds, Now
      <4>3. nudges'[c] \in {nudges[c], nudges[c] + 1} /\ rec.snap[c].status = "checking"
        BY <1>0, <2>5, <3>2 DEF Was
      <4>4. Paid(c, 0) /\ (cards[c].status = "running" => Paid(c, 1))
        BY <3>0, <4>1, <4>3 DEF Counted
      <4> QED BY <1>0, <3>0, <3>1, <4>1, <4>2, <4>3, <4>4 DEF Counted, Paid
    <3>3. CASE c # rec.card
      <4>1. (Due(c)' <=> Due(c)) /\ ~Sending(c) /\ ~Sending(c)'
        BY <1>0, <2>2, <3>3 DEF Due, Held, Sending
      <4> QED BY <2>5, <3>0, <3>1, <3>3, <4>1 DEF Counted, Paid
    <3> QED BY <3>2, <3>3
  <2>10. \A c \in CardId : Flows(c)
    BY <2>1 DEF Flows
  <2> QED BY <2>6, <2>7, <2>8, <2>9, <2>10 DEF Lawful, Inv, Rounds
<1> QED BY <1>1, <1>2

-----------------------------------------------------------------------------
(* Time, the passes and the PR facts.                                      *)

\* A tick makes every card older and changes nothing else of it.
LEMMA AgedCards ==
  ASSUME Inv
  PROVE  /\ Aged(cards) \in [CardId -> Card]
         /\ \A c \in CardId : /\ Alike(cards[c], Aged(cards)[c])
                             /\ Aged(cards)[c].status = cards[c].status
         /\ Aged(rec.snap) \in [CardId -> Card \cup {None}]
         /\ \A c \in CardId : Held(c) => /\ Alike(rec.snap[c], Aged(rec.snap)[c])
                                        /\ Aged(rec.snap)[c].status = rec.snap[c].status
PROOF
<1>1. \A c \in CardId : Aged(cards)[c] = Older(cards[c]) /\ Aged(rec.snap)[c] = Older(rec.snap[c])
  BY DEF Aged
<1>2. \A c \in CardId : Alike(cards[c], Older(cards[c])) /\ Older(cards[c]).status = cards[c].status
  BY OlderOp DEF Inv, Hand
<1>3. \A c \in CardId : Held(c) => /\ Alike(rec.snap[c], Older(rec.snap[c]))
                                 /\ Older(rec.snap[c]).status = rec.snap[c].status
  BY OlderOp DEF Inv, Hand
<1>4. Aged(cards) \in [CardId -> Card]
  BY <1>2 DEF Aged, Alike, Staffed
<1>5. Aged(rec.snap) \in [CardId -> Card \cup {None}]
  <2>1. ASSUME NEW k \in Card \cup {None}
        PROVE  Older(k) \in Card \cup {None}
    <3> DEFINE age == IF k.check.age > WaitingTimeout THEN k.check.age ELSE k.check.age + 1
    <3>1. CASE k = None \/ k.check = None \/ k.check.stage \notin WaitStages
      BY <3>1 DEF Older
    <3>2. CASE ~(k = None \/ k.check = None \/ k.check.stage \notin WaitStages)
      <4>1. k \in Card /\ k.check \in Check
        BY <3>2 DEF Card
      <4>2. [k.check EXCEPT !.age = age] \in Check
        BY <4>1 DEF Check
      <4>3. Older(k) = [k EXCEPT !.check = [k.check EXCEPT !.age = age]]
        BY <3>2 DEF Older
      <4> HIDE DEF age
      <4> QED BY <4>1, <4>2, <4>3 DEF Card
    <3> QED BY <3>1, <3>2
  <2>2. rec.snap \in [CardId -> Card \cup {None}]
    BY DEF Inv, TypeOK, RecState
  <2> QED BY <2>1, <2>2 DEF Aged
<1> QED BY <1>1, <1>2, <1>3, <1>4, <1>5

LEMMA SkippedTickLawful ==
  ASSUME Inv, SkippedTick
  PROVE  Lawful
PROOF
<1>0. rec \in RecState /\ TypeOK /\ Hand /\ acts \in Nat /\ crashes \in Nat
  BY DEF Inv, TypeOK
<1> DEFINE snap == Aged(rec.snap)
<1>1. rec' = [rec EXCEPT !.snap = snap]
  BY <1>0 DEF SkippedTick, RecState
<1>2. snap \in [CardId -> Card \cup {None}]
      /\ \A c \in CardId : Held(c) => Alike(rec.snap[c], snap[c]) /\ snap[c].status = rec.snap[c].status
  BY AgedCards
<1> HIDE DEF snap
<1>3. /\ rec' \in RecState /\ rec'.pc = rec.pc /\ rec'.card = rec.card /\ rec'.todo = rec.todo
      /\ rec'.snap = snap /\ rec'.fact = rec.fact
  BY <1>0, <1>1, <1>2 DEF RecState
<1>4. /\ cards' \in [CardId -> Card]
      /\ \A c \in CardId : Alike(cards[c], cards'[c]) /\ cards'[c].status = cards[c].status
  BY AgedCards DEF SkippedTick
<1>5. /\ skips' \in Nat /\ sessions' = sessions /\ github' = github /\ nudges' = nudges
      /\ prChanges' = prChanges /\ acts' = acts /\ relaunches' = relaunches /\ crashes' = crashes
  BY <1>0 DEF SkippedTick, TypeOK
<1>6. HandTypes
  <2>1. TypeOK'
    BY <1>0, <1>3, <1>4, <1>5 DEF TypeOK
  <2>2. rec.pc \in InCheck => Held(rec.card) /\ rec.card \in CardId
    BY <1>0 DEF Held, Hand, InCheck, AtCard
  <2> QED BY <1>0, <1>2, <1>3, <2>1, <2>2 DEF HandTypes, Hand
<1>7. Drops
  BY <1>2, <1>3 DEF Drops, Held, Due, Sending
<1>8. ASSUME NEW c \in CardId
      PROVE  Keeps(c) /\ Settles(c) /\ Flows(c)
  <2>1. cards[c].checkAttempts \in Nat
    BY <1>0 DEF Hand, Staffed, Card
  <2> QED BY <1>3, <1>4, <2>1 DEF Keeps, Settles, Flows, Alike, Sending
<1>9. Gentle
  BY <1>0, <1>3, <1>5, <1>7, <1>8 DEF Gentle, Inv, Known
<1> QED BY <1>6, <1>9, GentleIsLawful

LEMMA BeginPassLawful ==
  ASSUME Inv, BeginPass
  PROVE  Lawful
PROOF
<1>0. /\ TypeOK /\ Hand /\ Known /\ Rounds /\ rec.pc = "idle" /\ None \notin CardId
      /\ rec.card = None /\ rec.todo = {}
  BY CheckerAssumption DEF Inv, Hand, BeginPass, AtCard
<1> DEFINE todo == {c \in CardId : cards[c].status = "checking"
                      \/ (cards[c].status = "running" /\ cards[c].sessionRef # None)}
           snap == Only(Aged(cards), todo)
<1>1. cards' = Aged(cards) /\ rec' = [IdleRec EXCEPT !.pc = "looking", !.todo = todo, !.snap = snap]
  BY DEF BeginPass
<1>2. /\ cards' \in [CardId -> Card]
      /\ \A c \in CardId : Alike(cards[c], cards'[c]) /\ cards'[c].status = cards[c].status
  BY <1>1, AgedCards
<1>3. /\ todo \in SUBSET CardId /\ \A c \in todo : cards[c].status \in {"checking", "running"}
      /\ snap \in [CardId -> Card \cup {None}] /\ \A c \in todo : snap[c] = cards'[c]
  BY <1>1, <1>2 DEF Only
<1> HIDE DEF todo, snap
<1>4. /\ rec'.pc = "looking" /\ rec'.card = None /\ rec'.todo = todo /\ rec'.snap = snap
      /\ rec' \in RecState
  BY <1>1, <1>3 DEF IdleRec, RecState
<1>5. SameBounds /\ sessions' = sessions /\ nudges' = nudges /\ github' = github
  BY DEF BeginPass, bounds, SameBounds
<1>6. TypeOK'
  BY <1>0, <1>2, <1>4, <1>5 DEF TypeOK, SameBounds
<1>7. Hand'
  BY <1>0, <1>2, <1>3, <1>4 DEF Hand, Held, AtCard, InCheck, Alike
<1>8. Known'
  <2>1. \A c \in CardId : cards'[c].checkAttempts \in Nat
    BY <1>2 DEF Card
  <2>2. relaunches' = 0 => \A c \in CardId : cards'[c].pr # None => github'[c] # None
    BY <1>0, <1>2, <1>5 DEF Known, SameBounds, Alike
  <2> QED BY <1>0, <1>3, <1>4, <2>1, <2>2 DEF Known, Held
<1>9. ASSUME NEW c \in CardId
      PROVE  Counted(c)'
  <2>1. /\ Counted(c) /\ ~Sending(c) /\ ~Sending(c)' /\ nudges'[c] = nudges[c]
        /\ acts' = acts /\ crashes' = crashes
        /\ cards'[c].checkAttempts = cards[c].checkAttempts /\ cards'[c].status = cards[c].status
    BY <1>0, <1>2, <1>4, <1>5 DEF Rounds, Sending, Alike, SameBounds
  <2>2. Due(c)' => cards[c].status \in {"checking", "running"} /\ rec'.snap[c] = cards'[c]
    BY <1>0, <1>3, <1>4 DEF Due, Held
  <2> QED BY <2>1, <2>2 DEF Counted, Paid
<1>10. \A c \in CardId : Flows(c)
  BY <1>2 DEF Flows
<1> QED BY <1>6, <1>7, <1>8, <1>9, <1>10 DEF Lawful, Inv, Rounds

LEMMA LoadFactsLawful ==
  ASSUME Inv, LoadFacts
  PROVE  Lawful
PROOF
<1>0. /\ TypeOK /\ Hand /\ Known /\ Rounds /\ rec.pc = "looking" /\ rec.todo = {}
      /\ None \notin CardId /\ rec.card = None
  BY CheckerAssumption DEF Inv, Hand, LoadFacts, AtCard
<1> DEFINE todo == {c \in CardId : /\ cards[c].status \in {"running", "checking",
                                                          "review", "merging"}
                                   /\ cards[c].pr = None \/ UnmergedPr(cards[c])}
           snap == Only(cards, todo)
<1>1. rec' = [IdleRec EXCEPT !.pc = "facts", !.todo = todo, !.snap = snap] /\ cards' = cards
  BY DEF LoadFacts
<1>2. /\ todo \in SUBSET CardId /\ snap \in [CardId -> Card \cup {None}]
      /\ \A c \in todo : snap[c] = cards[c]
  BY <1>0 DEF Only, TypeOK
<1> HIDE DEF todo, snap
<1>3. /\ rec'.pc = "facts" /\ rec'.card = None /\ rec'.todo = todo /\ rec'.snap = snap
      /\ rec' \in RecState
  BY <1>1, <1>2 DEF IdleRec, RecState
<1>4. SameBounds /\ sessions' = sessions /\ nudges' = nudges /\ github' = github
  BY DEF LoadFacts, WorldSame, bounds, SameBounds
<1>5. TypeOK'
  BY <1>0, <1>1, <1>3, <1>4 DEF TypeOK, SameBounds
<1>6. Hand'
  BY <1>0, <1>1, <1>2, <1>3 DEF Hand, Held, AtCard, InCheck
<1>7. Known'
  <2>1. \A c \in CardId : cards[c].checkAttempts \in Nat
    BY <1>0 DEF Hand, Staffed, Card
  <2>2. relaunches = 0 => \A c \in CardId : cards[c].pr # None => github[c] # None
    BY <1>0 DEF Known
  <2> QED BY <1>0, <1>1, <1>2, <1>3, <1>4, <2>1, <2>2 DEF Known, Held, SameBounds
<1>8. ASSUME NEW c \in CardId
      PROVE  Counted(c)'
  <2>1. /\ Counted(c) /\ ~Sending(c) /\ ~Due(c)' /\ nudges'[c] = nudges[c]
        /\ acts' = acts /\ crashes' = crashes /\ cards'[c] = cards[c]
    BY <1>0, <1>1, <1>3, <1>4 DEF Rounds, Sending, Due, SameBounds
  <2> QED BY <2>1 DEF Counted, Paid
<1>9. \A c \in CardId : Flows(c)
  BY <1>1 DEF Flows
<1> QED BY <1>5, <1>6, <1>7, <1>8, <1>9 DEF Lawful, Inv, Rounds

\* One card is written, or none, and what the pass has in hand stays.
LEMMA ElsewhereLawful ==
  ASSUME Inv, rec' \in RecState, Drops, TypeOK' => HandTypes,
         rec'.pc = "resolved" /\ rec'.fact # None /\ relaunches = 0 => github'[rec'.card] # None,
         \A d \in CardId : Sending(d) => Sending(d)' \/ crashes' = crashes + 1,
         sessions' \in [Session -> SessionState], github' \in [CardId -> Pr \cup {None}],
         \A d \in CardId : github[d] # None => github'[d] # None,
         skips' \in Nat, prChanges' \in Nat, acts' \in {acts, acts + 1},
         relaunches' = relaunches, crashes' \in {crashes, crashes + 1}, nudges' = nudges,
         NEW c \in CardId, NEW k, Staffed(k), cards' = [cards EXCEPT ![c] = k],
         k.evaluation \in {None, cards[c].evaluation},
         k.pr = cards[c].pr \/ (relaunches = 0 => github'[c] # None),
         k.checkAttempts = cards[c].checkAttempts,
         \/ acts' = acts + 1
         \/ k.status \in {cards[c].status, "blocked"}
         \/ cards[c].status = "running" /\ k.status = "checking"
         \/ /\ cards[c].status \in {"running", "checking"} /\ k.status = "review"
            /\ k.blockedReason # "none"
  PROVE  Lawful
PROOF
<1>0. TypeOK /\ Hand
  BY DEF Inv
<1>1. /\ cards' \in [CardId -> Card] /\ cards'[c] = k
      /\ \A d \in CardId \ {c} : cards'[d] = cards[d]
  BY <1>0 DEF TypeOK, Staffed
<1>2. TypeOK'
  BY <1>0, <1>1 DEF TypeOK
<1>3. HandTypes /\ Drops
  BY <1>2
<1>4. ASSUME NEW d \in CardId
      PROVE  Keeps(d) /\ Settles(d) /\ (Flows(d) \/ acts' = acts + 1)
  <2>1. cards[d].checkAttempts \in Nat /\ Staffed(cards[d])
    BY <1>0 DEF Hand, Staffed, Card
  <2>2. Settles(d)
    BY DEF Settles
  <2>3. CASE d = c
    BY <1>1, <2>1, <2>2, <2>3 DEF Keeps, Flows
  <2>4. CASE d # c
    BY <1>1, <2>1, <2>2, <2>4 DEF Keeps, Flows
  <2> QED BY <2>3, <2>4
<1>5. Gentle
  BY <1>3, <1>4 DEF Gentle
<1> QED BY <1>3, <1>5, GentleIsLawful

\* The same with the pass as it was.
LEMMA MeanwhileLawful ==
  ASSUME Inv, rec' = rec,
         sessions' \in [Session -> SessionState], github' \in [CardId -> Pr \cup {None}],
         \A d \in CardId : github[d] # None => github'[d] # None,
         skips' \in Nat, prChanges' \in Nat, acts' \in {acts, acts + 1},
         relaunches' = relaunches, crashes' = crashes, nudges' = nudges,
         NEW c \in CardId, NEW k, Asked(cards[c], k), cards' = [cards EXCEPT ![c] = k],
         \/ acts' = acts + 1
         \/ k.status \in {cards[c].status, "blocked"}
         \/ cards[c].status = "running" /\ k.status = "checking"
         \/ /\ cards[c].status \in {"running", "checking"} /\ k.status = "review"
            /\ k.blockedReason # "none"
  PROVE  Lawful
PROOF
<1>0. Hand /\ Known /\ rec \in RecState /\ crashes \in Nat
  BY DEF Inv, TypeOK
<1>1. Drops
  BY <1>0, AlikeSelf DEF Drops, Held, Due, Sending, Hand
<1>2. TypeOK' => HandTypes
  BY <1>0 DEF HandTypes, Hand
<1>3. \A d \in CardId : Sending(d) => Sending(d)'
  BY DEF Sending
<1>4. rec.pc = "resolved" /\ rec.fact # None /\ relaunches = 0 => github'[rec.card] # None
  BY <1>0 DEF Known, Hand, AtCard
<1>5. /\ Staffed(k) /\ k.evaluation \in {None, cards[c].evaluation} /\ k.pr = cards[c].pr
      /\ k.checkAttempts = cards[c].checkAttempts
  BY DEF Asked
<1> QED BY <1>0, <1>1, <1>2, <1>3, <1>4, <1>5, ElsewhereLawful

\* A card written as it is.
LEMMA NoCardWritten ==
  ASSUME Inv, NEW c \in CardId
  PROVE  /\ cards = [cards EXCEPT ![c] = cards[c]] /\ Staffed(cards[c])
         /\ Asked(cards[c], cards[c])
BY DEF Inv, TypeOK, Hand, Asked

LEMMA StillLawful ==
  ASSUME Inv, rec' = rec, cards' = cards,
         sessions' \in [Session -> SessionState], github' \in [CardId -> Pr \cup {None}],
         \A d \in CardId : github[d] # None => github'[d] # None,
         skips' \in Nat, prChanges' \in Nat, acts' \in {acts, acts + 1},
         relaunches' = relaunches, crashes' = crashes, nudges' = nudges
  PROVE  Lawful
PROOF
<1>1. ASSUME CardId = {}
      PROVE  Lawful
  <2>1. TypeOK /\ Hand
    BY DEF Inv
  <2>2. TypeOK' /\ Hand' /\ Known' /\ Rounds'
    BY <1>1, <2>1 DEF TypeOK, Hand, Known, Rounds, Held, AtCard, InCheck
  <2> QED BY <1>1, <2>2 DEF Lawful, Inv
<1>2. ASSUME NEW c \in CardId
      PROVE  Lawful
  BY NoCardWritten, MeanwhileLawful
<1> QED BY <1>1, <1>2

LEMMA ResolveLawful ==
  ASSUME Inv, NEW c \in CardId, ResolvePr(c)
  PROVE  Lawful
PROOF
<1>0. /\ TypeOK /\ Hand /\ Known /\ rec \in RecState /\ rec.pc = "facts" /\ c \in rec.todo
      /\ None \notin CardId /\ rec.card = None
  BY CheckerAssumption DEF Inv, TypeOK, Hand, ResolvePr, AtCard
<1>1. PICK fact \in {github[c], None} :
        rec' = [rec EXCEPT !.pc = "resolved", !.card = c, !.fact = fact, !.todo = @ \ {c}]
  BY DEF ResolvePr
<1>2. fact \in Pr \cup {None}
  BY <1>0 DEF TypeOK
<1>3. /\ rec'.pc = "resolved" /\ rec'.card = c /\ rec'.todo = rec.todo \ {c}
      /\ rec'.snap = rec.snap /\ rec'.fact = fact /\ rec' \in RecState
  BY <1>0, <1>1, <1>2 DEF RecState
<1>4. /\ SameBounds /\ sessions' = sessions /\ nudges' = nudges /\ github' = github
      /\ cards' = cards
  BY DEF ResolvePr, WorldSame, bounds, SameBounds
<1>5. Drops
  BY <1>0, <1>3, AlikeSelf DEF Drops, Held, Due, Sending, Hand
<1>6. TypeOK' => HandTypes
  BY <1>3 DEF HandTypes, AtCard, InCheck
<1>7. \A d \in CardId : ~Sending(d)
  BY <1>0 DEF Sending
<1>8. /\ skips \in Nat /\ prChanges \in Nat /\ sessions \in [Session -> SessionState]
      /\ github \in [CardId -> Pr \cup {None}]
  BY <1>0 DEF TypeOK
<1>9. rec'.fact # None => github'[rec'.card] # None
  BY <1>1, <1>3, <1>4
<1> QED BY <1>3, <1>4, <1>5, <1>6, <1>7, <1>8, <1>9, NoCardWritten, ElsewhereLawful DEF SameBounds

LEMMA WriteFactLawful ==
  ASSUME Inv, WriteFact
  PROVE  Lawful
PROOF
<1>0. /\ TypeOK /\ Hand /\ Known /\ rec \in RecState /\ rec.pc = "resolved"
      /\ None \notin CardId /\ rec.card \in CardId /\ rec.card \notin rec.todo
      /\ Staffed(Now)
  BY CheckerAssumption, HandCard DEF Inv, TypeOK, Hand, WriteFact, AtCard
<1> DEFINE snap == Only(rec.snap, rec.todo)
           next == [rec EXCEPT !.pc = "facts", !.card = None, !.fact = None, !.snap = snap]
<1>1. /\ rec' \in {next, IdleRec}
      /\ cards' = cards \/ (rec.fact # None /\ Write(SetPr(Now, rec.fact)))
  BY <1>0 DEF WriteFact, RecState
<1>2. snap \in [CardId -> Card \cup {None}] /\ \A c \in rec.todo : snap[c] = rec.snap[c]
  BY <1>0 DEF Only, RecState
<1> HIDE DEF snap
<1>3. /\ rec'.pc \in {"facts", "idle"} /\ rec'.card = None /\ rec' \in RecState
      /\ rec'.todo \in {rec.todo, {}} /\ (rec'.pc = "idle" => rec'.todo = {})
      /\ \A c \in rec'.todo : rec'.snap[c] = rec.snap[c]
  <2>1. CASE rec' = IdleRec
    BY <2>1 DEF RecState, IdleRec
  <2>2. CASE rec' = next
    <3>1. next \in RecState
      BY <1>0, <1>2 DEF RecState
    <3>2. /\ next.pc = "facts" /\ next.card = None /\ next.todo = rec.todo
          /\ next.snap = snap
      BY <1>0 DEF RecState
    <3> HIDE DEF next
    <3> QED BY <1>2, <2>2, <3>1, <3>2
  <2> QED BY <1>1, <2>1, <2>2
<1> HIDE DEF next
<1>4. SameBounds /\ sessions' = sessions /\ nudges' = nudges /\ github' = github
  BY DEF WriteFact, WorldSame, bounds, SameBounds
<1>5. Drops
  BY <1>0, <1>3, AlikeSelf DEF Drops, Held, Due, Sending, Hand
<1>6. TypeOK' => HandTypes
  BY <1>0, <1>3 DEF HandTypes, AtCard, InCheck, RecState
<1>7. \A d \in CardId : ~Sending(d)
  BY <1>0 DEF Sending
<1>8. /\ skips \in Nat /\ prChanges \in Nat /\ sessions \in [Session -> SessionState]
      /\ github \in [CardId -> Pr \cup {None}]
  BY <1>0 DEF TypeOK
<1>9. CASE cards' = cards
  BY <1>0, <1>3, <1>4, <1>5, <1>6, <1>7, <1>8, <1>9, NoCardWritten, ElsewhereLawful DEF SameBounds
<1>10. CASE rec.fact # None /\ Write(SetPr(Now, rec.fact))
  <2> DEFINE k == SetPr(Now, rec.fact)
  <2>1. rec.fact \in Pr
    BY <1>0, <1>10 DEF RecState
  <2>2. /\ Staffed(k) /\ k.evaluation = cards[rec.card].evaluation
        /\ k.checkAttempts = cards[rec.card].checkAttempts /\ k.status = cards[rec.card].status
    BY <1>0, <2>1, SetPrOp DEF Now
  <2>3. cards' = [cards EXCEPT ![rec.card] = k]
    BY <1>10 DEF Write
  <2>4. relaunches = 0 => github'[rec.card] # None
    BY <1>0, <1>4, <1>10 DEF Known
  <2> HIDE DEF k
  <2> QED BY <1>0, <1>3, <1>4, <1>5, <1>6, <1>7, <1>8, <2>2, <2>3, <2>4, ElsewhereLawful
      DEF SameBounds
<1> QED BY <1>1, <1>9, <1>10

\* A pass that ends, or is cut off.
LEMMA EndLawful ==
  ASSUME Inv, EndPass \/ Crash
  PROVE  Lawful
PROOF
<1>0. TypeOK /\ Hand /\ None \notin CardId
  BY CheckerAssumption DEF Inv
<1>1. /\ rec' = IdleRec /\ cards' = cards /\ sessions' = sessions /\ github' = github
      /\ skips' = skips /\ prChanges' = prChanges /\ acts' = acts /\ relaunches' = relaunches
      /\ nudges' = nudges /\ crashes' \in {crashes, crashes + 1}
      /\ rec.pc = "facts" \/ crashes' = crashes + 1
  BY DEF EndPass, Crash, WorldSame, bounds
<1>2. /\ rec'.pc = "idle" /\ rec'.card = None /\ rec'.todo = {} /\ rec' \in RecState
  BY <1>1 DEF IdleRec, RecState
<1>3. /\ TypeOK'
      /\ \A c \in CardId : ~Held(c)'
  BY <1>0, <1>1, <1>2 DEF TypeOK, Held
<1>4. HandTypes /\ Drops
  BY <1>2, <1>3 DEF HandTypes, Drops, AtCard, InCheck
<1>5. \A c \in CardId : cards[c].checkAttempts \in Nat
  BY <1>0 DEF Hand, Staffed, Card
<1>6. \A c \in CardId : Keeps(c) /\ Settles(c) /\ Flows(c)
  BY <1>0, <1>1, <1>3, <1>5 DEF Keeps, Settles, Flows, Sending, Hand
<1>7. Gentle
  BY <1>1, <1>2, <1>4, <1>6 DEF Gentle
<1> QED BY <1>4, <1>7, GentleIsLawful

-----------------------------------------------------------------------------
(* Workers, GitHub, people, launches.                                      *)

LEMMA WorldTypes ==
  ASSUME Inv
  PROVE  /\ skips \in Nat /\ prChanges \in Nat /\ sessions \in [Session -> SessionState]
         /\ github \in [CardId -> Pr \cup {None}] /\ acts \in Nat
         /\ \A f \in OpenFacts : f \in Pr
PROOF
<1>1. \A f \in OpenFacts : f \in Pr
  <2>1. /\ Facts("unknown", "computing") \in Pr /\ Facts("clean", "yes") \in Pr
        /\ Facts("dirty", "no") \in Pr /\ Facts("unknown", "yes") \in Pr
    BY DEF Facts, Pr
  <2>2. [Facts("unknown", "yes") EXCEPT !.draft = TRUE] \in Pr
    BY <2>1 DEF Pr
  <2> QED BY <2>1, <2>2 DEF OpenFacts
<1> QED BY <1>1 DEF Inv, TypeOK

LEMMA WorkerLawful ==
  ASSUME Inv, NEW s \in Session, WorkerStops(s) \/ \E c \in CardId : Receipt(s, c)
  PROVE  Lawful
PROOF
<1>0. /\ rec' = rec /\ github' = github /\ nudges' = nudges /\ skips' = skips
      /\ prChanges' = prChanges /\ acts' = acts /\ relaunches' = relaunches
      /\ crashes' = crashes
  BY DEF WorkerStops, Receipt, bounds
<1>1. sessions' \in [Session -> SessionState]
  BY WorldTypes DEF WorkerStops, Receipt, SessionState
<1>2. CASE cards' = cards
  BY <1>0, <1>1, <1>2, WorldTypes, StillLawful
<1>3. ASSUME NEW c \in CardId, Receipt(s, c)
      PROVE  Lawful
  <2>0. Staffed(cards[c]) /\ cards[c].status \in {"running", "checking"}
    BY <1>3, NoCardWritten DEF Receipt, CanReceipt
  <2>1. PICK k \in {WorkerFinish(cards[c]), WorkerNoop(cards[c]),
                     BlockTask(cards[c], "worker blocked")} :
          cards' = [cards EXCEPT ![c] = k]
    BY <1>3 DEF Receipt
  <2>2. /\ Alike(cards[c], k)
        /\ \/ k.status \in {cards[c].status, "blocked"}
           \/ cards[c].status = "running" /\ k.status = "checking"
           \/ k.status = "review" /\ k.blockedReason # "none"
    <3>1. CASE k = WorkerFinish(cards[c])
      BY <2>0, <3>1, FinishOp
    <3>2. CASE k = WorkerNoop(cards[c])
      <4>1. "no change needed" \in Reason
        BY DEF Reason
      <4> QED BY <2>0, <3>2, <4>1, ParkOp DEF WorkerNoop
    <3>3. CASE k = BlockTask(cards[c], "worker blocked")
      BY <2>0, <3>3, BlockOp, Reasons
    <3> QED BY <2>1, <3>1, <3>2, <3>3
  <2>3. Asked(cards[c], k)
    BY <2>2 DEF Alike, Asked
  <2> QED BY <1>0, <1>1, <2>0, <2>1, <2>2, <2>3, WorldTypes, MeanwhileLawful
<1> QED BY <1>2, <1>3 DEF WorkerStops

LEMMA GithubLawful ==
  ASSUME Inv, NEW c \in CardId, PrOpens(c) \/ PrChanges(c)
  PROVE  Lawful
PROOF
<1>0. /\ rec' = rec /\ cards' = cards /\ nudges' = nudges /\ skips' = skips
      /\ sessions' = sessions /\ acts' = acts /\ relaunches' = relaunches
      /\ crashes' = crashes /\ prChanges' \in {prChanges, prChanges + 1}
  BY DEF PrOpens, PrChanges, bounds
<1>1. PICK pr \in Pr : github' = [github EXCEPT ![c] = pr]
  <2>1. CASE PrOpens(c)
    <3>1. Facts("unknown", "computing") \in Pr
      BY DEF Facts, Pr
    <3> QED BY <2>1, <3>1 DEF PrOpens
  <2>2. CASE PrChanges(c)
    <3>1. github[c] \in Pr
      BY <2>2, WorldTypes DEF PrChanges
    <3>2. /\ [github[c] EXCEPT !.state = "merged"] \in Pr
          /\ [github[c] EXCEPT !.state = "closed", !.mergeable = "computing"] \in Pr
      BY <3>1 DEF Pr
    <3> QED BY <2>2, <3>2, WorldTypes DEF PrChanges
  <2> QED BY <2>1, <2>2
<1>2. /\ github' \in [CardId -> Pr \cup {None}]
      /\ \A d \in CardId : github[d] # None => github'[d] # None
  BY <1>1, WorldTypes, NoneIsNoPr
<1>3. prChanges' \in Nat
  BY <1>0, WorldTypes
<1> QED BY <1>0, <1>2, <1>3, WorldTypes, StillLawful

LEMMA HumanLawful ==
  ASSUME Inv, NEW c \in CardId,
         \/ EditCard(c) \/ RemoveCard(c) \/ ReturnCard(c)
         \/ \E target \in Status : MoveCard(c, target)
  PROVE  Lawful
PROOF
<1>0. Staffed(cards[c])
  BY NoCardWritten
<1>1. PICK k : Human(c, k) /\ Asked(cards[c], k)
  <2>1. CASE EditCard(c)
    BY <1>0, <2>1, EditOp DEF EditCard
  <2>2. CASE RemoveCard(c)
    BY <1>0, <2>2, RemoveOp DEF RemoveCard
  <2>3. CASE ReturnCard(c)
    BY <1>0, <2>3, ReturnOp DEF ReturnCard
  <2>4. ASSUME NEW target \in Status, MoveCard(c, target)
        PROVE  Human(c, Move(cards[c], target, Stamp)) /\ Asked(cards[c], Move(cards[c], target, Stamp))
    BY <1>0, <2>4, MoveOp DEF MoveCard
  <2> QED BY <2>1, <2>2, <2>3, <2>4
<1>2. sessions' \in [Session -> SessionState]
  BY WorldTypes DEF EditCard, RemoveCard, ReturnCard, MoveCard, SessionState
<1>3. /\ rec' = rec /\ github' = github /\ nudges' = nudges /\ skips' = skips
      /\ prChanges' = prChanges /\ acts' = acts + 1 /\ relaunches' = relaunches
      /\ crashes' = crashes /\ cards' = [cards EXCEPT ![c] = k]
  BY <1>1 DEF Human
<1> QED BY <1>1, <1>2, <1>3, WorldTypes, MeanwhileLawful

LEMMA HumanOnSessionLawful ==
  ASSUME Inv, NEW s \in Session, HumanOnSession(s)
  PROVE  Lawful
PROOF
<1>1. /\ rec' = rec /\ cards' = cards /\ github' = github /\ nudges' = nudges /\ skips' = skips
      /\ prChanges' = prChanges /\ acts' = acts + 1 /\ relaunches' = relaunches
      /\ crashes' = crashes
  BY DEF HumanOnSession
<1>2. sessions' \in [Session -> SessionState]
  BY WorldTypes DEF HumanOnSession, SessionState
<1> QED BY <1>1, <1>2, WorldTypes, StillLawful

\* Nothing of an earlier launch counts, and only people have brought the card here.
LEMMA RelaunchLawful ==
  ASSUME Inv, NEW c \in CardId, Relaunch(c)
  PROVE  Lawful
PROOF
<1>0. /\ TypeOK /\ Hand /\ Known /\ Rounds /\ Staffed(cards[c]) /\ acts \in Nat /\ crashes \in Nat
      /\ relaunches \in Nat /\ CheckRetries \in Nat
  BY NoCardWritten, ConfigAssumption DEF Inv, TypeOK
<1> DEFINE k == [cards[c] EXCEPT !.attempts = @ + 1]
<1>1. k \in Card
  BY <1>0 DEF Staffed, Card
<1>2. PICK plan \in Plans, s \in Session :
        /\ sessions' = [sessions EXCEPT ![s] = "busy"]
        /\ cards' = [cards EXCEPT ![c] = Launched(k, plan, s)]
  BY DEF Relaunch
<1> HIDE DEF k
<1> DEFINE n == Launched(k, plan, s)
<1>3. Staffed(n) /\ n.status = "running" /\ n.checkAttempts = 0 /\ n.pr = None
  BY <1>1, LaunchedOp
<1> HIDE DEF n
<1>4. /\ cards' \in [CardId -> Card] /\ cards'[c] = n
      /\ \A d \in CardId \ {c} : cards'[d] = cards[d]
  BY <1>0, <1>2, <1>3 DEF TypeOK, Staffed, n
<1>5. /\ rec' = rec /\ skips' = skips /\ prChanges' = prChanges /\ acts' = acts
      /\ crashes' = crashes /\ relaunches' = relaunches + 1
      /\ github' = [github EXCEPT ![c] = None] /\ nudges' = [nudges EXCEPT ![c] = 0]
      /\ cards[c].status \in {"planning", "queued"}
  BY DEF Relaunch
<1>6. TypeOK'
  BY <1>0, <1>2, <1>4, <1>5 DEF TypeOK, SessionState
<1>7. Hand'
  BY <1>0, <1>3, <1>4, <1>5 DEF Hand, Held
<1>8. Known'
  <2>1. \A d \in CardId : Held(d) => rec.snap[d].checkAttempts \in Nat
    BY <1>0 DEF Hand, Staffed, Card
  <2>2. \A d \in CardId : Held(d) => cards'[d].checkAttempts <= rec.snap[d].checkAttempts
    BY <1>0, <1>3, <1>4, <2>1 DEF Known
  <2>3. relaunches' # 0
    BY <1>0, <1>5
  <2> QED BY <1>5, <2>2, <2>3 DEF Known, Held
<1>9. ASSUME NEW d \in CardId
      PROVE  Counted(d)'
  <2>1. CASE d = c
    <3>1. nudges'[d] = 0 /\ acts > 0
      BY <1>0, <1>5, <2>1 DEF TypeOK, Rounds, Counted
    <3> QED BY <1>0, <1>3, <1>4, <1>5, <2>1, <3>1 DEF Counted, Paid
  <2>2. CASE d # c
    <3>1. nudges'[d] = nudges[d] /\ cards'[d] = cards[d] /\ Counted(d)
      BY <1>0, <1>4, <1>5, <2>2 DEF TypeOK, Rounds
    <3> QED BY <1>5, <3>1 DEF Counted, Paid, Due, Sending, Held
  <2> QED BY <2>1, <2>2
<1>10. relaunches' # relaunches
  BY <1>0, <1>5
<1> QED BY <1>6, <1>7, <1>8, <1>9, <1>10 DEF Lawful, Inv, Rounds

-----------------------------------------------------------------------------
(* The results.                                                            *)

LEMMA StepLawful ==
  ASSUME Inv, [Next]_vars
  PROVE  Lawful
PROOF
<1>1. CASE Looking
  BY <1>1, LooksLawful, SeenLawful, IdlePastGraceLawful DEF Looking
<1>2. CASE Checking
  BY <1>2, RebaseLawful, JudgeLawful, PassedLawful, NeedsWorkLawful, SentLawful DEF Checking
<1>3. CASE RefreshingFacts
  BY <1>3, LoadFactsLawful, ResolveLawful, WriteFactLawful, EndLawful DEF RefreshingFacts
<1>4. ASSUME NEW s \in Session,
             WorkerStops(s) \/ HumanOnSession(s) \/ \E c \in CardId : Receipt(s, c)
      PROVE  Lawful
  BY <1>4, WorkerLawful, HumanOnSessionLawful
<1>5. ASSUME NEW c \in CardId,
             \/ PrOpens(c) \/ PrChanges(c) \/ EditCard(c) \/ RemoveCard(c)
             \/ ReturnCard(c) \/ Relaunch(c) \/ \E target \in Status : MoveCard(c, target)
      PROVE  Lawful
  BY <1>5, GithubLawful, HumanLawful, RelaunchLawful
<1>6. CASE UNCHANGED vars
  <2>1. /\ rec' = rec /\ cards' = cards /\ github' = github /\ nudges' = nudges /\ skips' = skips
        /\ prChanges' = prChanges /\ acts' = acts /\ relaunches' = relaunches
        /\ crashes' = crashes /\ sessions' = sessions
    BY <1>6 DEF vars
  <2> QED BY <2>1, WorldTypes, StillLawful
<1> QED BY <1>1, <1>2, <1>3, <1>4, <1>5, <1>6, BeginPassLawful, SkippedTickLawful, EndLawful
    DEF Next

LEMMA InitInv == Init => Inv
PROOF
<1> SUFFICES ASSUME Init PROVE Inv
  OBVIOUS
<1>1. PICK plan \in [CardId -> Plans], on \in [CardId -> Session] :
        /\ cards = [c \in CardId |-> Launched(NewCard("queued", Stamp), plan[c], on[c])]
        /\ sessions = [s \in Session |-> IF \E c \in CardId : on[c] = s THEN "busy" ELSE "unused"]
  BY DEF Init
<1>2. NewCard("queued", Stamp) \in Card
  BY NewCardType DEF Status, Stamp
<1>3. \A c \in CardId : /\ Staffed(cards[c]) /\ cards[c].status = "running"
                        /\ cards[c].checkAttempts = 0 /\ cards[c].pr = None
  BY <1>1, <1>2, LaunchedOp
<1>4. /\ rec = IdleRec /\ github = [c \in CardId |-> None] /\ nudges = [c \in CardId |-> 0]
      /\ skips = 0 /\ prChanges = 0 /\ acts = 0 /\ relaunches = 0 /\ crashes = 0
  BY DEF Init
<1>5. rec \in RecState /\ rec.pc = "idle" /\ rec.card = None /\ rec.todo = {}
  BY <1>4 DEF IdleRec, RecState
<1>6. cards \in [CardId -> Card] /\ sessions \in [Session -> SessionState]
  BY <1>1, <1>3 DEF Staffed, SessionState
<1>7. TypeOK
  BY <1>4, <1>5, <1>6 DEF TypeOK
<1>8. \A c \in CardId : ~Held(c)
  BY <1>5, CheckerAssumption DEF Held
<1>9. Hand
  BY <1>3, <1>5, <1>8 DEF Hand, AtCard, InCheck
<1>10. Known
  BY <1>3, <1>5, <1>8 DEF Known
<1>11. ASSUME NEW c \in CardId
       PROVE  Counted(c)
  <2>1. nudges[c] = 0 /\ CheckRetries \in Nat
    BY <1>4, ConfigAssumption
  <2> QED BY <1>3, <1>4, <1>8, <2>1 DEF Counted, Paid, Due
<1> QED BY <1>7, <1>9, <1>10, <1>11 DEF Inv, Rounds

LEMMA Inductive == Spec => []Inv
PROOF
<1>1. Inv /\ [Next]_vars => Inv'
  BY StepLawful DEF Lawful
<1> QED BY <1>1, InitInv, PTL DEF Spec

\* The pass's copies, hands and messages stay in their types for any number of cards,
\* requests, launches and restarts; in particular at each await the pass holds the
\* card its continuation writes, and that card has a session to ask about.
THEOREM CheckerTypeOK == Spec => []TypeOK
PROOF
<1>1. Inv => TypeOK
  BY DEF Inv
<1> QED BY <1>1, Inductive, PTL

\* A worker is sent back at most checkRetries times per launch, but for the rounds
\* people or restarts cut off before they were counted: for any number of cards,
\* although the budget is tested on a copy and counted after the message went out.
THEOREM CheckerNudgesBounded == Spec => []NudgesBounded
PROOF
<1>1. Inv => NudgesBounded
  BY DEF Inv, Rounds, Counted, NudgesBounded
<1> QED BY <1>1, Inductive, PTL

\* No step of the pipeline takes a card forward, or back to its worker, that is not
\* being worked on or checked any more, however late the verdict.
THEOREM CheckerAdvancesOnlyWork == Spec => AdvancesOnlyWork
PROOF
<1> DEFINE Advances == \A c \in CardId :
             Unasked /\ Moves(c, {"running", "checking", "review", "merging"})
               => \/ cards[c].status \in {"running", "checking"}
                  \/ cards[c].status = "review" /\ cards'[c].status = "merging"
<1>1. Inv /\ [Next]_vars => [Advances]_vars
  <2>1. ASSUME Inv, [Next]_vars
        PROVE  Advances
    <3>1. \A c \in CardId : Unasked => Flows(c)
      BY <2>1, StepLawful DEF Lawful, Unasked
    <3> QED BY <3>1 DEF Flows, Moves
  <2> QED BY <2>1
<1> HIDE DEF Advances
<1>2. Spec => [][Advances]_vars
  BY <1>1, Inductive, PTL DEF Spec
<1> QED BY <1>2 DEF AdvancesOnlyWork, Advances

\* A card with a PR plan is passed only when a pull request was opened for its
\* branch, on whatever copies of the card and of GitHub's facts the judge went.
THEOREM CheckerPassNeedsPr == Spec => PassNeedsPr
PROOF
<1> DEFINE Needs == \A c \in CardId :
             (/\ Unasked /\ relaunches = 0 /\ PrPlan(cards[c])
              /\ Moves(c, {"review", "merging"}) /\ cards'[c].blockedReason = "none")
               => github[c] # None
<1>1. ASSUME Inv, [Next]_vars
      PROVE  Needs
  <2> SUFFICES ASSUME NEW c \in CardId, Unasked, relaunches = 0, PrPlan(cards[c]),
                      Moves(c, {"review", "merging"}), cards'[c].blockedReason = "none"
               PROVE  github[c] # None
    OBVIOUS
  <2>1. Flows(c)
    BY <1>1, StepLawful DEF Lawful, Unasked
  <2>2. Passes(c)
    BY <2>1 DEF Flows, Moves
  <2>3. cards[c].evaluation = rec.snap[c].evaluation
    BY <1>1, <2>2 DEF Inv, Known, Passes, PrPlan, HasPlan
  <2>4. PrPlan(rec.snap[c])
    BY <2>3 DEF PrPlan, HasPlan
  <2>5. rec.snap[c].pr # None
    BY <2>2, <2>4 DEF Passes, UnmergedPr
  <2> QED BY <1>1, <2>2, <2>5 DEF Inv, Known, Passes
<1>2. Inv /\ [Next]_vars => [Needs]_vars
  BY <1>1
<1> HIDE DEF Needs
<1>3. Spec => [][Needs]_vars
  BY <1>2, Inductive, PTL DEF Spec
<1> QED BY <1>3 DEF PassNeedsPr, Needs

\* A card launched once goes to the merge queue by itself only when its own plan
\* asks for no review: what people edit during the verdict cannot be merged by it.
THEOREM CheckerFirstLaunchIsReviewed == Spec => FirstLaunchIsReviewed
PROOF
<1> DEFINE Reviewed == \A c \in CardId :
             (Unasked /\ relaunches = 0 /\ Moves(c, {"merging"}) /\ HasPlan(cards[c]))
               => cards[c].evaluation.plan.review = "green"
<1>1. ASSUME Inv, [Next]_vars
      PROVE  Reviewed
  <2> SUFFICES ASSUME NEW c \in CardId, Unasked, relaunches = 0, Moves(c, {"merging"}),
                      HasPlan(cards[c])
               PROVE  cards[c].evaluation.plan.review = "green"
    OBVIOUS
  <2>1. Flows(c)
    BY <1>1, StepLawful DEF Lawful, Unasked
  <2>2. Held(c) /\ Green(rec.snap[c])
    BY <2>1 DEF Flows, Moves, Passes
  <2>3. cards[c].evaluation = rec.snap[c].evaluation
    BY <1>1, <2>2 DEF Inv, Known, HasPlan
  <2> QED BY <2>2, <2>3 DEF Green
<1>2. Inv /\ [Next]_vars => [Reviewed]_vars
  BY <1>1
<1> HIDE DEF Reviewed
<1>3. Spec => [][Reviewed]_vars
  BY <1>2, Inductive, PTL DEF Spec
<1> QED BY <1>3 DEF FirstLaunchIsReviewed, Reviewed
=============================================================================
