-------------------------- MODULE BoardMergeProofs --------------------------
(***************************************************************************)
(* The Review and Merging columns for every number of cards, merges GitHub *)
(* refuses, people and restarts: types, that nothing is landed that GitHub *)
(* has not merged, and that the merge bot keeps to the board's columns.    *)
(***************************************************************************)
EXTENDS BoardMerge, BoardCardProofs, FiniteSetTheorems, WellFoundedInduction

\* What the pass has in hand while it awaits GitHub.
HandInv ==
  /\ rec.pc \in {"resolved", "updating", "merging", "updatingAfter405"} => rec.card \in CardId
  /\ rec.pc \in {"updating", "merging", "updatingAfter405"} => rec.queue \in Queue

TypeInv == TypeOK /\ HandInv

\* Neither the board nor a pass is ahead of GitHub, where a merge is final.
BoardBehind ==
  \A c \in CardId :
    (cards[c].pr # None /\ cards[c].pr.state = "merged") => github[c].state = "merged"
PassBehind ==
  (rec.pc = "resolved" /\ rec.fact # None /\ rec.fact.state = "merged")
    => github[rec.card].state = "merged"
Inv == TypeInv /\ BoardBehind /\ PassBehind

\* What is merged stays merged, and only cards lose their projects.
Final == /\ \A c \in CardId : github[c].state = "merged" => github'[c].state = "merged"
         /\ lost' \subseteq CardId

\* What a step does to the columns: nothing, an edge of the pipeline, or a request.
Quiet == acts' = acts /\ \A c \in CardId : cards'[c].status = cards[c].status
OnlyOf(c) == \A d \in CardId \ {c} : cards'[d].status = cards[d].status
Edge(from, to) ==
  \/ from \in {"checking", "review"} /\ to = "merging"
  \/ from = "merging" /\ to = "blocked"
  \/ from # "removed" /\ to = "done"
Asked(from, to) ==
  \/ to = from
  \/ from # "removed" /\ to \in {"backlog", "planning", "queued", "review", "done", "blocked"}
  \/ from = "review" /\ to \in {"running", "merging"}
  \/ from \notin {"running", "merging"} /\ to = "removed"
Piped(c) ==
  /\ acts' = acts /\ OnlyOf(c) /\ Edge(cards[c].status, cards'[c].status)
  /\ cards'[c].status = "done" => github'[c].state = "merged"
Requested(c) ==
  acts' = acts + 1 /\ OnlyOf(c) /\ Asked(cards[c].status, cards'[c].status)
ColumnStep ==
  /\ \A c \in CardId : cards'[c].attempts = cards[c].attempts
  /\ Quiet \/ \E c \in CardId : Piped(c) \/ Requested(c)

Good == Inv' /\ ColumnStep

-----------------------------------------------------------------------------
(* The clock of the merge queue.                                           *)

HasMax(S) == \E m \in S : \A n \in S : m >= n

\* A finite set of numbers that is not empty has a largest one: else there is a smallest
\* set without one, and that without one of its elements has one.
LEMMA MaxExists ==
  ASSUME NEW S \in SUBSET Nat, IsFiniteSet(S), S # {}
  PROVE  Max(S) \in S
PROOF
<1> DEFINE R == StrictSubsetOrdering(S)
           F == FiniteSubsetsOf(S)
           T == {X \in F : X # {} /\ ~HasMax(X)}
<1>1. HasMax(S)
  <2>1. SUFFICES ASSUME ~HasMax(S) PROVE FALSE
    OBVIOUS
  <2>2. S \in T
    BY <2>1 DEF FiniteSubsetsOf
  <2>3. IsWellFoundedOn(R, F)
    BY FS_StrictSubsetOrderingWellFounded
  <2> HIDE DEF R
  <2>4. T \subseteq F /\ T # {}
    BY <2>2
  <2>5. PICK X \in T : \A Y \in T : <<Y, X>> \notin R
    BY <2>3, <2>4, WFMin
  <2>6. PICK x \in X : TRUE
    BY <2>5
  <2>7. X \subseteq S /\ IsFiniteSet(X) /\ ~HasMax(X)
    BY <2>5 DEF FiniteSubsetsOf
  <2> DEFINE Y == X \ {x}
  <2>8. Y \subseteq S /\ IsFiniteSet(Y) /\ Y # X
    BY <2>6, <2>7, FS_RemoveElement
  <2>9. <<Y, X>> \in R
    BY <2>6, <2>7, <2>8 DEF R, StrictSubsetOrdering
  <2>10. Y = {} \/ HasMax(Y)
    BY <2>5, <2>8, <2>9 DEF FiniteSubsetsOf
  <2>11. CASE Y = {}
    <3>1. X = {x} /\ x \in Nat
      BY <2>6, <2>7, <2>11
    <3> QED BY <2>7, <3>1 DEF HasMax
  <2>12. CASE HasMax(Y)
    <3>1. PICK m \in Y : \A n \in Y : m >= n
      BY <2>12 DEF HasMax
    <3>2. m \in Nat /\ x \in Nat /\ m \in X
      BY <2>6, <2>7, <3>1
    <3>3. \A n \in X : n = x \/ m >= n
      BY <3>1
    <3>4. CASE m >= x
      BY <2>7, <3>2, <3>3, <3>4 DEF HasMax
    <3>5. CASE ~(m >= x)
      <4>1. \A n \in X : n \in Nat
        BY <2>7
      <4>2. \A n \in X : x >= n
        BY <3>2, <3>3, <3>5, <4>1
      <4> QED BY <2>6, <2>7, <4>2 DEF HasMax
    <3> QED BY <3>4, <3>5
  <2> QED BY <2>10, <2>11, <2>12
<1> QED BY <1>1 DEF HasMax, Max

LEMMA StampType ==
  ASSUME TypeOK
  PROVE  Stamp \in Nat
PROOF
<1> DEFINE queued == {d \in CardId : cards[d].queue # None}
           at == {cards[c].queue.enqueuedAt : c \in queued}
           stamps == {0} \cup at
<1>1. at \in SUBSET Nat
  BY DEF TypeOK, Card, Queue
<1>2. IsFiniteSet(queued)
  BY MergeAssumption, FS_Subset
<1>3. IsFiniteSet(at)
  <2> DEFINE f == [c \in queued |-> cards[c].queue.enqueuedAt]
  <2>1. f \in [queued -> at] /\ at = {f[c] : c \in queued}
    OBVIOUS
  <2> HIDE DEF f, at, queued
  <2>2. f \in Surjection(queued, at)
    BY <2>1 DEF Surjection
  <2> QED BY <1>2, <2>2, FS_Surjection
<1>4. Stamp = 1 + Max(stamps)
  BY DEF Stamp
<1> HIDE DEF at
<1>5. IsFiniteSet(stamps) /\ stamps \in SUBSET Nat /\ stamps # {}
  <2>1. IsFiniteSet({0})
    BY FS_Singleton
  <2>2. IsFiniteSet(stamps)
    BY <1>3, <2>1, FS_Union
  <2> QED BY <1>1, <2>2
<1> HIDE DEF stamps
<1>6. Max(stamps) \in stamps
  BY <1>5, MaxExists
<1>7. Max(stamps) \in Nat
  BY <1>5, <1>6
<1> QED BY <1>4, <1>7

-----------------------------------------------------------------------------
(* The operations of the board used here.                                  *)

\* A card, of which the pull request and the dispatch attempts are as they were.
Same(k, n) == n \in Card /\ n.pr = k.pr /\ n.attempts = k.attempts

LEMMA MoveToMergingOp ==
  ASSUME NEW k \in Card, NEW stamp \in Nat, k.status \in {"checking", "review"}
  PROVE  Same(k, MoveToMerging(k, stamp)) /\ MoveToMerging(k, stamp).status = "merging"
PROOF
<1> DEFINE q == IF k.queue # None THEN k.queue
                ELSE [state |-> "queued", enqueuedAt |-> stamp, rebaseAttempts |-> 0]
<1>1. q \in Queue \cup {None}
  BY DEF Card, Queue
<1>2. MoveToMerging(k, stamp) = [k EXCEPT !.status = "merging", !.check = None, !.queue = q]
  BY DEF MoveToMerging
<1>3. "merging" \in Status
  BY DEF Status
<1> HIDE DEF q
<1> DEFINE n == [k EXCEPT !.status = "merging", !.check = None, !.queue = q]
<1>4. n \in Card
  BY <1>1, <1>3 DEF Card
<1>5. n.pr = k.pr /\ n.attempts = k.attempts /\ n.status = "merging"
  BY DEF Card
<1> HIDE DEF n
<1> QED BY <1>2, <1>4, <1>5 DEF Same, n

LEMMA MoveToReviewOp ==
  ASSUME NEW k \in Card, k.status = "checking"
  PROVE  Same(k, MoveToReview(k)) /\ MoveToReview(k).status = "review"
PROOF
<1>1. MoveToReview(k) = [k EXCEPT !.status = "review", !.check = None]
  BY DEF MoveToReview
<1> DEFINE n == [k EXCEPT !.status = "review", !.check = None]
<1>2. n \in Card
  <2>1. "review" \in Status
    BY DEF Status
  <2> QED BY <2>1 DEF Card
<1>3. n.pr = k.pr /\ n.attempts = k.attempts /\ n.status = "review"
  BY DEF Card
<1> HIDE DEF n
<1> QED BY <1>1, <1>2, <1>3 DEF Same, n

LEMMA MergeOp ==
  ASSUME NEW k \in Card, NEW stamp \in Nat
  PROVE  Same(k, Merge(k, stamp)) /\ Merge(k, stamp).status = "merging"
PROOF
<1> DEFINE q == [state |-> "queued", enqueuedAt |-> stamp, rebaseAttempts |-> 0]
<1>1. q \in Queue
  BY DEF Queue
<1>2. Merge(k, stamp) = [k EXCEPT !.status = "merging", !.queue = q]
  BY DEF Merge
<1> HIDE DEF q
<1> DEFINE n == [k EXCEPT !.status = "merging", !.queue = q]
<1>3. n \in Card
  <2>1. "merging" \in Status
    BY DEF Status
  <2> QED BY <1>1, <2>1 DEF Card
<1>4. n.pr = k.pr /\ n.attempts = k.attempts /\ n.status = "merging"
  BY DEF Card
<1> HIDE DEF n
<1> QED BY <1>2, <1>3, <1>4 DEF Same, n

LEMMA AcceptOp ==
  ASSUME NEW k \in Card
  PROVE  Same(k, Accept(k)) /\ Accept(k).status = "done"
BY DEF Same, Accept, Card, Status

LEMMA BlockTaskOp ==
  ASSUME NEW k \in Card, NEW why \in Reason
  PROVE  Same(k, BlockTask(k, why)) /\ BlockTask(k, why).status = "blocked"
BY BlockTaskType DEF Same, BlockTask, Card

LEMMA ReturnOp ==
  ASSUME NEW k \in Card, NEW stamp \in Nat
  PROVE  Same(k, Return(k, stamp)) /\ Return(k, stamp).status \in {"queued", "running"}
PROOF
<1> DEFINE back == [k EXCEPT !.queue = None]
<1>1. back.pr = k.pr /\ back.attempts = k.attempts /\ back \in Card
  BY DEF Card
<1> HIDE DEF back
<1>2. /\ EnterQueued(back, stamp).pr = back.pr
      /\ EnterQueued(back, stamp).attempts = back.attempts
      /\ EnterQueued(back, stamp).status = "queued"
  BY <1>1 DEF EnterQueued, Card
<1> DEFINE again == [back EXCEPT !.status = "running", !.lease = NewLease(k.sessionRef)]
<1>3. again.pr = back.pr /\ again.attempts = back.attempts /\ again.status = "running"
  BY <1>1 DEF Card
<1> HIDE DEF again
<1>4. Return(k, stamp) = IF k.sessionRef = None THEN EnterQueued(back, stamp) ELSE again
  BY DEF Return, back, again
<1> QED BY <1>1, <1>2, <1>3, <1>4, ReturnType DEF Same

LEMMA MoveOp ==
  ASSUME NEW k \in Card, NEW target \in Status, NEW stamp \in Nat
  PROVE  Same(k, Move(k, target, stamp)) /\ Move(k, target, stamp).status = target
PROOF
<1> DEFINE why == IF target = "blocked" THEN "by hand"
                  ELSE IF k.status = "blocked" THEN "none" ELSE k.blockedReason
           at  == IF target = "queued" /\ k.queuedAt = 0 THEN stamp ELSE k.queuedAt
<1>1. Move(k, target, stamp) = [k EXCEPT !.status = target, !.blockedReason = why,
                                         !.queuedAt = at]
  BY DEF Move
<1> HIDE DEF why, at
<1> QED BY <1>1, MoveType DEF Same, Card

LEMMA EditOp ==
  ASSUME NEW k \in Card
  PROVE  Same(k, Edit(k)) /\ Edit(k).status \in {"planning", k.status}
PROOF
<1> DEFINE status ==
      IF k.status \in {"queued", "running", "checking", "review", "merging"}
        THEN "planning" ELSE k.status
<1>1. Edit(k) = [k EXCEPT !.text = @ + 1, !.evaluation = None, !.status = status]
  BY DEF Edit
<1>2. status \in {"planning", k.status}
  OBVIOUS
<1> HIDE DEF status
<1>3. Edit(k).status = status /\ Edit(k).pr = k.pr /\ Edit(k).attempts = k.attempts
  BY <1>1 DEF Card
<1> QED BY <1>2, <1>3, EditType DEF Same

LEMMA RemoveOp ==
  ASSUME NEW k \in Card
  PROVE  Same(k, Remove(k)) /\ Remove(k).status = "removed"
BY RemoveType DEF Same, Remove, Card, Removed

LEMMA SetQueueOp ==
  ASSUME NEW k \in Card, NEW queue \in Queue
  PROVE  Same(k, SetQueue(k, queue)) /\ SetQueue(k, queue).status = k.status
BY DEF Same, SetQueue, Card

LEMMA SetPrOp ==
  ASSUME NEW k \in Card, NEW pr \in Pr
  PROVE  /\ SetPr(k, pr) \in Card /\ SetPr(k, pr).pr = pr
         /\ SetPr(k, pr).status = k.status /\ SetPr(k, pr).attempts = k.attempts
BY DEF SetPr, Card

LEMMA MarkMergedOp ==
  ASSUME NEW k \in Card
  PROVE  /\ MarkMerged(k) \in Card /\ MarkMerged(k).status = "done"
         /\ MarkMerged(k).attempts = k.attempts
PROOF
<1> DEFINE pr == IF k.pr = None THEN None ELSE [k.pr EXCEPT !.state = "merged"]
<1>1. pr \in Pr \cup {None}
  BY DEF Card, Pr
<1>2. MarkMerged(k) = [k EXCEPT !.status = "done", !.queue = None, !.lease = None, !.pr = pr]
  BY DEF MarkMerged
<1> HIDE DEF pr
<1> QED BY <1>1, <1>2 DEF Card, Status

-----------------------------------------------------------------------------
(* Passes and writes.                                                      *)

LEMMA IdleType == IdleRec \in RecState /\ IdleRec.pc = "idle"
BY DEF IdleRec, RecState

\* Nothing is written, and no pass has a fact in hand that it had not.
LEMMA NoWrite ==
  ASSUME Inv, cards' = cards, acts' = acts, Final, github' \in [CardId -> Pr],
         rec' \in RecState, HandInv', rec'.pc = "resolved" => rec' = rec,
         prChanges' \in Nat, refusals' \in Nat, crashes' \in Nat
  PROVE  Good
PROOF
<1>1. TypeInv'
  BY DEF Inv, TypeInv, TypeOK, Final
<1>2. BoardBehind'
  BY DEF Inv, BoardBehind, Final
<1>3. PassBehind'
  BY DEF Inv, TypeInv, HandInv, PassBehind, Final
<1>4. ColumnStep
  BY DEF ColumnStep, Quiet
<1> QED BY <1>1, <1>2, <1>3, <1>4 DEF Good, Inv

\* One card is written.
LEMMA OneWrite ==
  ASSUME Inv, NEW c \in CardId, NEW k \in Card, Write(c, k), Final,
         github' \in [CardId -> Pr], k.attempts = cards[c].attempts,
         k.pr = cards[c].pr \/ k.pr = None \/ k.pr.state # "merged" \/ github'[c].state = "merged",
         rec' \in RecState, HandInv', rec'.pc = "resolved" => rec' = rec,
         prChanges' \in Nat, refusals' \in Nat, crashes' \in Nat, acts' \in Nat,
         \/ acts' = acts /\ k.status = cards[c].status
         \/ /\ acts' = acts /\ Edge(cards[c].status, k.status)
            /\ k.status = "done" => github'[c].state = "merged"
         \/ acts' = acts + 1 /\ Asked(cards[c].status, k.status)
  PROVE  Good
PROOF
<1>1. cards' \in [CardId -> Card] /\ cards'[c] = k /\ \A d \in CardId \ {c} : cards'[d] = cards[d]
  BY DEF Inv, TypeInv, TypeOK, Write
<1>2. TypeInv'
  BY <1>1 DEF Inv, TypeInv, TypeOK, Final
<1>3. BoardBehind'
  <2> SUFFICES ASSUME NEW d \in CardId, cards'[d].pr # None, cards'[d].pr.state = "merged"
               PROVE  github'[d].state = "merged"
    BY DEF BoardBehind
  <2>1. CASE d = c
    BY <1>1, <2>1 DEF Inv, BoardBehind, Final
  <2>2. CASE d # c
    BY <1>1, <2>2 DEF Inv, BoardBehind, Final
  <2> QED BY <2>1, <2>2
<1>4. PassBehind'
  BY DEF Inv, TypeInv, HandInv, PassBehind, Final
<1>5. ColumnStep
  <2>1. \A d \in CardId : cards'[d].attempts = cards[d].attempts
    BY <1>1
  <2>2. OnlyOf(c)
    BY <1>1 DEF OnlyOf
  <2>3. CASE acts' = acts /\ k.status = cards[c].status
    BY <1>1, <2>1, <2>3 DEF ColumnStep, Quiet
  <2>4. CASE /\ acts' = acts /\ Edge(cards[c].status, k.status)
             /\ k.status = "done" => github'[c].state = "merged"
    BY <1>1, <2>1, <2>2, <2>4 DEF ColumnStep, Piped
  <2>5. CASE acts' = acts + 1 /\ Asked(cards[c].status, k.status)
    BY <1>1, <2>1, <2>2, <2>5 DEF ColumnStep, Requested
  <2> QED BY <2>3, <2>4, <2>5
<1> QED BY <1>2, <1>3, <1>4, <1>5 DEF Good, Inv

-----------------------------------------------------------------------------
(* The pass up to the merge queue.                                         *)

LEMMA PassGood ==
  ASSUME Inv, BeginPass \/ LoadFacts \/ NothingToMerge \/ \E c \in CardId : ResolvePr(c)
  PROVE  Good
PROOF
<1> USE DEF bounds
<1>0. /\ cards' = cards /\ acts' = acts /\ github' = github /\ lost' = lost
      /\ prChanges' = prChanges /\ refusals' = refusals /\ crashes' = crashes
  BY DEF BeginPass, LoadFacts, NothingToMerge, ResolvePr
<1>1. Final /\ github' \in [CardId -> Pr] /\ prChanges' \in Nat /\ refusals' \in Nat /\ crashes' \in Nat
  BY <1>0 DEF Final, Inv, TypeInv, TypeOK
<1>2. CASE BeginPass
  <2>1. rec' \in RecState /\ rec'.pc = "checking"
    BY <1>2 DEF BeginPass, IdleRec, RecState
  <2> QED BY <1>0, <1>1, <2>1, NoWrite DEF HandInv
<1>3. CASE LoadFacts
  <2> DEFINE todo == {c \in CardId :
                        /\ cards[c].status \in {"running", "checking", "review", "merging"}
                        /\ UnmergedPr(cards[c])}
             was == [c \in CardId |-> cards[c].pr]
  <2>1. rec' = [pc |-> "facts", todo |-> todo, card |-> None, was |-> was, fact |-> None,
                queue |-> None]
    BY <1>3 DEF LoadFacts, IdleRec
  <2>2. todo \in SUBSET CardId /\ was \in [CardId -> Pr \cup {None}]
    BY DEF Inv, TypeInv, TypeOK, Card
  <2> HIDE DEF todo, was
  <2>3. rec' \in RecState /\ rec'.pc = "facts"
    BY <2>1, <2>2 DEF RecState
  <2> QED BY <1>0, <1>1, <2>3, NoWrite DEF HandInv
<1>4. CASE NothingToMerge
  BY <1>0, <1>1, <1>4, IdleType, NoWrite DEF NothingToMerge, HandInv
<1>5. ASSUME NEW c \in CardId, ResolvePr(c)
      PROVE  Good
  <2>1. PICK fact \in {github[c], None} :
          rec' = [rec EXCEPT !.pc = "resolved", !.card = c, !.fact = fact, !.todo = @ \ {c}]
    BY <1>5 DEF ResolvePr
  <2>2. fact \in Pr \cup {None} /\ rec.todo \ {c} \in SUBSET CardId /\ rec \in RecState
    BY DEF Inv, TypeInv, TypeOK, RecState
  <2>3. /\ rec' \in RecState /\ rec'.pc = "resolved" /\ rec'.card = c /\ rec'.fact = fact
    BY <2>1, <2>2 DEF RecState
  <2>4. TypeInv'
    BY <1>0, <1>1, <2>3 DEF Inv, TypeInv, TypeOK, HandInv, Final
  <2>5. BoardBehind' /\ PassBehind'
    BY <1>0, <2>1, <2>3 DEF Inv, BoardBehind, PassBehind
  <2>6. ColumnStep
    BY <1>0 DEF ColumnStep, Quiet
  <2> QED BY <2>4, <2>5, <2>6 DEF Good, Inv
<1> QED BY <1>2, <1>3, <1>4, <1>5

LEMMA WriteFactGood ==
  ASSUME Inv, WriteFact
  PROVE  Good
PROOF
<1> USE DEF bounds
<1> DEFINE c == rec.card
           next == [rec EXCEPT !.pc = "facts", !.card = None, !.fact = None, !.was[c] = None]
<1>1. /\ github' = github /\ lost' = lost /\ acts' = acts
      /\ rec.pc = "resolved" /\ c \in CardId
      /\ prChanges' = prChanges /\ refusals' = refusals /\ crashes' = crashes
  BY DEF WriteFact, Inv, TypeInv, HandInv
<1>2. /\ Final /\ github' \in [CardId -> Pr]
      /\ prChanges' \in Nat /\ refusals' \in Nat /\ crashes' \in Nat /\ acts' \in Nat
  BY <1>1 DEF Final, Inv, TypeInv, TypeOK
<1>3. next \in RecState /\ next.pc = "facts"
  <2>1. rec \in RecState /\ [rec.was EXCEPT ![c] = None] \in [CardId -> Pr \cup {None}]
    BY DEF Inv, TypeInv, TypeOK, RecState
  <2> HIDE DEF c
  <2> QED BY <2>1 DEF RecState
<1>4. rec' \in {next, IdleRec}
  BY DEF WriteFact
<1> HIDE DEF next
<1>5. rec' \in RecState /\ HandInv' /\ rec'.pc # "resolved"
  BY <1>3, <1>4, IdleType DEF HandInv
<1>6. CASE cards' = cards
  BY <1>1, <1>2, <1>5, <1>6, NoWrite
<1>7. CASE cards' # cards
  <2>1. rec.fact # None /\ Write(c, SetPr(cards[c], rec.fact))
    BY <1>7 DEF WriteFact
  <2>2. rec.fact \in Pr /\ cards[c] \in Card
    BY <1>1, <2>1 DEF Inv, TypeInv, TypeOK, RecState
  <2>3. rec.fact.state = "merged" => github'[c].state = "merged"
    BY <1>1, <2>1 DEF Inv, PassBehind
  <2> DEFINE k == SetPr(cards[c], rec.fact)
  <2>4. /\ k \in Card /\ k.pr = rec.fact
        /\ k.status = cards[c].status /\ k.attempts = cards[c].attempts
    BY <2>2, SetPrOp
  <2> HIDE DEF k, c
  <2> QED BY <1>1, <1>2, <1>5, <2>1, <2>3, <2>4, OneWrite DEF k
<1> QED BY <1>6, <1>7

-----------------------------------------------------------------------------
(* The head of the merge queue.                                            *)

LEMMA AwaitType ==
  ASSUME Inv, NEW c \in CardId, cards[c].queue # None, AwaitGithub(c, rec'.pc),
         rec'.pc \in {"updating", "merging"}
  PROVE  rec' \in RecState /\ HandInv'
PROOF
<1>1. cards[c].queue \in Queue
  BY DEF Inv, TypeInv, TypeOK, Card
<1>2. rec' = [pc |-> rec'.pc, todo |-> {}, card |-> c, was |-> [d \in CardId |-> None],
              fact |-> None, queue |-> cards[c].queue]
  BY DEF AwaitGithub, IdleRec
<1>3. rec'.card = c /\ rec'.queue = cards[c].queue
  BY <1>2
<1>4. rec' \in RecState
  BY <1>1, <1>2 DEF RecState
<1> QED BY <1>1, <1>3, <1>4 DEF HandInv

LEMMA DriveGood ==
  ASSUME Inv, NEW c \in CardId, Drive(c)
  PROVE  Good
PROOF
<1> DEFINE k == cards[c]
<1>1. /\ github' = github /\ lost' = lost /\ acts' = acts
      /\ k.status = "merging" /\ k.queue # None
      /\ prChanges' = prChanges /\ refusals' = refusals /\ crashes' = crashes
  BY DEF Drive, Oldest, InQueue, bounds
<1>2. /\ Final /\ github' \in [CardId -> Pr] /\ k \in Card
      /\ prChanges' \in Nat /\ refusals' \in Nat /\ crashes' \in Nat /\ acts' \in Nat
  BY <1>1 DEF Final, Inv, TypeInv, TypeOK
<1>3. /\ IdleRec \in RecState /\ IdleRec.pc = "idle"
      /\ rec' = IdleRec => rec' \in RecState /\ HandInv' /\ rec'.pc # "resolved"
  BY IdleType DEF HandInv
<1>4. CASE k.pr # None /\ k.pr.state = "merged" /\ Write(c, MarkMerged(k)) /\ rec' = IdleRec
  <2>1. github'[c].state = "merged"
    BY <1>1, <1>4 DEF Inv, BoardBehind
  <2>2. Edge(k.status, MarkMerged(k).status) /\ MarkMerged(k) \in Card
        /\ MarkMerged(k).attempts = k.attempts
    BY <1>1, <1>2, MarkMergedOp DEF Edge
  <2> QED BY <1>1, <1>2, <1>3, <1>4, <2>1, <2>2, OneWrite
<1>5. CASE Write(c, BlockTask(k, "pr")) /\ rec' = IdleRec
  <2>1. Same(k, BlockTask(k, "pr")) /\ BlockTask(k, "pr").status = "blocked"
    BY <1>2, BlockTaskOp DEF Reason
  <2>2. Edge(k.status, BlockTask(k, "pr").status)
    BY <1>1, <2>1 DEF Edge
  <2> QED BY <1>1, <1>2, <1>3, <1>5, <2>1, <2>2, OneWrite DEF Same
<1>6. CASE AwaitGithub(c, "updating") /\ cards' = cards
  <2>1. rec'.pc = "updating"
    BY <1>6 DEF AwaitGithub, IdleRec
  <2> QED BY <1>1, <1>2, <1>6, <2>1, AwaitType, NoWrite
<1>7. CASE Write(c, SetQueue(k, [k.queue EXCEPT !.state = "merging"])) /\ AwaitGithub(c, "merging")
  <2>1. rec'.pc = "merging"
    BY <1>7 DEF AwaitGithub, IdleRec
  <2>2. [k.queue EXCEPT !.state = "merging"] \in Queue
    BY <1>1, <1>2 DEF Card, Queue
  <2> DEFINE n == SetQueue(k, [k.queue EXCEPT !.state = "merging"])
  <2>3. Same(k, n) /\ n.status = k.status
    BY <1>2, <2>2, SetQueueOp
  <2>4. rec' \in RecState /\ HandInv'
    BY <1>1, <1>7, <2>1, AwaitType
  <2> HIDE DEF n
  <2> QED BY <1>1, <1>2, <1>7, <2>1, <2>3, <2>4, OneWrite DEF Same, n
<1>8. CASE rec' = IdleRec /\ cards' = cards
  BY <1>1, <1>2, <1>3, <1>8, NoWrite
<1> QED BY <1>4, <1>5, <1>6, <1>7, <1>8 DEF Drive, DriveItem

\* The end of an await, with what it writes to the card as it is now.
LEMMA FinishGood ==
  ASSUME Inv, rec.pc \in {"updating", "merging", "updatingAfter405"},
         NEW n, Finish(n), Exists(cards[rec.card]) => n \in Card,
         n.attempts = cards[rec.card].attempts, acts' = acts, Final,
         github' \in [CardId -> Pr], prChanges' \in Nat, refusals' \in Nat, crashes' \in Nat,
         \/ n.pr = cards[rec.card].pr /\ n.status = cards[rec.card].status
         \/ github'[rec.card].state = "merged" /\ n.status = "done"
  PROVE  Good
PROOF
<1> DEFINE c == rec.card
<1>1. c \in CardId /\ cards[c] \in Card /\ acts' \in Nat
  BY DEF Inv, TypeInv, TypeOK, HandInv
<1>2. rec' \in RecState /\ HandInv' /\ rec'.pc # "resolved"
  BY IdleType DEF Finish, HandInv
<1>3. CASE cards' = cards
  BY <1>2, <1>3, NoWrite
<1>4. CASE Exists(cards[c]) /\ Write(c, n)
  <2>1. CASE n.pr = cards[c].pr /\ n.status = cards[c].status
    BY <1>1, <1>2, <1>4, <2>1, OneWrite
  <2>2. CASE github'[c].state = "merged" /\ n.status = "done"
    <3>1. Edge(cards[c].status, n.status)
      BY <1>4, <2>2 DEF Edge, Exists, Removed
    <3> QED BY <1>1, <1>2, <1>4, <2>2, <3>1, OneWrite
  <2> QED BY <2>1, <2>2
<1> QED BY <1>3, <1>4 DEF Finish

LEMMA FactsType ==
  ASSUME NEW checks \in {"clean", "unknown", "dirty", "behind", "blocked"},
         NEW mergeable \in {"yes", "no", "computing"}
  PROVE  Facts(checks, mergeable) \in Pr /\ Facts(checks, mergeable).state = "open"
BY DEF Facts, Pr

LEMMA GithubMerges ==
  ASSUME Inv, NEW c \in CardId, github' = [github EXCEPT ![c].state = "merged"],
         lost' = lost
  PROVE  Final /\ github' \in [CardId -> Pr] /\ github'[c].state = "merged"
PROOF
<1>1. github \in [CardId -> Pr] /\ github[c] \in Pr /\ lost' \subseteq CardId
  BY DEF Inv, TypeInv, TypeOK
<1>2. [github[c] EXCEPT !.state = "merged"] \in Pr /\ [github[c] EXCEPT !.state = "merged"].state = "merged"
  BY <1>1 DEF Pr
<1>3. github' = [github EXCEPT ![c] = [github[c] EXCEPT !.state = "merged"]]
  OBVIOUS
<1> QED BY <1>1, <1>2, <1>3 DEF Final

LEMMA HeadGood ==
  ASSUME Inv, Updated \/ UpdateFails \/ Merges \/ MergeRefused \/ MergeFails
  PROVE  Good
PROOF
<1> USE DEF bounds
<1> DEFINE c == rec.card
<1>1. /\ rec.pc \in {"updating", "merging", "updatingAfter405"} /\ acts' = acts
      /\ lost' = lost /\ prChanges' = prChanges /\ crashes' = crashes
      /\ refusals' \in {refusals, refusals + 1}
  BY DEF Updated, UpdateFails, Merges, MergeRefused, MergeFails
<1>2. /\ c \in CardId /\ cards[c] \in Card /\ rec.queue \in Queue /\ github \in [CardId -> Pr]
      /\ lost' = lost /\ lost' \subseteq CardId
      /\ prChanges' \in Nat /\ refusals' \in Nat /\ crashes' \in Nat
  BY <1>1 DEF Inv, TypeInv, TypeOK, HandInv
<1>3. github' = github => Final /\ github' \in [CardId -> Pr]
  BY <1>2 DEF Final
<1>4. CASE Updated
  <2>1. /\ github' = [github EXCEPT ![c] = Facts("unknown", "computing")] /\ github[c].state = "open"
        /\ Finish(SetQueue(cards[c], OneRebaseMore(rec.queue)))
    BY <1>4 DEF Updated
  <2>2. Final /\ github' \in [CardId -> Pr]
    BY <1>2, <2>1, FactsType DEF Final
  <2>3. OneRebaseMore(rec.queue) \in Queue
    <3> DEFINE again == IF rec.queue.rebaseAttempts > MergeRetries THEN rec.queue.rebaseAttempts
                        ELSE rec.queue.rebaseAttempts + 1
    <3>1. again \in Nat
      BY <1>2 DEF Queue
    <3>2. OneRebaseMore(rec.queue) = [rec.queue EXCEPT !.state = "rebasing", !.rebaseAttempts = again]
      BY DEF OneRebaseMore
    <3> HIDE DEF again
    <3> QED BY <1>2, <3>1, <3>2 DEF Queue
  <2> DEFINE n == SetQueue(cards[c], OneRebaseMore(rec.queue))
  <2>4. Same(cards[c], n) /\ n.status = cards[c].status
    BY <1>2, <2>3, SetQueueOp
  <2>5. Finish(n)
    BY <2>1
  <2> HIDE DEF n
  <2> QED BY <1>1, <1>2, <2>2, <2>4, <2>5, FinishGood DEF Same
<1>5. CASE UpdateFails
  BY <1>1, <1>2, <1>3, <1>5, IdleType, NoWrite DEF UpdateFails, HandInv
<1>6. CASE Merges
  <2>1. github' = [github EXCEPT ![c].state = "merged"] /\ Finish(MarkMerged(cards[c]))
    BY <1>6 DEF Merges
  <2>2. Final /\ github' \in [CardId -> Pr] /\ github'[c].state = "merged"
    BY <1>2, <2>1, GithubMerges
  <2>3. /\ MarkMerged(cards[c]) \in Card /\ MarkMerged(cards[c]).status = "done"
        /\ MarkMerged(cards[c]).attempts = cards[c].attempts
    BY <1>2, MarkMergedOp
  <2> QED BY <1>1, <1>2, <2>1, <2>2, <2>3, FinishGood
<1>7. CASE MergeRefused
  <2>1. rec' = [rec EXCEPT !.pc = "updatingAfter405"] /\ github' = github /\ cards' = cards
    BY <1>7 DEF MergeRefused
  <2>2. rec' \in RecState /\ rec'.pc = "updatingAfter405" /\ rec'.card = c /\ rec'.queue = rec.queue
    BY <2>1 DEF Inv, TypeInv, TypeOK, RecState
  <2> QED BY <1>1, <1>2, <1>3, <2>1, <2>2, NoWrite DEF HandInv
<1>8. CASE MergeFails
  <2> DEFINE q == [rec.queue EXCEPT !.state = "queued"]
  <2>1. /\ github' = github \/ github' = [github EXCEPT ![c].state = "merged"]
        /\ Finish(SetQueue(cards[c], q))
    BY <1>8 DEF MergeFails
  <2>2. Final /\ github' \in [CardId -> Pr]
    BY <1>2, <1>3, <2>1, GithubMerges
  <2>3. q \in Queue
    BY <1>2 DEF Queue
  <2> DEFINE n == SetQueue(cards[c], q)
  <2>4. Same(cards[c], n) /\ n.status = cards[c].status
    BY <1>2, <2>3, SetQueueOp
  <2>5. Finish(n)
    BY <2>1
  <2> HIDE DEF n
  <2> QED BY <1>1, <1>2, <2>2, <2>4, <2>5, FinishGood DEF Same
<1> QED BY <1>4, <1>5, <1>6, <1>7, <1>8

-----------------------------------------------------------------------------
(* The checker, GitHub, people, restarts.                                  *)

LEMMA CheckerGood ==
  ASSUME Inv, NEW c \in CardId, CheckerPasses(c)
  PROVE  Good
PROOF
<1>1. /\ cards[c] \in Card /\ Stamp \in Nat /\ cards[c].status \in {"checking", "review"}
  BY StampType DEF CheckerPasses, MoveToMerging, Inv, TypeInv, TypeOK
<1> DEFINE n == MoveToMerging(cards[c], Stamp)
<1>2. Same(cards[c], n) /\ n.status = "merging"
  BY <1>1, MoveToMergingOp
<1>3. /\ Write(c, n) /\ github' = github /\ rec' = rec
      /\ UNCHANGED <<lost, prChanges, refusals, acts, crashes>>
  BY DEF CheckerPasses, bounds
<1> HIDE DEF n
<1>4. Final /\ github' \in [CardId -> Pr] /\ rec' \in RecState /\ HandInv'
      /\ prChanges' \in Nat /\ refusals' \in Nat /\ acts' \in Nat /\ crashes' \in Nat
  BY <1>3 DEF Final, Inv, TypeInv, TypeOK, HandInv
<1>5. Edge(cards[c].status, n.status)
  BY <1>1, <1>2 DEF Edge
<1> QED BY <1>2, <1>3, <1>4, <1>5, OneWrite DEF Same

LEMMA GithubGood ==
  ASSUME Inv, NEW c \in CardId, CiEnds(c) \/ PrChanges(c)
  PROVE  Good
PROOF
<1>1. /\ cards' = cards /\ rec' = rec /\ acts' = acts /\ refusals' = refusals /\ crashes' = crashes
      /\ prChanges' \in Nat /\ github[c].state = "open" /\ github[c] \in Pr
      /\ github \in [CardId -> Pr] /\ lost' \subseteq CardId
  BY DEF CiEnds, PrChanges, bounds, Inv, TypeInv, TypeOK
<1>2. PICK pr \in Pr : github' = [github EXCEPT ![c] = pr]
  <2>1. CASE CiEnds(c)
    BY <2>1, FactsType DEF CiEnds
  <2>2. CASE PrChanges(c)
    <3>1. /\ Facts("dirty", "no") \in Pr /\ Facts("behind", "yes") \in Pr
          /\ Facts("blocked", "yes") \in Pr
      BY FactsType
    <3>2. /\ [github[c] EXCEPT !.state = "merged"] \in Pr
          /\ [github[c] EXCEPT !.state = "closed", !.mergeable = "computing"] \in Pr
      BY <1>1 DEF Pr
    <3> QED BY <2>2, <3>1, <3>2 DEF PrChanges
  <2> QED BY <2>1, <2>2
<1>3. Final /\ github' \in [CardId -> Pr]
  BY <1>1, <1>2 DEF Final
<1>4. rec' \in RecState /\ HandInv' /\ refusals' \in Nat /\ crashes' \in Nat
  BY <1>1 DEF Inv, TypeInv, TypeOK, HandInv
<1> QED BY <1>1, <1>3, <1>4, NoWrite

LEMMA HumanGood ==
  ASSUME Inv, NEW c \in CardId,
         \/ MergeCard(c) \/ AcceptCard(c) \/ ReturnCard(c) \/ EditCard(c) \/ RemoveCard(c)
         \/ \E target \in Status : MoveCard(c, target)
  PROVE  Good
PROOF
<1>1. cards[c] \in Card /\ Stamp \in Nat /\ 1 \in Nat
  BY StampType DEF Inv, TypeInv, TypeOK
<1>2. PICK n : Human(c, n) /\ Same(cards[c], n) /\ Asked(cards[c].status, n.status)
  <2>1. CASE MergeCard(c)
    BY <1>1, <2>1, MergeOp DEF MergeCard, CanMerge, Asked
  <2>2. CASE AcceptCard(c)
    BY <1>1, <2>2, AcceptOp DEF AcceptCard, CanAccept, Asked
  <2>3. CASE ReturnCard(c)
    BY <1>1, <2>3, ReturnOp DEF ReturnCard, CanReturn, Asked
  <2>4. CASE EditCard(c)
    BY <1>1, <2>4, EditOp DEF EditCard, Exists, Removed, Asked
  <2>5. CASE RemoveCard(c)
    BY <1>1, <2>5, RemoveOp DEF RemoveCard, CanRemove, Asked
  <2>6. ASSUME NEW target \in Status, MoveCard(c, target)
        PROVE  \E n : Human(c, n) /\ Same(cards[c], n) /\ Asked(cards[c].status, n.status)
    <3>1. Same(cards[c], Move(cards[c], target, 1)) /\ Move(cards[c], target, 1).status = target
      BY <1>1, MoveOp
    <3>2. Asked(cards[c].status, target) /\ Human(c, Move(cards[c], target, 1))
      BY <2>6 DEF MoveCard, CanMove, Exists, Removed, Status, AgentOwned, Asked
    <3> QED BY <3>1, <3>2
  <2> QED BY <2>1, <2>2, <2>3, <2>4, <2>5, <2>6
<1>3. /\ Write(c, n) /\ acts' = acts + 1
      /\ UNCHANGED <<github, lost, rec, prChanges, refusals, crashes>>
  BY <1>2 DEF Human
<1>4. Final /\ github' \in [CardId -> Pr] /\ rec' \in RecState /\ HandInv'
      /\ prChanges' \in Nat /\ refusals' \in Nat /\ acts' \in Nat /\ crashes' \in Nat
  BY <1>3 DEF Final, Inv, TypeInv, TypeOK, HandInv
<1> QED BY <1>2, <1>3, <1>4, OneWrite DEF Same

LEMMA CrashGood ==
  ASSUME Inv, Crash \/ CrashAfterMerge
  PROVE  Good
PROOF
<1>1. /\ cards' = cards /\ acts' = acts /\ rec' = IdleRec /\ crashes' \in Nat
      /\ lost' = lost
      /\ prChanges' \in Nat /\ refusals' \in Nat
  BY DEF Crash, CrashAfterMerge, Inv, TypeInv, TypeOK
<1>2. Final /\ github' \in [CardId -> Pr]
  <2>1. CASE Crash
    BY <2>1 DEF Crash, Final, Inv, TypeInv, TypeOK
  <2>2. CASE CrashAfterMerge
    <3>1. rec.card \in CardId /\ github' = [github EXCEPT ![rec.card].state = "merged"]
      BY <2>2 DEF CrashAfterMerge, Inv, TypeInv, HandInv
    <3> QED BY <1>1, <3>1, GithubMerges
  <2> QED BY <2>1, <2>2
<1> QED BY <1>1, <1>2, IdleType, NoWrite DEF HandInv

\* A project that comes or goes is a request for one of its cards, which stays.
LEMMA ProjectsGood ==
  ASSUME Inv, ProjectsChange
  PROVE  Good
PROOF
<1>1. PICK some \in (SUBSET CardId) \ {{}} : lost' \in {lost \cup some, lost \ some}
  BY DEF ProjectsChange
<1>2. PICK c \in CardId : TRUE
  BY <1>1
<1>3. /\ Write(c, cards[c]) /\ acts' = acts + 1
      /\ UNCHANGED <<github, rec, prChanges, refusals, crashes>>
  BY DEF ProjectsChange, Write, Inv, TypeInv, TypeOK
<1>4. /\ Final /\ github' \in [CardId -> Pr] /\ rec' \in RecState /\ HandInv'
      /\ prChanges' \in Nat /\ refusals' \in Nat /\ acts' \in Nat /\ crashes' \in Nat
      /\ cards[c] \in Card
  BY <1>1, <1>3 DEF Final, Inv, TypeInv, TypeOK, HandInv
<1>5. Asked(cards[c].status, cards[c].status)
  BY DEF Asked
<1> QED BY <1>3, <1>4, <1>5, OneWrite

LEMMA StepGood ==
  ASSUME Inv, [Next]_vars
  PROVE  Good
PROOF
<1>1. CASE Next
  BY <1>1, PassGood, WriteFactGood, DriveGood, HeadGood, CheckerGood, GithubGood, HumanGood,
     ProjectsGood, CrashGood DEF Next, Reconciling
<1>2. CASE UNCHANGED vars
  <2>1. rec' \in RecState /\ HandInv' /\ Final /\ github' \in [CardId -> Pr]
    BY <1>2 DEF vars, HandInv, Final, Inv, TypeInv, TypeOK
  <2> QED BY <1>2, <2>1, NoWrite DEF vars, Inv, TypeInv, TypeOK
<1> QED BY <1>1, <1>2

LEMMA DeliveredType ==
  ASSUME NEW s \in Session
  PROVE  /\ Delivered(s) \in Card /\ Delivered(s).status = "checking"
         /\ Delivered(s).attempts = 0
         /\ Delivered(s).pr # None => Delivered(s).pr.state = "open"
PROOF
<1> DEFINE plan == [deliverable |-> "pr", review |-> "green", text |-> 0]
           judged == [NewCard("queued", 1) EXCEPT !.evaluation = [status |-> "done", plan |-> plan]]
           claimed == Claim(judged, 0)
           linked == LinkSession(claimed, s)
           checking == EnterChecking(linked)
           pr == Facts("unknown", "computing")
<1>1. NewCard("queued", 1) \in Card /\ NewCard("queued", 1).attempts = 0
  BY NewCardType DEF Status, NewCard
<1>2. judged \in Card /\ judged.attempts = 0
  BY <1>1 DEF Card, Evaluation, Plan
<1> HIDE DEF judged
<1>3. claimed \in Card /\ claimed.attempts = 0 /\ claimed.status = "running"
  BY <1>2, ClaimType DEF Claim, Card
<1> HIDE DEF claimed
<1>4. linked \in Card /\ linked.attempts = 0 /\ linked.status = "running"
  <2>1. linked \in Card
    BY <1>3, LinkSessionType
  <2>2. linked.attempts = claimed.attempts /\ linked.status = claimed.status
    BY <1>3 DEF LinkSession, Card
  <2> QED BY <1>3, <2>1, <2>2
<1> HIDE DEF linked
<1>5. checking \in Card /\ checking.attempts = 0 /\ checking.status = "checking"
  BY <1>4, EnterCheckingType DEF EnterChecking, Card
<1> HIDE DEF checking
<1>6. pr \in Pr /\ pr.state = "open"
  BY FactsType
<1> HIDE DEF pr
<1>7. Delivered(s) = SetPr(checking, pr)
  BY DEF Delivered, judged, claimed, linked, checking, pr
<1> QED BY <1>5, <1>6, <1>7, SetPrOp

LEMMA InitGood == Init => Inv
PROOF
<1> SUFFICES ASSUME Init PROVE Inv
  OBVIOUS
<1>1. PICK s \in Session, gone \in SUBSET CardId :
        /\ \E reviewed \in SUBSET (CardId \ gone) :
             cards = [c \in CardId |->
                        IF c \in gone THEN Remove(Delivered(s))
                        ELSE IF c \in reviewed THEN MoveToReview(Delivered(s))
                        ELSE Delivered(s)]
        /\ github = [c \in CardId |->
                       [Facts("unknown", "computing") EXCEPT
                          !.state = IF c \in gone THEN "closed" ELSE @]]
  BY DEF Init
<1>2. \A c \in CardId : cards[c] \in {Delivered(s), Remove(Delivered(s)), MoveToReview(Delivered(s))}
  BY <1>1
<1>3. Same(Delivered(s), Remove(Delivered(s)))
  BY DeliveredType, RemoveOp
<1>4. Same(Delivered(s), MoveToReview(Delivered(s)))
  BY DeliveredType, MoveToReviewOp
<1>5. \A c \in CardId : cards[c] \in Card /\ (cards[c].pr # None => cards[c].pr.state = "open")
  BY <1>2, <1>3, <1>4, DeliveredType DEF Same
<1>6. cards \in [CardId -> Card]
  BY <1>1, <1>5
<1>7. github \in [CardId -> Pr]
  BY <1>1 DEF Facts, Pr
<1>8. /\ rec = IdleRec /\ lost \subseteq CardId
      /\ prChanges = 0 /\ refusals = 0 /\ acts = 0 /\ crashes = 0
  BY DEF Init
<1>9. TypeInv /\ PassBehind
  BY <1>6, <1>7, <1>8, IdleType DEF TypeInv, TypeOK, HandInv, PassBehind
<1>10. BoardBehind
  BY <1>5 DEF BoardBehind
<1> QED BY <1>9, <1>10 DEF Inv

LEMMA Inductive == Spec => []Inv
PROOF
<1>1. Inv /\ [Next]_vars => Inv'
  BY StepGood DEF Good
<1> QED BY <1>1, InitGood, PTL DEF Spec

-----------------------------------------------------------------------------
(* The results.                                                            *)

\* The merge queue's clock, the entries it hands on and the facts it writes stay in
\* their types, whatever GitHub answers and people do meanwhile.
THEOREM MergeTypeOK == Spec => []TypeOK
PROOF
<1>1. Inv => TypeOK
  BY DEF Inv, TypeInv
<1> QED BY <1>1, Inductive, PTL

\* The board is never ahead of GitHub: a card lands without a request of a person only
\* when its pull request is merged, for every number of cards, lost answers and restarts.
THEOREM MergeLandsOnlyMerged == Spec => LandsOnlyMerged
PROOF
<1> DEFINE Landing == \A c \in CardId :
             (acts' = acts /\ cards[c].status # "done" /\ cards'[c].status = "done")
               => github'[c].state = "merged"
<1>1. ASSUME Inv, [Next]_vars
      PROVE  Landing
  <2> SUFFICES ASSUME NEW c \in CardId, acts' = acts, cards[c].status # "done",
                      cards'[c].status = "done"
               PROVE  github'[c].state = "merged"
    OBVIOUS
  <2>1. ColumnStep /\ acts \in Nat
    BY <1>1, StepGood DEF Good, Inv, TypeInv, TypeOK
  <2>2. PICK d \in CardId : Piped(d)
    BY <2>1 DEF ColumnStep, Quiet, Requested
  <2> QED BY <2>2 DEF Piped, OnlyOf
<1>2. Inv /\ [Next]_vars => [Landing]_vars
  BY <1>1
<1> HIDE DEF Landing
<1>3. Spec => [][Landing]_vars
  BY <1>2, Inductive, PTL DEF Spec
<1> QED BY <1>3 DEF LandsOnlyMerged, Landing

\* The merge bot, the facts and people keep to the board's columns, however many cards
\* there are and wherever they are moved while GitHub is asked.
THEOREM MergeImplementsColumns == Spec => ImplementsColumns
PROOF
<1>1. Init => Columns!Init
  <2> SUFFICES ASSUME Init PROVE Columns!Init
    OBVIOUS
  <2>1. PICK s \in Session, gone \in SUBSET CardId :
          \E reviewed \in SUBSET (CardId \ gone) :
            cards = [c \in CardId |->
                       IF c \in gone THEN Remove(Delivered(s))
                       ELSE IF c \in reviewed THEN MoveToReview(Delivered(s))
                       ELSE Delivered(s)]
    BY DEF Init
  <2>2. /\ Delivered(s) \in Card /\ Delivered(s).attempts = 0 /\ Delivered(s).status = "checking"
        /\ Same(Delivered(s), Remove(Delivered(s))) /\ Remove(Delivered(s)).status = "removed"
    BY DeliveredType, RemoveOp
  <2>3. Same(Delivered(s), MoveToReview(Delivered(s))) /\ MoveToReview(Delivered(s)).status = "review"
    BY <2>2, MoveToReviewOp
  <2>4. \A c \in CardId : cards[c].attempts = 0 /\ cards[c].status \in {"checking", "review", "removed"}
    BY <2>1, <2>2, <2>3 DEF Same
  <2>5. acts = 0
    BY DEF Init
  <2> QED BY <2>4, <2>5 DEF Columns!Init, Columns!HandColumns
<1>2. ASSUME Inv, [Next]_vars
      PROVE  [Columns!Next]_(Columns!vars)
  <2> DEFINE column == [c \in CardId |-> cards[c].status]
             attempts == [c \in CardId |-> cards[c].attempts]
  <2>1. ColumnStep
    BY <1>2, StepGood DEF Good
  <2>2. attempts' = attempts
    BY <2>1 DEF ColumnStep
  <2>3. CASE Quiet
    BY <2>2, <2>3 DEF Quiet, Columns!vars
  <2>4. ASSUME NEW c \in CardId, OnlyOf(c)
        PROVE  column' = [column EXCEPT ![c] = cards'[c].status]
    BY <2>4 DEF OnlyOf
  <2>5. ASSUME NEW c \in CardId, Piped(c)
        PROVE  Columns!Next
    <3>1. column' = [column EXCEPT ![c] = cards'[c].status] /\ acts' = acts
      BY <2>4, <2>5 DEF Piped
    <3>2. Columns!Work(c)
      BY <2>2, <2>5, <3>1 DEF Piped, Edge, Columns!Work, Columns!Goes, Columns!Pipeline
    <3> QED BY <3>2 DEF Columns!Next
  <2>6. ASSUME NEW c \in CardId, Requested(c)
        PROVE  Columns!Next
    <3>1. column' = [column EXCEPT ![c] = cards'[c].status] /\ acts' = acts + 1
      BY <2>4, <2>6 DEF Requested
    <3>2. Columns!Request(c)
      BY <2>2, <2>6, <3>1 DEF Requested, Asked, Columns!Request, Columns!Goes, Columns!HandColumns
    <3> QED BY <3>2 DEF Columns!Next
  <2> QED BY <2>1, <2>3, <2>5, <2>6 DEF ColumnStep
<1> QED BY <1>1, <1>2, Inductive, PTL DEF Spec, ImplementsColumns, Columns!Spec
=============================================================================
