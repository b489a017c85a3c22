-------------------------- MODULE BoardCardProofs --------------------------
(***************************************************************************)
(* Every operation of the board service yields a card: the lemmas the type *)
(* proofs of the process modules rest on.                                  *)
(***************************************************************************)
EXTENDS BoardCard, TLAPS

\* The fields a claim or a planning step starts from.
LEMMA NewCardType ==
  ASSUME NEW status \in Status, NEW stamp \in Nat
  PROVE  NewCard(status, stamp) \in Card
BY DEF NewCard, Card, Reason

LEMMA EnterQueuedType ==
  ASSUME NEW k \in Card, NEW stamp \in Nat
  PROVE  EnterQueued(k, stamp) \in Card
<1> DEFINE at == IF k.queuedAt = 0 THEN stamp ELSE k.queuedAt
<1>1. at \in Nat
  BY DEF Card
<1> HIDE DEF at
<1>2. [k EXCEPT !.status = "queued", !.queuedAt = at] \in Card
  BY <1>1 DEF Card, Status
<1> QED
  BY <1>2 DEF EnterQueued, at

LEMMA LeaseType ==
  /\ \A s \in Session \cup {None} : NewLease(s) \in Lease
  /\ \A k \in Card : LeasedSession(k) \in Session \cup {None}
BY DEF NewLease, Lease, LeasedSession, Card

LEMMA ClaimType ==
  ASSUME NEW k \in Card, NEW branch \in Nat \cup {None}
  PROVE  Claim(k, branch) \in Card
BY LeaseType DEF Claim, Card, Status, Reason

LEMMA StopType ==
  ASSUME NEW k \in Card, NEW status \in Status, NEW why \in Reason
  PROVE  [k EXCEPT !.status = status, !.blockedReason = why] \in Card
BY DEF Card

LEMMA RetryType ==
  ASSUME NEW k \in Card, NEW stamp \in Nat
  PROVE  Retry(k, stamp) \in Card
<1> DEFINE r == [k EXCEPT !.attempts = @ + 1, !.lease = None]
<1>1. r \in Card
  <2>1. k.attempts + 1 \in Nat
    BY DEF Card
  <2> QED
    BY <2>1 DEF Card
<1> HIDE DEF r
<1>2. [r EXCEPT !.status = "blocked", !.blockedReason = "dispatch failed"] \in Card
  <2>1. "blocked" \in Status /\ "dispatch failed" \in Reason
    BY DEF Status, Reason
  <2> QED
    BY <1>1, <2>1, StopType, Zenon
<1> QED
  BY <1>1, <1>2, EnterQueuedType DEF Retry, r

LEMMA AbortClaimType ==
  ASSUME NEW k \in Card, NEW stamp \in Nat
  PROVE  AbortClaim(k, stamp) \in Card
BY RetryType DEF AbortClaim

LEMMA LinkSessionType ==
  ASSUME NEW k \in Card, NEW session \in Session
  PROVE  LinkSession(k, session) \in Card
<1> DEFINE lease == IF k.lease = None THEN None ELSE [k.lease EXCEPT !.session = session]
<1>1. lease \in Lease \cup {None}
  BY DEF Card, Lease
<1>2. k.sessionIds \cup {session} \in SUBSET Session
  BY DEF Card
<1> HIDE DEF lease
<1>3. [k EXCEPT !.sessionIds = @ \cup {session}, !.sessionRef = session,
                !.lease = lease] \in Card
  BY <1>1, <1>2 DEF Card
<1> QED
  BY <1>3 DEF LinkSession, lease

LEMMA RefreshLeaseType ==
  ASSUME NEW k \in Card
  PROVE  RefreshLease(k) \in Card
<1> DEFINE lease == IF k.lease = None THEN None ELSE [k.lease EXCEPT !.live = TRUE]
<1>1. lease \in Lease \cup {None}
  BY DEF Card, Lease
<1> HIDE DEF lease
<1>2. [k EXCEPT !.lease = lease] \in Card
  BY <1>1 DEF Card
<1> QED
  BY <1>2 DEF RefreshLease, lease

LEMMA ApplyResumedType ==
  ASSUME NEW k \in Card
  PROVE  ApplyResumed(k) \in Card
<1>1. k.resumeAttempts + 1 \in Nat /\ NewLease(k.sessionRef) \in Lease
  BY LeaseType DEF Card
<1> QED
  BY <1>1 DEF ApplyResumed, Card

LEMMA RecycleType ==
  ASSUME NEW k \in Card, NEW stamp \in Nat
  PROVE  Recycle(k, stamp) \in Card
<1> DEFINE r == [k EXCEPT !.sessionRef = LeasedSession(k), !.resumeAttempts = 0]
<1>1. r \in Card
  BY LeaseType DEF Card
<1> QED
  BY <1>1, RetryType DEF Recycle

LEMMA StartEvaluationType ==
  ASSUME NEW k \in Card
  PROVE  StartEvaluation(k) \in Card
BY DEF StartEvaluation, Card, Evaluation

LEMMA CompleteEvaluationType ==
  ASSUME NEW k \in Card, NEW plan \in Plan, NEW stamp \in Nat
  PROVE  CompleteEvaluation(k, plan, stamp) \in Card
<1> DEFINE done == [k EXCEPT !.evaluation = [status |-> "done", plan |-> plan]]
<1>1. done \in Card
  BY DEF Card, Evaluation
<1> QED
  BY <1>1, EnterQueuedType DEF CompleteEvaluation

LEMMA FailEvaluationType ==
  ASSUME NEW k \in Card
  PROVE  FailEvaluation(k) \in Card
BY DEF FailEvaluation, Card, Evaluation

LEMMA EnterCheckingType ==
  ASSUME NEW k \in Card
  PROVE  EnterChecking(k) \in Card
BY LeaseType, ZenonT(60) DEF EnterChecking, Card, Status

LEMMA WorkerFinishType ==
  ASSUME NEW k \in Card
  PROVE  WorkerFinish(k) \in Card
<1>1. [stage |-> "worker-finish", age |-> 0] \in Check
  BY DEF Check
<1> QED
  BY <1>1, LeaseType, ZenonT(60) DEF WorkerFinish, Card, Status

LEMMA ParkInReviewType ==
  ASSUME NEW k \in Card, NEW why \in Reason
  PROVE  ParkInReview(k, why) \in Card
<1>1. LeasedSession(k) \in Session \cup {None}
  BY LeaseType
<1> QED
  BY <1>1, ZenonT(60) DEF ParkInReview, Card, Status

LEMMA WorkerNoopType ==
  ASSUME NEW k \in Card
  PROVE  WorkerNoop(k) \in Card
BY ParkInReviewType DEF WorkerNoop, Reason

LEMMA WorkerInterruptedType ==
  ASSUME NEW k \in Card
  PROVE  WorkerInterrupted(k) \in Card
BY ParkInReviewType DEF WorkerInterrupted, Reason

LEMMA BlockTaskType ==
  ASSUME NEW k \in Card, NEW why \in Reason
  PROVE  BlockTask(k, why) \in Card
BY DEF BlockTask, Card, Status

LEMMA ApproveType ==
  ASSUME NEW k \in Card, NEW stamp \in Nat
  PROVE  Approve(k, stamp) \in Card
BY EnterQueuedType DEF Approve

LEMMA RetryEvaluationType ==
  ASSUME NEW k \in Card
  PROVE  RetryEvaluation(k) \in Card
BY DEF RetryEvaluation, Card

LEMMA ReturnType ==
  ASSUME NEW k \in Card, NEW stamp \in Nat
  PROVE  Return(k, stamp) \in Card
<1> DEFINE back == [k EXCEPT !.queue = None]
<1>1. back \in Card
  BY DEF Card
<1>2. [back EXCEPT !.status = "running", !.lease = NewLease(k.sessionRef)] \in Card
  BY <1>1, LeaseType DEF Card, Status
<1> QED
  BY <1>1, <1>2, EnterQueuedType DEF Return

LEMMA MoveType ==
  ASSUME NEW k \in Card, NEW target \in Status, NEW stamp \in Nat
  PROVE  Move(k, target, stamp) \in Card
<1> DEFINE why == IF target = "blocked" THEN "by hand"
                  ELSE IF k.status = "blocked" THEN "none" ELSE k.blockedReason
           at  == IF target = "queued" /\ k.queuedAt = 0 THEN stamp ELSE k.queuedAt
<1>1. why \in Reason
  BY DEF Card, Reason
<1>2. at \in Nat
  BY DEF Card
<1> HIDE DEF why, at
<1>3. [k EXCEPT !.status = target, !.blockedReason = why, !.queuedAt = at] \in Card
  BY <1>1, <1>2 DEF Card
<1> QED
  BY <1>3 DEF Move, why, at

LEMMA EditType ==
  ASSUME NEW k \in Card
  PROVE  Edit(k) \in Card
<1> DEFINE status ==
      IF k.status \in {"queued", "running", "checking", "review", "merging"}
        THEN "planning" ELSE k.status
<1>1. k.text + 1 \in Nat
  BY DEF Card
<1>2. status \in Status \cup {Removed}
  BY DEF Card, Status
<1> HIDE DEF status
<1>3. [k EXCEPT !.text = @ + 1, !.evaluation = None, !.status = status] \in Card
  BY <1>1, <1>2 DEF Card
<1> QED
  BY <1>3 DEF Edit, status

LEMMA RemoveKeepsLease ==
  ASSUME NEW k \in Card
  PROVE  Remove(k).lease = k.lease /\ Remove(k).status = "removed"
BY DEF Remove, Card, Removed

LEMMA RemoveType ==
  ASSUME NEW k \in Card
  PROVE  Remove(k) \in Card
BY DEF Remove, Card
=============================================================================
