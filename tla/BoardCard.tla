----------------------------- MODULE BoardCard -----------------------------
(***************************************************************************)
(* One card of the board (board/service.js): its record, and every         *)
(* operation of the board service as an operator from a card to a card.    *)
(* The service runs each of them synchronously between loadDoc and         *)
(* saveDoc, so the process modules use them as atomic updates.  An         *)
(* operation that refuses (throws 409) has its guard in a Can... operator; *)
(* one that returns the card untouched does so here too.                   *)
(*                                                                         *)
(* Clocks: queuedAt and queue.enqueuedAt are only ever compared with each  *)
(* other, so the caller passes the next number of a logical clock (stamp); *)
(* lease.live stands for expiresAt > now; check.age is the number of       *)
(* reconcile ticks since check.at.  The worktree directory of a session is *)
(* identified with the session: linkSession always records the two         *)
(* together, so sessionDirectoryRef is sessionRef here.                    *)
(***************************************************************************)
EXTENDS Naturals

CONSTANTS
  None,          \* null
  Session,       \* worker sessions
  MaxConcurrent, \* config.maxConcurrent
  MaxAttempts,   \* config.maxAttempts
  CheckRetries,  \* config.checkRetries
  MergeRetries,  \* config.mergeRetries
  Automation     \* config.automationDefault

\* What validateConfig accepts.
ASSUME ConfigAssumption ==
  /\ MaxConcurrent \in 1..8
  /\ MaxAttempts \in 0..5
  /\ CheckRetries \in 0..5
  /\ MergeRetries \in 0..5
  /\ Automation \in {"plan", "auto"}

Status == {"backlog", "planning", "queued", "running", "checking", "review",
           "merging", "done", "blocked"}

\* A deleted card; not a column, and every operation on it throws 404.
Removed == "removed"

AgentOwned == {"running", "checking", "merging"}

Plan  == [deliverable : {"pr", "report"}, review : {"human", "green"},
          text : Nat]   \* text: the revision of the card text it was judged from
Lease == [session : Session \cup {None}, live : BOOLEAN]

Pr    == [state : {"open", "closed", "merged"}, draft : BOOLEAN,
          mergeable : {"yes", "no", "computing"},
          checks : {"clean", "unknown", "dirty", "behind", "blocked"}]

Queue == [state : {"queued", "rebasing", "merging"}, enqueuedAt : Nat,
          rebaseAttempts : Nat]
Check == [stage : {"worker-finish", "waiting-ci", "waiting-diff",
                   "waiting-answer", "rebasing", "check-error"},
          age : Nat]
Reason == {"none", "by hand", "dispatch failed", "checks failed",
           "interrupted", "no change needed", "worker blocked", "pr"}

\* evaluation is None or a record whose plan is a Plan exactly when it is done.
Evaluation ==
  [status : {"running", "failed"}, plan : {None}]
    \cup [status : {"done"}, plan : Plan]

\* None is no session, number, lease, pull request or evaluation.
ASSUME NoneAssumption ==
  /\ None \notin Session /\ None \notin Nat
  /\ None \notin Lease /\ None \notin Pr /\ None \notin Evaluation

Card ==
  [status : Status \cup {Removed},
   text : Nat,                          \* revision of title and description
   evaluation : Evaluation \cup {None},
   attempts : Nat, checkAttempts : Nat, resumeAttempts : Nat,
   lease : Lease \cup {None},
   sessionRef : Session \cup {None},
   sessionIds : SUBSET Session,
   branch : Nat \cup {None},            \* the -r<attempts> suffix of its name
   pr : Pr \cup {None},
   queue : Queue \cup {None},
   check : Check \cup {None},
   blockedReason : Reason,
   queuedAt : Nat]                      \* 0 stands for null

NewCard(status, stamp) ==
  [status |-> status, text |-> 0, evaluation |-> None,
   attempts |-> 0, checkAttempts |-> 0, resumeAttempts |-> 0,
   lease |-> None, sessionRef |-> None, sessionIds |-> {},
   branch |-> None, pr |-> None, queue |-> None, check |-> None,
   blockedReason |-> "none",
   queuedAt |-> IF status = "queued" THEN stamp ELSE 0]

EnterQueued(k, stamp) ==
  [k EXCEPT !.status = "queued",
            !.queuedAt = IF @ = 0 THEN stamp ELSE @]

NewLease(session) == [session |-> session, live |-> TRUE]

\* sessionRef after the lease's session, when it has one, is folded into it.
LeasedSession(k) ==
  IF k.lease # None /\ k.lease.session # None
    THEN k.lease.session ELSE k.sessionRef

Exists(k)   == k.status # Removed
Active(k)   == k.status = "running" /\ k.lease # None /\ k.lease.live
HasPlan(k)  == k.evaluation # None /\ k.evaluation.status = "done"
UnmergedPr(k) == k.pr # None /\ k.pr.state # "merged"

-----------------------------------------------------------------------------
(* Dispatch: claim, abortClaim, linkSession, leases and their recycling.   *)

CanClaimAnything(k) == Exists(k) \* mutant
CanClaimOneTooFew(k) == k.status = "queued" /\ k.attempts < MaxAttempts \* mutant
CanClaim(k) == k.status = "queued"

Claim(k, branch) ==
  [k EXCEPT !.status = "running", !.branch = branch, !.pr = None,
            !.queue = None, !.blockedReason = "none", !.checkAttempts = 0,
            !.check = None, !.resumeAttempts = 0, !.lease = NewLease(None)]

RetryUncounted(k, stamp) == \* mutant
  IF k.attempts > MaxAttempts THEN [k EXCEPT !.status = "blocked"]
  ELSE EnterQueued([k EXCEPT !.lease = None], stamp)

RetryForever(k, stamp) == \* mutant
  EnterQueued([k EXCEPT !.attempts = @ + 1, !.lease = None], stamp)

\* The attempt budget shared by abortClaim and releaseStaleClaims.
Retry(k, stamp) ==
  LET r == [k EXCEPT !.attempts = @ + 1, !.lease = None]
  IN IF r.attempts > MaxAttempts
       THEN [r EXCEPT !.status = "blocked", !.blockedReason = "dispatch failed"]
       ELSE EnterQueued(r, stamp)

AbortClaim(k, stamp) == Retry(k, stamp)

LinkSession(k, session) ==
  [k EXCEPT !.sessionIds = @ \cup {session},
            !.sessionRef = session,
            !.lease = IF @ = None THEN None ELSE [@ EXCEPT !.session = session]]

RefreshLease(k) ==
  [k EXCEPT !.lease = IF @ = None THEN None ELSE [@ EXCEPT !.live = TRUE]]

\* releaseStaleClaims: which cards it recycles, which of those it may resume.
StaleOnlyStaffed(k) == \* mutant
  k.status = "running" /\ k.lease # None /\ k.lease.session # None /\ ~k.lease.live

Stale(k) == k.status = "running" /\ (k.lease = None \/ ~k.lease.live)

MayResumeOnceMore(k) == k.sessionRef # None /\ k.resumeAttempts <= MaxAttempts \* mutant

MayResume(k) == k.sessionRef # None /\ k.resumeAttempts < MaxAttempts

ApplyResumed(k) ==
  [k EXCEPT !.resumeAttempts = @ + 1, !.lease = NewLease(k.sessionRef)]

Recycle(k, stamp) ==
  Retry([k EXCEPT !.sessionRef = LeasedSession(k), !.resumeAttempts = 0], stamp)

-----------------------------------------------------------------------------
(* Planning: the evaluation life cycle.                                    *)

CanStartEvaluation(k) ==
  /\ k.status = "planning"
  /\ k.evaluation = None \/ k.evaluation.status = "failed"

StartEvaluation(k) ==
  [k EXCEPT !.evaluation = [status |-> "running", plan |-> None]]

CanSettleAnyEvaluation(k) == Exists(k) /\ k.evaluation # None \* mutant

CanSettleEvaluation(k) ==
  Exists(k) /\ k.evaluation # None /\ k.evaluation.status = "running"

CompleteAnywhere(k, plan, stamp) == \* mutant
  LET done == [k EXCEPT !.evaluation = [status |-> "done", plan |-> plan]]
  IN IF Automation = "auto" THEN EnterQueued(done, stamp) ELSE done

CompleteEvaluation(k, plan, stamp) ==
  LET done == [k EXCEPT !.evaluation = [status |-> "done", plan |-> plan]]
  IN IF k.status = "planning" /\ Automation = "auto"
       THEN EnterQueued(done, stamp) ELSE done

FailEvaluation(k) ==
  [k EXCEPT !.evaluation = [status |-> "failed", plan |-> None]]

-----------------------------------------------------------------------------
(* Running, checking, review.                                              *)

EnterCheckingAnywhere(k) == \* mutant
  [k EXCEPT !.status = "checking", !.sessionRef = LeasedSession(k), !.lease = None]

EnterChecking(k) ==
  IF k.status # "running" THEN k
  ELSE [k EXCEPT !.status = "checking", !.sessionRef = LeasedSession(k),
                 !.lease = None]

BackToRunning(k) ==
  IF k.status # "checking" \/ k.sessionRef = None THEN k
  ELSE [k EXCEPT !.status = "running", !.check = None,
                 !.lease = NewLease(k.sessionRef)]

MoveToReviewAnywhere(k) == [k EXCEPT !.status = "review", !.check = None] \* mutant

MoveToReview(k) ==
  IF k.status # "checking" THEN k
  ELSE [k EXCEPT !.status = "review", !.check = None]

MoveToMerging(k, stamp) ==
  IF k.status \notin {"checking", "review"} THEN k
  ELSE [k EXCEPT !.status = "merging", !.check = None,
                 !.queue = IF @ # None THEN @ ELSE
                   [state |-> "queued", enqueuedAt |-> stamp, rebaseAttempts |-> 0]]

\* The worker's receipts, refused outside running and checking.
CanReceipt(k) == k.status \in {"running", "checking"}

WorkerFinishUndated(k) == \* mutant
  IF k.status = "checking" THEN k
  ELSE [k EXCEPT !.status = "checking", !.lease = None,
                 !.check = [stage |-> "worker-finish"]]

WorkerFinish(k) ==
  IF k.status = "checking" THEN k
  ELSE [k EXCEPT !.status = "checking", !.sessionRef = LeasedSession(k),
                 !.lease = None,
                 !.check = [stage |-> "worker-finish", age |-> 0]]

ParkInReview(k, why) ==
  [k EXCEPT !.status = "review", !.sessionRef = LeasedSession(k),
            !.lease = None, !.check = None, !.blockedReason = why]

WorkerNoop(k) == ParkInReview(k, "no change needed")

WorkerInterrupted(k) ==
  IF k.status # "running" THEN k ELSE ParkInReview(k, "interrupted")

SendBackUncounted(k, attempts) == \* mutant
  IF k.status # "checking" THEN k
  ELSE [k EXCEPT !.status = "running", !.check = None,
                 !.lease = NewLease(k.sessionRef)]

SendBackForRework(k, attempts) ==
  IF k.status # "checking" THEN k
  ELSE [k EXCEPT !.status = "running", !.checkAttempts = attempts,
                 !.check = None,
                 !.lease = IF k.sessionRef # None
                             THEN NewLease(k.sessionRef) ELSE @]

SetPrBlocksClosed(k, pr) == \* mutant
  [k EXCEPT !.pr = pr, !.status = IF pr.state = "closed" THEN "blocked" ELSE @]

\* Write-backs without a guard on the column.
SetPr(k, pr)       == [k EXCEPT !.pr = pr]
SetQueue(k, queue) == [k EXCEPT !.queue = queue]
SetCheck(k, stage) == [k EXCEPT !.check = [stage |-> stage, age |-> 0]]

BlockTask(k, why) ==
  [k EXCEPT !.status = "blocked", !.blockedReason = why, !.queue = None,
            !.lease = None, !.check = None]

MarkMerged(k) ==
  [k EXCEPT !.status = "done", !.queue = None, !.lease = None,
            !.pr = IF @ = None THEN None ELSE [@ EXCEPT !.state = "merged"]]

-----------------------------------------------------------------------------
(* What a human does: taskAction, update (PATCH), remove.                  *)

CanApprove(k)  == k.status = "planning" /\ HasPlan(k)
Approve(k, stamp) == EnterQueued(k, stamp)

CanRetryEvaluation(k) ==
  k.status = "planning" /\ k.evaluation # None /\ k.evaluation.status = "failed"
RetryEvaluation(k) == [k EXCEPT !.evaluation = None]

CanMerge(k) == k.status = "review" /\ k.pr # None /\ k.queue = None
Merge(k, stamp) ==
  [k EXCEPT !.status = "merging",
            !.queue = [state |-> "queued", enqueuedAt |-> stamp, rebaseAttempts |-> 0]]

CanAccept(k) == k.status = "review" /\ ~UnmergedPr(k)
Accept(k)    == [k EXCEPT !.status = "done", !.queue = None]

CanReturn(k) == k.status = "review"
Return(k, stamp) ==
  LET back == [k EXCEPT !.queue = None]
  IN IF k.sessionRef = None THEN EnterQueued(back, stamp)
     ELSE [back EXCEPT !.status = "running", !.lease = NewLease(k.sessionRef)]

\* update with a status: any target but an agent-owned one.
CanMove(k, target) ==
  Exists(k) /\ target \in Status \ AgentOwned /\ target # k.status
Move(k, target, stamp) ==
  [k EXCEPT !.status = target,
            !.blockedReason = IF target = "blocked" THEN "by hand"
                              ELSE IF k.status = "blocked" THEN "none" ELSE @,
            !.queuedAt = IF target = "queued" /\ @ = 0 THEN stamp ELSE @]

\* update with a title or a description: the card is judged again.
Edit(k) ==
  [k EXCEPT !.text = @ + 1, !.evaluation = None,
            !.status = IF @ \in {"queued", "running", "checking", "review", "merging"}
                         THEN "planning" ELSE @]

CanRemove(k) == Exists(k) /\ k.status \notin {"running", "merging"}
Remove(k)    == [k EXCEPT !.status = Removed]
=============================================================================
