--------------------------- MODULE BoardDispatch ---------------------------
(***************************************************************************)
(* The Queued and Running columns: board/dispatcher.js, the reclaim,       *)
(* dispatch and running parts of board/reconciler.js, the worker receipts  *)
(* of board/agent-actions.js and the startup resume.                       *)
(*                                                                         *)
(* Several dispatch passes run at once: the reconciler's own, and one for  *)
(* every request that queues or approves a card, plus manual claims.  Each *)
(* of them gives up control while it resolves the project, creates the     *)
(* worker session and grants its permissions.  The reconciler, of which    *)
(* one pass runs at a time, gives up control while it wakes sessions and   *)
(* asks for their status, and goes on with the document it loaded before.  *)
(***************************************************************************)
EXTENDS BoardCard, FiniteSets

CONSTANTS
  CardId,      \* cards of the board
  Pass,        \* dispatch passes and manual claims running together
  MaxActs,     \* bound on what the human does
  MaxExpiries, \* bound on leases that run out although their worker is alive
  MaxCrashes   \* bound on the server's restarts

ASSUME DispatchAssumption ==
  /\ IsFiniteSet(CardId) /\ IsFiniteSet(Pass) /\ Pass # {}
  /\ None \notin CardId /\ None \notin Pass
  /\ MaxActs \in Nat /\ MaxExpiries \in Nat /\ MaxCrashes \in Nat

VARIABLES
  cards,    \* board.json
  project,  \* the project of each card, and whether the settings know it
  sessions, \* worker sessions in OpenCode
  branches, \* git branches made for a card, by attempt suffix
  passes,   \* dispatch passes and manual claims
  rec,      \* the reconcile pass
  startup,  \* resumeInterruptedPass after a restart
  acts, expiries, crashes, \* what has been spent of the bounds
  nudges,   \* history: wakes by reclaim on record since a card was put to work
  bypass    \* history: cards that took a slot without passing the capacity gate

vars == <<cards, project, sessions, branches, passes, rec, startup,
          acts, expiries, crashes, nudges, bypass>>

\* A card has no project, a configured one, or one that was removed from the settings.
ProjectState == {"none", "known", "gone"}
SessionState == {"unused", "busy", "idle", "aborted", "gone"}

\* A pass: at "next" it takes the next card of todo; at "resolving" it awaits
\* the project, at "creating" the session, at "granting" its permissions.
PassState == [pc : {"idle", "next", "resolving", "creating", "granting"},
              todo : SUBSET CardId, card : CardId \cup {None},
              branch : Nat \cup {None}, session : Session \cup {None}]

\* todo: the cards of the document loaded that are still to be looked at; ref:
\* the session each of them had there, or None when it may not be resumed.
RecState == [pc : {"idle", "reclaim", "dispatch", "sessions"},
             pass : Pass \cup {None}, todo : SUBSET CardId,
             ref : [CardId -> Session \cup {None}],
             resumed : SUBSET CardId, recycled : SUBSET CardId,
             dirty : BOOLEAN]

StartupState == [due : BOOLEAN, todo : SUBSET CardId,
                 ref : [CardId -> Session \cup {None}]]

TypeOK ==
  /\ cards \in [CardId -> Card]
  /\ project \in [CardId -> ProjectState]
  /\ sessions \in [Session -> SessionState]
  /\ branches \subseteq CardId \X Nat
  /\ passes \in [Pass -> PassState]
  /\ rec \in RecState
  /\ startup \in StartupState
  /\ acts \in Nat /\ expiries \in Nat /\ crashes \in Nat
  /\ nudges \in [CardId -> Nat]
  /\ bypass \in Nat

IdlePass == [pc |-> "idle", todo |-> {}, card |-> None,
             branch |-> None, session |-> None]
NoRef == [c \in CardId |-> None]
IdleRec == [pc |-> "idle", pass |-> None, todo |-> {}, ref |-> NoRef,
            resumed |-> {}, recycled |-> {}, dirty |-> FALSE]
Started == [due |-> FALSE, todo |-> {}, ref |-> NoRef]

\* The cards were created in the queue one after the other; some of CardId may
\* be deleted ones, so that smaller boards are among the initial states.
Init ==
  /\ \E order \in [CardId -> 1..Cardinality(CardId)], gone \in SUBSET CardId :
       /\ \A c, d \in CardId : order[c] = order[d] => c = d
       /\ cards = [c \in CardId |-> IF c \in gone THEN Remove(NewCard("queued", order[c]))
                                   ELSE NewCard("queued", order[c])]
  /\ project \in [CardId -> ProjectState]
  /\ sessions = [s \in Session |-> "unused"]
  /\ branches = {}
  /\ passes = [p \in Pass |-> IdlePass]
  /\ rec = IdleRec
  /\ startup = Started
  /\ acts = 0 /\ expiries = 0 /\ crashes = 0
  /\ nudges = [c \in CardId |-> 0]
  /\ bypass = 0

-----------------------------------------------------------------------------
(* Counting and saving.                                                    *)

\* activeCount
ActiveCards == {c \in CardId : Active(cards[c])}
QueuedCards == {c \in CardId : cards[c].status = "queued"}

\* queuedAt is set once per card, so the next stamp counts the cards that have one.
Stamp == 1 + Cardinality({c \in CardId : cards[c].queuedAt > 0})

\* nextQueued: the oldest n queued cards.
NextQueued(n) ==
  {c \in QueuedCards :
     Cardinality({d \in QueuedCards : cards[d].queuedAt < cards[c].queuedAt}) < n}

\* Every save moves board.json past the revision a reclaim in progress loaded.
Touched == IF rec.pc = "reclaim" THEN [rec EXCEPT !.dirty = TRUE] ELSE rec

\* saveDoc of one card outside the claim path.
Store(c, k) ==
  /\ cards' = [cards EXCEPT ![c] = k]
  /\ bypass' = IF Active(k) /\ ~Active(cards[c]) THEN bypass + 1 ELSE bypass

Save(c, k) == Store(c, k) /\ rec' = Touched

-----------------------------------------------------------------------------
(* Dispatch passes.                                                        *)

\* Nothing but the pass itself changes.
PassOnly(p, state) ==
  /\ passes' = [passes EXCEPT ![p] = state]
  /\ UNCHANGED <<cards, project, sessions, branches, rec, startup, acts, expiries,
                 crashes, nudges, bypass>>

\* What a dispatch pass goes through: the oldest cards, as many as slots are free, but
\* those among them that have no project.
Round == {c \in NextQueued(MaxConcurrent - Cardinality(ActiveCards)) : project[c] # "none"}

\* dispatchPass up to its loop.
BeginPass(p) ==
  /\ passes[p].pc = "idle" /\ p # rec.pass
  /\ Cardinality(ActiveCards) < MaxConcurrent
  /\ QueuedCards # {}
  /\ PassOnly(p, [IdlePass EXCEPT !.pc = "next", !.todo = Round])

\* POST claim: claimTask on a card the human picked (refused unless queued).
BeginClaim(p) ==
  /\ passes[p].pc = "idle" /\ p # rec.pass
  /\ \E c \in QueuedCards :
       PassOnly(p, [IdlePass EXCEPT !.pc = "next", !.todo = {c}])

\* claimTask up to resolveProject.  A refusal is logged and the pass goes on.
CanTakeOverCapacity(c) == cards[c].status = "queued" /\ project[c] # "none" \* mutant

CanTake(c) ==
  /\ cards[c].status = "queued" /\ project[c] # "none"
  /\ Cardinality(ActiveCards) < MaxConcurrent

Take(p) ==
  /\ passes[p].pc = "next"
  /\ \E c \in passes[p].todo :
       /\ \A d \in passes[p].todo : cards[c].queuedAt <= cards[d].queuedAt
       /\ LET rest == [passes[p] EXCEPT !.todo = @ \ {c}] IN
          PassOnly(p, IF CanTake(c)
                        THEN [rest EXCEPT !.pc = "resolving", !.card = c,
                                          !.branch = cards[c].attempts]
                        ELSE rest)

EndPass(p) ==
  passes[p].pc = "next" /\ passes[p].todo = {} /\ PassOnly(p, IdlePass)

\* The pass drops its card and goes on with the rest of its list.
Onward(p) == [IdlePass EXCEPT !.pc = "next", !.todo = passes[p].todo]

\* The project is gone, the settings cannot be read, or the card left the queue.
Refused(p) ==
  passes[p].pc = "resolving" /\ PassOnly(p, Onward(p))

\* claimTask from the end of resolveProject to sessionService.create.
Reserve(p) ==
  LET c == passes[p].card IN
  /\ passes[p].pc = "resolving" /\ project[c] = "known"
  /\ CanClaim(cards[c])
  /\ cards' = [cards EXCEPT ![c] = Claim(@, passes[p].branch)]
  /\ rec' = Touched
  /\ passes' = [passes EXCEPT ![p].pc = "creating"]
  /\ nudges' = [nudges EXCEPT ![c] = 0]
  /\ UNCHANGED <<project, sessions, branches, startup, acts, expiries, crashes, bypass>>

\* The session runs in a new worktree on a new branch, and its prompt is sent.
Created(p) ==
  LET made == <<passes[p].card, passes[p].branch>> IN
  /\ passes[p].pc = "creating"
  /\ made \notin branches
  /\ \E s \in Session :
       /\ sessions[s] = "unused"
       /\ sessions' = [sessions EXCEPT ![s] = "busy"]
       /\ passes' = [passes EXCEPT ![p] = [@ EXCEPT !.pc = "granting", !.session = s]]
  /\ branches' = branches \cup {made}
  /\ UNCHANGED <<cards, project, rec, startup, acts, expiries, crashes, nudges, bypass>>

\* scheduleCleanup asks for the card's branch to be deleted; git refuses while a
\* worktree has it checked out.
Cleanup(c) == branches' \in {branches, branches \ {<<c, cards[c].branch>>}}

\* create failed, as it does when the branch exists: abortClaim.
CreateFailed(p) ==
  LET c == passes[p].card IN
  /\ passes[p].pc = "creating"
  /\ IF Exists(cards[c]) THEN Save(c, AbortClaim(cards[c], Stamp)) /\ Cleanup(c)
     ELSE UNCHANGED <<cards, rec, bypass, branches>>
  /\ passes' = [passes EXCEPT ![p] = Onward(p)]
  /\ UNCHANGED <<project, sessions, startup, acts, expiries, crashes, nudges>>

LinkedIfStillRunning(p) == \* mutant
  LET c == passes[p].card IN
  /\ passes[p].pc = "granting"
  /\ IF cards[c].status = "running"
       THEN Save(c, LinkSession(cards[c], passes[p].session))
       ELSE UNCHANGED <<cards, rec, bypass>>
  /\ passes' = [passes EXCEPT ![p] = Onward(p)]
  /\ UNCHANGED <<project, sessions, branches, startup, acts, expiries, crashes, nudges>>

\* enableSessionAutoAccept returned (or failed, which is only logged): linkSession.
Linked(p) ==
  LET c == passes[p].card IN
  /\ passes[p].pc = "granting"
  /\ IF Exists(cards[c]) THEN Save(c, LinkSession(cards[c], passes[p].session))
     ELSE UNCHANGED <<cards, rec, bypass>>
  /\ passes' = [passes EXCEPT ![p] = Onward(p)]
  /\ UNCHANGED <<project, sessions, branches, startup, acts, expiries, crashes, nudges>>

-----------------------------------------------------------------------------
(* The reconcile pass: reclaim, dispatch, running cards.                   *)

StaleCards == {c \in CardId : Stale(cards[c])}

\* The running cards that have a session, and the sessions of a set of cards.
WorkedOn == {c \in CardId : cards[c].status = "running" /\ cards[c].sessionRef # None}
RefsOf(set) == [c \in CardId |-> IF c \in set THEN cards[c].sessionRef ELSE None]

\* releaseStaleClaims loads the document; without a stale claim it does nothing.
BeginReconcile ==
  /\ rec.pc = "idle"
  /\ rec' = IF StaleCards = {} THEN [IdleRec EXCEPT !.pc = "dispatch"]
            ELSE [IdleRec EXCEPT !.pc = "reclaim", !.todo = StaleCards,
                   !.ref = RefsOf({c \in StaleCards : MayResume(cards[c])})]
  /\ UNCHANGED <<cards, project, sessions, branches, passes, startup, acts, expiries,
                 crashes, nudges, bypass>>

\* boardResumeWorker: the session exists and takes the prompt.
Wakes(s) == sessions[s] \in {"busy", "idle", "aborted"}

\* tryResume succeeded for a card of the loaded document.
ReclaimResumes(c) ==
  LET s == rec.ref[c] IN
  /\ rec.pc = "reclaim" /\ c \in rec.todo
  /\ s # None /\ Wakes(s)
  /\ sessions' = [sessions EXCEPT ![s] = "busy"]
  /\ rec' = [rec EXCEPT !.todo = @ \ {c}, !.ref[c] = None, !.resumed = @ \cup {c}]
  /\ UNCHANGED <<cards, project, branches, passes, startup, acts, expiries, crashes,
                 nudges, bypass>>

\* tryResume failed, or the card has no session or no budget to resume.
ReclaimRecycles(c) ==
  /\ rec.pc = "reclaim" /\ c \in rec.todo
  /\ rec' = [rec EXCEPT !.todo = @ \ {c}, !.ref[c] = None, !.recycled = @ \cup {c}]
  /\ UNCHANGED <<cards, project, sessions, branches, passes, startup, acts, expiries,
                 crashes, nudges, bypass>>

\* saveDoc with the revision loaded: 409, caught and logged, when it is stale.
ReclaimSaves ==
  /\ rec.pc = "reclaim" /\ rec.todo = {}
  /\ rec' = [IdleRec EXCEPT !.pc = "dispatch"]
  /\ IF rec.dirty THEN UNCHANGED <<cards, nudges, bypass>>
     ELSE /\ cards' = [c \in CardId |->
                         IF c \in rec.resumed THEN ApplyResumed(cards[c])
                         ELSE IF c \in rec.recycled THEN Recycle(cards[c], Stamp)
                         ELSE cards[c]]
          /\ bypass' = bypass + Cardinality(rec.resumed)
          /\ nudges' = [c \in CardId |-> IF c \in rec.resumed THEN nudges[c] + 1
                                         ELSE nudges[c]]
  /\ UNCHANGED <<project, sessions, branches, passes, startup, acts, expiries, crashes>>

\* The reconciler's own dispatch pass; with nothing to do it returns at once.
ReconcileDispatches(p) ==
  /\ rec.pc = "dispatch" /\ rec.pass = None
  /\ passes[p].pc = "idle"
  /\ Cardinality(ActiveCards) < MaxConcurrent /\ QueuedCards # {}
  /\ passes' = [passes EXCEPT ![p] = [IdlePass EXCEPT !.pc = "next", !.todo = Round]]
  /\ rec' = [rec EXCEPT !.pass = p]
  /\ UNCHANGED <<cards, project, sessions, branches, startup, acts, expiries, crashes,
                 nudges, bypass>>

\* The document the rest of the pass works on is loaded here; the pass skips cards
\* whose project it does not find.
ReconcileObserves ==
  /\ rec.pc = "dispatch"
  /\ IF rec.pass = None
       THEN Cardinality(ActiveCards) >= MaxConcurrent \/ QueuedCards = {}
       ELSE passes[rec.pass].pc = "idle"
  /\ rec' = [IdleRec EXCEPT !.pc = "sessions", !.ref = RefsOf(WorkedOn),
                             !.todo = {c \in WorkedOn : project[c] = "known"}]
  /\ UNCHANGED <<cards, project, sessions, branches, passes, startup, acts, expiries,
                 crashes, nudges, bypass>>

\* One running card of that document: what the status of its session calls for.
\* The write that follows the answer looks at the card alone, so asking and
\* writing are one step.
Observed(c) ==
  LET seen == sessions[rec.ref[c]]
      now  == cards[c]
      onward == [rec EXCEPT !.todo = @ \ {c}, !.ref[c] = None]
  IN
  /\ rec.pc = "sessions" /\ c \in rec.todo
  /\ \/ seen = "busy" /\ Exists(now) /\ Store(c, RefreshLease(now)) /\ rec' = onward
     \/ \* an interruption that cannot be asked for passes as none
        /\ seen \in {"idle", "aborted"} /\ Exists(now)
        /\ Store(c, EnterChecking(now)) /\ rec' = onward
     \/ /\ seen \in {"aborted", "gone"} /\ Exists(now)
        /\ Store(c, WorkerInterrupted(now)) /\ rec' = onward
     \/ \* status unknown, or idle within the grace period
        rec' = onward /\ UNCHANGED <<cards, bypass>>
     \/ \* 404: the error ends the pass
        ~Exists(now) /\ rec' = IdleRec /\ UNCHANGED <<cards, bypass>>
  /\ UNCHANGED <<project, sessions, branches, passes, startup, acts, expiries,
                 crashes, nudges>>

EndReconcile ==
  /\ rec.pc = "sessions" /\ rec.todo = {}
  /\ rec' = IdleRec
  /\ UNCHANGED <<cards, project, sessions, branches, passes, startup, acts, expiries,
                 crashes, nudges, bypass>>

-----------------------------------------------------------------------------
(* Worker sessions and leases.                                             *)

SessionBecomes(s, from, to) ==
  /\ sessions[s] \in from
  /\ sessions' = [sessions EXCEPT ![s] = to]

WorldOnly == UNCHANGED <<cards, project, branches, passes, rec, startup, expiries,
                         crashes, nudges, bypass>>

WorkerStops(s) == SessionBecomes(s, {"busy"}, "idle") /\ WorldOnly /\ UNCHANGED acts

\* The human writes to the session, aborts its turn, or archives it.
HumanOnSession(s) ==
  /\ acts < MaxActs /\ acts' = acts + 1
  /\ \/ SessionBecomes(s, {"idle", "aborted"}, "busy")
     \/ SessionBecomes(s, {"busy"}, "aborted")
     \/ SessionBecomes(s, {"busy", "idle", "aborted"}, "gone")
  /\ WorldOnly

\* agent-actions.js: the card is found by the worktree of the calling session.
Receipt(s, c) ==
  /\ sessions[s] = "busy"
  /\ cards[c].sessionRef = s
  /\ CanReceipt(cards[c])
  /\ \/ Save(c, WorkerFinish(cards[c])) /\ UNCHANGED branches
     \/ Save(c, WorkerNoop(cards[c])) /\ UNCHANGED branches
     \/ Save(c, BlockTask(cards[c], "worker blocked")) /\ Cleanup(c)
  /\ UNCHANGED <<project, sessions, passes, startup, acts, expiries, crashes, nudges>>

\* A lease nothing renews runs out; MaxExpiries bounds those of live claims
\* (the machine slept, OpenCode could not be reached for half an hour).
Spawning(c) == \E p \in Pass : passes[p].card = c /\ passes[p].pc \in {"creating", "granting"}
WorkerAlive(k) == LeasedSession(k) # None /\ sessions[LeasedSession(k)] = "busy"
Alive(c) == Spawning(c) \/ WorkerAlive(cards[c])

LeaseExpires(c) ==
  /\ Active(cards[c])
  /\ IF Alive(c)
       THEN expiries < MaxExpiries /\ expiries' = expiries + 1
       ELSE UNCHANGED expiries
  /\ cards' = [cards EXCEPT ![c].lease.live = FALSE]
  /\ UNCHANGED <<project, sessions, branches, passes, rec, startup, acts, crashes,
                 nudges, bypass>>

-----------------------------------------------------------------------------
(* The human, and restarts.                                                *)

Human(c, k) ==
  /\ acts < MaxActs
  /\ acts' = acts + 1
  /\ Save(c, k)
  /\ UNCHANGED <<passes, startup, expiries, crashes>>

MoveCard(c, target) ==
  /\ CanMove(cards[c], target) /\ Human(c, Move(cards[c], target, Stamp))
  /\ UNCHANGED <<project, sessions, branches, nudges>>
EditCard(c) ==
  /\ Exists(cards[c]) /\ Human(c, Edit(cards[c]))
  /\ UNCHANGED <<project, sessions, branches, nudges>>

\* A card in blocked or done leaves its branch behind, which is cleaned up.
RemoveCard(c) ==
  /\ CanRemove(cards[c]) /\ Human(c, Remove(cards[c]))
  /\ IF cards[c].status \in {"blocked", "done"} THEN Cleanup(c) ELSE UNCHANGED branches
  /\ UNCHANGED <<project, sessions, nudges>>

\* return: the note goes to the worker's session, when there is one to take it.
ReturnCard(c) ==
  LET k == cards[c] IN
  /\ CanReturn(k)
  /\ Human(c, Return(k, Stamp))
  /\ sessions' = IF k.sessionRef # None /\ Wakes(k.sessionRef)
                   THEN [sessions EXCEPT ![k.sessionRef] = "busy"] ELSE sessions
  /\ nudges' = [nudges EXCEPT ![c] = 0]
  /\ UNCHANGED <<project, branches>>

\* update with a project or without one.
AssignProject(c) ==
  /\ Exists(cards[c]) /\ Human(c, cards[c])
  /\ \E to \in {"none", "known"} : project' = [project EXCEPT ![c] = to]
  /\ UNCHANGED <<sessions, branches, nudges>>

\* The settings lose the project of some cards, or have it again.
ChangeSettings ==
  /\ acts < MaxActs
  /\ acts' = acts + 1
  /\ \E from, to \in {"known", "gone"}, some \in SUBSET CardId :
       /\ from # to /\ some # {} /\ \A c \in some : project[c] = from
       /\ project' = [c \in CardId |-> IF c \in some THEN to ELSE project[c]]
  /\ UNCHANGED <<cards, sessions, branches, passes, rec, startup, expiries,
                 crashes, nudges, bypass>>

\* The server restarts; the sessions that ran under it may have stopped too.
Crash ==
  /\ crashes < MaxCrashes
  /\ crashes' = crashes + 1
  /\ \E stopped \in {{}, {s \in Session : sessions[s] = "busy"}} :
       sessions' = [s \in Session |-> IF s \in stopped THEN "idle" ELSE sessions[s]]
  /\ passes' = [p \in Pass |-> IdlePass]
  /\ rec' = IdleRec
  /\ startup' = [Started EXCEPT !.due = TRUE]
  /\ UNCHANGED <<cards, project, branches, acts, expiries, nudges, bypass>>

\* OpenCode is ready: resumeInterruptedPass loads the document.
StartupBegins ==
  /\ startup.due
  /\ startup' = [due |-> FALSE, todo |-> WorkedOn, ref |-> RefsOf(WorkedOn)]
  /\ UNCHANGED <<cards, project, sessions, branches, passes, rec, acts, expiries,
                 crashes, nudges, bypass>>

\* resumeInterruptedPass: a card whose session is not busy is nudged.
StartupResume(c) ==
  LET s == startup.ref[c] IN
  /\ c \in startup.todo
  /\ startup' = [startup EXCEPT !.todo = @ \ {c}, !.ref[c] = None]
  /\ \/ /\ sessions[s] # "busy" /\ Wakes(s)
        /\ sessions' = [sessions EXCEPT ![s] = "busy"]
        /\ IF Exists(cards[c]) /\ cards[c].lease # None THEN Save(c, RefreshLease(cards[c]))
           ELSE UNCHANGED <<cards, rec, bypass>>
     \/ \* still busy, gone, or not reachable
        UNCHANGED <<cards, sessions, rec, bypass>>
  /\ UNCHANGED <<project, branches, passes, acts, expiries, crashes, nudges>>

-----------------------------------------------------------------------------
Dispatching(p) ==
  Take(p) \/ EndPass(p) \/ Refused(p) \/ Reserve(p) \/ Created(p)
    \/ CreateFailed(p) \/ Linked(p)

Reconciling ==
  \/ BeginReconcile \/ ReclaimSaves \/ ReconcileObserves \/ EndReconcile
  \/ \E c \in CardId : ReclaimResumes(c) \/ ReclaimRecycles(c) \/ Observed(c)
  \/ \E p \in Pass : ReconcileDispatches(p)

Next ==
  \/ \E p \in Pass : BeginPass(p) \/ BeginClaim(p) \/ Dispatching(p)
  \/ Reconciling
  \/ \E s \in Session :
       WorkerStops(s) \/ HumanOnSession(s) \/ \E c \in CardId : Receipt(s, c)
  \/ \E c \in CardId :
       \/ LeaseExpires(c) \/ EditCard(c) \/ RemoveCard(c) \/ ReturnCard(c)
       \/ AssignProject(c) \/ StartupResume(c) \/ \E target \in Status : MoveCard(c, target)
  \/ ChangeSettings \/ Crash \/ StartupBegins

Spec == Init /\ [][Next]_vars
-----------------------------------------------------------------------------
(* Liveness: the reconcile loop keeps running (strongly, since Pass is a   *)
(* bound of the model: people's claims do not keep the loop's own pass     *)
(* from starting), the awaits of a pass end, the settings that have a      *)
(* card's project can be read when they are asked again and again, and a   *)
(* worker stops some time.  A claim without a worker behind it runs out.   *)
(* Nothing gives a card a project, or brings one back that was removed.    *)

Fairness ==
  /\ SF_vars(Reconciling)
  /\ \A c \in CardId :
       /\ WF_vars(LeaseExpires(c) /\ ~Alive(c))
       /\ WF_vars(StartupResume(c))
  /\ WF_vars(StartupBegins)
  /\ \A p \in Pass : WF_vars(Dispatching(p)) /\ SF_vars(Reserve(p))
  /\ \A s \in Session : WF_vars(WorkerStops(s))

FairSpec == Spec /\ Fairness

-----------------------------------------------------------------------------
(* Properties.                                                             *)

Resolving == {p \in Pass : passes[p].pc = "resolving"}

\* How far the capacity of the board can be exceeded.  claimTask checks it
\* before an await and claims after it, so every pass but one may be a card
\* too late; on top of that come only cards that take a slot without a claim
\* (return, resume, a heartbeat on an expired lease).  With one pass and none
\* of those the bound is maxConcurrent itself.
CapacityBound ==
  Cardinality(ActiveCards) <= MaxConcurrent + (Cardinality(Pass) - 1) + bypass

\* Two passes that pick the same card never both create a session for it
\* (service.js, claim: "so concurrent claimants cannot spawn two sessions for one
\* task"), as long as nobody moves a card and no lease runs out in mid-claim.
NoTwinSpawn ==
  acts = 0 /\ expiries = 0 =>
    \A p, q \in Pass :
      /\ passes[p].pc \in {"creating", "granting"}
      /\ passes[q].pc \in {"creating", "granting"}
      /\ passes[p].card = passes[q].card
      => p = q

\* Without restarts no worker session is lost: each one is on record at a card,
\* in the hands of the pass that will record it, or a claimed card was deleted.
NoOrphanWorker ==
  crashes = 0 =>
    \A s \in Session : sessions[s] # "unused" =>
      \/ \E c \in CardId : \/ s \in cards[c].sessionIds
                           \/ cards[c].branch # None /\ ~Exists(cards[c])
      \/ \E p \in Pass : passes[p].pc = "granting" /\ passes[p].session = s

\* The pipeline never queues a card again whose dispatch attempts are spent,
\* neither on a failed claim nor on a reclaim nor on both in turn.
RequeuesWithinBudget ==
  [][\A c \in CardId :
       (cards[c].status # "queued" /\ cards'[c].status = "queued" /\ acts' = acts)
         => cards'[c].attempts <= MaxAttempts]_vars

\* Once a card was put to work, reclaim wakes its worker at most maxAttempts
\* times: no heartbeat, restart or second lapse of the lease in between gives the
\* budget back (service.js, refreshLease: "the budget eventually exhausts and
\* prevents infinite resume loops").  Wakes whose save was refused are not on
\* record.
ResumesWithinBudget == \A c \in CardId : nudges[c] <= MaxAttempts

\* The opposite promise: a live heartbeat gives the worker its wakes back
\* (DOCUMENTATION.md, contract: "the resume budget (`resumeAttempts`, shared cap
\* `maxAttempts`, reset by a live heartbeat)").  A lease that the reconciler finds run
\* out and renews is a heartbeat for certain.
HeartbeatResetsBudget ==
  [][\A c \in CardId :
       (/\ rec.pc = "sessions" /\ rec'.pc = "sessions"
        /\ cards[c].lease # None /\ ~cards[c].lease.live
        /\ cards'[c].lease # None /\ cards'[c].lease.live)
         => cards'[c].resumeAttempts = 0]_vars

\* A running card goes to the checker only when the session of its current
\* claim went idle or reported (DOCUMENTATION.md, columns, running: "session
\* idle past grace -> checking").  While the session is being created there
\* is none.
CheckedWhenOwnWorkerStops ==
  [][\A c \in CardId :
       (cards[c].status = "running" /\ cards'[c].status = "checking")
         => cards[c].lease # None /\ cards[c].lease.session # None]_vars

\* Left alone, a session is started on a branch its card has used before only when the
\* pass had read the suffix before an attempt that another pass made meanwhile was
\* used up; one pass never does, however failed claims, recycled leases and restarts
\* alternate (dispatcher.js: "Reworks retry with a fresh branch/worktree so a reused
\* card never collides with its previous attempt", which holds no further than this).
FreshBranch ==
  acts = 0 =>
    \A p \in Pass :
      passes[p].pc = "creating" /\ <<passes[p].card, passes[p].branch>> \in branches
        => Pass # {p} /\ passes[p].branch < cards[passes[p].card].attempts

\* A pass can get at a card: its project is configured, and fewer cards that no pass
\* can start are ahead of it in the queue than there are slots.
Reachable(c) ==
  /\ project[c] = "known"
  /\ Cardinality({d \in QueuedCards : /\ project[d] # "known"
                                      /\ cards[d].queuedAt < cards[c].queuedAt})
       < MaxConcurrent

\* A queued card that passes can get at does not wait forever, whatever fails before
\* it: it is dispatched, or blocked when its attempts are spent, or people take it
\* away.  nextQueued hands out as many cards as slots are free and dispatchPass skips
\* those without a project afterwards, so the cards behind enough of these do wait.
QueueDrains ==
  \A c \in CardId :
    []<>(cards[c].status # "queued" \/ ~Reachable(c))

\* A running card never stays without a session: the session of its claim is
\* recorded, or the card is recycled, after a restart in the middle of a
\* dispatch too.
Unstaffed(k) == k.status = "running" /\ (k.lease # None => k.lease.session = None)
ClaimsSettle == \A c \in CardId : []<>~Unstaffed(cards[c])

\* Dispatching implements the board's columns: people's requests apart, a card
\* moves only along the pipeline's edges, is put back only on its attempt budget
\* and only from running or by the roll-back of its own claim.
Columns == INSTANCE BoardColumns WITH
  column   <- [c \in CardId |-> cards[c].status],
  attempts <- [c \in CardId |-> cards[c].attempts],
  claiming <- {c \in CardId : Spawning(c)},
  requests <- acts

ImplementsColumns == Columns!Spec
=============================================================================
