----------------------------- MODULE BoardMerge -----------------------------
(***************************************************************************)
(* The Review and Merging columns: the last two phases of a reconcile pass *)
(* (board/reconciler.js), which refresh the pull request facts of every    *)
(* card on a branch and then drive the oldest card of the merge queue one  *)
(* step, against GitHub and the people who move cards meanwhile.  A call   *)
(* to GitHub may have its effect and still fail for the caller; the server *)
(* may go down between a merge and its record on the board.                *)
(***************************************************************************)
EXTENDS BoardCard, FiniteSetsExt

CONSTANTS
  CardId,       \* cards of the board
  MaxPrChanges, \* bound on what others do on GitHub
  MaxRefusals,  \* bound on merges GitHub refuses or whose answer is lost
  MaxActs,      \* bound on what the human does
  MaxCrashes    \* bound on restarts

ASSUME MergeAssumption ==
  /\ IsFiniteSet(CardId) /\ None \notin CardId
  /\ MaxPrChanges \in Nat /\ MaxRefusals \in Nat
  /\ MaxActs \in Nat /\ MaxCrashes \in Nat

VARIABLES
  cards,   \* board.json
  github,  \* the pull request of each card's branch
  lost,    \* cards that have no project, or one the settings no longer know
  rec,     \* the reconcile pass
  prChanges, refusals, acts, crashes \* what has been spent of the bounds

vars == <<cards, github, lost, rec, prChanges, refusals, acts, crashes>>
bounds == <<prChanges, refusals, acts, crashes>>

\* "checking" stands for the phases before; at "facts" the pass takes the next
\* card of the document it loaded, at "resolved" GitHub has answered; at
\* "updating", "merging" and "updatingAfter405" it awaits GitHub for the head
\* of the merge queue, which it knows as it was loaded.
RecState == [pc : {"idle", "checking", "facts", "resolved", "updating",
                   "merging", "updatingAfter405"},
             todo : SUBSET CardId, card : CardId \cup {None},
             was : [CardId -> Pr \cup {None}], fact : Pr \cup {None},
             queue : Queue \cup {None}]

TypeOK ==
  /\ cards \in [CardId -> Card]
  /\ github \in [CardId -> Pr]
  /\ lost \subseteq CardId
  /\ rec \in RecState
  /\ prChanges \in Nat /\ refusals \in Nat /\ acts \in Nat /\ crashes \in Nat

IdleRec == [pc |-> "idle", todo |-> {}, card |-> None,
            was |-> [c \in CardId |-> None], fact |-> None, queue |-> None]

Facts(checks, mergeable) ==
  [state |-> "open", draft |-> FALSE, mergeable |-> mergeable, checks |-> checks]

\* Later than every enqueuedAt on the board.
Stamp == 1 + Max({0} \cup {cards[c].queue.enqueuedAt :
                             c \in {d \in CardId : cards[d].queue # None}})

\* A card whose worker opened a pull request and stopped.
Delivered(session) ==
  LET plan == [deliverable |-> "pr", review |-> "green", text |-> 0]
      k    == [NewCard("queued", 1) EXCEPT
                 !.evaluation = [status |-> "done", plan |-> plan]]
  IN SetPr(EnterChecking(LinkSession(Claim(k, 0), session)),
           Facts("unknown", "computing"))

\* Some of CardId may be deleted cards: smaller boards are among the initial states.
Init ==
  /\ \E s \in Session, gone \in SUBSET CardId :
       /\ \E reviewed \in SUBSET (CardId \ gone) :
            cards = [c \in CardId |->
                       IF c \in gone THEN Remove(Delivered(s))
                       ELSE IF c \in reviewed THEN MoveToReview(Delivered(s))
                       ELSE Delivered(s)]
       /\ github = [c \in CardId |->
                      [Facts("unknown", "computing") EXCEPT
                         !.state = IF c \in gone THEN "closed" ELSE @]]
  /\ lost \in SUBSET CardId
  /\ rec = IdleRec
  /\ prChanges = 0 /\ refusals = 0 /\ acts = 0 /\ crashes = 0

-----------------------------------------------------------------------------
(* A pass up to the merge queue.                                           *)

Write(c, k) == cards' = [cards EXCEPT ![c] = k]

BeginPass ==
  /\ rec.pc = "idle"
  /\ rec' = [IdleRec EXCEPT !.pc = "checking"]
  /\ UNCHANGED <<cards, github, lost, bounds>>

\* The checker passes the card of a green plan (BoardChecker, RoutePassed).
CheckerPasses(c) ==
  /\ rec.pc = "checking"
  /\ Exists(cards[c]) /\ c \notin lost
  /\ MoveToMerging(cards[c], Stamp) # cards[c]
  /\ Write(c, MoveToMerging(cards[c], Stamp))
  /\ UNCHANGED <<github, lost, rec, bounds>>

LoadFactsOutsideQueue == \* mutant
  /\ rec.pc = "checking"
  /\ rec' = [IdleRec EXCEPT !.pc = "facts",
       !.todo = {c \in CardId :
                   /\ cards[c].status \in {"running", "checking", "review"}
                   /\ UnmergedPr(cards[c])},
       !.was = [c \in CardId |-> cards[c].pr]]
  /\ UNCHANGED <<cards, github, lost, bounds>>

LoadFacts ==
  /\ rec.pc = "checking"
  /\ rec' = [IdleRec EXCEPT !.pc = "facts",
       !.todo = {c \in CardId :
                   /\ cards[c].status \in {"running", "checking", "review", "merging"}
                   /\ UnmergedPr(cards[c])},
       !.was = [c \in CardId |-> cards[c].pr]]
  /\ UNCHANGED <<cards, github, lost, bounds>>

\* resolvePr; GitHub may be unreachable, and is not asked without a project.
ResolvePr(c) ==
  /\ rec.pc = "facts" /\ c \in rec.todo
  /\ \E fact \in {github[c], None} :
       /\ c \in lost => fact = None
       /\ rec' = [rec EXCEPT !.pc = "resolved", !.card = c, !.fact = fact,
                             !.todo = @ \ {c}]
  /\ UNCHANGED <<cards, github, lost, bounds>>

\* A changed fact is written; on a deleted card that throws and ends the pass.
WriteFact ==
  LET c == rec.card
      next == [rec EXCEPT !.pc = "facts", !.card = None, !.fact = None,
                          !.was[c] = None]
  IN
  /\ rec.pc = "resolved"
  /\ IF rec.fact = None \/ rec.fact = rec.was[c] THEN rec' = next /\ UNCHANGED cards
     ELSE IF Exists(cards[c]) THEN rec' = next /\ Write(c, SetPr(cards[c], rec.fact))
     ELSE rec' = IdleRec /\ UNCHANGED cards
  /\ UNCHANGED <<github, lost, bounds>>

-----------------------------------------------------------------------------
(* driveQueueItem.                                                         *)

InQueue == {c \in CardId : cards[c].status = "merging" /\ cards[c].queue # None}
Oldest(c) == /\ c \in InQueue
             /\ \A d \in InQueue : cards[c].queue.enqueuedAt <= cards[d].queue.enqueuedAt

Conflict(pr) == pr.checks \in {"dirty", "behind"}
Ready(k) == /\ k.pr.mergeable = "yes"
            /\ \/ k.pr.checks = "clean"
               \/ k.pr.checks = "unknown" /\ k.queue.state = "merging"

\* The queue entry the pass loaded, one rebase later.  The counter is only
\* compared with MergeRetries, so it is counted one beyond that and no further.
OneRebaseMore(queue) ==
  [queue EXCEPT !.state = "rebasing",
                !.rebaseAttempts = IF @ > MergeRetries THEN @ ELSE @ + 1]

AwaitGithub(c, pc) ==
  rec' = [IdleRec EXCEPT !.pc = pc, !.card = c, !.queue = cards[c].queue]

DriveItem(c) ==
  LET k == cards[c] IN
  \/ /\ k.pr # None /\ k.pr.state = "merged"
     /\ Write(c, MarkMerged(k)) /\ rec' = IdleRec
  \/ /\ k.pr = None \/ k.pr.state = "closed"
     /\ Write(c, BlockTask(k, "pr")) /\ rec' = IdleRec
  \/ /\ k.pr # None /\ k.pr.state = "open"
     /\ \/ /\ k.pr.mergeable # "computing" /\ Conflict(k.pr)
           /\ IF k.queue.rebaseAttempts >= MergeRetries
                THEN Write(c, BlockTask(k, "pr")) /\ rec' = IdleRec
                ELSE AwaitGithub(c, "updating") /\ UNCHANGED cards
        \/ /\ ~Conflict(k.pr) /\ Ready(k)
           /\ Write(c, SetQueue(k, [k.queue EXCEPT !.state = "merging"]))
           /\ AwaitGithub(c, "merging")
        \/ /\ k.pr.mergeable = "computing" \/ (~Conflict(k.pr) /\ ~Ready(k))
           /\ rec' = IdleRec /\ UNCHANGED cards

\* A head without a project is left where it is, ahead of the others; so is one whose
\* pull request is neither mergeable nor in conflict.
Drive(c) ==
  /\ rec.pc = "facts" /\ rec.todo = {}
  /\ Oldest(c)
  /\ \/ c \in lost /\ rec' = IdleRec /\ UNCHANGED cards
     \/ c \notin lost /\ DriveItem(c)
  /\ UNCHANGED <<github, lost, bounds>>

NothingToMerge ==
  /\ rec.pc = "facts" /\ rec.todo = {} /\ InQueue = {}
  /\ rec' = IdleRec
  /\ UNCHANGED <<cards, github, lost, bounds>>

\* The end of an await: what is written goes to the card as it is now; on a
\* deleted card the write throws, and the pass ends as it would anyway.
Finish(k) ==
  /\ rec' = IdleRec
  /\ IF Exists(cards[rec.card]) THEN Write(rec.card, k) ELSE UNCHANGED cards

\* updateBranch succeeded, or failed, which is only logged.
Updated ==
  LET c == rec.card IN
  /\ rec.pc \in {"updating", "updatingAfter405"}
  /\ github[c].state = "open"
  /\ github' = [github EXCEPT ![c] = Facts("unknown", "computing")]
  /\ Finish(SetQueue(cards[c], OneRebaseMore(rec.queue)))
  /\ UNCHANGED <<lost, bounds>>
UpdateFails ==
  /\ rec.pc \in {"updating", "updatingAfter405"}
  /\ rec' = IdleRec
  /\ UNCHANGED <<cards, github, lost, bounds>>

\* What GitHub lets through.
Mergeable(pr) == /\ pr.state = "open" /\ pr.mergeable = "yes"
                 /\ pr.checks \in {"clean", "unknown"}

Merges ==
  LET c == rec.card IN
  /\ rec.pc = "merging"
  /\ Mergeable(github[c])
  /\ github' = [github EXCEPT ![c].state = "merged"]
  /\ Finish(MarkMerged(cards[c]))
  /\ UNCHANGED <<lost, bounds>>

\* 405: the base moved, or the pull request is in no state to be merged.
MergeRefused ==
  /\ rec.pc = "merging"
  /\ IF Mergeable(github[rec.card])
       THEN refusals < MaxRefusals /\ refusals' = refusals + 1
       ELSE UNCHANGED refusals
  /\ rec' = [rec EXCEPT !.pc = "updatingAfter405"]
  /\ UNCHANGED <<cards, github, lost, prChanges, acts, crashes>>

MergeFailsButLands == \* mutant
  /\ rec.pc = "merging"
  /\ refusals < MaxRefusals /\ refusals' = refusals + 1
  /\ Finish(MarkMerged(cards[rec.card]))
  /\ UNCHANGED <<github, lost, prChanges, acts, crashes>>

\* Any other failure; the merge may have gone through all the same.
MergeFails ==
  LET c == rec.card IN
  /\ rec.pc = "merging"
  /\ refusals < MaxRefusals /\ refusals' = refusals + 1
  /\ \/ UNCHANGED github
     \/ /\ Mergeable(github[c])
        /\ github' = [github EXCEPT ![c].state = "merged"]
  /\ Finish(SetQueue(cards[c], [rec.queue EXCEPT !.state = "queued"]))
  /\ UNCHANGED <<lost, prChanges, acts, crashes>>

-----------------------------------------------------------------------------
(* GitHub, the human, restarts.                                            *)

\* The mergeability of an open pull request is decided, or what blocked it goes away;
\* "blocked" stands for every state that is neither clean nor in conflict.
CiEnds(c) ==
  /\ github[c].state = "open"
  /\ github[c].mergeable = "computing" \/ github[c].checks = "blocked"
  /\ \E checks \in {"clean", "blocked"} :
       github' = [github EXCEPT ![c] = Facts(checks, "yes")]
  /\ UNCHANGED <<cards, lost, rec, bounds>>

\* The base moves, CI starts again, someone merges or closes the pull request.
PrChanges(c) ==
  /\ github[c].state = "open"
  /\ prChanges < MaxPrChanges /\ prChanges' = prChanges + 1
  /\ \E pr \in {Facts("dirty", "no"), Facts("behind", "yes"), Facts("blocked", "yes"),
                [github[c] EXCEPT !.state = "merged"],
                [github[c] EXCEPT !.state = "closed", !.mergeable = "computing"]} :
       github' = [github EXCEPT ![c] = pr]
  /\ UNCHANGED <<cards, lost, rec, refusals, acts, crashes>>

Human(c, k) ==
  /\ acts < MaxActs /\ acts' = acts + 1
  /\ Write(c, k)
  /\ UNCHANGED <<github, lost, rec, prChanges, refusals, crashes>>

MergeCard(c)  == CanMerge(cards[c]) /\ Human(c, Merge(cards[c], Stamp))
AcceptCard(c) == CanAccept(cards[c]) /\ Human(c, Accept(cards[c]))
ReturnCard(c) == CanReturn(cards[c]) /\ Human(c, Return(cards[c], 1))
EditCard(c)   == Exists(cards[c]) /\ Human(c, Edit(cards[c]))
RemoveCard(c) == CanRemove(cards[c]) /\ Human(c, Remove(cards[c]))
MoveCard(c, target) ==
  CanMove(cards[c], target) /\ Human(c, Move(cards[c], target, 1))

\* Cards lose their project, or have one again.
ProjectsChange ==
  /\ acts < MaxActs /\ acts' = acts + 1
  /\ \E some \in (SUBSET CardId) \ {{}} : lost' \in {lost \cup some, lost \ some}
  /\ UNCHANGED <<cards, github, rec, prChanges, refusals, crashes>>

Crash ==
  /\ crashes < MaxCrashes /\ crashes' = crashes + 1
  /\ rec' = IdleRec
  /\ UNCHANGED <<cards, github, lost, prChanges, refusals, acts>>

\* GitHub merges, and the server goes down before it hears of it.
CrashAfterMerge ==
  LET c == rec.card IN
  /\ rec.pc = "merging"
  /\ crashes < MaxCrashes /\ crashes' = crashes + 1
  /\ Mergeable(github[c])
  /\ github' = [github EXCEPT ![c].state = "merged"]
  /\ rec' = IdleRec
  /\ UNCHANGED <<cards, lost, prChanges, refusals, acts>>

-----------------------------------------------------------------------------
Reconciling ==
  \/ BeginPass \/ LoadFacts \/ WriteFact \/ NothingToMerge
  \/ \E c \in CardId : ResolvePr(c) \/ Drive(c)
  \/ Updated \/ UpdateFails \/ Merges \/ MergeRefused \/ MergeFails

Next ==
  \/ Reconciling
  \/ \E c \in CardId :
       \/ CheckerPasses(c) \/ CiEnds(c) \/ PrChanges(c)
       \/ MergeCard(c) \/ AcceptCard(c) \/ ReturnCard(c) \/ EditCard(c)
       \/ RemoveCard(c) \/ \E target \in Status : MoveCard(c, target)
  \/ ProjectsChange \/ Crash \/ CrashAfterMerge

Spec == Init /\ [][Next]_vars

\* The loop keeps running and its awaits end; asked again and again, GitHub tells the
\* facts of a pull request.  Nothing makes GitHub update a branch or lets CI pass.
Fairness ==
  /\ WF_vars(Reconciling)
  /\ \A c \in CardId : SF_vars(ResolvePr(c) /\ rec'.fact # None)
FairSpec == Spec /\ Fairness

-----------------------------------------------------------------------------
(* Properties.                                                             *)

\* A card the merge bot lands is merged on GitHub, also when an earlier answer
\* was lost, the base moved or the card was moved during the call.
LandsOnlyMerged ==
  [][\A c \in CardId :
       (acts' = acts /\ cards[c].status # "done" /\ cards'[c].status = "done")
         => github'[c].state = "merged"]_vars

\* The head of the queue cannot be moved: it has no project, or GitHub neither takes
\* nor refuses it (it is still computing, or CI, a review or the draft state blocks
\* it), or has to update its branch first and does not.
Held(c) ==
  \/ c \in lost
  \/ /\ github[c].state = "open"
     /\ IF Conflict(github[c]) THEN cards[c].queue.rebaseAttempts < MergeRetries
        ELSE github[c].checks # "clean"

\* Every card in the merge queue lands, is blocked or is taken away some time, also
\* when its merge went through on GitHub while its answer was lost or the server
\* went down, unless in the end a card that cannot be moved stays at the head; no
\* timeout takes one out of the others' way.
QueueMoves ==
  \A c \in CardId : \/ []<>(cards[c].status # "merging")
                   \/ <>[](\E d \in CardId : Oldest(d) /\ Held(d))

\* Merging implements the board's columns: no step of the merge bot or the facts
\* moves a card along an edge the pipeline does not have.
Columns == INSTANCE BoardColumns WITH
  column   <- [c \in CardId |-> cards[c].status],
  attempts <- [c \in CardId |-> cards[c].attempts],
  claiming <- {},
  requests <- acts

ImplementsColumns == Columns!Spec
=============================================================================
