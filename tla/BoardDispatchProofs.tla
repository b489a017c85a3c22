------------------------- MODULE BoardDispatchProofs -------------------------
(***************************************************************************)
(* The Queued and Running columns for every number of cards, dispatch      *)
(* passes, sessions, requests and restarts: types; how far the capacity of *)
(* the board can be exceeded; the resume budget of reclaim; no worker      *)
(* session is lost, none is created twice for a card, and none on a used   *)
(* branch unless another pass came between; dispatching implements the     *)
(* columns.                                                                *)
(***************************************************************************)
EXTENDS BoardDispatch, BoardCardProofs, FiniteSetTheorems

\* What a pass has in hand at each of its awaits.
PassInv ==
  \A p \in Pass :
    /\ passes[p].pc \in {"resolving", "creating", "granting"}
         => passes[p].card \in CardId /\ passes[p].branch \in Nat
    /\ passes[p].pc = "granting" => passes[p].session \in Session

TypeInv == TypeOK /\ PassInv

LEMMA StampType == Stamp \in Nat
<1> DEFINE stamped == {c \in CardId : cards[c].queuedAt > 0}
<1>1. IsFiniteSet(stamped)
  BY DispatchAssumption, FS_Subset
<1>2. Cardinality(stamped) \in Nat
  BY <1>1, FS_CardinalityType
<1> QED
  BY <1>2 DEF Stamp

LEMMA CardOf ==
  ASSUME TypeOK, NEW c \in CardId
  PROVE  cards[c] \in Card
BY DEF TypeOK

LEMMA TouchedType ==
  ASSUME TypeOK
  PROVE  Touched \in RecState
BY DEF TypeOK, Touched, RecState

\* Saving a card for a card keeps the types of what a save touches.
LEMMA StoreType ==
  ASSUME TypeOK, NEW c \in CardId, NEW k \in Card, Store(c, k)
  PROVE  cards' \in [CardId -> Card] /\ bypass' \in Nat
BY DEF TypeOK, Store

LEMMA SaveType ==
  ASSUME TypeOK, NEW c \in CardId, NEW k \in Card, Save(c, k)
  PROVE  cards' \in [CardId -> Card] /\ bypass' \in Nat /\ rec' \in RecState
BY StoreType, TouchedType DEF Save

LEMMA RefsType ==
  ASSUME TypeOK, NEW set
  PROVE  RefsOf(set) \in [CardId -> Session \cup {None}]
BY DEF TypeOK, RefsOf, Card

LEMMA IdleTypes ==
  /\ IdlePass \in PassState /\ IdleRec \in RecState /\ Started \in StartupState
  /\ NoRef \in [CardId -> Session \cup {None}]
<1>1. NoRef \in [CardId -> Session \cup {None}]
  BY DEF NoRef
<1> QED
  BY <1>1 DEF IdlePass, PassState, IdleRec, RecState, Started, StartupState

LEMMA TypeInit == Init => TypeInv
<1> SUFFICES ASSUME Init PROVE TypeInv
  OBVIOUS
<1>1. PICK order \in [CardId -> 1..Cardinality(CardId)], gone \in SUBSET CardId :
        cards = [c \in CardId |-> IF c \in gone THEN Remove(NewCard("queued", order[c]))
                                 ELSE NewCard("queued", order[c])]
  BY DEF Init
<1>2. \A c \in CardId : cards[c] \in Card
  <2> TAKE c \in CardId
  <2>1. order[c] \in Nat
    BY DispatchAssumption, FS_CardinalityType
  <2>2. NewCard("queued", order[c]) \in Card
    BY <2>1, NewCardType DEF Status
  <2>3. Remove(NewCard("queued", order[c])) \in Card
    BY <2>2, RemoveType
  <2> QED
    BY <1>1, <2>2, <2>3
<1>3. PassInv
  BY DEF Init, PassInv, IdlePass
<1> QED
  BY <1>1, <1>2, <1>3, IdleTypes DEF Init, TypeInv, TypeOK, SessionState

-----------------------------------------------------------------------------
(* Types: the dispatch passes.                                             *)

\* A pass that changes nothing but itself, to a state that has in hand what it
\* needs.
LEMMA PassOnlyType ==
  ASSUME TypeInv, NEW p \in Pass, NEW state \in PassState, PassOnly(p, state),
         state.pc \in {"resolving", "creating", "granting"}
           => state.card \in CardId /\ state.branch \in Nat,
         state.pc # "granting"
  PROVE  TypeInv'
<1>1. TypeOK'
  BY DEF TypeInv, TypeOK, PassOnly
<1>2. PassInv'
  BY DEF TypeInv, TypeOK, PassInv, PassOnly
<1> QED
  BY <1>1, <1>2 DEF TypeInv

LEMMA OnwardType ==
  ASSUME TypeOK, NEW p \in Pass
  PROVE  Onward(p) \in PassState /\ Onward(p).pc = "next"
BY DEF TypeOK, Onward, IdlePass, PassState

LEMMA RoundType == Round \in SUBSET CardId
BY DEF Round, NextQueued, QueuedCards

LEMMA DispatchingType ==
  ASSUME TypeInv, NEW p \in Pass, Dispatching(p)
  PROVE  TypeInv'
<1> USE DEF TypeInv
<1>1. CASE Take(p)
  <2>1. PICK c \in passes[p].todo :
          LET rest == [passes[p] EXCEPT !.todo = @ \ {c}] IN
          PassOnly(p, IF CanTake(c)
                        THEN [rest EXCEPT !.pc = "resolving", !.card = c,
                                          !.branch = cards[c].attempts]
                        ELSE rest)
    BY <1>1 DEF Take
  <2> DEFINE rest == [passes[p] EXCEPT !.todo = @ \ {c}]
  <2>2. passes[p].pc = "next" /\ passes[p] \in PassState
    BY <1>1 DEF Take, TypeOK
  <2>3. c \in CardId
    BY <2>1, <2>2 DEF PassState
  <2>4. cards[c].attempts \in Nat
    BY <2>3, CardOf DEF Card
  <2>5. rest \in PassState /\ rest.pc = "next"
    BY <2>2 DEF PassState
  <2>6. CASE CanTake(c)
    <3> DEFINE taken == [rest EXCEPT !.pc = "resolving", !.card = c,
                                     !.branch = cards[c].attempts]
    <3>1. /\ taken \in PassState /\ taken.card \in CardId
          /\ taken.branch \in Nat /\ taken.pc = "resolving"
      BY <2>3, <2>4, <2>5 DEF PassState
    <3>2. PassOnly(p, taken)
      BY <2>1, <2>6
    <3> QED
      BY <3>1, <3>2, PassOnlyType
  <2>7. CASE ~CanTake(c)
    <3>1. PassOnly(p, rest)
      BY <2>1, <2>7
    <3> QED
      BY <2>5, <3>1, PassOnlyType
  <2> QED
    BY <2>6, <2>7
<1>2. CASE EndPass(p)
  <2>1. IdlePass.pc = "idle"
    BY DEF IdlePass
  <2> QED
    BY <1>2, <2>1, IdleTypes, PassOnlyType DEF EndPass
<1>3. CASE Refused(p)
  BY <1>3, OnwardType, PassOnlyType DEF Refused
<1>4. CASE Reserve(p)
  <2> DEFINE c == passes[p].card
  <2>1. c \in CardId /\ passes[p].branch \in Nat
    BY <1>4 DEF Reserve, PassInv
  <2>2. Claim(cards[c], passes[p].branch) \in Card
    BY <2>1, CardOf, ClaimType
  <2>3. cards' \in [CardId -> Card]
    BY <1>4, <2>2 DEF Reserve, TypeOK
  <2>4. passes' \in [Pass -> PassState]
    BY <1>4 DEF Reserve, TypeOK, PassState
  <2>5. rec' \in RecState
    BY <1>4, TouchedType DEF Reserve
  <2>6. nudges' \in [CardId -> Nat]
    BY <1>4 DEF Reserve, TypeOK
  <2>7. TypeOK'
    BY <1>4, <2>3, <2>4, <2>5, <2>6 DEF Reserve, TypeOK
  <2>8. PassInv'
    BY <1>4, <2>1 DEF Reserve, TypeOK, PassInv, PassState
  <2> QED
    BY <2>7, <2>8
<1>5. CASE Created(p)
  <2>1. PICK s \in Session :
          /\ sessions' = [sessions EXCEPT ![s] = "busy"]
          /\ passes' = [passes EXCEPT ![p] = [@ EXCEPT !.pc = "granting", !.session = s]]
    BY <1>5 DEF Created
  <2>2. passes[p].card \in CardId /\ passes[p].branch \in Nat
    BY <1>5 DEF Created, PassInv
  <2>3. passes' \in [Pass -> PassState]
    <3>1. [passes[p] EXCEPT !.pc = "granting", !.session = s] \in PassState
      BY DEF TypeOK, PassState
    <3> QED
      BY <2>1, <3>1 DEF TypeOK
  <2>4. sessions' \in [Session -> SessionState]
    BY <2>1 DEF TypeOK, SessionState
  <2>5. branches' \subseteq CardId \X Nat
    BY <1>5, <2>2 DEF Created, TypeOK
  <2>6. TypeOK'
    BY <1>5, <2>3, <2>4, <2>5 DEF Created, TypeOK
  <2>7. PassInv'
    BY <2>1, <2>2 DEF TypeOK, PassInv, PassState
  <2> QED
    BY <2>6, <2>7
<1>6. CASE CreateFailed(p)
  <2> DEFINE c == passes[p].card
  <2>1. c \in CardId
    BY <1>6 DEF CreateFailed, PassInv
  <2>2. AbortClaim(cards[c], Stamp) \in Card
    BY <2>1, CardOf, StampType, AbortClaimType
  <2>3. cards' \in [CardId -> Card] /\ bypass' \in Nat /\ rec' \in RecState
    BY <1>6, <2>1, <2>2, SaveType DEF CreateFailed, TypeOK
  <2>4. branches' \subseteq CardId \X Nat
    BY <1>6 DEF CreateFailed, Cleanup, TypeOK
  <2>5. passes' \in [Pass -> PassState]
    BY <1>6, OnwardType DEF CreateFailed, TypeOK
  <2>6. TypeOK'
    BY <1>6, <2>3, <2>4, <2>5 DEF CreateFailed, TypeOK
  <2>7. PassInv'
    BY <1>6, OnwardType DEF CreateFailed, TypeOK, PassInv
  <2> QED
    BY <2>6, <2>7
<1>7. CASE Linked(p)
  <2> DEFINE c == passes[p].card
  <2>1. c \in CardId /\ passes[p].session \in Session
    BY <1>7 DEF Linked, PassInv
  <2>2. LinkSession(cards[c], passes[p].session) \in Card
    BY <2>1, CardOf, LinkSessionType
  <2>3. cards' \in [CardId -> Card] /\ bypass' \in Nat /\ rec' \in RecState
    BY <1>7, <2>1, <2>2, SaveType DEF Linked, TypeOK
  <2>4. passes' \in [Pass -> PassState]
    BY <1>7, OnwardType DEF Linked, TypeOK
  <2>5. TypeOK'
    BY <1>7, <2>3, <2>4 DEF Linked, TypeOK
  <2>6. PassInv'
    BY <1>7, OnwardType DEF Linked, TypeOK, PassInv
  <2> QED
    BY <2>5, <2>6
<1> QED
  BY <1>1, <1>2, <1>3, <1>4, <1>5, <1>6, <1>7 DEF Dispatching
-----------------------------------------------------------------------------
(* Types: the reconcile pass, workers, people and restarts.                *)

\* With the passes as they were, what they have in hand is what it was.
LEMMA SamePassInv ==
  ASSUME PassInv, passes' = passes
  PROVE  PassInv'
BY DEF PassInv

LEMMA RefDropped ==
  ASSUME NEW ref \in [CardId -> Session \cup {None}], NEW c \in CardId
  PROVE  [ref EXCEPT ![c] = None] \in [CardId -> Session \cup {None}]
OBVIOUS

LEMMA ReconcilingType ==
  ASSUME TypeInv, Reconciling
  PROVE  TypeInv'
<1> USE DEF TypeInv
<1>0. /\ rec \in RecState
      /\ rec.todo \in SUBSET CardId /\ rec.ref \in [CardId -> Session \cup {None}]
      /\ rec.resumed \in SUBSET CardId /\ rec.recycled \in SUBSET CardId
  BY DEF TypeOK, RecState
<1>1. CASE BeginReconcile
  <2> DEFINE ref == RefsOf({c \in StaleCards : MayResume(cards[c])})
  <2>1. ref \in [CardId -> Session \cup {None}] /\ StaleCards \in SUBSET CardId
    BY RefsType DEF StaleCards
  <2> HIDE DEF ref
  <2>2. /\ [IdleRec EXCEPT !.pc = "dispatch"] \in RecState
        /\ [IdleRec EXCEPT !.pc = "reclaim", !.todo = StaleCards, !.ref = ref] \in RecState
    BY <2>1, IdleTypes DEF RecState
  <2>3. TypeOK'
    BY <1>1, <2>2 DEF BeginReconcile, TypeOK, ref
  <2> QED
    BY <1>1, <2>3, SamePassInv DEF BeginReconcile
<1>2. CASE ReclaimSaves
  <2>1. cards' \in [CardId -> Card]
    <3>1. \A c \in CardId : /\ cards[c] \in Card
                            /\ ApplyResumed(cards[c]) \in Card
                            /\ Recycle(cards[c], Stamp) \in Card
      BY CardOf, StampType, ApplyResumedType, RecycleType
    <3> QED
      BY <1>2, <3>1 DEF ReclaimSaves, TypeOK
  <2>2. Cardinality(rec.resumed) \in Nat
    BY <1>0, DispatchAssumption, FS_Subset, FS_CardinalityType
  <2>3. bypass' \in Nat /\ nudges' \in [CardId -> Nat]
    BY <1>2, <2>2 DEF ReclaimSaves, TypeOK
  <2>4. rec' \in RecState
    BY <1>2, IdleTypes DEF ReclaimSaves, RecState
  <2>5. TypeOK'
    BY <1>2, <2>1, <2>3, <2>4 DEF ReclaimSaves, TypeOK
  <2> QED
    BY <1>2, <2>5, SamePassInv DEF ReclaimSaves
<1>3. CASE ReconcileObserves
  <2>1. WorkedOn \in SUBSET CardId /\ RefsOf(WorkedOn) \in [CardId -> Session \cup {None}]
    BY RefsType DEF WorkedOn
  <2>2. [IdleRec EXCEPT !.pc = "sessions", !.ref = RefsOf(WorkedOn),
                        !.todo = {c \in WorkedOn : project[c] = "known"}] \in RecState
    BY <2>1, IdleTypes DEF RecState
  <2>3. TypeOK'
    BY <1>3, <2>2 DEF ReconcileObserves, TypeOK
  <2> QED
    BY <1>3, <2>3, SamePassInv DEF ReconcileObserves
<1>4. CASE EndReconcile
  BY <1>4, IdleTypes, SamePassInv DEF EndReconcile, TypeOK
<1>5. ASSUME NEW c \in CardId, ReclaimResumes(c)
      PROVE  TypeInv'
  <2>1. sessions' \in [Session -> SessionState]
    BY <1>5 DEF ReclaimResumes, TypeOK, SessionState
  <2>2. nudges' \in [CardId -> Nat]
    BY <1>5 DEF ReclaimResumes, TypeOK
  <2>3. rec' \in RecState
    <3>1. /\ rec.todo \ {c} \in SUBSET CardId
          /\ [rec.ref EXCEPT ![c] = None] \in [CardId -> Session \cup {None}]
          /\ rec.resumed \cup {c} \in SUBSET CardId
      BY <1>0, RefDropped
    <3>2. rec' = [rec EXCEPT !.todo = rec.todo \ {c},
                             !.ref = [rec.ref EXCEPT ![c] = None],
                             !.resumed = rec.resumed \cup {c}]
      BY <1>0, <1>5 DEF ReclaimResumes, RecState
    <3> QED
      BY <1>0, <3>1, <3>2 DEF RecState
  <2>4. TypeOK'
    BY <1>5, <2>1, <2>2, <2>3 DEF ReclaimResumes, TypeOK
  <2> QED
    BY <1>5, <2>4, SamePassInv DEF ReclaimResumes
<1>6. ASSUME NEW c \in CardId, ReclaimRecycles(c)
      PROVE  TypeInv'
  <2>1. rec' \in RecState
    <3>1. /\ rec.todo \ {c} \in SUBSET CardId
          /\ [rec.ref EXCEPT ![c] = None] \in [CardId -> Session \cup {None}]
          /\ rec.recycled \cup {c} \in SUBSET CardId
      BY <1>0, RefDropped
    <3>2. rec' = [rec EXCEPT !.todo = rec.todo \ {c},
                             !.ref = [rec.ref EXCEPT ![c] = None],
                             !.recycled = rec.recycled \cup {c}]
      BY <1>0, <1>6 DEF ReclaimRecycles, RecState
    <3> QED
      BY <1>0, <3>1, <3>2 DEF RecState
  <2>2. TypeOK'
    BY <1>6, <2>1 DEF ReclaimRecycles, TypeOK
  <2> QED
    BY <1>6, <2>2, SamePassInv DEF ReclaimRecycles
<1>7. ASSUME NEW c \in CardId, Observed(c)
      PROVE  TypeInv'
  <2> DEFINE onward == [rec EXCEPT !.todo = @ \ {c}, !.ref[c] = None]
  <2>1. onward \in RecState
    <3>1. /\ rec.todo \ {c} \in SUBSET CardId
          /\ [rec.ref EXCEPT ![c] = None] \in [CardId -> Session \cup {None}]
      BY <1>0, RefDropped
    <3>2. onward = [rec EXCEPT !.todo = rec.todo \ {c},
                               !.ref = [rec.ref EXCEPT ![c] = None]]
      BY <1>0 DEF RecState
    <3> QED
      BY <1>0, <3>1, <3>2 DEF RecState
  <2>2. /\ RefreshLease(cards[c]) \in Card
        /\ EnterChecking(cards[c]) \in Card
        /\ WorkerInterrupted(cards[c]) \in Card
    BY CardOf, RefreshLeaseType, EnterCheckingType, WorkerInterruptedType
  <2> HIDE DEF onward
  <2>3. /\ \/ \E k \in Card : Store(c, k)
           \/ UNCHANGED <<cards, bypass>>
        /\ rec' \in {onward, IdleRec}
        /\ UNCHANGED <<project, sessions, branches, passes, startup, acts, expiries,
                       crashes, nudges>>
    BY <1>7, <2>2 DEF Observed, onward
  <2>4. cards' \in [CardId -> Card] /\ bypass' \in Nat
    BY <2>3, StoreType DEF TypeOK
  <2>5. rec' \in RecState
    BY <2>1, <2>3, IdleTypes
  <2>6. TypeOK'
    BY <2>3, <2>4, <2>5 DEF TypeOK
  <2> QED
    BY <2>3, <2>6, SamePassInv
<1>8. ASSUME NEW p \in Pass, ReconcileDispatches(p)
      PROVE  TypeInv'
  <2> DEFINE begun == [IdlePass EXCEPT !.pc = "next", !.todo = Round]
  <2>2. begun \in PassState /\ begun.pc = "next"
    BY RoundType, IdleTypes DEF PassState
  <2>3. passes' = [passes EXCEPT ![p] = begun]
    BY <1>8 DEF ReconcileDispatches
  <2> HIDE DEF begun
  <2>4. passes' \in [Pass -> PassState] /\ rec' \in RecState
    BY <1>0, <1>8, <2>2, <2>3 DEF ReconcileDispatches, TypeOK, RecState
  <2>5. TypeOK'
    BY <1>8, <2>4 DEF ReconcileDispatches, TypeOK
  <2>6. PassInv'
    BY <2>2, <2>3 DEF TypeOK, PassInv
  <2> QED
    BY <2>5, <2>6
<1> QED
  BY <1>1, <1>2, <1>3, <1>4, <1>5, <1>6, <1>7, <1>8 DEF Reconciling

\* Whoever saves a card, the rest of the state being what it was.
LEMMA SaveStepType ==
  ASSUME TypeInv, NEW c \in CardId, NEW k \in Card, Save(c, k),
         sessions' \in [Session -> SessionState], branches' \subseteq CardId \X Nat,
         startup' \in StartupState, acts' \in Nat, nudges' \in [CardId -> Nat],
         project' \in [CardId -> ProjectState], UNCHANGED <<passes, expiries, crashes>>
  PROVE  TypeInv'
<1>1. cards' \in [CardId -> Card] /\ bypass' \in Nat /\ rec' \in RecState
  BY SaveType DEF TypeInv
<1>2. TypeOK'
  BY <1>1 DEF TypeInv, TypeOK
<1> QED
  BY <1>2, SamePassInv DEF TypeInv

LEMMA CleanupType ==
  ASSUME TypeOK, NEW c, Cleanup(c)
  PROVE  branches' \subseteq CardId \X Nat
BY DEF TypeOK, Cleanup

LEMMA WorldType ==
  ASSUME TypeInv,
         \/ \E s \in Session :
              WorkerStops(s) \/ HumanOnSession(s) \/ \E c \in CardId : Receipt(s, c)
         \/ \E c \in CardId : LeaseExpires(c) \/ StartupResume(c)
         \/ Crash \/ StartupBegins
  PROVE  TypeInv'
<1> USE DEF TypeInv
<1>1. ASSUME NEW s \in Session, WorkerStops(s) \/ HumanOnSession(s)
      PROVE  TypeInv'
  <2>1. sessions' \in [Session -> SessionState] /\ acts' \in Nat
    BY <1>1 DEF WorkerStops, HumanOnSession, SessionBecomes, TypeOK, SessionState
  <2>2. WorldOnly
    BY <1>1 DEF WorkerStops, HumanOnSession
  <2>3. TypeOK'
    BY <2>1, <2>2 DEF WorldOnly, TypeOK
  <2> QED
    BY <2>2, <2>3, SamePassInv DEF WorldOnly
<1>2. ASSUME NEW s \in Session, NEW c \in CardId, Receipt(s, c)
      PROVE  TypeInv'
  <2>1. /\ WorkerFinish(cards[c]) \in Card /\ WorkerNoop(cards[c]) \in Card
        /\ BlockTask(cards[c], "worker blocked") \in Card
    BY CardOf, WorkerFinishType, WorkerNoopType, BlockTaskType DEF Reason
  <2>2. /\ \E k \in Card : Save(c, k)
        /\ branches' \subseteq CardId \X Nat
    BY <1>2, <2>1, CleanupType DEF Receipt, TypeOK
  <2> QED
    BY <1>2, <2>2, SaveStepType DEF Receipt, TypeOK
<1>3. ASSUME NEW c \in CardId, LeaseExpires(c)
      PROVE  TypeInv'
  <2>1. cards[c] \in Card /\ cards[c].lease \in Lease
    BY <1>3, CardOf DEF LeaseExpires, Active, Card
  <2>2. [cards[c] EXCEPT !.lease = [cards[c].lease EXCEPT !.live = FALSE]] \in Card
    <3>1. [cards[c].lease EXCEPT !.live = FALSE] \in Lease
      BY <2>1 DEF Lease
    <3> QED
      BY <2>1, <3>1 DEF Card
  <2>3. cards' = [cards EXCEPT ![c] =
                    [cards[c] EXCEPT !.lease = [cards[c].lease EXCEPT !.live = FALSE]]]
    BY <1>3 DEF LeaseExpires
  <2>4. cards' \in [CardId -> Card]
    BY <2>2, <2>3 DEF TypeOK
  <2>5. expiries' \in Nat
    BY <1>3 DEF LeaseExpires, TypeOK
  <2>6. TypeOK'
    BY <1>3, <2>4, <2>5 DEF LeaseExpires, TypeOK
  <2> QED
    BY <1>3, <2>6, SamePassInv DEF LeaseExpires
<1>4. ASSUME NEW c \in CardId, StartupResume(c)
      PROVE  TypeInv'
  <2>1. startup' \in StartupState
    <3>1. /\ startup.todo \ {c} \in SUBSET CardId
          /\ [startup.ref EXCEPT ![c] = None] \in [CardId -> Session \cup {None}]
      BY RefDropped DEF TypeOK, StartupState
    <3>2. startup' = [startup EXCEPT !.todo = startup.todo \ {c},
                                     !.ref = [startup.ref EXCEPT ![c] = None]]
      BY <1>4 DEF StartupResume, TypeOK, StartupState
    <3> QED
      BY <3>1, <3>2 DEF TypeOK, StartupState
  <2>2. sessions' \in [Session -> SessionState]
    BY <1>4 DEF StartupResume, TypeOK, SessionState
  <2>3. RefreshLease(cards[c]) \in Card
    BY CardOf, RefreshLeaseType
  <2>4. cards' \in [CardId -> Card] /\ bypass' \in Nat /\ rec' \in RecState
    BY <1>4, <2>3, SaveType DEF StartupResume, TypeOK
  <2>5. TypeOK'
    BY <1>4, <2>1, <2>2, <2>4 DEF StartupResume, TypeOK
  <2> QED
    BY <1>4, <2>5, SamePassInv DEF StartupResume
<1>5. CASE Crash
  <2>1. sessions' \in [Session -> SessionState]
    BY <1>5 DEF Crash, TypeOK, SessionState
  <2>2. startup' \in StartupState
    BY <1>5, IdleTypes DEF Crash, StartupState
  <2>3. TypeOK'
    BY <1>5, <2>1, <2>2, IdleTypes DEF Crash, TypeOK
  <2>4. PassInv'
    BY <1>5 DEF Crash, PassInv, IdlePass
  <2> QED
    BY <2>3, <2>4
<1>6. CASE StartupBegins
  <2>1. WorkedOn \in SUBSET CardId /\ RefsOf(WorkedOn) \in [CardId -> Session \cup {None}]
    BY RefsType DEF WorkedOn
  <2>2. startup' \in StartupState
    BY <1>6, <2>1 DEF StartupBegins, StartupState
  <2>3. TypeOK'
    BY <1>6, <2>2 DEF StartupBegins, TypeOK
  <2> QED
    BY <1>6, <2>3, SamePassInv DEF StartupBegins
<1> QED
  BY <1>1, <1>2, <1>3, <1>4, <1>5, <1>6

LEMMA HumanType ==
  ASSUME TypeInv, NEW c \in CardId,
         \/ EditCard(c) \/ RemoveCard(c) \/ ReturnCard(c) \/ AssignProject(c)
         \/ \E target \in Status : MoveCard(c, target)
  PROVE  TypeInv'
<1> USE DEF TypeInv
<1>1. \A target \in Status : Move(cards[c], target, Stamp) \in Card
  BY CardOf, StampType, MoveType
<1>2. /\ Edit(cards[c]) \in Card /\ Remove(cards[c]) \in Card
      /\ Return(cards[c], Stamp) \in Card /\ cards[c] \in Card
  BY CardOf, StampType, EditType, RemoveType, ReturnType
<1>3. PICK k \in Card : Human(c, k)
  BY <1>1, <1>2 DEF EditCard, RemoveCard, ReturnCard, AssignProject, MoveCard
<1>4. sessions' \in [Session -> SessionState]
  BY DEF EditCard, RemoveCard, ReturnCard, AssignProject, MoveCard, TypeOK, SessionState
<1>5. branches' \subseteq CardId \X Nat
  <2>1. branches' = branches \/ Cleanup(c)
    BY DEF EditCard, RemoveCard, ReturnCard, AssignProject, MoveCard
  <2> QED
    BY <2>1, CleanupType DEF TypeOK
<1>6. nudges' \in [CardId -> Nat] /\ project' \in [CardId -> ProjectState]
  BY DEF EditCard, RemoveCard, ReturnCard, AssignProject, MoveCard, TypeOK, ProjectState
<1> QED
  BY <1>3, <1>4, <1>5, <1>6, SaveStepType DEF Human, TypeOK

LEMMA TypeStep ==
  ASSUME TypeInv, [Next]_vars
  PROVE  TypeInv'
<1>1. ASSUME NEW p \in Pass, BeginPass(p) \/ BeginClaim(p)
      PROVE  TypeInv'
  <2>1. PICK todo \in SUBSET CardId :
          PassOnly(p, [IdlePass EXCEPT !.pc = "next", !.todo = todo])
    <3>1. CASE BeginPass(p)
      BY <3>1, RoundType DEF BeginPass
    <3>2. CASE BeginClaim(p)
      <4>1. \A c \in QueuedCards : {c} \in SUBSET CardId
        BY DEF QueuedCards
      <4> QED
        BY <3>2, <4>1 DEF BeginClaim
    <3> QED
      BY <1>1, <3>1, <3>2
  <2>2. [IdlePass EXCEPT !.pc = "next", !.todo = todo] \in PassState
    BY IdleTypes DEF PassState
  <2>3. [IdlePass EXCEPT !.pc = "next", !.todo = todo].pc = "next"
    BY IdleTypes DEF PassState
  <2> QED
    BY <2>1, <2>2, <2>3, PassOnlyType
<1>2. CASE UNCHANGED vars
  BY <1>2 DEF vars, TypeInv, TypeOK, PassInv
<1>3. CASE ChangeSettings
  <2>1. project' \in [CardId -> ProjectState] /\ acts' \in Nat
    BY <1>3 DEF ChangeSettings, TypeInv, TypeOK, ProjectState
  <2>2. TypeOK'
    BY <1>3, <2>1 DEF ChangeSettings, TypeInv, TypeOK
  <2> QED
    BY <1>3, <2>2, SamePassInv DEF ChangeSettings, TypeInv
<1> QED
  BY <1>1, <1>2, <1>3, DispatchingType, ReconcilingType, WorldType, HumanType DEF Next

\* The types, with what the passes have in hand: the invariant the other proofs
\* start from.
THEOREM DispatchTypeInv == Spec => []TypeInv
<1>1. TypeInv /\ [Next]_vars => TypeInv'
  BY TypeStep
<1> QED
  BY TypeInit, <1>1, PTL DEF Spec

\* The types of BoardDispatch, for all values of its constants.
THEOREM DispatchTypeOK == Spec => []TypeOK
<1>1. TypeInv => TypeOK
  BY DEF TypeInv
<1> QED
  BY <1>1, DispatchTypeInv, PTL
-----------------------------------------------------------------------------
(* Capacity.  The bound itself is not inductive: a pass past its check has *)
(* not taken its slot yet.  Counting those passes in makes it so, since a  *)
(* pass gets there only while less than maxConcurrent cards are active.    *)

Capacity ==
  Cardinality(ActiveCards) + Cardinality(Resolving)
    <= MaxConcurrent + (Cardinality(Pass) - 1) + bypass

LEMMA Sizes ==
  /\ IsFiniteSet(ActiveCards) /\ Cardinality(ActiveCards) \in Nat
  /\ IsFiniteSet(Resolving) /\ Cardinality(Resolving) \in Nat
  /\ Cardinality(Resolving) <= Cardinality(Pass)
  /\ Cardinality(Pass) \in Nat \ {0}
  /\ MaxConcurrent \in Nat \ {0}
<1>1. ActiveCards \in SUBSET CardId /\ Resolving \in SUBSET Pass
  BY DEF ActiveCards, Resolving
<1>2. IsFiniteSet(ActiveCards) /\ IsFiniteSet(Resolving)
  BY <1>1, DispatchAssumption, FS_Subset
<1>3. Cardinality(Resolving) <= Cardinality(Pass)
  BY <1>1, DispatchAssumption, FS_Subset
<1>4. Cardinality(Pass) \in Nat /\ Cardinality(Pass) # 0
  BY DispatchAssumption, FS_CardinalityType, FS_EmptySet
<1>5. MaxConcurrent \in Nat \ {0}
  BY ConfigAssumption
<1> QED
  BY <1>2, <1>3, <1>4, <1>5, FS_CardinalityType

LEMMA SizesNext ==
  /\ IsFiniteSet(ActiveCards') /\ Cardinality(ActiveCards') \in Nat
  /\ IsFiniteSet(Resolving') /\ Cardinality(Resolving') \in Nat
  /\ Cardinality(Resolving') <= Cardinality(Pass)
<1>1. ActiveCards' \in SUBSET CardId /\ Resolving' \in SUBSET Pass
  BY DEF ActiveCards, Resolving
<1>2. IsFiniteSet(ActiveCards') /\ IsFiniteSet(Resolving')
  BY <1>1, DispatchAssumption, FS_Subset
<1>3. Cardinality(Resolving') <= Cardinality(Pass)
  BY <1>1, DispatchAssumption, FS_Subset
<1> QED
  BY <1>2, <1>3, FS_CardinalityType

\* Slots taken past the gate are counted in bypass.
Paid == Cardinality(ActiveCards') + bypass <= Cardinality(ActiveCards) + bypass'

LEMMA PaidKeepsCapacity ==
  ASSUME TypeInv, TypeInv', Capacity, Paid, Resolving' \subseteq Resolving
  PROVE  Capacity'
<1>1. Cardinality(Resolving') <= Cardinality(Resolving)
  BY Sizes, FS_Subset
<1>2. bypass \in Nat /\ bypass' \in Nat
  BY DEF TypeInv, TypeOK
<1> HIDE DEF ActiveCards, Resolving
<1> QED
  BY <1>1, <1>2, Sizes, SizesNext DEF Capacity, Paid

LEMMA SamePaid ==
  ASSUME TypeInv, UNCHANGED <<cards, bypass>>
  PROVE  Paid
<1>1. ActiveCards' = ActiveCards
  BY DEF ActiveCards
<1>2. bypass' = bypass /\ bypass \in Nat
  BY DEF TypeInv, TypeOK
<1> QED
  BY <1>1, <1>2, Sizes DEF Paid

\* A save counts the slot it takes.
LEMMA StorePaid ==
  ASSUME TypeInv, NEW c \in CardId, NEW k, Store(c, k)
  PROVE  Paid
<1>0. bypass \in Nat
  BY DEF TypeInv, TypeOK
<1>1. \A d \in CardId : cards'[d] = IF d = c THEN k ELSE cards[d]
  BY DEF Store, TypeInv, TypeOK
<1>2. CASE Active(k) /\ ~Active(cards[c])
  <2>1. ActiveCards' \subseteq ActiveCards \cup {c}
    BY <1>1 DEF ActiveCards
  <2>2. /\ IsFiniteSet(ActiveCards \cup {c})
        /\ Cardinality(ActiveCards \cup {c}) \in Nat
        /\ Cardinality(ActiveCards \cup {c}) <= Cardinality(ActiveCards) + 1
    <3>1. /\ IsFiniteSet(ActiveCards \cup {c})
          /\ Cardinality(ActiveCards \cup {c}) =
               IF c \in ActiveCards THEN Cardinality(ActiveCards)
               ELSE Cardinality(ActiveCards) + 1
      BY Sizes, FS_AddElement
    <3> HIDE DEF ActiveCards
    <3> QED
      BY <3>1, Sizes
  <2>3. Cardinality(ActiveCards') <= Cardinality(ActiveCards \cup {c})
    BY <2>1, <2>2, FS_Subset
  <2>4. bypass' = bypass + 1
    BY <1>2 DEF Store
  <2> QED
    BY <1>0, <2>2, <2>3, <2>4, Sizes, SizesNext DEF Paid
<1>3. CASE ~(Active(k) /\ ~Active(cards[c]))
  <2>1. ActiveCards' \subseteq ActiveCards
    BY <1>1, <1>3 DEF ActiveCards, Active
  <2>2. Cardinality(ActiveCards') <= Cardinality(ActiveCards)
    BY <2>1, Sizes, FS_Subset
  <2>3. bypass' = bypass
    BY <1>3 DEF Store
  <2> QED
    BY <1>0, <2>2, <2>3, Sizes, SizesNext DEF Paid
<1> QED
  BY <1>2, <1>3

LEMMA SamePasses ==
  ASSUME passes' = passes
  PROVE  Resolving' \subseteq Resolving
BY DEF Resolving

\* A pass that is not resolving after the step is not one more.
LEMMA OnePassOnward ==
  ASSUME TypeInv, NEW p \in Pass, NEW state, state.pc # "resolving",
         passes' = [passes EXCEPT ![p] = state]
  PROVE  Resolving' \subseteq Resolving \ {p}
BY DEF Resolving, TypeInv, TypeOK
\* Past the gate: fewer than maxConcurrent cards are active when a pass takes one.
LEMMA TakeCapacity ==
  ASSUME TypeInv, TypeInv', Capacity, NEW p \in Pass, Take(p)
  PROVE  Capacity'
<1>0. bypass' = bypass /\ bypass \in Nat /\ cards' = cards
  BY DEF Take, PassOnly, TypeInv, TypeOK
<1>1. PICK c \in passes[p].todo :
        LET rest == [passes[p] EXCEPT !.todo = @ \ {c}] IN
        PassOnly(p, IF CanTake(c)
                      THEN [rest EXCEPT !.pc = "resolving", !.card = c,
                                        !.branch = cards[c].attempts]
                      ELSE rest)
  BY DEF Take
<1>2. CASE CanTake(c)
  <2>1. Cardinality(ActiveCards) < MaxConcurrent
    BY <1>2 DEF CanTake
  <2>2. ActiveCards' = ActiveCards
    BY <1>0 DEF ActiveCards
  <2> HIDE DEF ActiveCards, Resolving
  <2> QED
    BY <1>0, <2>1, <2>2, Sizes, SizesNext DEF Capacity
<1>3. CASE ~CanTake(c)
  <2> DEFINE rest == [passes[p] EXCEPT !.todo = @ \ {c}]
  <2>1. passes' = [passes EXCEPT ![p] = rest]
    BY <1>1, <1>3 DEF PassOnly
  <2>2. rest.pc # "resolving"
    BY DEF Take, TypeInv, TypeOK, PassState
  <2>3. Resolving' \subseteq Resolving
    BY <2>1, <2>2, OnePassOnward
  <2> QED
    BY <1>0, <2>3, SamePaid, PaidKeepsCapacity
<1> QED
  BY <1>2, <1>3

\* The slot a claim takes is the one its pass was counted for.
LEMMA ReserveCapacity ==
  ASSUME TypeInv, TypeInv', Capacity, NEW p \in Pass, Reserve(p)
  PROVE  Capacity'
<1> DEFINE c == passes[p].card
<1>0. bypass' = bypass /\ bypass \in Nat
  BY DEF Reserve, TypeInv, TypeOK
<1>1. ActiveCards' \subseteq ActiveCards \cup {c}
  BY DEF Reserve, ActiveCards, TypeInv, TypeOK
<1>2. Resolving' \subseteq Resolving \ {p} /\ p \in Resolving
  BY DEF Reserve, Resolving, TypeInv, TypeOK, PassState
<1>3. /\ IsFiniteSet(ActiveCards \cup {c})
      /\ Cardinality(ActiveCards \cup {c}) =
           IF c \in ActiveCards THEN Cardinality(ActiveCards)
           ELSE Cardinality(ActiveCards) + 1
  BY Sizes, FS_AddElement
<1>4. Cardinality(ActiveCards') <= Cardinality(ActiveCards \cup {c})
  BY <1>1, <1>3, FS_Subset
<1>5. /\ IsFiniteSet(Resolving \ {p})
      /\ Cardinality(Resolving \ {p}) = Cardinality(Resolving) - 1
  BY <1>2, Sizes, FS_RemoveElement
<1>6. Cardinality(Resolving') <= Cardinality(Resolving \ {p})
  BY <1>2, <1>5, FS_Subset
<1> HIDE DEF ActiveCards, Resolving
<1> QED
  BY <1>0, <1>3, <1>4, <1>5, <1>6, Sizes, SizesNext DEF Capacity

\* What reclaim resumes is counted; what it recycles is not active.
LEMMA ReclaimCapacity ==
  ASSUME TypeInv, TypeInv', Capacity, ReclaimSaves
  PROVE  Capacity'
<1>0. bypass \in Nat /\ rec.resumed \in SUBSET CardId
  BY DEF TypeInv, TypeOK, RecState
<1>1. IsFiniteSet(rec.resumed) /\ Cardinality(rec.resumed) \in Nat
  BY <1>0, DispatchAssumption, FS_Subset, FS_CardinalityType
<1>2. CASE rec.dirty
  BY <1>2, SamePaid, SamePasses, PaidKeepsCapacity DEF ReclaimSaves
<1>3. CASE ~rec.dirty
  <2>1. \A c \in CardId : ~Active(Recycle(cards[c], Stamp))
    <3> SUFFICES ASSUME NEW c \in CardId
                 PROVE  Recycle(cards[c], Stamp).status # "running"
      BY DEF Active
    <3> DEFINE r == [cards[c] EXCEPT !.sessionRef = LeasedSession(cards[c]),
                                     !.resumeAttempts = 0]
    <3>1. r \in Card
      <4>1. cards[c] \in Card
        BY CardOf DEF TypeInv
      <4>2. LeasedSession(cards[c]) \in Session \cup {None}
        BY <4>1, LeaseType
      <4> QED
        BY <4>1, <4>2 DEF Card
    <3> HIDE DEF r
    <3>2. Retry(r, Stamp).status \in {"blocked", "queued"}
      BY <3>1 DEF Retry, EnterQueued, Card
    <3> QED
      BY <3>2 DEF Recycle, r
  <2>2. ActiveCards' \subseteq ActiveCards \cup rec.resumed
    BY <1>3, <2>1 DEF ReclaimSaves, ActiveCards
  <2>3. /\ IsFiniteSet(ActiveCards \cup rec.resumed)
        /\ Cardinality(ActiveCards \cup rec.resumed) =
             Cardinality(ActiveCards) + Cardinality(rec.resumed)
               - Cardinality(ActiveCards \cap rec.resumed)
    BY <1>1, Sizes, FS_Union
  <2>4. Cardinality(ActiveCards \cap rec.resumed) \in Nat
    BY Sizes, FS_Intersection, FS_CardinalityType
  <2>5. Cardinality(ActiveCards') <= Cardinality(ActiveCards \cup rec.resumed)
    BY <2>2, <2>3, FS_Subset
  <2>6. bypass' = bypass + Cardinality(rec.resumed)
    BY <1>3 DEF ReclaimSaves
  <2>7. Paid
    <3> HIDE DEF ActiveCards
    <3> QED
      BY <1>0, <1>1, <2>3, <2>4, <2>5, <2>6, Sizes, SizesNext DEF Paid
  <2> QED
    BY <2>7, SamePasses, PaidKeepsCapacity DEF ReclaimSaves
<1> QED
  BY <1>2, <1>3

LEMMA ExpiryPaid ==
  ASSUME TypeInv, NEW c \in CardId, LeaseExpires(c)
  PROVE  Paid
<1>0. bypass' = bypass /\ bypass \in Nat
  BY DEF LeaseExpires, TypeInv, TypeOK
<1>1. \A d \in CardId : d # c => cards'[d] = cards[d]
  BY DEF LeaseExpires, TypeInv, TypeOK
<1>2. c \in ActiveCards
  BY DEF LeaseExpires, ActiveCards
<1>3. ActiveCards' \subseteq ActiveCards
  BY <1>1, <1>2 DEF ActiveCards
<1>4. Cardinality(ActiveCards') <= Cardinality(ActiveCards)
  BY <1>3, Sizes, FS_Subset
<1> HIDE DEF ActiveCards
<1> QED
  BY <1>0, <1>4, Sizes, SizesNext DEF Paid

LEMMA CapacityStep ==
  ASSUME TypeInv, TypeInv', Capacity, [Next]_vars
  PROVE  Capacity'
<1>1. ASSUME NEW p \in Pass, BeginPass(p) \/ BeginClaim(p)
      PROVE  Capacity'
  <2>1. PICK todo :
          PassOnly(p, [IdlePass EXCEPT !.pc = "next", !.todo = todo])
    BY <1>1 DEF BeginPass, BeginClaim
  <2>2. [IdlePass EXCEPT !.pc = "next", !.todo = todo].pc # "resolving"
    BY DEF IdlePass
  <2>3. Resolving' \subseteq Resolving
    BY <2>1, <2>2, OnePassOnward DEF PassOnly
  <2> QED
    BY <2>1, <2>3, SamePaid, PaidKeepsCapacity DEF PassOnly
<1>2. ASSUME NEW p \in Pass, EndPass(p) \/ Refused(p)
      PROVE  Capacity'
  <2>0. IdlePass.pc # "resolving" /\ Onward(p).pc # "resolving"
    BY DEF IdlePass, Onward
  <2>3. PassOnly(p, IdlePass) \/ PassOnly(p, Onward(p))
    BY <1>2 DEF EndPass, Refused
  <2>1. PICK state : PassOnly(p, state) /\ state.pc # "resolving"
    BY <2>0, <2>3, Zenon
  <2>2. Resolving' \subseteq Resolving
    BY <2>1, OnePassOnward DEF PassOnly
  <2> QED
    BY <2>1, <2>2, SamePaid, PaidKeepsCapacity DEF PassOnly
<1>3. ASSUME NEW p \in Pass, Created(p)
      PROVE  Capacity'
  <2>1. PICK s \in Session :
          passes' = [passes EXCEPT ![p] = [@ EXCEPT !.pc = "granting", !.session = s]]
    BY <1>3 DEF Created
  <2>2. [passes[p] EXCEPT !.pc = "granting", !.session = s].pc # "resolving"
    BY DEF TypeInv, TypeOK, PassState
  <2>3. Resolving' \subseteq Resolving
    BY <2>1, <2>2, OnePassOnward
  <2> QED
    BY <1>3, <2>3, SamePaid, PaidKeepsCapacity DEF Created
<1>4. ASSUME NEW p \in Pass, CreateFailed(p) \/ Linked(p)
      PROVE  Capacity'
  <2>1. passes[p].card \in CardId
    BY <1>4 DEF CreateFailed, Linked, TypeInv, PassInv
  <2>2. Paid
    BY <1>4, <2>1, StorePaid, SamePaid DEF CreateFailed, Linked, Save
  <2>3. Resolving' \subseteq Resolving
    <3>1. Onward(p).pc # "resolving"
      BY DEF Onward, IdlePass
    <3> QED
      BY <1>4, <3>1, OnePassOnward DEF CreateFailed, Linked
  <2> QED
    BY <2>2, <2>3, PaidKeepsCapacity
<1>5. CASE BeginReconcile \/ ReconcileObserves \/ EndReconcile \/ StartupBegins
  BY <1>5, SamePaid, SamePasses, PaidKeepsCapacity
     DEF BeginReconcile, ReconcileObserves, EndReconcile, StartupBegins
<1>6. ASSUME NEW c \in CardId, ReclaimResumes(c) \/ ReclaimRecycles(c)
      PROVE  Capacity'
  BY <1>6, SamePaid, SamePasses, PaidKeepsCapacity DEF ReclaimResumes, ReclaimRecycles
<1>7. ASSUME NEW c \in CardId, Observed(c)
      PROVE  Capacity'
  <2>1. Paid
    BY <1>7, StorePaid, SamePaid DEF Observed
  <2> QED
    BY <1>7, <2>1, SamePasses, PaidKeepsCapacity DEF Observed
<1>8. ASSUME NEW p \in Pass, ReconcileDispatches(p)
      PROVE  Capacity'
  <2>1. PICK todo :
          passes' = [passes EXCEPT ![p] = [IdlePass EXCEPT !.pc = "next", !.todo = todo]]
    BY <1>8 DEF ReconcileDispatches
  <2>2. [IdlePass EXCEPT !.pc = "next", !.todo = todo].pc # "resolving"
    BY DEF IdlePass
  <2>3. Resolving' \subseteq Resolving
    BY <2>1, <2>2, OnePassOnward
  <2> QED
    BY <1>8, <2>3, SamePaid, PaidKeepsCapacity DEF ReconcileDispatches
<1>9. ASSUME NEW s \in Session, WorkerStops(s) \/ HumanOnSession(s)
      PROVE  Capacity'
  BY <1>9, SamePaid, SamePasses, PaidKeepsCapacity
     DEF WorkerStops, HumanOnSession, WorldOnly
<1>10. ASSUME NEW s \in Session, NEW c \in CardId, Receipt(s, c)
       PROVE  Capacity'
  <2>1. Paid
    BY <1>10, StorePaid DEF Receipt, Save
  <2> QED
    BY <1>10, <2>1, SamePasses, PaidKeepsCapacity DEF Receipt
<1>11. ASSUME NEW c \in CardId, LeaseExpires(c)
       PROVE  Capacity'
  BY <1>11, ExpiryPaid, SamePasses, PaidKeepsCapacity DEF LeaseExpires
<1>12. ASSUME NEW c \in CardId,
              \/ EditCard(c) \/ RemoveCard(c) \/ ReturnCard(c) \/ AssignProject(c)
              \/ \E target \in Status : MoveCard(c, target)
       PROVE  Capacity'
  <2>1. PICK k : Human(c, k)
    BY <1>12 DEF EditCard, RemoveCard, ReturnCard, AssignProject, MoveCard
  <2>2. Paid
    BY <2>1, StorePaid DEF Human, Save
  <2> QED
    BY <2>1, <2>2, SamePasses, PaidKeepsCapacity DEF Human
<1>13. ASSUME NEW c \in CardId, StartupResume(c)
       PROVE  Capacity'
  <2>1. Paid
    BY <1>13, StorePaid, SamePaid DEF StartupResume, Save
  <2> QED
    BY <1>13, <2>1, SamePasses, PaidKeepsCapacity DEF StartupResume
<1>14. CASE Crash
  <2>1. Resolving' \subseteq Resolving
    BY <1>14 DEF Crash, Resolving, IdlePass
  <2> QED
    BY <1>14, <2>1, SamePaid, PaidKeepsCapacity DEF Crash
<1>15. CASE UNCHANGED vars
  BY <1>15, SamePaid, SamePasses, PaidKeepsCapacity DEF vars
<1>16. CASE ChangeSettings
  BY <1>16, SamePaid, SamePasses, PaidKeepsCapacity DEF ChangeSettings
<1> QED
  BY <1>1, <1>2, <1>3, <1>4, <1>5, <1>6, <1>7, <1>8, <1>9, <1>10, <1>11, <1>12,
     <1>13, <1>14, <1>15, <1>16, TakeCapacity, ReserveCapacity, ReclaimCapacity
     DEF Next, Dispatching, Reconciling

LEMMA CapacityInit == Init => Capacity
<1> SUFFICES ASSUME Init PROVE Capacity
  OBVIOUS
<1>1. ActiveCards = {}
  <2>1. PICK order \in [CardId -> 1..Cardinality(CardId)], gone \in SUBSET CardId :
          cards = [c \in CardId |-> IF c \in gone THEN Remove(NewCard("queued", order[c]))
                                   ELSE NewCard("queued", order[c])]
    BY DEF Init
  <2>2. \A c \in CardId : cards[c].lease = None
    <3> TAKE c \in CardId
    <3> DEFINE k == NewCard("queued", order[c])
    <3>1. order[c] \in Nat
      BY DispatchAssumption, FS_CardinalityType
    <3>2. k \in Card
      BY <3>1, NewCardType DEF Status
    <3>3. k.lease = None
      BY DEF NewCard
    <3> HIDE DEF k
    <3>4. Remove(k).lease = None
      BY <3>2, <3>3, RemoveKeepsLease
    <3> QED
      BY <2>1, <3>3, <3>4 DEF k
  <2> QED
    BY <2>2 DEF ActiveCards, Active
<1>2. Resolving = {}
  BY DEF Init, Resolving, IdlePass
<1>3. bypass = 0
  BY DEF Init
<1> QED
  BY <1>1, <1>2, <1>3, Sizes, FS_EmptySet DEF Capacity

\* The board never has more active cards than maxConcurrent, one for every
\* dispatch pass beyond the first, and the slots taken past the gate (claimTask
\* of dispatcher.js: the capacity is checked before an await, the claim follows
\* it), whatever the number of cards, passes, people's requests and restarts.
THEOREM DispatchCapacityBound == Spec => []CapacityBound
<1>1. TypeInv /\ TypeInv' /\ Capacity /\ [Next]_vars => Capacity'
  BY CapacityStep
<1>2. TypeInv /\ Capacity => CapacityBound
  <2> SUFFICES ASSUME TypeInv, Capacity PROVE CapacityBound
    OBVIOUS
  <2>1. bypass \in Nat
    BY DEF TypeInv, TypeOK
  <2> HIDE DEF ActiveCards, Resolving
  <2> QED
    BY <2>1, Sizes DEF Capacity, CapacityBound
<1> QED
  BY <1>1, <1>2, CapacityInit, DispatchTypeInv, PTL DEF Spec
-----------------------------------------------------------------------------
(* The resume budget.  Once a card was put to work, the wakes of reclaim   *)
(* that are on record never exceed maxAttempts: the invariant ties them to *)
(* the counter of the card, and what reclaim has in hand to the document   *)
(* it loaded, as long as nothing else was saved.                           *)


\* The history agrees with the counter of a card as long as it runs; a recycled
\* card keeps neither, which is why the bound itself is part of the invariant.
WithinBudget(c) ==
  /\ nudges[c] <= MaxAttempts
  /\ cards[c].status = "running" => nudges[c] <= cards[c].resumeAttempts

\* The cards a reclaim has woken, or may still wake.
Wakeable == rec.resumed \cup {c \in rec.todo : rec.ref[c] # None}

\* The cards of the document reclaim loaded that it had a look at, or still will.
Loaded == rec.todo \cup rec.resumed \cup rec.recycled

\* As long as nothing else was saved, these cards are as reclaim loaded them.
ReclaimKnows ==
  rec.pc = "reclaim" /\ ~rec.dirty =>
    /\ \A c \in Loaded : Stale(cards[c])
    /\ \A c \in Wakeable : /\ cards[c].status = "running"
                           /\ cards[c].resumeAttempts < MaxAttempts

Budget == (\A c \in CardId : WithinBudget(c)) /\ ReclaimKnows

\* k2 runs only if k did, on the same resume budget.
Quiet(k, k2) ==
  k2.status = "running" =>
    k.status = "running" /\ k2.resumeAttempts = k.resumeAttempts

\* A card that does not run is out of the counter's reach.
LEMMA StoppedQuiet ==
  ASSUME NEW k, NEW k2, k2.status # "running"
  PROVE  Quiet(k, k2)
BY DEF Quiet

\* Only claim and return put a card to work.
LEMMA PipelineQuiet ==
  ASSUME NEW k \in Card
  PROVE  /\ \A stamp \in Nat : Quiet(k, AbortClaim(k, stamp))
         /\ \A s \in Session : Quiet(k, LinkSession(k, s))
         /\ Quiet(k, RefreshLease(k)) /\ Quiet(k, EnterChecking(k))
         /\ Quiet(k, WorkerInterrupted(k)) /\ Quiet(k, WorkerFinish(k))
         /\ Quiet(k, WorkerNoop(k)) /\ Quiet(k, BlockTask(k, "worker blocked"))
<1>1. ASSUME NEW stamp \in Nat
      PROVE  Quiet(k, AbortClaim(k, stamp))
  <2>1. AbortClaim(k, stamp).status \in {"blocked", "queued"}
    BY DEF AbortClaim, Retry, EnterQueued, Card
  <2> QED
    BY <2>1, StoppedQuiet
<1>2. ASSUME NEW s \in Session
      PROVE  Quiet(k, LinkSession(k, s))
  BY DEF LinkSession, Quiet, Card
<1>3. Quiet(k, RefreshLease(k))
  BY DEF RefreshLease, Quiet, Card
<1>4. /\ Quiet(k, EnterChecking(k)) /\ Quiet(k, WorkerInterrupted(k))
      /\ Quiet(k, WorkerFinish(k)) /\ Quiet(k, WorkerNoop(k))
      /\ Quiet(k, BlockTask(k, "worker blocked"))
  BY DEF EnterChecking, WorkerInterrupted, WorkerFinish, WorkerNoop, ParkInReview,
         BlockTask, Quiet, Card
<1> QED
  BY <1>1, <1>2, <1>3, <1>4

LEMMA RequestQuiet ==
  ASSUME NEW k \in Card
  PROVE  /\ \A target \in Status, stamp \in Nat :
              CanMove(k, target) => Quiet(k, Move(k, target, stamp))
         /\ Quiet(k, Edit(k)) /\ Quiet(k, Remove(k))
<1>1. ASSUME NEW target \in Status, NEW stamp \in Nat, CanMove(k, target)
      PROVE  Quiet(k, Move(k, target, stamp))
  BY <1>1 DEF CanMove, Move, AgentOwned, Quiet, Card
<1>2. Quiet(k, Edit(k)) /\ Quiet(k, Remove(k))
  BY DEF Edit, Remove, Removed, Quiet, Card
<1> QED
  BY <1>1, <1>2

\* A save of one card, quiet or a fresh start, during which reclaim stands aside.
LEMMA OneCardBudget ==
  ASSUME TypeInv, Budget, NEW c \in CardId, NEW k \in Card,
         cards' = [cards EXCEPT ![c] = k],
         \/ nudges' = nudges /\ Quiet(cards[c], k)
         \/ nudges' = [nudges EXCEPT ![c] = 0],
         rec'.pc = "reclaim" => rec'.dirty
  PROVE  Budget'
<1>1. /\ MaxAttempts \in Nat /\ k.resumeAttempts \in Nat
      /\ \A d \in CardId : nudges[d] \in Nat
  BY ConfigAssumption DEF TypeInv, TypeOK, Card
<1>2. ASSUME NEW d \in CardId
      PROVE  WithinBudget(d)'
  BY <1>1 DEF TypeInv, TypeOK, Budget, WithinBudget, Quiet
<1>3. ReclaimKnows'
  BY DEF ReclaimKnows
<1> QED
  BY <1>2, <1>3 DEF Budget

LEMMA TouchedDirty ==
  ASSUME TypeInv, rec' = Touched
  PROVE  rec'.pc = "reclaim" => rec'.dirty
BY DEF Touched, TypeInv, TypeOK, RecState

\* A step that leaves the cards and the history alone.
LEMMA SameBudget ==
  ASSUME Budget, UNCHANGED <<cards, nudges>>,
         rec' = rec \/ rec'.pc # "reclaim"
  PROVE  Budget'
BY DEF Budget, WithinBudget, ReclaimKnows, Wakeable, Loaded

\* One save of a card outside reclaim: the common case of the actions below.
LEMMA SaveBudget ==
  ASSUME TypeInv, Budget, NEW c \in CardId, NEW k \in Card,
         Quiet(cards[c], k), Save(c, k), UNCHANGED nudges
  PROVE  Budget'
<1>1. rec'.pc = "reclaim" => rec'.dirty
  BY TouchedDirty DEF Save
<1> QED
  BY <1>1, OneCardBudget DEF Save, Store

LEMMA DispatchingBudget ==
  ASSUME TypeInv, Budget, NEW p \in Pass, Dispatching(p)
  PROVE  Budget'
<1> DEFINE c == passes[p].card
<1>1. CASE Take(p) \/ EndPass(p) \/ Refused(p)
  <2>1. UNCHANGED <<cards, nudges, rec>>
    BY <1>1 DEF Take, EndPass, Refused, PassOnly
  <2> QED
    BY <2>1, SameBudget
<1>2. CASE Reserve(p)
  <2>1. c \in CardId /\ Claim(cards[c], passes[p].branch) \in Card
    BY <1>2, CardOf, ClaimType DEF Reserve, TypeInv, PassInv
  <2>2. rec'.pc = "reclaim" => rec'.dirty
    BY <1>2, TouchedDirty DEF Reserve
  <2>3. /\ cards' = [cards EXCEPT ![c] = Claim(cards[c], passes[p].branch)]
        /\ nudges' = [nudges EXCEPT ![c] = 0]
    BY <1>2 DEF Reserve
  <2> HIDE DEF c
  <2> QED
    BY <2>1, <2>2, <2>3, OneCardBudget
<1>3. CASE Created(p)
  BY <1>3, SameBudget DEF Created
<1>4. CASE CreateFailed(p)
  <2>1. c \in CardId
    BY <1>4 DEF CreateFailed, TypeInv, PassInv
  <2>2. AbortClaim(cards[c], Stamp) \in Card /\ Quiet(cards[c], AbortClaim(cards[c], Stamp))
    BY <2>1, CardOf, StampType, AbortClaimType, PipelineQuiet DEF TypeInv
  <2>3. \/ Save(c, AbortClaim(cards[c], Stamp)) /\ UNCHANGED nudges
        \/ UNCHANGED <<cards, nudges, rec>>
    BY <1>4 DEF CreateFailed
  <2> HIDE DEF c
  <2> QED
    BY <2>1, <2>2, <2>3, SaveBudget, SameBudget
<1>5. CASE Linked(p)
  <2> DEFINE s == passes[p].session
  <2>1. c \in CardId /\ s \in Session
    BY <1>5 DEF Linked, TypeInv, PassInv
  <2>2. LinkSession(cards[c], s) \in Card /\ Quiet(cards[c], LinkSession(cards[c], s))
    BY <2>1, CardOf, LinkSessionType, PipelineQuiet DEF TypeInv
  <2>3. \/ Save(c, LinkSession(cards[c], s)) /\ UNCHANGED nudges
        \/ UNCHANGED <<cards, nudges, rec>>
    BY <1>5 DEF Linked
  <2> HIDE DEF c, s
  <2> QED
    BY <2>1, <2>2, <2>3, SaveBudget, SameBudget
<1> QED
  BY <1>1, <1>2, <1>3, <1>4, <1>5 DEF Dispatching

\* The save of a reclaim that nothing disturbed: every card it woke was within
\* its budget when the document was loaded, and still is as it was then.
LEMMA ReclaimBudget ==
  ASSUME TypeInv, Budget, ReclaimSaves
  PROVE  Budget'
<1>1. rec'.pc # "reclaim"
  BY DEF ReclaimSaves, IdleRec
<1>2. CASE rec.dirty
  BY <1>1, <1>2, SameBudget DEF ReclaimSaves
<1>3. CASE ~rec.dirty
  <2>1. ASSUME NEW c \in CardId
        PROVE  WithinBudget(c)'
    <3>0. /\ MaxAttempts \in Nat /\ nudges[c] \in Nat /\ cards[c] \in Card
          /\ cards[c].resumeAttempts \in Nat
      BY ConfigAssumption, CardOf DEF TypeInv, TypeOK, Card
    <3>1. CASE c \in rec.resumed
      <4>1. cards[c].status = "running" /\ cards[c].resumeAttempts < MaxAttempts
        BY <1>3, <3>1 DEF ReclaimSaves, Budget, ReclaimKnows, Wakeable
      <4>2. nudges[c] <= cards[c].resumeAttempts
        BY <4>1 DEF Budget, WithinBudget
      <4>3. nudges'[c] = nudges[c] + 1 /\ cards'[c] = ApplyResumed(cards[c])
        BY <1>3, <3>1 DEF ReclaimSaves
      <4>4. cards'[c].resumeAttempts = cards[c].resumeAttempts + 1
        BY <3>0, <4>3 DEF ApplyResumed, Card
      <4> QED
        BY <3>0, <4>1, <4>2, <4>3, <4>4 DEF WithinBudget
    <3>2. CASE c \notin rec.resumed
      <4>1. /\ nudges'[c] = nudges[c]
            /\ cards'[c] \in {Recycle(cards[c], Stamp), cards[c]}
        BY <1>3, <3>2 DEF ReclaimSaves
      <4>2. Recycle(cards[c], Stamp).status # "running"
        <5> DEFINE r == [cards[c] EXCEPT !.sessionRef = LeasedSession(cards[c]),
                                         !.resumeAttempts = 0]
        <5>1. r \in Card
          BY <3>0, LeaseType DEF Card
        <5> HIDE DEF r
        <5>2. Retry(r, Stamp).status \in {"blocked", "queued"}
          BY <5>1 DEF Retry, EnterQueued, Card
        <5> QED
          BY <5>2 DEF Recycle, r
      <4> QED
        BY <4>1, <4>2 DEF Budget, WithinBudget
    <3> QED
      BY <3>1, <3>2
  <2> QED
    BY <1>1, <2>1 DEF Budget, ReclaimKnows
<1> QED
  BY <1>2, <1>3

LEMMA ReconcilingBudget ==
  ASSUME TypeInv, Budget, Reconciling
  PROVE  Budget'
<1>0. rec \in RecState
  BY DEF TypeInv, TypeOK
<1>1. CASE BeginReconcile
  <2>1. UNCHANGED <<cards, nudges>>
    BY <1>1 DEF BeginReconcile
  <2>2. ReclaimKnows'
    <3>1. CASE StaleCards = {}
      BY <1>1, <3>1 DEF BeginReconcile, ReclaimKnows, IdleRec
    <3>2. CASE StaleCards # {}
      <4> DEFINE may == {c \in StaleCards : MayResume(cards[c])}
      <4>1. /\ rec'.todo = StaleCards /\ rec'.ref = RefsOf(may)
            /\ rec'.resumed = {} /\ rec'.recycled = {}
        BY <1>1, <3>2 DEF BeginReconcile, IdleRec
      <4>2. ASSUME NEW c \in StaleCards, RefsOf(may)[c] # None
            PROVE  /\ cards[c].status = "running"
                   /\ cards[c].resumeAttempts < MaxAttempts
        BY <4>2 DEF RefsOf, StaleCards, Stale, MayResume
      <4> HIDE DEF may
      <4>3. \A c \in Loaded' : Stale(cards[c])
        BY <4>1 DEF Loaded, StaleCards
      <4> QED
        BY <2>1, <4>1, <4>2, <4>3 DEF ReclaimKnows, Wakeable
    <3> QED
      BY <3>1, <3>2
  <2> QED
    BY <2>1, <2>2 DEF Budget, WithinBudget
<1>2. CASE ReclaimSaves
  BY <1>2, ReclaimBudget
<1>3. CASE ReconcileObserves \/ EndReconcile \/ \E p \in Pass : ReconcileDispatches(p)
  <2>1. UNCHANGED <<cards, nudges>>
    BY <1>3 DEF ReconcileObserves, EndReconcile, ReconcileDispatches
  <2>2. rec'.pc # "reclaim"
    <3>1. CASE ReconcileObserves
      BY <3>1 DEF ReconcileObserves, IdleRec
    <3>2. CASE EndReconcile
      BY <3>2 DEF EndReconcile, IdleRec
    <3>3. ASSUME NEW p \in Pass, ReconcileDispatches(p)
          PROVE  rec'.pc # "reclaim"
      BY <1>0, <3>3 DEF ReconcileDispatches, RecState
    <3> QED
      BY <1>3, <3>1, <3>2, <3>3
  <2> QED
    BY <2>1, <2>2, SameBudget
<1>4. ASSUME NEW c \in CardId, ReclaimResumes(c) \/ ReclaimRecycles(c)
      PROVE  Budget'
  <2>1. UNCHANGED <<cards, nudges>>
    BY <1>4 DEF ReclaimResumes, ReclaimRecycles
  <2>2. /\ rec'.pc = rec.pc /\ rec'.dirty = rec.dirty
        /\ Wakeable' \subseteq Wakeable /\ Loaded' \subseteq Loaded
    <3>1. CASE ReclaimResumes(c)
      BY <1>0, <3>1 DEF ReclaimResumes, RecState, Wakeable, Loaded
    <3>2. CASE ReclaimRecycles(c)
      BY <1>0, <3>2 DEF ReclaimRecycles, RecState, Wakeable, Loaded
    <3> QED
      BY <1>4, <3>1, <3>2
  <2> QED
    BY <2>1, <2>2 DEF Budget, WithinBudget, ReclaimKnows
<1>5. ASSUME NEW c \in CardId, Observed(c)
      PROVE  Budget'
  <2>1. /\ RefreshLease(cards[c]) \in Card /\ EnterChecking(cards[c]) \in Card
        /\ WorkerInterrupted(cards[c]) \in Card
    BY CardOf, RefreshLeaseType, EnterCheckingType, WorkerInterruptedType DEF TypeInv
  <2>2. /\ Quiet(cards[c], RefreshLease(cards[c]))
        /\ Quiet(cards[c], EnterChecking(cards[c]))
        /\ Quiet(cards[c], WorkerInterrupted(cards[c]))
    BY CardOf, PipelineQuiet DEF TypeInv
  <2>3. /\ nudges' = nudges
        /\ \/ UNCHANGED cards
           \/ \E k \in Card : Quiet(cards[c], k) /\ cards' = [cards EXCEPT ![c] = k]
    BY <1>5, <2>1, <2>2 DEF Observed, Store
  <2>4. rec'.pc # "reclaim"
    <3> DEFINE onward == [rec EXCEPT !.todo = @ \ {c}, !.ref[c] = None]
    <3>1. onward.pc = rec.pc
      BY <1>0 DEF RecState
    <3>2. /\ rec.pc = "sessions"
          /\ rec' = onward \/ rec' = IdleRec
      BY <1>5 DEF Observed
    <3> HIDE DEF onward
    <3> QED
      BY <3>1, <3>2 DEF IdleRec
  <2> QED
    BY <2>3, <2>4, OneCardBudget, SameBudget
<1> QED
  BY <1>1, <1>2, <1>3, <1>4, <1>5 DEF Reconciling

\* Running out touches the lease only.
LEMMA ExpiryBudget ==
  ASSUME TypeInv, Budget, NEW c \in CardId, LeaseExpires(c)
  PROVE  Budget'
<1>1. \A d \in CardId : /\ cards'[d].status = cards[d].status
                        /\ cards'[d].resumeAttempts = cards[d].resumeAttempts
  BY DEF LeaseExpires, TypeInv, TypeOK, Card
<1>2. \A d \in CardId : Stale(cards[d]) => Stale(cards'[d])
  <2>1. \A d \in CardId \ {c} : cards'[d] = cards[d]
    BY DEF LeaseExpires, TypeInv, TypeOK
  <2>2. ~Stale(cards[c])
    BY DEF LeaseExpires, Active, Stale
  <2> QED
    BY <2>1, <2>2
<1>3. /\ rec' = rec /\ nudges' = nudges
      /\ Wakeable \subseteq CardId /\ Loaded \subseteq CardId
  BY DEF LeaseExpires, TypeInv, TypeOK, RecState, Wakeable, Loaded
<1> QED
  BY <1>1, <1>2, <1>3 DEF Budget, WithinBudget, ReclaimKnows, Wakeable, Loaded

LEMMA WorldBudget ==
  ASSUME TypeInv, Budget,
         \/ \E s \in Session :
              WorkerStops(s) \/ HumanOnSession(s) \/ \E c \in CardId : Receipt(s, c)
         \/ \E c \in CardId : LeaseExpires(c) \/ StartupResume(c)
         \/ Crash \/ StartupBegins
  PROVE  Budget'
<1>1. ASSUME NEW s \in Session, WorkerStops(s) \/ HumanOnSession(s)
      PROVE  Budget'
  BY <1>1, SameBudget DEF WorkerStops, HumanOnSession, WorldOnly
<1>2. ASSUME NEW s \in Session, NEW c \in CardId, Receipt(s, c)
      PROVE  Budget'
  <2>1. /\ WorkerFinish(cards[c]) \in Card /\ WorkerNoop(cards[c]) \in Card
        /\ BlockTask(cards[c], "worker blocked") \in Card
    BY CardOf, WorkerFinishType, WorkerNoopType, BlockTaskType DEF Reason, TypeInv
  <2>2. /\ Quiet(cards[c], WorkerFinish(cards[c])) /\ Quiet(cards[c], WorkerNoop(cards[c]))
        /\ Quiet(cards[c], BlockTask(cards[c], "worker blocked"))
    BY CardOf, PipelineQuiet DEF TypeInv
  <2>3. UNCHANGED nudges /\ \E k \in Card : Quiet(cards[c], k) /\ Save(c, k)
    BY <1>2, <2>1, <2>2 DEF Receipt
  <2> QED
    BY <2>3, SaveBudget
<1>3. ASSUME NEW c \in CardId, StartupResume(c)
      PROVE  Budget'
  <2>1. RefreshLease(cards[c]) \in Card /\ Quiet(cards[c], RefreshLease(cards[c]))
    BY CardOf, RefreshLeaseType, PipelineQuiet DEF TypeInv
  <2>2. /\ UNCHANGED nudges
        /\ Save(c, RefreshLease(cards[c])) \/ UNCHANGED <<cards, rec>>
    BY <1>3 DEF StartupResume
  <2> QED
    BY <2>1, <2>2, SaveBudget, SameBudget
<1>4. CASE Crash \/ StartupBegins
  BY <1>4, SameBudget DEF Crash, StartupBegins, IdleRec
<1> QED
  BY <1>1, <1>2, <1>3, <1>4, ExpiryBudget

LEMMA HumanBudget ==
  ASSUME TypeInv, Budget, NEW c \in CardId,
         \/ EditCard(c) \/ RemoveCard(c) \/ ReturnCard(c) \/ AssignProject(c)
         \/ \E target \in Status : MoveCard(c, target)
  PROVE  Budget'
<1>0. cards[c] \in Card
  BY CardOf DEF TypeInv
<1>1. CASE EditCard(c)
  <2>1. Edit(cards[c]) \in Card /\ Quiet(cards[c], Edit(cards[c]))
    BY <1>0, EditType, RequestQuiet
  <2> QED
    BY <1>1, <2>1, SaveBudget DEF EditCard, Human
<1>2. CASE RemoveCard(c)
  <2>1. Remove(cards[c]) \in Card /\ Quiet(cards[c], Remove(cards[c]))
    BY <1>0, RemoveType, RequestQuiet
  <2> QED
    BY <1>2, <2>1, SaveBudget DEF RemoveCard, Human
<1>3. ASSUME NEW target \in Status, MoveCard(c, target)
      PROVE  Budget'
  <2>1. /\ Move(cards[c], target, Stamp) \in Card
        /\ Quiet(cards[c], Move(cards[c], target, Stamp))
    BY <1>0, <1>3, StampType, MoveType, RequestQuiet DEF MoveCard
  <2> QED
    BY <1>3, <2>1, SaveBudget DEF MoveCard, Human
<1>4. CASE ReturnCard(c)
  <2>1. Return(cards[c], Stamp) \in Card
    BY <1>0, StampType, ReturnType
  <2>2. rec'.pc = "reclaim" => rec'.dirty
    BY <1>4, TouchedDirty DEF ReturnCard, Human, Save
  <2>3. /\ cards' = [cards EXCEPT ![c] = Return(cards[c], Stamp)]
        /\ nudges' = [nudges EXCEPT ![c] = 0]
    BY <1>4 DEF ReturnCard, Human, Save, Store
  <2> QED
    BY <2>1, <2>2, <2>3, OneCardBudget
<1>5. CASE AssignProject(c)
  <2>1. Quiet(cards[c], cards[c])
    BY <1>0 DEF Quiet, Card
  <2> QED
    BY <1>0, <1>5, <2>1, SaveBudget DEF AssignProject, Human
<1> QED
  BY <1>1, <1>2, <1>3, <1>4, <1>5

LEMMA BudgetStep ==
  ASSUME TypeInv, Budget, [Next]_vars
  PROVE  Budget'
<1>1. ASSUME NEW p \in Pass, BeginPass(p) \/ BeginClaim(p)
      PROVE  Budget'
  <2>1. UNCHANGED <<cards, nudges, rec>>
    BY <1>1 DEF BeginPass, BeginClaim, PassOnly
  <2> QED
    BY <2>1, SameBudget
<1>2. CASE ChangeSettings \/ UNCHANGED vars
  BY <1>2, SameBudget DEF ChangeSettings, vars
<1> QED
  BY <1>1, <1>2, DispatchingBudget, ReconcilingBudget, WorldBudget, HumanBudget DEF Next

LEMMA BudgetInit == Init => Budget
<1> SUFFICES ASSUME Init
             PROVE  Budget
  OBVIOUS
<1>1. MaxAttempts \in Nat
  BY ConfigAssumption
<1>2. \A c \in CardId : nudges[c] = 0
  BY DEF Init
<1>4. \A c \in CardId : cards[c].status # "running"
  <2>1. PICK order \in [CardId -> 1..Cardinality(CardId)], gone \in SUBSET CardId :
          cards = [c \in CardId |-> IF c \in gone THEN Remove(NewCard("queued", order[c]))
                                   ELSE NewCard("queued", order[c])]
    BY DEF Init
  <2> TAKE c \in CardId
  <2> DEFINE k == NewCard("queued", order[c])
  <2>2. order[c] \in Nat
    BY DispatchAssumption, FS_CardinalityType
  <2>3. k \in Card
    BY <2>2, NewCardType DEF Status
  <2>4. k.status = "queued"
    BY DEF NewCard
  <2> HIDE DEF k
  <2>5. Remove(k).status = "removed"
    BY <2>3, RemoveKeepsLease
  <2> QED
    BY <2>1, <2>4, <2>5 DEF k
<1>3. rec.pc = "idle"
  BY DEF Init, IdleRec
<1> QED
  BY <1>1, <1>2, <1>3, <1>4 DEF Budget, WithinBudget, ReclaimKnows

\* Once a card was put to work, reclaim wakes its worker at most maxAttempts times
\* on record: releaseStaleClaims decides on the document it loaded, and its save
\* is accepted only when nothing was saved in between.
THEOREM DispatchResumesWithinBudget == Spec => []ResumesWithinBudget
<1>1. Budget /\ TypeInv /\ [Next]_vars => Budget'
  BY BudgetStep
<1>2. Budget => ResumesWithinBudget
  BY DEF Budget, WithinBudget, ResumesWithinBudget
<1> QED
  BY <1>1, <1>2, BudgetInit, DispatchTypeInv, PTL DEF Spec


-----------------------------------------------------------------------------
(* Every step seen from outside: what it may do to the card it writes, to  *)
(* the passes in mid-claim and to the sessions.  The properties that       *)
(* follow are proved from these steps, not from the actions.               *)

\* A claim that counts against the capacity and that reclaim leaves alone.
Held(k) == k.lease # None /\ k.lease.live

\* The edges of the pipeline's own writes.
Moves(from, to) ==
  \/ from = to
  \/ from = "running" /\ to \in {"checking", "review", "blocked"}
  \/ from = "checking" /\ to \in {"review", "blocked"}

\* What no write of a card undoes.
Keeps(k, k2) == k.sessionIds \subseteq k2.sessionIds /\ k2.branch = k.branch

Works(k, k2) ==
  /\ Keeps(k, k2) /\ k2.attempts = k.attempts /\ Moves(k.status, k2.status)
  /\ k2.status = "running" /\ Held(k) => Held(k2)

\* A request of a person, with the columns it can lead to.
Asks(k, k2) ==
  /\ Keeps(k, k2) /\ k2.attempts = k.attempts
  /\ \/ k2.status = k.status
     \/ /\ k.status # "removed"
        /\ k2.status \in {"backlog", "planning", "queued", "review", "done", "blocked"}
     \/ k.status = "review" /\ k2.status = "running"
     \/ k.status \notin {"running", "merging"} /\ k2.status = "removed"

\* A card that differs in its lease, its sessions or its column along the edges.
LEMMA LinkWorks ==
  ASSUME NEW k \in Card, NEW s \in Session
  PROVE  /\ Works(k, LinkSession(k, s)) /\ LinkSession(k, s).status = k.status
         /\ s \in LinkSession(k, s).sessionIds
<1> DEFINE k2 == LinkSession(k, s)
           lease == IF k.lease = None THEN None ELSE [k.lease EXCEPT !.session = s]
<1>1. /\ k2.sessionIds = k.sessionIds \cup {s} /\ k2.branch = k.branch
      /\ k2.attempts = k.attempts /\ k2.status = k.status /\ k2.lease = lease
  BY DEF LinkSession, Card
<1>2. Held(k) => lease \in Lease /\ lease.live
  BY DEF Held, Card, Lease
<1> HIDE DEF k2, lease
<1>3. Held(k) => Held(k2)
  BY <1>1, <1>2, NoneAssumption DEF Held
<1> QED
  BY <1>1, <1>3 DEF Works, Keeps, Moves, k2

LEMMA RefreshWorks ==
  ASSUME NEW k \in Card
  PROVE  Works(k, RefreshLease(k))
<1> DEFINE k2 == RefreshLease(k)
           lease == IF k.lease = None THEN None ELSE [k.lease EXCEPT !.live = TRUE]
<1>1. /\ k2.sessionIds = k.sessionIds /\ k2.branch = k.branch
      /\ k2.attempts = k.attempts /\ k2.status = k.status /\ k2.lease = lease
  BY DEF RefreshLease, Card
<1>2. Held(k) => lease \in Lease /\ lease.live
  BY DEF Held, Card, Lease
<1> HIDE DEF k2, lease
<1>3. Held(k) => Held(k2)
  BY <1>1, <1>2, NoneAssumption DEF Held
<1> QED
  BY <1>1, <1>3 DEF Works, Keeps, Moves, k2

LEMMA StopWorks ==
  ASSUME NEW k \in Card
  PROVE  /\ Works(k, EnterChecking(k)) /\ Works(k, WorkerInterrupted(k))
         /\ CanReceipt(k) => /\ Works(k, WorkerFinish(k)) /\ Works(k, WorkerNoop(k))
                             /\ Works(k, BlockTask(k, "worker blocked"))
<1>1. Works(k, EnterChecking(k))
  BY DEF EnterChecking, Works, Keeps, Moves, Card
<1>2. Works(k, WorkerInterrupted(k))
  BY DEF WorkerInterrupted, ParkInReview, Works, Keeps, Moves, Card
<1>3. CanReceipt(k) => Works(k, WorkerFinish(k))
  BY DEF CanReceipt, WorkerFinish, Works, Keeps, Moves, Card
<1>4. CanReceipt(k) => Works(k, WorkerNoop(k))
  BY DEF CanReceipt, WorkerNoop, ParkInReview, Works, Keeps, Moves, Card
<1>5. CanReceipt(k) => Works(k, BlockTask(k, "worker blocked"))
  BY DEF CanReceipt, BlockTask, Works, Keeps, Moves, Card
<1> QED
  BY <1>1, <1>2, <1>3, <1>4, <1>5

LEMMA PeopleAsk ==
  ASSUME NEW k \in Card, NEW stamp \in Nat
  PROVE  /\ \A target \in Status : CanMove(k, target) => Asks(k, Move(k, target, stamp))
         /\ Exists(k) => Asks(k, Edit(k))
         /\ CanRemove(k) => Asks(k, Remove(k))
         /\ CanReturn(k) => Asks(k, Return(k, stamp))
<1>1. ASSUME NEW target \in Status, CanMove(k, target)
      PROVE  Asks(k, Move(k, target, stamp))
  BY <1>1 DEF CanMove, Move, AgentOwned, Status, Exists, Removed, Asks, Keeps, Card
<1>2. Exists(k) => Asks(k, Edit(k))
  BY DEF Edit, Exists, Removed, Asks, Keeps, Card
<1>3. CanRemove(k) => Asks(k, Remove(k))
  BY DEF CanRemove, Remove, Exists, Removed, Asks, Keeps, Card
<1>4. CanReturn(k) => Asks(k, Return(k, stamp))
  <2> DEFINE back == [k EXCEPT !.queue = None]
  <2>1. /\ back \in Card /\ back.sessionIds = k.sessionIds /\ back.branch = k.branch
        /\ back.attempts = k.attempts
    BY DEF Card
  <2> HIDE DEF back
  <2>2. Return(k, stamp) =
          IF k.sessionRef = None THEN EnterQueued(back, stamp)
          ELSE [back EXCEPT !.status = "running", !.lease = NewLease(k.sessionRef)]
    BY DEF Return, back
  <2>3. CASE k.sessionRef = None
    <3>1. /\ EnterQueued(back, stamp).status = "queued"
          /\ Keeps(back, EnterQueued(back, stamp))
          /\ EnterQueued(back, stamp).attempts = back.attempts
      BY <2>1 DEF EnterQueued, Keeps, Card
    <3> QED
      BY <2>1, <2>2, <2>3, <3>1 DEF CanReturn, Asks, Keeps
  <2>4. CASE k.sessionRef # None
    <3> DEFINE again == [back EXCEPT !.status = "running", !.lease = NewLease(k.sessionRef)]
    <3>1. again.status = "running" /\ Keeps(back, again) /\ again.attempts = back.attempts
      BY <2>1 DEF Keeps, Card
    <3> QED
      BY <2>1, <2>2, <2>4, <3>1 DEF CanReturn, Asks, Keeps
  <2> QED
    BY <2>3, <2>4
<1> QED
  BY <1>1, <1>2, <1>3, <1>4

LEMMA RetryKeeps ==
  ASSUME NEW k \in Card, NEW stamp \in Nat
  PROVE  /\ Keeps(k, Retry(k, stamp)) /\ Retry(k, stamp).attempts = k.attempts + 1
         /\ Retry(k, stamp).status =
              IF k.attempts + 1 > MaxAttempts THEN "blocked" ELSE "queued"
<1> DEFINE r == [k EXCEPT !.attempts = @ + 1, !.lease = None]
<1>1. /\ r \in Card /\ r.attempts = k.attempts + 1
      /\ r.sessionIds = k.sessionIds /\ r.branch = k.branch
  <2>1. k.attempts + 1 \in Nat
    BY DEF Card
  <2> QED
    BY <2>1 DEF Card
<1> HIDE DEF r
<1>2. Retry(k, stamp) =
        IF r.attempts > MaxAttempts
          THEN [r EXCEPT !.status = "blocked", !.blockedReason = "dispatch failed"]
          ELSE EnterQueued(r, stamp)
  BY DEF Retry, r
<1>3. CASE r.attempts > MaxAttempts
  <2>1. /\ Retry(k, stamp).status = "blocked" /\ Retry(k, stamp).attempts = r.attempts
        /\ Keeps(r, Retry(k, stamp))
    BY <1>1, <1>2, <1>3 DEF Keeps, Card
  <2> QED
    BY <1>1, <1>3, <2>1 DEF Keeps
<1>4. CASE ~(r.attempts > MaxAttempts)
  <2>1. /\ Retry(k, stamp).status = "queued" /\ Retry(k, stamp).attempts = r.attempts
        /\ Keeps(r, Retry(k, stamp))
    BY <1>1, <1>2, <1>4 DEF EnterQueued, Keeps, Card
  <2> QED
    BY <1>1, <1>4, <2>1 DEF Keeps
<1> QED
  BY <1>3, <1>4

LEMMA RecycleKeeps ==
  ASSUME NEW k \in Card, NEW stamp \in Nat
  PROVE  /\ Keeps(k, Recycle(k, stamp)) /\ Recycle(k, stamp).attempts = k.attempts + 1
         /\ Recycle(k, stamp).status =
              IF k.attempts + 1 > MaxAttempts THEN "blocked" ELSE "queued"
<1> DEFINE r == [k EXCEPT !.sessionRef = LeasedSession(k), !.resumeAttempts = 0]
<1>1. /\ r \in Card /\ r.attempts = k.attempts
      /\ r.sessionIds = k.sessionIds /\ r.branch = k.branch
  BY LeaseType DEF Card
<1>2. Recycle(k, stamp) = Retry(r, stamp)
  BY DEF Recycle
<1> HIDE DEF r
<1> QED
  BY <1>1, <1>2, RetryKeeps DEF Keeps

LEMMA ResumeKeeps ==
  ASSUME NEW k \in Card
  PROVE  /\ Keeps(k, ApplyResumed(k)) /\ ApplyResumed(k).attempts = k.attempts
         /\ ApplyResumed(k).status = k.status
BY DEF ApplyResumed, Keeps, Card

LEMMA ClaimKeeps ==
  ASSUME NEW k \in Card, NEW branch \in Nat
  PROVE  /\ Claim(k, branch).sessionIds = k.sessionIds /\ Claim(k, branch).branch = branch
         /\ Claim(k, branch).attempts = k.attempts /\ Claim(k, branch).status = "running"
         /\ Held(Claim(k, branch))
<1>1. /\ Claim(k, branch).sessionIds = k.sessionIds /\ Claim(k, branch).branch = branch
      /\ Claim(k, branch).attempts = k.attempts /\ Claim(k, branch).status = "running"
      /\ Claim(k, branch).lease = NewLease(None)
  BY DEF Claim, Card
<1>2. NewLease(None) \in Lease /\ NewLease(None).live
  BY LeaseType DEF NewLease
<1> QED
  BY <1>1, <1>2, NoneAssumption DEF Held

-----------------------------------------------------------------------------
(* The steps.                                                              *)

Used(s) == sessions[s] # "unused"
Spawns(p) == passes[p].pc \in {"creating", "granting"}

\* A pass that picks a card has the suffix of its branch from the card, in the queue.
KeepHands ==
  \A p \in Pass :
    \/ passes'[p] = passes[p]
    \/ /\ passes[p].pc \in {"idle", "next", "resolving"}
       /\ \/ passes'[p].pc \in {"idle", "next"}
          \/ /\ passes'[p].pc = "resolving" /\ passes'[p].card \in CardId
             /\ cards[passes'[p].card].status = "queued"
             /\ passes'[p].branch = cards[passes'[p].card].attempts

NoNewSession == \A s \in Session : Used(s)' => Used(s)

Behind == /\ KeepHands /\ NoNewSession /\ branches' \subseteq branches
          /\ UNCHANGED <<expiries, crashes>>

Only(c) == \A d \in CardId \ {c} : cards'[d] = cards[d]

\* No card is written; a request without a write is about a session, or about the
\* settings of some cards.
Aside ==
  /\ Behind /\ cards' = cards
  /\ acts' = acts \/ (acts' = acts + 1 /\ (CardId # {} \/ \E s \in Session : Used(s)))
Worked(c) ==
  /\ Behind /\ passes' = passes /\ acts' = acts
  /\ Only(c) /\ Works(cards[c], cards'[c])
Asked(c) ==
  /\ Behind /\ passes' = passes /\ acts' = acts + 1
  /\ Only(c) /\ Asks(cards[c], cards'[c])

Steps ==
  \/ Aside
  \/ \E c \in CardId : Worked(c) \/ Asked(c) \/ LeaseExpires(c)
  \/ \E p \in Pass : Reserve(p) \/ Created(p) \/ CreateFailed(p) \/ Linked(p)
  \/ ReclaimSaves /\ ~rec.dirty
  \/ Crash

LEMMA StillHands ==
  ASSUME passes' = passes
  PROVE  KeepHands
BY DEF KeepHands

LEMMA SavedOnly ==
  ASSUME TypeOK, NEW c \in CardId, NEW k, Store(c, k)
  PROVE  Only(c) /\ cards'[c] = k
BY DEF Store, Only, TypeOK

LEMMA PassSteps ==
  ASSUME TypeInv, NEW p \in Pass, BeginPass(p) \/ BeginClaim(p) \/ Dispatching(p)
  PROVE  Steps
<1> DEFINE hand == passes'[p]
<1>1. ASSUME NEW state, PassOnly(p, state),
             passes[p].pc \in {"idle", "next", "resolving"},
             \/ state.pc \in {"idle", "next"}
             \/ /\ state.pc = "resolving" /\ state.card \in CardId
                /\ cards[state.card].status = "queued"
                /\ state.branch = cards[state.card].attempts
      PROVE  Steps
  <2>1. KeepHands
    BY <1>1 DEF PassOnly, KeepHands, TypeInv, TypeOK
  <2>2. Behind /\ cards' = cards /\ acts' = acts
    BY <1>1, <2>1 DEF PassOnly, Behind, NoNewSession, Used
  <2> QED
    BY <2>2 DEF Aside, Steps
<1>2. ASSUME BeginPass(p) \/ BeginClaim(p)
      PROVE  Steps
  <2>1. PICK todo : PassOnly(p, [IdlePass EXCEPT !.pc = "next", !.todo = todo])
    BY <1>2 DEF BeginPass, BeginClaim
  <2>2. [IdlePass EXCEPT !.pc = "next", !.todo = todo].pc = "next"
    BY IdleTypes DEF PassState
  <2>3. passes[p].pc = "idle"
    BY <1>2 DEF BeginPass, BeginClaim
  <2> QED
    BY <1>1, <2>1, <2>2, <2>3
<1>3. CASE Take(p)
  <2> DEFINE rest(c) == [passes[p] EXCEPT !.todo = @ \ {c}]
             taken(c) == [rest(c) EXCEPT !.pc = "resolving", !.card = c,
                                         !.branch = cards[c].attempts]
  <2>1. PICK c \in passes[p].todo : PassOnly(p, IF CanTake(c) THEN taken(c) ELSE rest(c))
    BY <1>3 DEF Take
  <2>2. passes[p].pc = "next" /\ passes[p] \in PassState
    BY <1>3 DEF Take, TypeInv, TypeOK
  <2>3. /\ rest(c).pc = "next"
        /\ taken(c).pc = "resolving" /\ taken(c).card = c
        /\ taken(c).branch = cards[c].attempts
    BY <2>2 DEF PassState
  <2>4. c \in CardId /\ (CanTake(c) => cards[c].status = "queued")
    BY <2>2 DEF CanTake, PassState
  <2> HIDE DEF rest, taken
  <2> QED
    BY <1>1, <2>1, <2>2, <2>3, <2>4
<1>4. CASE EndPass(p) \/ Refused(p)
  <2>1. IdlePass.pc = "idle" /\ Onward(p).pc = "next"
    BY OnwardType DEF IdlePass, TypeInv
  <2> QED
    BY <1>1, <1>4, <2>1 DEF EndPass, Refused
<1> QED
  BY <1>2, <1>3, <1>4 DEF Dispatching, Steps

LEMMA ReconcileSteps ==
  ASSUME TypeInv, Reconciling
  PROVE  Steps
<1>1. CASE BeginReconcile \/ (ReclaimSaves /\ rec.dirty) \/ ReconcileObserves \/ EndReconcile
  <2>1. UNCHANGED <<cards, sessions, branches, passes, acts, expiries, crashes>>
    BY <1>1 DEF BeginReconcile, ReclaimSaves, ReconcileObserves, EndReconcile
  <2> QED
    BY <2>1, StillHands DEF Steps, Aside, Behind, NoNewSession, Used
<1>2. ASSUME NEW c \in CardId, ReclaimResumes(c) \/ ReclaimRecycles(c)
      PROVE  Steps
  <2>1. UNCHANGED <<cards, branches, passes, acts, expiries, crashes>>
    BY <1>2 DEF ReclaimResumes, ReclaimRecycles
  <2>2. NoNewSession
    BY <1>2 DEF ReclaimResumes, ReclaimRecycles, Wakes, NoNewSession, Used, TypeInv, TypeOK
  <2> QED
    BY <2>1, <2>2, StillHands DEF Steps, Aside, Behind
<1>3. ASSUME NEW c \in CardId, Observed(c)
      PROVE  Steps
  <2>1. UNCHANGED <<sessions, branches, passes, acts, expiries, crashes>>
    BY <1>3 DEF Observed
  <2>2. Behind
    BY <2>1, StillHands DEF Behind, NoNewSession, Used
  <2>3. \/ cards' = cards
        \/ \E k \in Card : Works(cards[c], k) /\ Store(c, k)
    <3>1. /\ RefreshLease(cards[c]) \in Card /\ EnterChecking(cards[c]) \in Card
          /\ WorkerInterrupted(cards[c]) \in Card
      BY CardOf, RefreshLeaseType, EnterCheckingType, WorkerInterruptedType DEF TypeInv
    <3>2. /\ Works(cards[c], RefreshLease(cards[c])) /\ Works(cards[c], EnterChecking(cards[c]))
          /\ Works(cards[c], WorkerInterrupted(cards[c]))
      BY CardOf, RefreshWorks, StopWorks DEF TypeInv
    <3> QED
      BY <1>3, <3>1, <3>2 DEF Observed
  <2>4. CASE cards' = cards
    BY <2>1, <2>2, <2>4 DEF Steps, Aside
  <2>5. ASSUME NEW k \in Card, Works(cards[c], k), Store(c, k)
        PROVE  Worked(c)
    BY <2>1, <2>2, <2>5, SavedOnly DEF Worked, TypeInv
  <2> QED
    BY <2>3, <2>4, <2>5 DEF Steps
<1>4. ASSUME NEW p \in Pass, ReconcileDispatches(p)
      PROVE  Steps
  <2> DEFINE begun == [IdlePass EXCEPT !.pc = "next", !.todo = Round]
  <2>1. begun.pc = "next"
    BY IdleTypes DEF PassState
  <2>2. passes[p].pc = "idle" /\ passes' = [passes EXCEPT ![p] = begun]
    BY <1>4 DEF ReconcileDispatches
  <2> HIDE DEF begun
  <2>3. KeepHands
    BY <2>1, <2>2 DEF KeepHands, TypeInv, TypeOK
  <2>4. UNCHANGED <<cards, sessions, branches, acts, expiries, crashes>>
    BY <1>4 DEF ReconcileDispatches
  <2> QED
    BY <2>3, <2>4 DEF Steps, Aside, Behind, NoNewSession, Used
<1> QED
  BY <1>1, <1>2, <1>3, <1>4 DEF Reconciling, Steps

LEMMA WorldSteps ==
  ASSUME TypeInv,
         \/ \E s \in Session :
              WorkerStops(s) \/ HumanOnSession(s) \/ \E c \in CardId : Receipt(s, c)
         \/ \E c \in CardId : LeaseExpires(c) \/ StartupResume(c)
         \/ Crash \/ StartupBegins
  PROVE  Steps
<1>1. ASSUME NEW s \in Session, WorkerStops(s) \/ HumanOnSession(s)
      PROVE  Steps
  <2>1. UNCHANGED <<cards, branches, passes, expiries, crashes>>
    BY <1>1 DEF WorkerStops, HumanOnSession, WorldOnly
  <2>2. Used(s) /\ NoNewSession
    BY <1>1 DEF WorkerStops, HumanOnSession, SessionBecomes, NoNewSession, Used, TypeInv, TypeOK
  <2>3. acts' = acts \/ acts' = acts + 1
    BY <1>1 DEF WorkerStops, HumanOnSession
  <2> QED
    BY <2>1, <2>2, <2>3, StillHands DEF Steps, Aside, Behind
<1>2. ASSUME NEW s \in Session, NEW c \in CardId, Receipt(s, c)
      PROVE  Steps
  <2>1. UNCHANGED <<sessions, passes, acts, expiries, crashes>>
    BY <1>2 DEF Receipt
  <2>2. branches' \subseteq branches
    BY <1>2 DEF Receipt, Cleanup
  <2>3. \E k : Works(cards[c], k) /\ Store(c, k)
    BY <1>2, CardOf, StopWorks DEF Receipt, Save, TypeInv
  <2>4. Only(c) /\ Works(cards[c], cards'[c])
    BY <2>3, SavedOnly DEF TypeInv
  <2> QED
    BY <2>1, <2>2, <2>4, StillHands DEF Steps, Worked, Behind, NoNewSession, Used
<1>3. ASSUME NEW c \in CardId, StartupResume(c)
      PROVE  Steps
  <2>1. UNCHANGED <<branches, passes, acts, expiries, crashes>>
    BY <1>3 DEF StartupResume
  <2>2. NoNewSession
    BY <1>3 DEF StartupResume, Wakes, NoNewSession, Used, TypeInv, TypeOK
  <2>3. Behind
    BY <2>1, <2>2, StillHands DEF Behind
  <2>4. cards' = cards \/ Store(c, RefreshLease(cards[c]))
    BY <1>3 DEF StartupResume, Save
  <2>5. CASE cards' = cards
    BY <2>1, <2>3, <2>5 DEF Steps, Aside
  <2>6. CASE Store(c, RefreshLease(cards[c]))
    <3>1. Only(c) /\ Works(cards[c], cards'[c])
      BY <2>6, SavedOnly, CardOf, RefreshWorks DEF TypeInv
    <3> QED
      BY <2>1, <2>3, <3>1 DEF Steps, Worked
  <2> QED
    BY <2>4, <2>5, <2>6
<1>4. CASE StartupBegins
  <2>1. UNCHANGED <<cards, sessions, branches, passes, acts, expiries, crashes>>
    BY <1>4 DEF StartupBegins
  <2> QED
    BY <2>1, StillHands DEF Steps, Aside, Behind, NoNewSession, Used
<1> QED
  BY <1>1, <1>2, <1>3, <1>4 DEF Steps

LEMMA HumanSteps ==
  ASSUME TypeInv, NEW c \in CardId,
         \/ EditCard(c) \/ RemoveCard(c) \/ ReturnCard(c) \/ AssignProject(c)
         \/ \E target \in Status : MoveCard(c, target)
  PROVE  Steps
<1>1. PICK k : Human(c, k) /\ Asks(cards[c], k)
  <2>1. cards[c] \in Card /\ Stamp \in Nat
    BY CardOf, StampType DEF TypeInv
  <2>2. AssignProject(c) => Asks(cards[c], cards[c])
    BY <2>1 DEF AssignProject, Asks, Keeps
  <2> QED
    BY <2>1, <2>2, PeopleAsk DEF EditCard, RemoveCard, ReturnCard, MoveCard, AssignProject
<1>2. Store(c, k) /\ acts' = acts + 1 /\ UNCHANGED <<passes, expiries, crashes>>
  BY <1>1 DEF Human, Save
<1>3. NoNewSession
  BY DEF EditCard, RemoveCard, ReturnCard, MoveCard, AssignProject, Wakes, NoNewSession,
         Used, TypeInv, TypeOK
<1>4. branches' \subseteq branches
  BY DEF EditCard, RemoveCard, ReturnCard, MoveCard, AssignProject, Cleanup
<1>5. Only(c) /\ Asks(cards[c], cards'[c])
  BY <1>1, <1>2, SavedOnly DEF TypeInv
<1> QED
  BY <1>2, <1>3, <1>4, <1>5, StillHands DEF Steps, Asked, Behind

LEMMA EveryStep ==
  ASSUME TypeInv, [Next]_vars
  PROVE  Steps
<1>1. CASE UNCHANGED vars
  BY <1>1, StillHands DEF vars, Steps, Aside, Behind, NoNewSession, Used
<1>2. CASE ChangeSettings
  <2>1. /\ UNCHANGED <<cards, sessions, branches, passes, expiries, crashes>>
        /\ acts' = acts + 1 /\ CardId # {}
    BY <1>2 DEF ChangeSettings
  <2> QED
    BY <2>1, StillHands DEF Steps, Aside, Behind, NoNewSession, Used
<1> QED
  BY <1>1, <1>2, PassSteps, ReconcileSteps, WorldSteps, HumanSteps DEF Next

-----------------------------------------------------------------------------
(* No worker is lost.                                                      *)

\* The sessions of a card stay on record, its branch stays named, and a deleted
\* card stays deleted.
Lasts(k, k2) ==
  /\ k.sessionIds \subseteq k2.sessionIds
  /\ k.branch # None => k2.branch # None
  /\ ~Exists(k) => ~Exists(k2)

LEMMA WrittenLasts ==
  ASSUME NEW k, NEW k2, Works(k, k2) \/ Asks(k, k2)
  PROVE  Lasts(k, k2)
BY DEF Works, Asks, Moves, Keeps, Lasts, Exists, Removed

\* The card of a claim that failed: rolled back, unless it was deleted.
LEMMA RolledBack ==
  ASSUME TypeInv, NEW p \in Pass, CreateFailed(p)
  PROVE  /\ passes[p].pc = "creating" /\ passes[p].card \in CardId
         /\ passes' = [passes EXCEPT ![p] = Onward(p)]
         /\ UNCHANGED <<sessions, acts, expiries, crashes>> /\ branches' \subseteq branches
         /\ \/ ~Exists(cards[passes[p].card]) /\ cards' = cards
            \/ /\ Exists(cards[passes[p].card]) /\ Only(passes[p].card)
               /\ cards'[passes[p].card] = Retry(cards[passes[p].card], Stamp)
<1>1. passes[p].card \in CardId
  BY DEF CreateFailed, TypeInv, PassInv
<1> QED
  BY <1>1, SavedOnly DEF CreateFailed, Save, Cleanup, AbortClaim, TypeInv

LEMMA Recorded ==
  ASSUME TypeInv, NEW p \in Pass, Linked(p)
  PROVE  /\ passes[p].pc = "granting" /\ passes[p].card \in CardId
         /\ passes[p].session \in Session
         /\ passes' = [passes EXCEPT ![p] = Onward(p)]
         /\ UNCHANGED <<sessions, branches, acts, expiries, crashes>>
         /\ \/ ~Exists(cards[passes[p].card]) /\ cards' = cards
            \/ /\ Exists(cards[passes[p].card]) /\ Only(passes[p].card)
               /\ cards'[passes[p].card] =
                    LinkSession(cards[passes[p].card], passes[p].session)
<1>1. passes[p].card \in CardId /\ passes[p].session \in Session
  BY DEF Linked, TypeInv, PassInv
<1> QED
  BY <1>1, SavedOnly DEF Linked, Save, TypeInv

LEMMA Reserved ==
  ASSUME TypeInv, NEW p \in Pass, Reserve(p)
  PROVE  /\ passes[p].pc = "resolving" /\ passes[p].card \in CardId
         /\ passes[p].branch \in Nat
         /\ cards[passes[p].card].status = "queued"
         /\ Only(passes[p].card)
         /\ cards'[passes[p].card] = Claim(cards[passes[p].card], passes[p].branch)
         /\ passes' = [passes EXCEPT ![p] = [passes[p] EXCEPT !.pc = "creating"]]
         /\ passes'[p].pc = "creating" /\ passes'[p].card = passes[p].card
         /\ passes'[p].branch = passes[p].branch
         /\ UNCHANGED <<sessions, branches, acts, expiries, crashes>>
<1>1. passes[p].card \in CardId /\ passes[p].branch \in Nat /\ passes[p] \in PassState
  BY DEF Reserve, TypeInv, TypeOK, PassInv
<1>2. passes' = [passes EXCEPT ![p] = [passes[p] EXCEPT !.pc = "creating"]]
  BY DEF Reserve
<1>3. /\ passes'[p].pc = "creating" /\ passes'[p].card = passes[p].card
      /\ passes'[p].branch = passes[p].branch
  BY <1>1, <1>2 DEF TypeInv, TypeOK, PassState
<1> QED
  BY <1>1, <1>2, <1>3 DEF Reserve, CanClaim, Only, TypeInv, TypeOK

\* A reclaim whose save is accepted writes the cards it loaded as they were.
LEMMA Reclaimed ==
  ASSUME TypeInv, Budget, ReclaimSaves, ~rec.dirty, NEW c \in CardId
  PROVE  /\ c \in rec.resumed =>
              Stale(cards[c]) /\ cards'[c] = ApplyResumed(cards[c])
         /\ c \in rec.recycled \ rec.resumed =>
              Stale(cards[c]) /\ cards'[c] = Recycle(cards[c], Stamp)
         /\ c \notin rec.resumed \cup rec.recycled => cards'[c] = cards[c]
<1>1. c \in rec.resumed \cup rec.recycled => Stale(cards[c])
  BY DEF Budget, ReclaimKnows, ReclaimSaves, Loaded
<1> QED
  BY <1>1 DEF ReclaimSaves

LEMMA CardsLast ==
  ASSUME TypeInv, Budget, Steps, NEW c \in CardId
  PROVE  Lasts(cards[c], cards'[c])
<1>0. cards[c] \in Card /\ Stamp \in Nat /\ Lasts(cards[c], cards[c])
  BY CardOf, StampType DEF Lasts, TypeInv
<1>1. CASE Aside \/ Crash
  BY <1>0, <1>1 DEF Aside, Crash
<1>2. ASSUME NEW d \in CardId, Worked(d) \/ Asked(d)
      PROVE  Lasts(cards[c], cards'[c])
  BY <1>0, <1>2, WrittenLasts DEF Worked, Asked, Only
<1>3. ASSUME NEW d \in CardId, LeaseExpires(d)
      PROVE  Lasts(cards[c], cards'[c])
  <2>1. /\ cards'[c].sessionIds = cards[c].sessionIds /\ cards'[c].branch = cards[c].branch
        /\ cards'[c].status = cards[c].status
    BY <1>0, <1>3 DEF LeaseExpires, TypeInv, TypeOK, Card
  <2> QED
    BY <2>1 DEF Lasts, Exists
<1>4. ASSUME NEW p \in Pass, Reserve(p)
      PROVE  Lasts(cards[c], cards'[c])
  <2>1. \/ cards'[c] = cards[c]
        \/ /\ passes[p].card = c /\ passes[p].branch \in Nat
           /\ cards[c].status = "queued" /\ cards'[c] = Claim(cards[c], passes[p].branch)
    BY <1>4, Reserved DEF Only
  <2> QED
    BY <1>0, <2>1, ClaimKeeps, NoneAssumption DEF Lasts, Exists, Removed
<1>5. ASSUME NEW p \in Pass, Created(p)
      PROVE  Lasts(cards[c], cards'[c])
  BY <1>0, <1>5 DEF Created
<1>6. ASSUME NEW p \in Pass, CreateFailed(p)
      PROVE  Lasts(cards[c], cards'[c])
  <2>1. \/ cards'[c] = cards[c]
        \/ Exists(cards[c]) /\ cards'[c] = Retry(cards[c], Stamp)
    BY <1>6, RolledBack DEF Only
  <2> QED
    BY <1>0, <2>1, RetryKeeps DEF Lasts, Keeps
<1>7. ASSUME NEW p \in Pass, Linked(p)
      PROVE  Lasts(cards[c], cards'[c])
  <2>1. \/ cards'[c] = cards[c]
        \/ passes[p].session \in Session /\ cards'[c] = LinkSession(cards[c], passes[p].session)
    BY <1>7, Recorded DEF Only
  <2> QED
    BY <1>0, <2>1, LinkWorks, WrittenLasts
<1>8. CASE ReclaimSaves /\ ~rec.dirty
  <2>1. Stale(cards[c]) => Exists(cards[c])
    BY DEF Stale, Exists, Removed
  <2>2. CASE c \in rec.resumed
    BY <1>0, <1>8, <2>1, <2>2, Reclaimed, ResumeKeeps DEF Lasts, Keeps
  <2>3. CASE c \in rec.recycled \ rec.resumed
    BY <1>0, <1>8, <2>1, <2>3, Reclaimed, RecycleKeeps DEF Lasts, Keeps
  <2> QED
    BY <1>0, <1>8, <2>2, <2>3, Reclaimed
<1> QED
  BY <1>1, <1>2, <1>3, <1>4, <1>5, <1>6, <1>7, <1>8 DEF Steps

\* Where a worker session is on record, or will be.
OnRecord(s) ==
  \/ \E c \in CardId : \/ s \in cards[c].sessionIds
                       \/ cards[c].branch # None /\ ~Exists(cards[c])
  \/ \E p \in Pass : passes[p].pc = "granting" /\ passes[p].session = s

Workers ==
  /\ \A p \in Pass : Spawns(p) => cards[passes[p].card].branch # None
  /\ crashes = 0 => \A s \in Session : Used(s) => OnRecord(s)
  /\ (\E s \in Session : Used(s)) => CardId # {}

\* The passes in mid-claim are those of before, with what they had in hand.
HandsStay ==
  \A p \in Pass : Spawns(p)' => Spawns(p) /\ passes'[p] = passes[p]

\* What a step has to do for the invariant besides keeping the cards: its passes,
\* its sessions.
LEMMA WorkersKept ==
  ASSUME TypeInv, Budget, Workers, Steps,
         \A p \in Pass : Spawns(p)' => \/ Spawns(p) /\ passes'[p].card = passes[p].card
                                       \/ cards'[passes'[p].card].branch # None,
         crashes' = 0 => crashes = 0,
         crashes' = 0 => \A s \in Session : Used(s)' => Used(s) \/ OnRecord(s)',
         crashes' = 0 => \A p \in Pass, s \in Session :
              passes[p].pc = "granting" /\ passes[p].session = s =>
                passes'[p] = passes[p] \/ OnRecord(s)',
         \A s \in Session : Used(s)' => Used(s) \/ CardId # {}
  PROVE  Workers'
<1>1. \A c \in CardId : Lasts(cards[c], cards'[c])
  BY CardsLast
<1>2. ASSUME NEW p \in Pass, Spawns(p)'
      PROVE  cards'[passes'[p].card].branch # None
  <2>1. Spawns(p) => passes[p].card \in CardId
    BY DEF Spawns, TypeInv, PassInv
  <2> QED
    BY <1>1, <1>2, <2>1 DEF Lasts, Workers
<1>3. ASSUME crashes' = 0, NEW s \in Session, Used(s)'
      PROVE  OnRecord(s)'
  <2>1. CASE Used(s)
    <3>1. OnRecord(s)
      BY <1>3, <2>1 DEF Workers
    <3>2. CASE \E c \in CardId : \/ s \in cards[c].sessionIds
                                 \/ cards[c].branch # None /\ ~Exists(cards[c])
      BY <1>1, <3>2 DEF OnRecord, Lasts
    <3>3. ASSUME NEW p \in Pass, passes[p].pc = "granting", passes[p].session = s
          PROVE  OnRecord(s)'
      BY <1>3, <3>3 DEF OnRecord
    <3> QED
      BY <3>1, <3>2, <3>3 DEF OnRecord
  <2> QED
    BY <1>3, <2>1
<1> QED
  BY <1>2, <1>3 DEF Workers

LEMMA WorkersStep ==
  ASSUME TypeInv, Budget, Workers, Steps
  PROVE  Workers'
<1>0. crashes \in Nat
  BY DEF TypeInv, TypeOK
<1>1. ASSUME Behind
      PROVE  Workers'
  <2>1. \A p \in Pass : passes'[p] = passes[p] \/ (~Spawns(p) /\ ~Spawns(p)')
    BY <1>1 DEF Behind, KeepHands, Spawns
  <2>2. \A p \in Pass : passes[p].pc = "granting" => Spawns(p)
    BY DEF Spawns
  <2>3. crashes' = crashes /\ \A s \in Session : Used(s)' => Used(s)
    BY <1>1 DEF Behind, NoNewSession
  <2>4. \A p \in Pass : Spawns(p)' => Spawns(p) /\ passes'[p].card = passes[p].card
    BY <2>1 DEF Spawns
  <2> QED
    BY <2>1, <2>2, <2>3, <2>4, WorkersKept
<1>2. ASSUME UNCHANGED <<passes, sessions, crashes>>
      PROVE  Workers'
  <2>1. \A p \in Pass : Spawns(p)' = Spawns(p)
    BY <1>2 DEF Spawns
  <2>2. \A s \in Session : Used(s)' = Used(s)
    BY <1>2 DEF Used
  <2> QED
    BY <1>2, <2>1, <2>2, WorkersKept
<1>3. ASSUME NEW p \in Pass, Reserve(p)
      PROVE  Workers'
  <2>1. /\ \A q \in Pass \ {p} : passes'[q] = passes[q]
        /\ passes[p].pc = "resolving" /\ crashes' = crashes /\ sessions' = sessions
    BY <1>3, Reserved DEF TypeInv, TypeOK
  <2>2. cards'[passes'[p].card].branch # None
    <3>1. /\ passes'[p].card = passes[p].card /\ passes[p].branch \in Nat
          /\ passes[p].card \in CardId
          /\ cards'[passes[p].card] = Claim(cards[passes[p].card], passes[p].branch)
      BY <1>3, Reserved
    <3> QED
      BY <3>1, CardOf, ClaimKeeps, NoneAssumption DEF TypeInv
  <2>3. \A q \in Pass : Spawns(q)' => \/ Spawns(q) /\ passes'[q].card = passes[q].card
                                      \/ cards'[passes'[q].card].branch # None
    BY <2>1, <2>2 DEF Spawns
  <2>4. \A s \in Session : Used(s)' = Used(s)
    BY <2>1 DEF Used
  <2>5. \A q \in Pass : passes[q].pc = "granting" => passes'[q] = passes[q]
    BY <2>1
  <2> QED
    BY <2>1, <2>3, <2>4, <2>5, WorkersKept
<1>4. ASSUME NEW p \in Pass, Created(p)
      PROVE  Workers'
  <2>1. PICK s \in Session :
          /\ sessions' = [sessions EXCEPT ![s] = "busy"]
          /\ passes' = [passes EXCEPT ![p] = [@ EXCEPT !.pc = "granting", !.session = s]]
    BY <1>4 DEF Created
  <2>2. /\ passes[p].pc = "creating" /\ passes[p].card \in CardId /\ crashes' = crashes
    BY <1>4 DEF Created, TypeInv, PassInv
  <2>3. /\ passes'[p].pc = "granting" /\ passes'[p].session = s
        /\ passes'[p].card = passes[p].card
        /\ \A q \in Pass \ {p} : passes'[q] = passes[q]
    BY <2>1 DEF TypeInv, TypeOK, PassState
  <2>4. \A t \in Session : Used(t)' => Used(t) \/ OnRecord(t)'
    BY <2>1, <2>3 DEF Used, OnRecord, TypeInv, TypeOK
  <2>5. \A q \in Pass : Spawns(q)' => Spawns(q) /\ passes'[q].card = passes[q].card
    BY <2>2, <2>3 DEF Spawns
  <2>6. \A q \in Pass : passes[q].pc = "granting" => passes'[q] = passes[q]
    BY <2>2, <2>3
  <2> QED
    BY <2>2, <2>4, <2>5, <2>6, WorkersKept
<1>5. ASSUME NEW p \in Pass, CreateFailed(p)
      PROVE  Workers'
  <2>1. /\ passes[p].pc = "creating" /\ passes'[p].pc = "next"
        /\ \A q \in Pass \ {p} : passes'[q] = passes[q]
        /\ UNCHANGED <<sessions, crashes>>
    BY <1>5, RolledBack, OnwardType DEF TypeInv, TypeOK
  <2>2. \A q \in Pass : Spawns(q)' => Spawns(q) /\ passes'[q].card = passes[q].card
    BY <2>1 DEF Spawns
  <2>3. \A q \in Pass : passes[q].pc = "granting" => passes'[q] = passes[q]
    BY <2>1
  <2>4. \A s \in Session : Used(s)' = Used(s)
    BY <2>1 DEF Used
  <2> QED
    BY <2>1, <2>2, <2>3, <2>4, WorkersKept
<1>6. ASSUME NEW p \in Pass, Linked(p)
      PROVE  Workers'
  <2>0. PICK c \in CardId, s \in Session : c = passes[p].card /\ s = passes[p].session
    BY <1>6, Recorded
  <2>1. /\ passes[p].pc = "granting" /\ passes'[p].pc = "next"
        /\ \A q \in Pass \ {p} : passes'[q] = passes[q]
        /\ UNCHANGED <<sessions, crashes>>
    BY <1>6, Recorded, OnwardType DEF TypeInv, TypeOK
  <2>2. OnRecord(s)'
    <3>1. CASE ~Exists(cards[c])
      <4>1. cards[c].branch # None
        BY <2>0, <2>1 DEF Workers, Spawns
      <4>2. cards' = cards
        BY <1>6, <2>0, <3>1, Recorded
      <4> QED
        BY <2>1, <3>1, <4>1, <4>2 DEF OnRecord
    <3>2. CASE Exists(cards[c])
      <4>1. cards'[c] = LinkSession(cards[c], s)
        BY <1>6, <2>0, <3>2, Recorded
      <4>2. s \in cards'[c].sessionIds
        BY <2>1, <4>1, CardOf, LinkWorks DEF TypeInv
      <4> QED
        BY <2>0, <4>2 DEF OnRecord
    <3> QED
      BY <3>1, <3>2
  <2>3. \A q \in Pass : Spawns(q)' => Spawns(q) /\ passes'[q].card = passes[q].card
    BY <2>1 DEF Spawns
  <2>4. \A q \in Pass, t \in Session :
          passes[q].pc = "granting" /\ passes[q].session = t =>
            passes'[q] = passes[q] \/ OnRecord(t)'
    BY <2>0, <2>1, <2>2
  <2>5. \A t \in Session : Used(t)' = Used(t)
    BY <2>1 DEF Used
  <2> QED
    BY <2>1, <2>3, <2>4, <2>5, WorkersKept
<1>7. CASE Crash
  <2>1. crashes' # 0 /\ \A p \in Pass : passes'[p].pc = "idle"
    BY <1>0, <1>7 DEF Crash, IdlePass
  <2>2. \A s \in Session : Used(s)' => Used(s)
    BY <1>7 DEF Crash, Used
  <2> QED
    BY <2>1, <2>2, WorkersKept DEF Spawns
<1>8. ASSUME NEW c \in CardId, LeaseExpires(c)
      PROVE  Workers'
  BY <1>2, <1>8 DEF LeaseExpires
<1>9. CASE ReclaimSaves /\ ~rec.dirty
  BY <1>2, <1>9 DEF ReclaimSaves
<1> QED
  BY <1>1, <1>3, <1>4, <1>5, <1>6, <1>7, <1>8, <1>9 DEF Steps, Aside, Worked, Asked

-----------------------------------------------------------------------------
(* No twins.  As long as no lease runs out under a pass and nobody moves   *)
(* the card, a card in mid-claim does not get back to the queue, which is  *)
(* where the second pass would have to find it.                            *)

\* A card in mid-claim is not queued, and when it runs its lease holds.
Taken(k) == k.status # "queued" /\ (k.status = "running" => Held(k))

Claims ==
  acts = 0 /\ expiries = 0 =>
    /\ \A p \in Pass : Spawns(p) => Taken(cards[passes[p].card])
    /\ \A p, q \in Pass :
         Spawns(p) /\ Spawns(q) /\ passes[p].card = passes[q].card => p = q

LEMMA TakenNotStale ==
  ASSUME NEW k, Taken(k)
  PROVE  ~Stale(k)
BY DEF Taken, Stale, Held

LEMMA WorkedTaken ==
  ASSUME NEW k, NEW k2, Works(k, k2), Taken(k)
  PROVE  Taken(k2)
BY DEF Works, Moves, Taken

\* The same passes, or fewer, in mid-claim, on cards that stay taken.
LEMMA ClaimsKept ==
  ASSUME TypeInv, Claims, HandsStay,
         acts' = 0 => acts = 0, expiries' = 0 => expiries = 0,
         \A p \in Pass : acts' = 0 /\ expiries' = 0 /\ Spawns(p)' /\ Taken(cards[passes[p].card])
            => Taken(cards'[passes[p].card])
  PROVE  Claims'
<1> SUFFICES ASSUME acts' = 0, expiries' = 0
             PROVE  /\ \A p \in Pass : Spawns(p)' => Taken(cards'[passes'[p].card])
                    /\ \A p, q \in Pass :
                         Spawns(p)' /\ Spawns(q)' /\ passes'[p].card = passes'[q].card => p = q
  BY DEF Claims
<1>1. \A p \in Pass : Spawns(p)' => Spawns(p) /\ passes'[p] = passes[p]
  BY DEF HandsStay
<1> QED
  BY <1>1 DEF Claims

LEMMA ClaimsStep ==
  ASSUME TypeInv, Budget, Claims, Steps
  PROVE  Claims'
<1>0. acts \in Nat /\ expiries \in Nat /\ \A p \in Pass : Spawns(p) => passes[p].card \in CardId
  BY DEF TypeInv, TypeOK, PassInv, Spawns
<1>1. ASSUME Behind
      PROVE  HandsStay
  BY <1>1 DEF Behind, KeepHands, HandsStay, Spawns
<1>2. CASE Aside
  BY <1>0, <1>1, <1>2, ClaimsKept DEF Aside, Behind
<1>3. ASSUME NEW c \in CardId, Worked(c)
      PROVE  Claims'
  <2>1. \A d \in CardId : Taken(cards[d]) => Taken(cards'[d])
    BY <1>3, WorkedTaken DEF Worked, Only
  <2>2. HandsStay /\ acts' = acts /\ expiries' = expiries
    BY <1>1, <1>3 DEF Worked, Behind
  <2> QED
    BY <1>0, <2>1, <2>2, ClaimsKept DEF HandsStay
<1>4. ASSUME NEW c \in CardId, Asked(c)
      PROVE  Claims'
  <2>1. acts' # 0
    BY <1>0, <1>4 DEF Asked
  <2> QED
    BY <2>1 DEF Claims
<1>5. ASSUME NEW c \in CardId, LeaseExpires(c)
      PROVE  Claims'
  <2>1. HandsStay /\ acts' = acts
    BY <1>5 DEF LeaseExpires, HandsStay, Spawns
  <2>2. CASE Alive(c)
    <3>1. expiries' # 0
      BY <1>0, <1>5, <2>2 DEF LeaseExpires
    <3> QED
      BY <3>1 DEF Claims
  <2>3. CASE ~Alive(c)
    <3>1. \A p \in Pass : Spawns(p) => passes[p].card # c
      BY <2>3 DEF Alive, Spawning, Spawns
    <3>2. expiries' = expiries /\ \A d \in CardId \ {c} : cards'[d] = cards[d]
      BY <1>5, <2>3 DEF LeaseExpires, TypeInv, TypeOK
    <3> QED
      BY <1>0, <2>1, <3>1, <3>2, ClaimsKept DEF HandsStay
  <2> QED
    BY <2>2, <2>3
<1>6. ASSUME NEW p \in Pass, Reserve(p)
      PROVE  Claims'
  <2> SUFFICES ASSUME acts' = 0, expiries' = 0
               PROVE  Claims'
    BY DEF Claims
  <2>0. PICK c \in CardId : c = passes[p].card
    BY <1>6, Reserved
  <2>1. /\ acts = 0 /\ expiries = 0 /\ cards[c].status = "queued" /\ passes[p].pc = "resolving"
        /\ \A q \in Pass \ {p} : passes'[q] = passes[q]
        /\ passes'[p].card = c /\ Only(c)
    BY <1>6, <2>0, Reserved DEF TypeInv, TypeOK
  <2>2. \A q \in Pass : Spawns(q) => Taken(cards[passes[q].card]) /\ passes[q].card # c
    BY <2>1 DEF Claims, Taken
  <2>3. Taken(cards'[c])
    <3>1. passes[p].branch \in Nat /\ cards'[c] = Claim(cards[c], passes[p].branch)
      BY <1>6, <2>0, Reserved
    <3> QED
      BY <2>0, <3>1, CardOf, ClaimKeeps DEF Taken, TypeInv
  <2>4. \A q \in Pass \ {p} : Spawns(q)' => Spawns(q) /\ passes'[q].card = passes[q].card
    BY <2>1 DEF Spawns
  <2>5. \A q \in Pass \ {p} : Spawns(q)' =>
          Taken(cards'[passes'[q].card]) /\ passes'[q].card # c
    BY <1>0, <2>1, <2>2, <2>4 DEF Only
  <2>6. \A q, r \in Pass : Spawns(q) /\ Spawns(r) /\ passes[q].card = passes[r].card => q = r
    BY <2>1 DEF Claims
  <2>7. \A q \in Pass : Spawns(q)' => Taken(cards'[passes'[q].card])
    BY <2>1, <2>3, <2>5
  <2>8. \A q, r \in Pass : Spawns(q)' /\ Spawns(r)' /\ passes'[q].card = passes'[r].card => q = r
    BY <2>1, <2>4, <2>5, <2>6
  <2> QED
    BY <2>7, <2>8 DEF Claims
<1>7. ASSUME NEW p \in Pass, Created(p)
      PROVE  Claims'
  <2>1. PICK s \in Session :
          passes' = [passes EXCEPT ![p] = [@ EXCEPT !.pc = "granting", !.session = s]]
    BY <1>7 DEF Created
  <2>2. passes[p].pc = "creating" /\ UNCHANGED <<cards, acts, expiries>>
    BY <1>7 DEF Created
  <2>3. \A q \in Pass : passes'[q].card = passes[q].card /\ (Spawns(q)' => Spawns(q))
    BY <2>1, <2>2 DEF Spawns, TypeInv, TypeOK, PassState
  <2> QED
    BY <2>2, <2>3 DEF Claims
<1>8. ASSUME NEW p \in Pass, CreateFailed(p) \/ Linked(p)
      PROVE  Claims'
  <2>0. PICK c \in CardId : c = passes[p].card
    BY <1>8, RolledBack, Recorded
  <2>1. /\ Spawns(p) /\ passes'[p].pc = "next" /\ UNCHANGED <<acts, expiries>>
        /\ \A q \in Pass \ {p} : passes'[q] = passes[q]
        /\ \A d \in CardId \ {c} : cards'[d] = cards[d]
    BY <1>8, <2>0, RolledBack, Recorded, OnwardType DEF Spawns, Only, TypeInv, TypeOK
  <2>2. HandsStay
    BY <2>1 DEF HandsStay, Spawns
  <2>3. ASSUME NEW q \in Pass, acts' = 0, expiries' = 0, Spawns(q)',
               Taken(cards[passes[q].card])
        PROVE  Taken(cards'[passes[q].card])
    <3>1. q # p /\ Spawns(q)
      BY <2>1, <2>2, <2>3 DEF HandsStay, Spawns
    <3>2. passes[q].card # c
      BY <2>0, <2>1, <2>3, <3>1 DEF Claims
    <3> QED
      BY <1>0, <2>1, <2>3, <3>1, <3>2
  <2> QED
    BY <2>1, <2>2, <2>3, ClaimsKept
<1>9. CASE ReclaimSaves /\ ~rec.dirty
  <2>1. HandsStay /\ UNCHANGED <<acts, expiries>>
    BY <1>9 DEF ReclaimSaves, HandsStay, Spawns
  <2>2. \A d \in CardId : Taken(cards[d]) => cards'[d] = cards[d]
    BY <1>9, Reclaimed, TakenNotStale
  <2> QED
    BY <1>0, <2>1, <2>2, ClaimsKept DEF HandsStay
<1>10. CASE Crash
  <2>1. \A p \in Pass : ~Spawns(p)'
    BY <1>10 DEF Crash, IdlePass, Spawns
  <2> QED
    BY <2>1 DEF Claims
<1> QED
  BY <1>2, <1>3, <1>4, <1>5, <1>6, <1>7, <1>8, <1>9, <1>10 DEF Steps

-----------------------------------------------------------------------------
(* Fresh branches.  The suffix of the branch is read before an await and   *)
(* used after it: with one pass the card is as it was, and between several *)
(* passes it may have been through a whole attempt.                        *)

OnePass == \A p, q \in Pass : p = q

\* Branch n of card c: it is one of an attempt that is over, or of the one that
\* is in hand.
Behindhand(c, n) ==
  n <= cards[c].attempts /\ (n = cards[c].attempts => cards[c].status # "queued")

\* Two passes about to create the same branch.
SameName(p, q) ==
  /\ p # q /\ passes[p].pc = "creating" /\ passes[q].pc = "creating"
  /\ passes[p].card = passes[q].card /\ passes[p].branch = passes[q].branch

Branches ==
  acts = 0 =>
    /\ \A c \in CardId, n \in Nat : <<c, n>> \in branches => Behindhand(c, n)
    /\ \A p \in Pass : passes[p].pc = "resolving" =>
         /\ passes[p].branch <= cards[passes[p].card].attempts
         /\ OnePass => /\ cards[passes[p].card].status = "queued"
                       /\ passes[p].branch = cards[passes[p].card].attempts
    /\ \A p \in Pass : Spawns(p) => Behindhand(passes[p].card, passes[p].branch)
    /\ \A p, q \in Pass : SameName(p, q) => passes[p].branch < cards[passes[p].card].attempts
    /\ FreshBranch

\* What happens to a card: it is not queued anew, or one attempt more is used up.
Ages(k, k2) ==
  \/ k2.attempts = k.attempts /\ (k2.status = "queued" => k.status = "queued")
  \/ k2.attempts = k.attempts + 1

LEMMA AgedBehindhand ==
  ASSUME TypeInv, NEW c \in CardId, NEW n \in Nat, Behindhand(c, n),
         Ages(cards[c], cards'[c])
  PROVE  Behindhand(c, n)'
<1>1. cards[c].attempts \in Nat
  BY CardOf DEF TypeInv, Card
<1> QED
  BY <1>1 DEF Behindhand, Ages

LEMMA AgedAttempts ==
  ASSUME TypeInv, NEW c \in CardId, Ages(cards[c], cards'[c])
  PROVE  /\ cards'[c].attempts \in Nat
         /\ \A n \in Nat : /\ n <= cards[c].attempts => n <= cards'[c].attempts
                           /\ n < cards[c].attempts => n < cards'[c].attempts
<1>1. cards[c].attempts \in Nat
  BY CardOf DEF TypeInv, Card
<1> QED
  BY <1>1 DEF Ages

\* Passes keep their card and branch, and the card a pass alone waits for is as it
\* was; the cards and branches move on.
LEMMA BranchesKept ==
  ASSUME TypeInv, Branches, acts' = 0 => acts = 0,
         \A c \in CardId : Ages(cards[c], cards'[c]),
         branches' \subseteq branches,
         \A p \in Pass :
           \/ /\ passes'[p] = passes[p]
              /\ passes[p].pc = "resolving" /\ acts = 0 /\ OnePass =>
                   /\ cards'[passes[p].card].status = cards[passes[p].card].status
                   /\ cards'[passes[p].card].attempts = cards[passes[p].card].attempts
           \/ ~Spawns(p)' /\ passes'[p].pc # "resolving"
           \/ /\ passes'[p].pc = "resolving" /\ passes'[p].card \in CardId
              /\ cards'[passes'[p].card].status = "queued"
              /\ passes'[p].branch = cards'[passes'[p].card].attempts
  PROVE  Branches'
<1> SUFFICES ASSUME acts' = 0
             PROVE  Branches'
  BY DEF Branches
<1>0. \A p \in Pass : passes[p].pc \in {"resolving", "creating", "granting"}
        => passes[p].card \in CardId /\ passes[p].branch \in Nat
  BY DEF TypeInv, PassInv
<1>1. ASSUME NEW c \in CardId, NEW n \in Nat
      PROVE  /\ Behindhand(c, n) => Behindhand(c, n)'
             /\ n <= cards[c].attempts => n <= cards'[c].attempts
             /\ n < cards[c].attempts => n < cards'[c].attempts
             /\ cards'[c].attempts \in Nat
  <2>1. Ages(cards[c], cards'[c])
    OBVIOUS
  <2>2. Behindhand(c, n) => Behindhand(c, n)'
    BY <2>1, AgedBehindhand
  <2> QED
    BY <2>1, <2>2, AgedAttempts
<1>2. \A c \in CardId, n \in Nat : <<c, n>> \in branches' => Behindhand(c, n)'
  BY <1>1 DEF Branches
<1>3. ASSUME NEW p \in Pass, passes'[p].pc = "resolving"
      PROVE  /\ passes'[p].branch <= cards'[passes'[p].card].attempts
             /\ OnePass => /\ cards'[passes'[p].card].status = "queued"
                           /\ passes'[p].branch = cards'[passes'[p].card].attempts
  <2>1. CASE passes'[p] = passes[p]
    <3>1. PICK c \in CardId, n \in Nat : c = passes[p].card /\ n = passes[p].branch
      BY <1>0, <1>3, <2>1
    <3>2. n <= cards[c].attempts
      BY <1>3, <2>1, <3>1 DEF Branches
    <3>3. n <= cards'[c].attempts
      BY <1>1, <3>2
    <3>4. OnePass => \/ /\ cards'[c].status = "queued" /\ n = cards'[c].attempts
                     \/ /\ cards'[c].status = cards[c].status
                        /\ cards'[c].attempts = cards[c].attempts
      BY <1>3, <2>1, <3>1
    <3> QED
      BY <1>3, <2>1, <3>1, <3>3, <3>4 DEF Branches
  <2>2. CASE /\ passes'[p].card \in CardId
             /\ cards'[passes'[p].card].status = "queued"
             /\ passes'[p].branch = cards'[passes'[p].card].attempts
    BY <1>1, <2>2
  <2> QED
    BY <1>3, <2>1, <2>2
<1>4. ASSUME NEW p \in Pass, Spawns(p)'
      PROVE  /\ passes'[p] = passes[p] /\ Spawns(p)
             /\ Behindhand(passes[p].card, passes[p].branch)
             /\ passes[p].card \in CardId /\ passes[p].branch \in Nat
  <2>1. passes'[p] = passes[p]
    BY <1>4 DEF Spawns
  <2> QED
    BY <1>0, <1>4, <2>1 DEF Branches, Spawns
<1>5. ASSUME NEW p \in Pass, Spawns(p)'
      PROVE  Behindhand(passes[p].card, passes[p].branch)'
  <2>1. PICK c \in CardId, n \in Nat : c = passes[p].card /\ n = passes[p].branch
    BY <1>4, <1>5
  <2>2. Behindhand(c, n)' /\ passes'[p].card = c /\ passes'[p].branch = n
    BY <1>1, <1>4, <1>5, <2>1
  <2> QED
    BY <2>2
<1>6. ASSUME NEW p \in Pass, passes'[p].pc = "creating",
             passes[p].branch < cards[passes[p].card].attempts
      PROVE  passes'[p].branch < cards'[passes'[p].card].attempts
  <2>1. Spawns(p)'
    BY <1>6 DEF Spawns
  <2>2. PICK c \in CardId, n \in Nat : c = passes[p].card /\ n = passes[p].branch
    BY <1>4, <2>1
  <2> QED
    BY <1>1, <1>4, <1>6, <2>1, <2>2
<1>7. ASSUME NEW p \in Pass, NEW q \in Pass, SameName(p, q)'
      PROVE  passes'[p].branch < cards'[passes'[p].card].attempts
  <2>1. Spawns(p)' /\ Spawns(q)' /\ passes'[p].pc = "creating"
    BY <1>7 DEF SameName, Spawns
  <2>2. SameName(p, q)
    BY <1>4, <1>7, <2>1 DEF SameName
  <2> QED
    BY <1>6, <2>1, <2>2 DEF Branches
<1>8. FreshBranch'
  <2> SUFFICES ASSUME NEW p \in Pass, passes'[p].pc = "creating",
                      <<passes'[p].card, passes'[p].branch>> \in branches'
               PROVE  Pass # {p} /\ passes'[p].branch < cards'[passes'[p].card].attempts
    BY DEF FreshBranch
  <2>1. Spawns(p)' /\ passes'[p] = passes[p]
    BY <1>4 DEF Spawns
  <2>2. Pass # {p} /\ passes[p].branch < cards[passes[p].card].attempts
    BY <2>1 DEF Branches, FreshBranch
  <2> QED
    BY <1>6, <2>2
<1> QED
  BY <1>2, <1>3, <1>5, <1>7, <1>8 DEF Branches, OnePass

LEMMA BranchesStep ==
  ASSUME TypeInv, Budget, Branches, Steps
  PROVE  Branches'
<1> SUFFICES ASSUME acts' = 0
             PROVE  Branches'
  BY DEF Branches
<1>0. acts \in Nat /\ \A c \in CardId : cards[c] \in Card /\ cards[c].attempts \in Nat
  BY CardOf DEF TypeInv, TypeOK, Card
<1>1. CASE Aside
  <2>1. acts = 0 /\ \A c \in CardId : Ages(cards[c], cards'[c])
    BY <1>0, <1>1 DEF Aside, Ages
  <2>2. \A p \in Pass :
          \/ passes'[p] = passes[p]
          \/ passes'[p].pc \in {"idle", "next"}
          \/ /\ passes'[p].pc = "resolving" /\ passes'[p].card \in CardId
             /\ cards'[passes'[p].card].status = "queued"
             /\ passes'[p].branch = cards'[passes'[p].card].attempts
    BY <1>1 DEF Aside, Behind, KeepHands
  <2> QED
    BY <1>1, <2>1, <2>2, BranchesKept DEF Aside, Behind, Spawns
<1>2. ASSUME NEW c \in CardId, Worked(c)
      PROVE  Branches'
  <2>1. acts = 0 /\ \A d \in CardId : Ages(cards[d], cards'[d])
    BY <1>2 DEF Worked, Only, Works, Moves, Ages
  <2>2. \A p \in Pass : passes[p].pc = "resolving" /\ OnePass =>
          /\ cards[passes[p].card].status = "queued" /\ passes[p].card \in CardId
    BY <2>1 DEF Branches, TypeInv, PassInv
  <2>3. \A d \in CardId : cards[d].status = "queued" =>
          cards'[d].status = cards[d].status /\ cards'[d].attempts = cards[d].attempts
    BY <1>2 DEF Worked, Only, Works, Moves
  <2> QED
    BY <1>2, <2>1, <2>2, <2>3, BranchesKept DEF Worked, Behind
<1>3. ASSUME NEW c \in CardId, Asked(c)
      PROVE  Branches'
  BY <1>0, <1>3 DEF Asked
<1>4. ASSUME NEW c \in CardId, LeaseExpires(c)
      PROVE  Branches'
  <2>1. \A d \in CardId : /\ cards'[d].status = cards[d].status
                          /\ cards'[d].attempts = cards[d].attempts
    BY <1>0, <1>4 DEF LeaseExpires, TypeInv, TypeOK, Card
  <2>2. UNCHANGED <<passes, branches, acts>>
    BY <1>4 DEF LeaseExpires
  <2>3. \A p \in Pass : passes[p].pc = "resolving" => passes[p].card \in CardId
    BY DEF TypeInv, PassInv
  <2> QED
    BY <2>1, <2>2, <2>3, BranchesKept DEF Ages
<1>5. ASSUME NEW p \in Pass, Reserve(p)
      PROVE  Branches'
  <2>1. PICK c \in CardId, n \in Nat : c = passes[p].card /\ n = passes[p].branch
    BY <1>5, Reserved
  <2>2. /\ acts = 0 /\ cards[c].status = "queued" /\ n <= cards[c].attempts
        /\ OnePass => n = cards[c].attempts
    BY <1>5, <2>1, Reserved DEF Branches
  <2>3. /\ cards'[c].attempts = cards[c].attempts /\ cards'[c].status = "running"
        /\ \A d \in CardId \ {c} : cards'[d] = cards[d]
    BY <1>0, <1>5, <2>1, Reserved, ClaimKeeps DEF Only
  <2>4. /\ passes'[p].pc = "creating" /\ passes'[p].card = c /\ passes'[p].branch = n
        /\ branches' = branches /\ \A q \in Pass \ {p} : passes'[q] = passes[q]
    BY <1>5, <2>1, Reserved DEF TypeInv, TypeOK
  <2>5. Behindhand(c, n)'
    BY <2>2, <2>3 DEF Behindhand
  <2>6. ASSUME NEW d \in CardId, NEW m \in Nat, Behindhand(d, m)
        PROVE  Behindhand(d, m)' /\ (d = c => m < cards'[c].attempts)
    <3>1. Ages(cards[d], cards'[d])
      BY <2>3 DEF Ages
    <3>2. d = c => m < cards[c].attempts
      BY <1>0, <2>2, <2>6 DEF Behindhand
    <3> QED
      BY <2>3, <2>6, <3>1, <3>2, AgedBehindhand
  <2>7. \A d \in CardId, m \in Nat : <<d, m>> \in branches' => Behindhand(d, m)'
    BY <2>2, <2>4, <2>6 DEF Branches
  <2>8. ASSUME NEW q \in Pass, q # p,
               passes[q].pc \in {"resolving", "creating", "granting"}
        PROVE  passes[q].card \in CardId /\ passes[q].branch \in Nat
    BY <2>8 DEF TypeInv, PassInv
  <2>9. ASSUME NEW q \in Pass, q # p, Spawns(q)
        PROVE  /\ Behindhand(passes[q].card, passes[q].branch)'
               /\ passes[q].card = c => passes[q].branch < cards'[c].attempts
    <3>1. PICK d \in CardId, m \in Nat : d = passes[q].card /\ m = passes[q].branch
      BY <2>8, <2>9 DEF Spawns
    <3>2. Behindhand(d, m)
      BY <2>2, <2>9, <3>1 DEF Branches
    <3>3. Behindhand(d, m)' /\ (d = c => m < cards'[c].attempts)
      BY <2>6, <3>2
    <3>4. passes'[q].card = d /\ passes'[q].branch = m
      BY <2>4, <2>9, <3>1
    <3> QED
      BY <3>1, <3>3, <3>4
  <2>10. ASSUME NEW q \in Pass, passes'[q].pc = "resolving"
         PROVE  /\ passes'[q].branch <= cards'[passes'[q].card].attempts
                /\ ~OnePass
    <3>1. q # p /\ passes'[q] = passes[q] /\ passes[q].pc = "resolving"
      BY <2>4, <2>10
    <3>2. cards'[passes[q].card].attempts = cards[passes[q].card].attempts
      BY <2>3, <2>8, <3>1
    <3> QED
      BY <2>2, <3>1, <3>2 DEF Branches, OnePass
  <2>11. \A q \in Pass : Spawns(q)' => Behindhand(passes[q].card, passes[q].branch)'
    <3>1. Behindhand(passes[p].card, passes[p].branch)'
      BY <2>1, <2>4, <2>5 DEF Behindhand
    <3> QED
      BY <2>4, <2>9, <3>1 DEF Spawns
  <2>12. ASSUME NEW q \in Pass, q # p, passes'[q].pc = "creating",
                \/ <<passes'[q].card, passes'[q].branch>> \in branches'
                \/ \E r \in Pass : SameName(q, r)'
         PROVE  passes'[q].branch < cards'[passes'[q].card].attempts /\ ~OnePass
    <3>1. Spawns(q) /\ passes'[q] = passes[q] /\ passes[q].pc = "creating"
      BY <2>4, <2>12 DEF Spawns
    <3>2. CASE passes[q].card = c
      BY <2>9, <2>12, <3>1, <3>2 DEF OnePass
    <3>3. CASE passes[q].card # c
      <4>1. passes[q].branch < cards[passes[q].card].attempts
        BY <2>2, <2>4, <2>12, <3>1, <3>3 DEF Branches, FreshBranch, SameName
      <4>2. cards'[passes[q].card] = cards[passes[q].card]
        BY <2>3, <2>8, <2>12, <3>1, <3>3
      <4> QED
        BY <2>12, <3>1, <4>1, <4>2 DEF OnePass
    <3> QED
      BY <3>2, <3>3
  <2>13. ASSUME \/ <<c, n>> \in branches'
                \/ \E q \in Pass : SameName(p, q)'
         PROVE  n < cards'[c].attempts /\ ~OnePass
    <3>1. n < cards'[c].attempts
      <4>1. CASE <<c, n>> \in branches'
        BY <2>2, <2>4, <2>6, <4>1 DEF Branches
      <4>2. ASSUME NEW q \in Pass, SameName(p, q)'
            PROVE  n < cards'[c].attempts
        <5>1. q # p /\ Spawns(q) /\ passes[q].card = c /\ passes[q].branch = n
          BY <2>4, <4>2 DEF SameName, Spawns
        <5> QED
          BY <2>9, <5>1
      <4> QED
        BY <2>13, <4>1, <4>2
    <3> QED
      BY <1>0, <2>2, <2>3, <3>1
  <2>14. FreshBranch'
    BY <2>4, <2>12, <2>13 DEF FreshBranch, OnePass
  <2>15. \A q, r \in Pass : SameName(q, r)' =>
           passes'[q].branch < cards'[passes'[q].card].attempts
    BY <2>4, <2>12, <2>13 DEF SameName
  <2> QED
    BY <2>7, <2>10, <2>11, <2>14, <2>15 DEF Branches, OnePass
<1>6. ASSUME NEW p \in Pass, Created(p)
      PROVE  Branches'
  <2>1. PICK c \in CardId, n \in Nat : c = passes[p].card /\ n = passes[p].branch
    BY <1>6 DEF Created, TypeInv, PassInv
  <2>2. PICK s \in Session :
          passes' = [passes EXCEPT ![p] = [@ EXCEPT !.pc = "granting", !.session = s]]
    BY <1>6 DEF Created
  <2>3. /\ passes'[p].pc = "granting"
        /\ \A q \in Pass \ {p} : passes'[q] = passes[q]
        /\ \A q \in Pass : /\ passes'[q].card = passes[q].card
                           /\ passes'[q].branch = passes[q].branch
                           /\ Spawns(q)' => Spawns(q)
    BY <1>6, <2>2 DEF Created, Spawns, TypeInv, TypeOK, PassState
  <2>4. /\ cards' = cards /\ acts' = acts /\ branches' = branches \cup {<<c, n>>}
        /\ Spawns(p) /\ passes[p].pc = "creating"
    BY <1>6, <2>1 DEF Created, Spawns
  <2>5. Behindhand(c, n)
    BY <2>1, <2>4 DEF Branches
  <2>6. \A d \in CardId, m \in Nat : <<d, m>> \in branches' => Behindhand(d, m)
    BY <2>4, <2>5 DEF Branches
  <2>7. \A d \in CardId, m \in Nat : Behindhand(d, m)' = Behindhand(d, m)
    BY <2>4 DEF Behindhand
  <2>8. ASSUME NEW q \in Pass, passes'[q].pc = "creating",
               <<passes'[q].card, passes'[q].branch>> \in branches'
        PROVE  Pass # {q} /\ passes'[q].branch < cards'[passes'[q].card].attempts
    <3>1. q # p /\ passes'[q] = passes[q] /\ passes[q].pc = "creating"
      BY <2>3, <2>8
    <3>2. CASE <<passes[q].card, passes[q].branch>> \in branches
      BY <2>4, <3>1, <3>2 DEF Branches, FreshBranch
    <3>3. CASE <<passes[q].card, passes[q].branch>> = <<c, n>>
      <4>1. SameName(q, p)
        BY <2>1, <2>4, <3>1, <3>3 DEF SameName
      <4> QED
        BY <2>4, <3>1, <4>1 DEF Branches
    <3> QED
      BY <2>4, <2>8, <3>1, <3>2, <3>3
  <2>9. FreshBranch'
    BY <2>8 DEF FreshBranch
  <2>10. \A q, r \in Pass : SameName(q, r)' => SameName(q, r)
    BY <2>3 DEF SameName
  <2>11. \A q \in Pass : passes'[q].pc = "resolving" => passes[q].pc = "resolving"
    BY <2>3
  <2>12. \A q \in Pass : Spawns(q)' => Behindhand(passes[q].card, passes[q].branch)'
    <3> SUFFICES ASSUME NEW q \in Pass, Spawns(q)
                 PROVE  Behindhand(passes[q].card, passes[q].branch)'
      BY <2>3
    <3>1. Behindhand(passes[q].card, passes[q].branch)
      BY <2>4 DEF Branches
    <3> QED
      BY <2>3, <2>4, <3>1 DEF Behindhand
  <2> QED
    BY <2>3, <2>4, <2>6, <2>7, <2>9, <2>10, <2>11, <2>12 DEF Branches
<1>7. ASSUME NEW p \in Pass, CreateFailed(p) \/ Linked(p)
      PROVE  Branches'
  <2>1. PICK c \in CardId : c = passes[p].card
    BY <1>7, RolledBack, Recorded
  <2>2. /\ acts = 0 /\ passes'[p].pc = "next" /\ branches' \subseteq branches
        /\ \A q \in Pass \ {p} : passes'[q] = passes[q] /\ ~OnePass
    BY <1>7, RolledBack, Recorded, OnwardType DEF OnePass, TypeInv, TypeOK
  <2>3. ASSUME NEW d \in CardId
        PROVE  Ages(cards[d], cards'[d])
    <3>1. CASE CreateFailed(p)
      <4>1. cards'[d] = cards[d] \/ cards'[d] = Retry(cards[d], Stamp)
        BY <2>1, <3>1, RolledBack DEF Only
      <4> QED
        BY <1>0, <4>1, StampType, RetryKeeps DEF Ages
    <3>2. CASE Linked(p)
      <4>1. \/ cards'[d] = cards[d]
            \/ /\ passes[p].session \in Session
               /\ cards'[d] = LinkSession(cards[d], passes[p].session)
        BY <2>1, <3>2, Recorded DEF Only
      <4> QED
        BY <1>0, <4>1, LinkWorks DEF Ages, Works
    <3> QED
      BY <1>7, <3>1, <3>2
  <2> QED
    BY <2>2, <2>3, BranchesKept DEF Spawns
<1>8. CASE ReclaimSaves /\ ~rec.dirty
  <2>1. UNCHANGED <<passes, branches, acts>>
    BY <1>8 DEF ReclaimSaves
  <2>2. ASSUME NEW d \in CardId
        PROVE  /\ Ages(cards[d], cards'[d])
               /\ cards[d].status = "queued" => cards'[d] = cards[d]
    <3>1. \/ cards'[d] = cards[d]
          \/ Stale(cards[d]) /\ cards'[d] = ApplyResumed(cards[d])
          \/ Stale(cards[d]) /\ cards'[d] = Recycle(cards[d], Stamp)
      BY <1>8, Reclaimed
    <3> QED
      BY <1>0, <3>1, StampType, ResumeKeeps, RecycleKeeps DEF Ages, Stale
  <2>3. \A p \in Pass : passes[p].pc = "resolving" /\ OnePass =>
          passes[p].card \in CardId /\ cards[passes[p].card].status = "queued"
    BY <2>1 DEF Branches, TypeInv, PassInv
  <2> QED
    BY <2>1, <2>2, <2>3, BranchesKept
<1>9. CASE Crash
  <2>1. /\ UNCHANGED <<cards, branches, acts>>
        /\ \A p \in Pass : passes'[p].pc = "idle"
    BY <1>9 DEF Crash, IdlePass
  <2>2. \A c \in CardId : Ages(cards[c], cards'[c])
    BY <2>1 DEF Ages
  <2> QED
    BY <2>1, <2>2, BranchesKept DEF Spawns
<1> QED
  BY <1>1, <1>2, <1>3, <1>4, <1>5, <1>6, <1>7, <1>8, <1>9 DEF Steps

-----------------------------------------------------------------------------
(* The results.                                                            *)

\* The cards a board starts with: queued, or deleted.
LEMMA FirstCards ==
  ASSUME Init, NEW c \in CardId
  PROVE  /\ cards[c] \in Card /\ cards[c].attempts = 0
         /\ cards[c].status \in {"queued", "removed"}
<1>1. PICK order \in [CardId -> 1..Cardinality(CardId)], gone \in SUBSET CardId :
        cards = [d \in CardId |-> IF d \in gone THEN Remove(NewCard("queued", order[d]))
                                 ELSE NewCard("queued", order[d])]
  BY DEF Init
<1> DEFINE k == NewCard("queued", order[c])
<1>2. order[c] \in Nat
  BY DispatchAssumption, FS_CardinalityType
<1>3. k \in Card /\ k.attempts = 0 /\ k.status = "queued"
  BY <1>2, NewCardType DEF Status, NewCard
<1>4. cards[c] = k \/ cards[c] = Remove(k)
  BY <1>1
<1> HIDE DEF k
<1>5. Remove(k) \in Card /\ Remove(k).attempts = 0 /\ Remove(k).status = "removed"
  BY <1>3, RemoveType, RemoveKeepsLease DEF Remove, Card
<1> QED
  BY <1>3, <1>4, <1>5

Safe == TypeInv /\ Budget /\ Workers /\ Claims /\ Branches

LEMMA SafeInit == Init => Safe
<1> SUFFICES ASSUME Init
             PROVE  Safe
  OBVIOUS
<1>1. /\ \A p \in Pass : passes[p].pc = "idle"
      /\ \A s \in Session : sessions[s] = "unused"
      /\ branches = {}
  BY DEF Init, IdlePass
<1>2. Workers
  BY <1>1 DEF Workers, Spawns, Used
<1>3. Claims /\ Branches
  BY <1>1 DEF Claims, Branches, SameName, Spawns, FreshBranch
<1> QED
  BY <1>2, <1>3, TypeInit, BudgetInit DEF Safe

LEMMA SafeStep ==
  ASSUME Safe, [Next]_vars
  PROVE  Safe'
<1>1. Steps
  BY EveryStep DEF Safe
<1> QED
  BY <1>1, TypeStep, BudgetStep, WorkersStep, ClaimsStep, BranchesStep DEF Safe

LEMMA DispatchSafe == Spec => []Safe
<1>1. Safe /\ [Next]_vars => Safe'
  BY SafeStep
<1> QED
  BY <1>1, SafeInit, PTL DEF Spec

\* Without restarts no worker session is lost, for any number of cards, passes and
\* sessions and whatever people move, delete or archive meanwhile.
THEOREM DispatchNoOrphanWorker == Spec => []NoOrphanWorker
<1>1. Safe => NoOrphanWorker
  BY DEF Safe, Workers, NoOrphanWorker, OnRecord, Used
<1> QED
  BY <1>1, DispatchSafe, PTL

\* Passes that pick the same card never both create a session for it, however many
\* passes and restarts there are: claimTask looks at the column again after its await.
THEOREM DispatchNoTwinSpawn == Spec => []NoTwinSpawn
<1>1. Safe => NoTwinSpawn
  BY DEF Safe, Claims, NoTwinSpawn, Spawns
<1> QED
  BY <1>1, DispatchSafe, PTL

\* For any number of passes a session is started on a branch its card has used before
\* only by a pass that read the suffix before another one used an attempt up, and
\* never when one pass works alone, whatever expires or restarts in between.
THEOREM DispatchFreshBranch == Spec => []FreshBranch
<1>1. Safe => FreshBranch
  BY DEF Safe, Branches, FreshBranch
<1> QED
  BY <1>1, DispatchSafe, PTL

\* Who is put back to the queue without a request, and at what price.
LEMMA PutBack ==
  ASSUME Safe, [Next]_vars, acts' = acts, NEW c \in CardId,
         cards[c].status # "queued", cards'[c].status = "queued"
  PROVE  cards'[c].attempts <= MaxAttempts
<1>0. /\ cards[c] \in Card /\ cards[c].attempts \in Nat /\ MaxAttempts \in Nat
      /\ Stamp \in Nat /\ acts \in Nat /\ TypeInv /\ Budget
  BY CardOf, StampType, ConfigAssumption DEF Safe, TypeInv, TypeOK, Card
<1>1. \/ cards'[c] = Retry(cards[c], Stamp)
      \/ cards'[c] = Recycle(cards[c], Stamp)
  <2>1. Steps
    BY EveryStep DEF Safe
  <2>2. CASE Aside \/ Crash
    BY <2>2 DEF Aside, Crash
  <2>3. ASSUME NEW d \in CardId, Worked(d) \/ Asked(d)
        PROVE  FALSE
    BY <1>0, <2>3 DEF Worked, Asked, Only, Works, Moves
  <2>4. ASSUME NEW d \in CardId, LeaseExpires(d)
        PROVE  FALSE
    BY <1>0, <2>4 DEF LeaseExpires, TypeInv, TypeOK, Card
  <2>5. ASSUME NEW p \in Pass, Reserve(p) \/ Created(p) \/ Linked(p)
        PROVE  FALSE
    <3>1. CASE Reserve(p)
      <4>1. \/ cards'[c] = cards[c]
            \/ passes[p].branch \in Nat /\ cards'[c] = Claim(cards[c], passes[p].branch)
        BY <1>0, <3>1, Reserved DEF Only
      <4> QED
        BY <1>0, <4>1, ClaimKeeps
    <3>2. CASE Created(p)
      BY <3>2 DEF Created
    <3>3. CASE Linked(p)
      <4>1. \/ cards'[c] = cards[c]
            \/ /\ passes[p].session \in Session
               /\ cards'[c] = LinkSession(cards[c], passes[p].session)
        BY <1>0, <3>3, Recorded DEF Only
      <4> QED
        BY <1>0, <4>1, LinkWorks
    <3> QED
      BY <2>5, <3>1, <3>2, <3>3
  <2>6. ASSUME NEW p \in Pass, CreateFailed(p)
        PROVE  cards'[c] = Retry(cards[c], Stamp)
    BY <1>0, <2>6, RolledBack DEF Only
  <2>7. CASE ReclaimSaves /\ ~rec.dirty
    <3>1. \/ cards'[c] = cards[c] \/ cards'[c] = ApplyResumed(cards[c])
          \/ cards'[c] = Recycle(cards[c], Stamp)
      BY <1>0, <2>7, Reclaimed
    <3> QED
      BY <1>0, <3>1, ResumeKeeps
  <2> QED
    BY <2>1, <2>2, <2>3, <2>4, <2>5, <2>6, <2>7 DEF Steps
<1> QED
  BY <1>0, <1>1, RetryKeeps, RecycleKeeps

\* The pipeline never queues a card again whose dispatch attempts are spent.
THEOREM DispatchRequeuesWithinBudget == Spec => RequeuesWithinBudget
<1> DEFINE InBudget == \A c \in CardId :
             (cards[c].status # "queued" /\ cards'[c].status = "queued" /\ acts' = acts)
               => cards'[c].attempts <= MaxAttempts
<1>1. Safe /\ [Next]_vars => [InBudget]_vars
  BY PutBack
<1> HIDE DEF InBudget
<1>2. Spec => [][InBudget]_vars
  BY <1>1, DispatchSafe, PTL DEF Spec
<1> QED
  BY <1>2 DEF RequeuesWithinBudget, InBudget

column   == [c \in CardId |-> cards[c].status]
attempts == [c \in CardId |-> cards[c].attempts]
claiming == {c \in CardId : Spawning(c)}

LEMMA ClaimingIs == claiming = {c \in CardId : \E p \in Pass : Spawns(p) /\ passes[p].card = c}
BY DEF claiming, Spawning, Spawns

\* One step of a card, seen as a step of the columns.
LEMMA OnlyColumn ==
  ASSUME TypeInv, NEW c \in CardId, Only(c)
  PROVE  /\ column' = [column EXCEPT ![c] = cards'[c].status]
         /\ cards'[c].attempts = cards[c].attempts => attempts' = attempts
         /\ cards'[c].attempts = cards[c].attempts + 1 =>
              attempts' = [d \in CardId |-> attempts[d] + IF d \in {c} THEN 1 ELSE 0]
<1>1. \A d \in CardId : cards[d].attempts \in Nat
  BY CardOf DEF TypeInv, Card
<1>2. column' = [column EXCEPT ![c] = cards'[c].status]
  BY DEF Only, column
<1>3. ASSUME cards'[c].attempts = cards[c].attempts
      PROVE  attempts' = attempts
  BY <1>3 DEF Only, attempts
<1>4. ASSUME cards'[c].attempts = cards[c].attempts + 1
      PROVE  attempts' = [d \in CardId |-> attempts[d] + IF d \in {c} THEN 1 ELSE 0]
  BY <1>1, <1>4 DEF Only, attempts
<1> QED
  BY <1>2, <1>3, <1>4

LEMMA StillClaiming ==
  ASSUME Behind
  PROVE  claiming' = claiming
<1>1. \A p \in Pass : passes'[p] = passes[p] \/ (~Spawns(p) /\ ~Spawns(p)')
  BY DEF Behind, KeepHands, Spawns
<1>2. \A p \in Pass, c \in CardId :
        (Spawns(p)' /\ passes'[p].card = c) <=> (Spawns(p) /\ passes[p].card = c)
  BY <1>1 DEF Spawns
<1> QED
  BY <1>2 DEF claiming, Spawning, Spawns

\* What one step does to the columns.
LEMMA ColumnsStep ==
  ASSUME Safe, [Next]_vars
  PROVE  [Columns!Next]_(Columns!vars)
<1> USE DEF Safe
<1>0. /\ Steps /\ Stamp \in Nat /\ acts \in Nat
      /\ \A c \in CardId : cards[c] \in Card /\ cards[c].attempts \in Nat
  BY EveryStep, StampType, CardOf DEF TypeInv, TypeOK, Card
<1> DEFINE Still == column' = column /\ attempts' = attempts /\ claiming' = claiming /\ acts' = acts
<1>1. ASSUME Still
      PROVE  UNCHANGED Columns!vars
  BY <1>1 DEF Columns!vars, column, attempts, claiming
<1>2. ASSUME UNCHANGED <<cards, acts>>, claiming' \in SUBSET claiming
      PROVE  Columns!Next
  <2>1. Columns!Settle
    BY <1>2 DEF Columns!Settle, Columns!Pipeline, claiming
  <2> QED
    BY <2>1 DEF Columns!Next
<1>3. CASE Aside
  <2>1. cards' = cards /\ claiming' = claiming
    BY <1>3, StillClaiming DEF Aside
  <2>2. CASE acts' = acts
    BY <1>2, <2>1, <2>2
  <2>3. CASE acts' = acts + 1 /\ (CardId # {} \/ \E s \in Session : Used(s))
    <3>1. PICK c \in CardId : TRUE
      BY <2>3 DEF Workers
    <3>2. Columns!Request(c)
      BY <2>1, <2>3 DEF Columns!Request, claiming
    <3> QED
      BY <3>2 DEF Columns!Next
  <2> QED
    BY <1>3, <2>2, <2>3 DEF Aside
<1>4. ASSUME NEW c \in CardId, Worked(c)
      PROVE  [Columns!Next]_(Columns!vars)
  <2>1. /\ claiming' = claiming /\ acts' = acts /\ attempts' = attempts
        /\ column' = [column EXCEPT ![c] = cards'[c].status]
        /\ Moves(cards[c].status, cards'[c].status)
    BY <1>4, StillClaiming, OnlyColumn DEF Worked, Works
  <2>2. CASE cards'[c].status = cards[c].status
    BY <1>1, <2>1, <2>2 DEF column
  <2>3. CASE cards'[c].status # cards[c].status
    <3>1. Columns!Work(c)
      BY <2>1, <2>3 DEF Moves, Columns!Work, Columns!Goes, Columns!Pipeline, column, attempts, claiming
    <3> QED
      BY <3>1 DEF Columns!Next
  <2> QED
    BY <2>2, <2>3
<1>5. ASSUME NEW c \in CardId, Asked(c)
      PROVE  Columns!Next
  <2>1. /\ claiming' = claiming /\ acts' = acts + 1 /\ attempts' = attempts
        /\ column' = [column EXCEPT ![c] = cards'[c].status]
        /\ Asks(cards[c], cards'[c])
    BY <1>5, StillClaiming, OnlyColumn DEF Asked, Asks
  <2>2. CASE cards'[c].status = cards[c].status
    <3>1. column' = column
      BY <2>1, <2>2 DEF column
    <3>2. Columns!Request(c)
      BY <2>1, <3>1 DEF Columns!Request, column, attempts, claiming
    <3> QED
      BY <3>2 DEF Columns!Next
  <2>3. CASE cards'[c].status # cards[c].status
    <3>1. Columns!Request(c)
      BY <2>1, <2>3 DEF Asks, Columns!Request, Columns!Goes, Columns!HandColumns,
         column, attempts, claiming
    <3> QED
      BY <3>1 DEF Columns!Next
  <2> QED
    BY <2>2, <2>3
<1>6. ASSUME NEW c \in CardId, LeaseExpires(c)
      PROVE  Still
  <2>1. \A d \in CardId : /\ cards'[d].status = cards[d].status
                          /\ cards'[d].attempts = cards[d].attempts
    BY <1>0, <1>6 DEF LeaseExpires, TypeInv, TypeOK, Card
  <2>2. passes' = passes /\ acts' = acts
    BY <1>6 DEF LeaseExpires
  <2> QED
    BY <2>1, <2>2 DEF column, attempts, claiming, Spawning
<1>7. ASSUME NEW p \in Pass, Reserve(p)
      PROVE  Columns!Next
  <2>1. PICK c \in CardId : c = passes[p].card
    BY <1>7, Reserved
  <2>2. /\ cards[c].status = "queued" /\ Only(c) /\ acts' = acts
        /\ cards'[c].status = "running" /\ cards'[c].attempts = cards[c].attempts
    BY <1>0, <1>7, <2>1, Reserved, ClaimKeeps
  <2>3. /\ column' = [column EXCEPT ![c] = "running"] /\ attempts' = attempts
        /\ column[c] = "queued"
    BY <2>2, OnlyColumn DEF column
  <2>4. /\ passes'[p].pc = "creating" /\ passes'[p].card = c /\ passes[p].pc = "resolving"
        /\ \A q \in Pass \ {p} : passes'[q] = passes[q]
    BY <1>7, <2>1, Reserved DEF TypeInv, TypeOK
  <2>5. claiming' = claiming \cup {c}
    BY <2>4 DEF claiming, Spawning
  <2>6. Columns!Reserve(c)
    BY <2>2, <2>3, <2>5 DEF Columns!Reserve, Columns!Goes, Columns!Pipeline,
       column, attempts, claiming
  <2> QED
    BY <2>6 DEF Columns!Next
<1>8. ASSUME NEW p \in Pass, Created(p)
      PROVE  Still
  <2>1. PICK s \in Session :
          passes' = [passes EXCEPT ![p] = [@ EXCEPT !.pc = "granting", !.session = s]]
    BY <1>8 DEF Created
  <2>2. passes[p].pc = "creating" /\ UNCHANGED <<cards, acts>>
    BY <1>8 DEF Created
  <2>3. \A q \in Pass : passes'[q].card = passes[q].card /\ (Spawns(q)' <=> Spawns(q))
    BY <2>1, <2>2 DEF Spawns, TypeInv, TypeOK, PassState
  <2>4. claiming' = claiming
    BY <2>3 DEF claiming, Spawning, Spawns
  <2> QED
    BY <2>2, <2>4 DEF column, attempts
<1>9. ASSUME NEW p \in Pass, NEW c \in CardId, c = passes[p].card, Spawns(p),
             passes' = [passes EXCEPT ![p] = Onward(p)]
      PROVE  c \in claiming /\ claiming' \in {claiming, claiming \ {c}}
  <2>1. /\ passes'[p].pc = "next" /\ \A q \in Pass \ {p} : passes'[q] = passes[q]
    BY <1>9, OnwardType DEF TypeInv, TypeOK
  <2>2. c \in claiming
    BY <1>9 DEF claiming, Spawning, Spawns
  <2>3. \A d \in CardId \ {c} : d \in claiming' <=> d \in claiming
    BY <1>9, <2>1 DEF claiming, Spawning
  <2>4. claiming \subseteq CardId /\ claiming' \subseteq CardId
    BY DEF claiming
  <2> HIDE DEF claiming
  <2> QED
    BY <2>2, <2>3, <2>4
<1>10. ASSUME NEW p \in Pass, CreateFailed(p)
       PROVE  Columns!Next
  <2>1. PICK c \in CardId : c = passes[p].card
    BY <1>10, RolledBack
  <2>2. c \in claiming /\ claiming' \in {claiming, claiming \ {c}} /\ acts' = acts
    BY <1>9, <1>10, <2>1, RolledBack DEF Spawns
  <2>3. CASE cards' = cards
    BY <1>2, <2>2, <2>3
  <2>4. CASE cards' # cards
    <3>1. /\ Exists(cards[c]) /\ Only(c) /\ cards'[c] = Retry(cards[c], Stamp)
      BY <1>10, <2>1, <2>4, RolledBack
    <3>2. /\ cards'[c].attempts = cards[c].attempts + 1
          /\ cards'[c].status =
               IF cards[c].attempts + 1 > MaxAttempts THEN "blocked" ELSE "queued"
      BY <1>0, <3>1, RetryKeeps
    <3>3. /\ column' = [column EXCEPT ![c] = cards'[c].status]
          /\ attempts' = [d \in CardId |-> attempts[d] + IF d \in {c} THEN 1 ELSE 0]
      BY <3>1, <3>2, OnlyColumn
    <3>4. column' = [d \in CardId |->
             IF d \notin {c} THEN column[d]
             ELSE IF attempts[d] + 1 > MaxAttempts THEN "blocked" ELSE "queued"]
      BY <3>2, <3>3 DEF column, attempts
    <3>5. Columns!Retried({c})
      BY <3>3, <3>4 DEF Columns!Retried, column, attempts
    <3>6. Columns!RollBack(c)
      BY <2>2, <3>1, <3>5 DEF Columns!RollBack, Columns!Pipeline, Exists, Removed, claiming
    <3> QED
      BY <3>6 DEF Columns!Next
  <2> QED
    BY <2>3, <2>4
<1>11. ASSUME NEW p \in Pass, Linked(p)
       PROVE  Columns!Next
  <2>1. PICK c \in CardId, s \in Session : c = passes[p].card /\ s = passes[p].session
    BY <1>11, Recorded
  <2>2. claiming' \in SUBSET claiming /\ acts' = acts
    BY <1>9, <1>11, <2>1, Recorded DEF Spawns
  <2>3. cards' = cards \/ (Only(c) /\ cards'[c] = LinkSession(cards[c], s))
    BY <1>11, <2>1, Recorded
  <2>4. \A d \in CardId : /\ cards'[d].status = cards[d].status
                          /\ cards'[d].attempts = cards[d].attempts
    BY <1>0, <2>3, LinkWorks DEF Only, Works
  <2>5. Columns!Settle
    BY <2>2, <2>4 DEF Columns!Settle, Columns!Pipeline, claiming
  <2> QED
    BY <2>5 DEF Columns!Next
<1>12. CASE ReclaimSaves /\ ~rec.dirty
  <2>1. PICK set \in SUBSET CardId : set = rec.recycled \ rec.resumed
    BY DEF TypeInv, TypeOK, RecState
  <2>2. ASSUME NEW c \in CardId
        PROVE  /\ c \in set =>
                    /\ cards[c].status = "running"
                    /\ cards'[c].attempts = cards[c].attempts + 1
                    /\ cards'[c].status =
                         IF cards[c].attempts + 1 > MaxAttempts THEN "blocked" ELSE "queued"
               /\ c \notin set => /\ cards'[c].attempts = cards[c].attempts
                                  /\ cards'[c].status = cards[c].status
    <3>1. CASE c \in set
      <4>1. Stale(cards[c]) /\ cards'[c] = Recycle(cards[c], Stamp)
        BY <1>12, <2>1, <3>1, Reclaimed
      <4> QED
        BY <1>0, <3>1, <4>1, RecycleKeeps DEF Stale
    <3>2. CASE c \notin set
      <4>1. cards'[c] = cards[c] \/ cards'[c] = ApplyResumed(cards[c])
        BY <1>12, <2>1, <3>2, Reclaimed
      <4> QED
        BY <1>0, <3>2, <4>1, ResumeKeeps
    <3> QED
      BY <3>1, <3>2
  <2>3. UNCHANGED <<passes, acts>> /\ claiming' = claiming
    BY <1>12 DEF ReclaimSaves, claiming, Spawning
  <2>4. attempts' = [c \in CardId |-> attempts[c] + IF c \in set THEN 1 ELSE 0]
    BY <1>0, <2>2 DEF attempts
  <2>5. column' = [c \in CardId |->
           IF c \notin set THEN column[c]
           ELSE IF attempts[c] + 1 > MaxAttempts THEN "blocked" ELSE "queued"]
    BY <2>2 DEF column, attempts
  <2>6. Columns!Retried(set)
    BY <2>4, <2>5 DEF Columns!Retried, column, attempts
  <2>7. \A c \in set : column[c] = "running"
    BY <2>1, <2>2 DEF column
  <2>8. Columns!Recycle(set)
    BY <2>3, <2>6, <2>7 DEF Columns!Recycle, Columns!Pipeline, column, claiming
  <2> QED
    BY <2>8 DEF Columns!Next
<1>13. CASE Crash
  <2>1. claiming' = {}
    BY <1>13 DEF Crash, IdlePass, claiming, Spawning
  <2> QED
    BY <1>2, <1>13, <2>1 DEF Crash
<1> QED
  BY <1>0, <1>1, <1>3, <1>4, <1>5, <1>6, <1>7, <1>8, <1>10, <1>11, <1>12, <1>13 DEF Steps

\* Dispatching, reclaim, workers and people keep to the board's columns, for every
\* board: cards move along the pipeline's edges, and are put back only on their
\* attempt budget and only from running or by the roll-back of their own claim.
THEOREM DispatchImplementsColumns == Spec => ImplementsColumns
<1>1. Init => Columns!Init
  <2> SUFFICES ASSUME Init
               PROVE  Columns!Init
    OBVIOUS
  <2>1. \A c \in CardId : cards[c].attempts = 0 /\ cards[c].status \in {"queued", "removed"}
    BY FirstCards
  <2>2. acts = 0 /\ \A p \in Pass : passes[p].pc = "idle"
    BY DEF Init, IdlePass
  <2>3. {c \in CardId : Spawning(c)} = {}
    BY <2>2 DEF Spawning
  <2> QED
    BY <2>1, <2>2, <2>3 DEF Columns!Init, Columns!HandColumns
<1>2. Safe /\ [Next]_vars => [Columns!Next]_(Columns!vars)
  BY ColumnsStep
<1> QED
  BY <1>1, <1>2, DispatchSafe, PTL DEF Spec, ImplementsColumns, Columns!Spec
=============================================================================
