------------------------- MODULE MessageQueueProofs -------------------------
(***************************************************************************)
(* Whatever the numbers of sessions, ticks, messages and disturbances:     *)
(* the queue stays well-formed and within its limit, a message is sent     *)
(* once but for the answers lost and the restarts, in the order of the     *)
(* queue and into no turn that runs, one taken back is not sent, the       *)
(* scheduler is told the truth and no queue is forgotten.                  *)
(*                                                                         *)
(* The argument (Safe): a message is in the queue of one session at most,  *)
(* a session has one send at a time and knows of it (sending), and what is *)
(* in a queue and not being sent was accepted only by sends whose answer   *)
(* was lost or forgotten.  Orderly, Alone, Told and Looked add what the    *)
(* order, the turns, the scheduler and the wake-ups need.                  *)
(***************************************************************************)
EXTENDS MessageQueue, FiniteSetTheorems, WellFoundedInduction, TLAPS

Sends(t) == ticks[t].pc \in {"before", "sending", "answer"}

\* What is queued was queued by somebody, for one session.
Separate(q) ==
  /\ \A s \in Session : q[s] \subseteq 1..made
  /\ \A s, x \in Session : s # x => q[s] \cap q[x] = {}

\* A tick works on an item of its session, and the sends of a session are one.
OneSend ==
  /\ \A t \in Tick : ticks[t].pc # "idle" =>
       /\ ticks[t].session \in Session /\ ticks[t].item \in 1..made
       /\ \A s \in Session : ticks[t].item \in queue[s] => s = ticks[t].session
  /\ \A t, u \in Tick :
       /\ ticks[t].pc # "idle" /\ ticks[u].pc # "idle"
       /\ ticks[t].item = ticks[u].item
       => ticks[t].session = ticks[u].session
  /\ \A t \in Tick : Sends(t) => sending[ticks[t].session] = ticks[t].item
  /\ \A t, u \in Tick :
       Sends(t) /\ Sends(u) /\ ticks[t].session = ticks[u].session => t = u

\* How often an item was accepted.
Counted ==
  /\ \A i \in Item : accepted[i] <= 1 + lost + crashes
  /\ \A i \in Item : i > made => accepted[i] = 0
  /\ \A s \in Session : \A i \in queue[s] :
       \/ accepted[i] <= lost + crashes
       \/ \E t \in Tick : ticks[t].pc = "answer" /\ ticks[t].item = i
  /\ \A t \in Tick : ticks[t].pc \in {"before", "sending"} =>
       accepted[ticks[t].item] <= lost + crashes

\* What people took back is out of reach.
OutOfReach ==
  lost = 0 /\ crashes = 0 =>
    \A i \in back :
      /\ i <= made /\ accepted[i] = 0
      /\ \A s \in Session : i \notin queue[s]
      /\ \A t \in Tick : Sends(t) => ticks[t].item # i

Safe == Separate(queue) /\ Separate(file.queue) /\ OneSend /\ Counted /\ OutOfReach

-----------------------------------------------------------------------------
LEMMA MadeAreItems == TypeOK => \A i \in 1..made : i \in Item /\ i # None
PROOF
<1> SUFFICES ASSUME TypeOK, NEW i \in 1..made PROVE i \in Item /\ i # None
  OBVIOUS
<1>1. made \in Nat /\ made <= MaxItems /\ MaxItems \in Nat /\ None \notin Nat
  BY QueueAssumption DEF TypeOK
<1> QED BY <1>1 DEF Item

\* A queue that loses items is within the limit.
LEMMA SmallerQueue == \A q \in Queue : \A r \in SUBSET q : r \in Queue
PROOF
<1> SUFFICES ASSUME NEW q \in Queue, NEW r \in SUBSET q PROVE r \in Queue
  OBVIOUS
<1>1. IsFiniteSet(q)
  <2>1. IsFiniteSet(Item)
    BY QueueAssumption, FS_Interval DEF Item
  <2> QED BY <2>1, FS_Subset DEF Queue
<1>2. Cardinality(r) <= Cardinality(q) /\ Cardinality(r) \in Nat /\ Cardinality(q) \in Nat
  BY <1>1, FS_Subset, FS_CardinalityType
<1> QED BY <1>2, QueueAssumption DEF Queue

\* A queue that is not empty has a first item.
LEMMA FirstIsQueued ==
  ASSUME TypeOK, NEW s \in Session, queue[s] # {}
  PROVE  First(s) \in queue[s]
PROOF
<1> DEFINE ranks == {rank[i] : i \in queue[s]}
<1>1. ranks \in SUBSET Nat /\ ranks # {}
  BY DEF TypeOK, Queue
<1> DEFINE less == {p \in Nat \X Nat : p[1] < p[2]}
<1>2. IsWellFoundedOn(less, Nat)
  <2>1. less = OpToRel(<, Nat)
    BY DEF OpToRel
  <2> QED BY <2>1, NatLessThanWellFounded
<1> HIDE DEF ranks
<1>3. \E n \in ranks : \A m \in ranks : <<m, n>> \notin less
  <2> HIDE DEF less
  <2> QED BY <1>1, <1>2, WFMin
<1>4. PICK n \in ranks : \A m \in ranks : n <= m
  <2>1. PICK n \in ranks : \A m \in ranks : <<m, n>> \notin less
    BY <1>3
  <2>2. ASSUME NEW m \in ranks PROVE n <= m
    <3>1. m \in Nat /\ n \in Nat
      BY <1>1
    <3>2. <<m, n>> \notin less
      BY <2>1
    <3> QED BY <3>1, <3>2
  <2> QED BY <2>2
<1>5. \E i \in queue[s] : \A j \in queue[s] : rank[i] <= rank[j]
  BY <1>4 DEF ranks
<1> QED BY <1>5 DEF First

\* Putting an item into a queue keeps it within the limit.
LEMMA PutKeepsLimit ==
  ASSUME TypeOK, NEW s \in Session, NEW i \in Item
  PROVE  LET pushed == IF Cardinality(queue[s]) < QueueLimit THEN {} ELSE {First(s)}
         IN  (queue[s] \cup {i}) \ pushed \in Queue
PROOF
<1> DEFINE q == queue[s]
<1>1. /\ q \in SUBSET Item /\ Cardinality(q) <= QueueLimit
      /\ IsFiniteSet(q) /\ Cardinality(q) \in Nat
  <2>1. q \in Queue
    BY DEF TypeOK
  <2>2. IsFiniteSet(Item)
    BY QueueAssumption, FS_Interval DEF Item
  <2> QED BY <2>1, <2>2, FS_Subset, FS_CardinalityType DEF Queue
<1>2. ASSUME NEW r, IsFiniteSet(r)
      PROVE  Cardinality(r \cup {i}) <= Cardinality(r) + 1 /\ Cardinality(r \cup {i}) \in Nat
  <2>1. /\ IsFiniteSet(r \cup {i})
        /\ Cardinality(r \cup {i}) = IF i \in r THEN Cardinality(r) ELSE Cardinality(r) + 1
    BY <1>2, FS_AddElement
  <2>2. Cardinality(r) \in Nat
    BY <1>2, FS_CardinalityType
  <2> QED BY <2>1, <2>2
<1>3. CASE Cardinality(q) < QueueLimit
  BY <1>1, <1>2, <1>3, QueueAssumption DEF Queue
<1>4. CASE ~(Cardinality(q) < QueueLimit)
  <2>1. q # {}
    BY <1>1, <1>4, FS_EmptySet, QueueAssumption
  <2>2. First(s) \in q
    BY <2>1, FirstIsQueued
  <2> DEFINE r == q \ {First(s)}
  <2>3. IsFiniteSet(r) /\ Cardinality(r) = Cardinality(q) - 1
    BY <1>1, <2>2, FS_RemoveElement
  <2>4. Cardinality(r \cup {i}) <= QueueLimit
    BY <1>1, <1>2, <2>3, QueueAssumption
  <2>5. r \cup {i} \in Queue
    BY <1>1, <2>4 DEF Queue
  <2>6. (q \cup {i}) \ {First(s)} \in SUBSET (r \cup {i})
    OBVIOUS
  <2> QED BY <1>4, <2>5, <2>6, SmallerQueue
<1> QED BY <1>3, <1>4
-----------------------------------------------------------------------------
(* The type invariant. *)

LEMMA TypeInit == Init => TypeOK
PROOF
<1> SUFFICES ASSUME Init PROVE TypeOK
  OBVIOUS
<1>1. {} \in Queue
  BY FS_EmptySet, QueueAssumption DEF Queue
<1>2. [s \in Session |-> {}] \in [Session -> Queue]
  BY <1>1
<1>3. \A i \in Item : i \in Nat
  BY DEF Item
<1>4. <<>> \in Seq(Event)
  OBVIOUS
<1> QED
  BY <1>2, <1>3, <1>4, QueueAssumption DEF Init, TypeOK, Everywhere, IdleTick, TickState

\* A queue that loses items, and what the scheduler hears of it.
LEMMA TypeDrop ==
  ASSUME TypeOK, NEW q \in [Session -> SUBSET Item], \A s \in Session : q[s] \subseteq queue[s]
  PROVE  q \in [Session -> Queue]
PROOF
<1> SUFFICES ASSUME NEW s \in Session PROVE q[s] \in Queue
  OBVIOUS
<1> QED BY SmallerQueue DEF TypeOK

LEMMA TypePut ==
  ASSUME TypeOK, NEW s \in Session, made < MaxItems, Put(s, made + 1),
         UNCHANGED tasks \/ tasks' = tasks \cup {made + 1}
  PROVE  TypeOK'
PROOF
<1>1. made + 1 \in Item /\ made' \in 0..MaxItems
  <2>1. made \in 0..MaxItems /\ MaxItems \in Nat
    BY QueueAssumption DEF TypeOK
  <2>2. made' = made + 1
    BY DEF Put
  <2> QED BY <2>1, <2>2 DEF Item
<1>2. queue' \in [Session -> Queue]
  <2>1. ASSUME NEW x \in Session PROVE queue'[x] \in Queue
    <3>1. CASE x = s
      BY <1>1, <3>1, PutKeepsLimit DEF Put
    <3>2. CASE x # s
      <4>1. queue'[x] \subseteq queue[x]
        BY <3>2 DEF Put
      <4> QED BY <4>1, SmallerQueue DEF TypeOK
    <3> QED BY <3>1, <3>2
  <2> QED BY <2>1 DEF Put
<1>3. tasks' \in SUBSET Item
  BY <1>1 DEF TypeOK
<1>4. /\ timers' \in [Session -> BOOLEAN]
      /\ missed' \in [Session -> SUBSET {"hold", "edit", "sending"}]
      /\ torn' \in SUBSET Item
      /\ result' \in [Item -> {"none", "sent", "failed", "cancelled"}]
  <2>1. timers' \in [Session -> BOOLEAN]
    BY DEF Put, TypeOK
  <2>2. missed' \in [Session -> SUBSET {"hold", "edit", "sending"}]
    BY DEF Put, TypeOK
  <2>3. torn' \in SUBSET Item
    BY DEF Put, Tear, InFlight, TypeOK
  <2>4. result' \in [Item -> {"none", "sent", "failed", "cancelled"}]
    BY DEF Put, Report, TypeOK
  <2> QED BY <2>1, <2>2, <2>3, <2>4
<1>5. UNCHANGED <<rank, file, sending, backoff, aborted, held, ticks, openCode,
                  acts, lost, reruns, gaps, crashes, accepted, back>>
  BY DEF Put
<1> QED BY <1>1, <1>2, <1>3, <1>4, <1>5 DEF TypeOK, openCode

\* Requests keep the types.
LEMMA TypeGiveBack ==
  ASSUME TypeOK, NEW s \in Session, NEW gone \in SUBSET queue[s], GiveBack(s, gone),
         timers' \in [Session -> BOOLEAN], UNCHANGED missed
  PROVE  TypeOK'
PROOF
<1>1. queue' \in [Session -> SUBSET Item] /\ \A x \in Session : queue'[x] \subseteq queue[x]
  BY DEF GiveBack, Drop, TypeOK, Queue
<1>2. queue' \in [Session -> Queue]
  BY <1>1, TypeDrop
<1>3. back' \in SUBSET Item
  BY DEF GiveBack, TypeOK, Queue
<1>4. result' \in [Item -> {"none", "sent", "failed", "cancelled"}]
  BY DEF GiveBack, Drop, Report, TypeOK
<1>5. acts' \in Nat
  BY DEF GiveBack, Request, TypeOK
<1> QED BY <1>2, <1>3, <1>4, <1>5 DEF TypeOK, GiveBack, NoOtherBound, openCode

LEMMA TypeRequest ==
  ASSUME TypeOK, NEW s \in Session
  PROVE  \/ Enqueue(s) \/ EnqueueTask(s) \/ \E i \in Item : Remove(s, i)
         \/ TakeAll(s) \/ Clear(s) \/ Reorder(s)
         \/ Hold(s) \/ Release(s) \/ HoldExpires(s)
         => TypeOK'
PROOF
<1>1. CASE Enqueue(s) \/ EnqueueTask(s)
  <2>1. CASE Enqueue(s)
    <3>1. made < MaxItems /\ Put(s, made + 1) /\ UNCHANGED tasks
      BY <2>1 DEF Enqueue
    <3> QED BY <3>1, TypePut
  <2>2. CASE EnqueueTask(s)
    <3>1. made < MaxItems /\ Put(s, made + 1) /\ tasks' = tasks \cup {made + 1}
      BY <2>2 DEF EnqueueTask
    <3> QED BY <3>1, TypePut
  <2> QED BY <1>1, <2>1, <2>2
<1>2. ASSUME NEW i \in Item, Remove(s, i) PROVE TypeOK'
  <2>1. {i} \in SUBSET queue[s] /\ GiveBack(s, {i}) /\ UNCHANGED <<timers, missed>>
    BY <1>2 DEF Remove
  <2>2. timers' \in [Session -> BOOLEAN]
    BY <2>1 DEF TypeOK
  <2> QED BY <2>1, <2>2, TypeGiveBack
<1>3. CASE TakeAll(s)
  BY <1>3, TypeGiveBack DEF TakeAll, TypeOK
<1>4. CASE Clear(s)
  <2>1. timers' \in [Session -> BOOLEAN]
    BY <1>4 DEF Clear, Disarm, TypeOK
  <2> QED BY <1>4, <2>1, TypeGiveBack DEF Clear
<1>5. CASE Reorder(s)
  <2>1. rank' \in [Item -> Nat]
    BY <1>5 DEF Reorder, TypeOK, Queue
  <2>2. acts' \in Nat
    BY <1>5 DEF Reorder, Request, TypeOK
  <2> QED BY <1>5, <2>1, <2>2 DEF TypeOK, Reorder, NoOtherBound, memory, openCode, history
<1>7. CASE Hold(s)
  <2>1. timers' \in [Session -> BOOLEAN] /\ held' \in [Session -> BOOLEAN]
        /\ missed' \in [Session -> SUBSET {"hold", "edit", "sending"}] /\ acts' \in Nat
    BY <1>7 DEF Hold, Disarm, Misses, Request, TypeOK
  <2> QED BY <1>7, <2>1 DEF TypeOK, Hold, NoOtherBound, stored, openCode, history
<1>8. CASE Release(s)
  <2>1. timers' \in [Session -> BOOLEAN] /\ held' \in [Session -> BOOLEAN]
        /\ missed' \in [Session -> SUBSET {"hold", "edit", "sending"}]
    BY <1>8 DEF Release, Arm, TypeOK
  <2> QED BY <1>8, <2>1 DEF TypeOK, Release, stored, openCode, bounds, history
<1>9. CASE HoldExpires(s)
  <2>1. held' \in [Session -> BOOLEAN]
    BY <1>9 DEF HoldExpires, TypeOK
  <2> QED BY <1>9, <2>1 DEF TypeOK, HoldExpires, stored, openCode, bounds, history
<1> QED BY <1>1, <1>2, <1>3, <1>4, <1>5, <1>7, <1>8, <1>9

LEMMA TypeCancelTask ==
  ASSUME TypeOK, CancelTask
  PROVE  TypeOK'
PROOF
<1>1. queue' \in [Session -> SUBSET Item] /\ \A x \in Session : queue'[x] \subseteq queue[x]
  BY DEF CancelTask, TypeOK, Queue
<1>2. queue' \in [Session -> Queue]
  BY <1>1, TypeDrop
<1>3. back' \in SUBSET Item
  BY DEF CancelTask, TypeOK, Queue
<1>4. result' \in [Item -> {"none", "sent", "failed", "cancelled"}]
  BY DEF CancelTask, Report, TypeOK
<1>5. timers' \in [Session -> BOOLEAN]
      /\ missed' \in [Session -> SUBSET {"hold", "edit", "sending"}]
  BY DEF CancelTask, Arm, TypeOK
<1>6. acts' \in Nat
  BY DEF CancelTask, Request, TypeOK
<1> QED BY <1>2, <1>3, <1>4, <1>5, <1>6 DEF TypeOK, CancelTask, NoOtherBound, openCode

\* So does what is heard of OpenCode, and what passes in time.
LEMMA TypeHearing ==
  ASSUME TypeOK, NEW s \in Session
  PROVE  Hearing(s) \/ AbortWindowEnds(s) \/ BackoffEnds(s) => TypeOK'
PROOF
<1>0. Hear(s) => hub' \in [Session -> Seq(Event)]
  <2>1. SUFFICES ASSUME Hear(s) PROVE Tail(hub[s]) \in Seq(Event)
    BY DEF Hear, TypeOK
  <2> QED BY <2>1 DEF Hear, TypeOK
<1>1. CASE HearNothing(s)
  BY <1>0, <1>1 DEF HearNothing, HearKeeps, TypeOK, bounds
<1>2. CASE HearIdle(s)
  <2>1. timers' \in [Session -> BOOLEAN]
        /\ missed' \in [Session -> SUBSET {"hold", "edit", "sending"}]
    BY <1>2 DEF HearIdle, Arm, TypeOK
  <2> QED BY <1>0, <1>2, <2>1 DEF HearIdle, HearKeeps, TypeOK, bounds
<1>3. CASE HearBusy(s)
  <2>1. timers' \in [Session -> BOOLEAN]
    BY <1>3 DEF HearBusy, Disarm, TypeOK
  <2> QED BY <1>0, <1>3, <2>1 DEF HearBusy, HearKeeps, TypeOK, bounds
<1>4. CASE HearAborted(s)
  <2>1. aborted' \in [Session -> BOOLEAN]
    BY <1>4 DEF HearAborted, TypeOK
  <2> QED BY <1>0, <1>4, <2>1 DEF HearAborted, HearKeeps, TypeOK, bounds
<1>5. CASE HearDeleted(s)
  <2>1. queue' \in [Session -> SUBSET Item] /\ \A x \in Session : queue'[x] \subseteq queue[x]
    BY <1>5 DEF HearDeleted, Drop, TypeOK, Queue
  <2>2. queue' \in [Session -> Queue]
    BY <2>1, TypeDrop
  <2>3. result' \in [Item -> {"none", "sent", "failed", "cancelled"}] /\ torn' \in SUBSET Item
    BY <1>5 DEF HearDeleted, Drop, Report, Tear, InFlight, TypeOK, Queue
  <2>4. timers' \in [Session -> BOOLEAN] /\ backoff' \in [Session -> Item \cup {None}]
    BY <1>5 DEF HearDeleted, Disarm, TypeOK
  <2> QED BY <1>0, <1>5, <2>2, <2>3, <2>4 DEF HearDeleted, HearKeeps, TypeOK, bounds
<1>6. CASE AbortWindowEnds(s)
  <2>1. aborted' \in [Session -> BOOLEAN]
    BY <1>6 DEF AbortWindowEnds, TypeOK
  <2> QED BY <1>6, <2>1 DEF AbortWindowEnds, TypeOK, stored, openCode, bounds, history
<1>7. CASE BackoffEnds(s)
  <2>1. backoff' \in [Session -> Item \cup {None}]
    BY <1>7 DEF BackoffEnds, TypeOK
  <2> QED BY <1>7, <2>1 DEF BackoffEnds, TypeOK, stored, openCode, bounds, history
<1> QED BY <1>1, <1>2, <1>3, <1>4, <1>5, <1>6, <1>7 DEF Hearing

\* A tick of a session that is under way has an item.
TickAtWork(t) == ticks[t].session \in Session /\ ticks[t].item \in Item

\* So do the stretches of a tick.
LEMMA TypeTickStart ==
  ASSUME TypeOK, NEW s \in Session
  PROVE  TickStops(s) \/ (\E t \in Tick : TickStarts(t, s)) => TypeOK'
PROOF
<1>1. CASE TickStops(s)
  <2>1. timers' \in [Session -> BOOLEAN]
    BY <1>1 DEF TickStops, Disarm, TypeOK
  <2>2. \A why \in {"hold", "sending"} :
          Misses(s, why) => missed' \in [Session -> SUBSET {"hold", "edit", "sending"}]
    BY DEF Misses, TypeOK
  <2>3. missed' \in [Session -> SUBSET {"hold", "edit", "sending"}]
    <3>1. missed \in [Session -> SUBSET {"hold", "edit", "sending"}]
      BY DEF TypeOK
    <3> QED BY <1>1, <2>2, <3>1 DEF TickStops
  <2> QED BY <1>1, <2>1, <2>3 DEF TickStops, TypeOK, stored, openCode, bounds, history
<1>2. ASSUME NEW t \in Tick, TickStarts(t, s) PROVE TypeOK'
  <2>1. First(s) \in Item
    BY <1>2, FirstIsQueued DEF TickStarts, TypeOK, Queue
  <2>2. ticks' \in [Tick -> TickState]
    <3>1. [pc |-> "status", session |-> s, item |-> First(s)] \in TickState
      BY <2>1 DEF TickState
    <3> QED BY <1>2, <3>1 DEF TickStarts, TypeOK
  <2>3. timers' \in [Session -> BOOLEAN] /\ backoff' \in [Session -> Item \cup {None}]
    BY <1>2 DEF TickStarts, Disarm, TypeOK
  <2> QED BY <1>2, <2>2, <2>3 DEF TickStarts, TypeOK, stored, openCode, bounds, history
<1> QED BY <1>1, <1>2

LEMMA TypeTickParts ==
  ASSUME TypeOK, NEW t \in Tick
  PROVE  /\ Ends(t) => ticks' \in [Tick -> TickState]
         /\ \A pc \in {"validating", "subagents", "before", "sending", "answer"} :
              Goes(t, pc) => ticks' \in [Tick -> TickState]
         /\ Arm({ticks[t].session}) =>
              /\ timers' \in [Session -> BOOLEAN]
              /\ missed' \in [Session -> SUBSET {"hold", "edit", "sending"}]
         /\ Resolved(t) => sending' \in [Session -> Item \cup {None}]
         /\ \A i \in Item \cup {None} :
              SetBackoff(t, i) => backoff' \in [Session -> Item \cup {None}]
         /\ ticks[t].item \in Item \cup {None}
         /\ \A status \in {"sent", "failed"} :
              Drop(ticks[t].session, {ticks[t].item}, status) =>
                /\ queue' \in [Session -> Queue]
                /\ result' \in [Item -> {"none", "sent", "failed", "cancelled"}]
PROOF
<1>1. Ends(t) => ticks' \in [Tick -> TickState]
  <2>1. IdleTick \in TickState
    BY DEF IdleTick, TickState
  <2> QED BY <2>1 DEF Ends, TypeOK
<1>2. ASSUME NEW pc \in {"validating", "subagents", "before", "sending", "answer"}, Goes(t, pc)
      PROVE  ticks' \in [Tick -> TickState]
  <2>1. ticks[t] \in TickState
    BY DEF TypeOK
  <2>2. [ticks[t] EXCEPT !.pc = pc] \in TickState
    BY <2>1 DEF TickState
  <2>3. ticks' = [ticks EXCEPT ![t] = [ticks[t] EXCEPT !.pc = pc]]
    BY <1>2 DEF Goes
  <2> QED BY <2>2, <2>3 DEF TypeOK
<1>3. Arm({ticks[t].session}) =>
        /\ timers' \in [Session -> BOOLEAN]
        /\ missed' \in [Session -> SUBSET {"hold", "edit", "sending"}]
  BY DEF Arm, TypeOK
<1>4. Resolved(t) => sending' \in [Session -> Item \cup {None}]
  BY DEF Resolved, TypeOK
<1>5. ASSUME NEW i \in Item \cup {None}, SetBackoff(t, i)
      PROVE  backoff' \in [Session -> Item \cup {None}]
  BY <1>5 DEF SetBackoff, TypeOK
<1>6. ticks[t].item \in Item \cup {None}
  BY DEF TypeOK, TickState
<1>7. ASSUME NEW status \in {"sent", "failed"}, Drop(ticks[t].session, {ticks[t].item}, status)
      PROVE  /\ queue' \in [Session -> Queue]
             /\ result' \in [Item -> {"none", "sent", "failed", "cancelled"}]
  <2>1. queue' \in [Session -> SUBSET Item] /\ \A x \in Session : queue'[x] \subseteq queue[x]
    BY <1>7 DEF Drop, TypeOK, Queue
  <2>2. queue' \in [Session -> Queue]
    BY <2>1, TypeDrop
  <2>3. result' \in [Item -> {"none", "sent", "failed", "cancelled"}]
    BY <1>7 DEF Drop, Report, TypeOK
  <2> QED BY <2>2, <2>3
<1> QED BY <1>1, <1>2, <1>3, <1>4, <1>5, <1>6, <1>7

LEMMA TypeTick ==
  ASSUME TypeOK, NEW t \in Tick, Ticking(t)
  PROVE  TypeOK'
PROOF
<1> USE DEF Outside, Waits, openCode, bounds
<1>1. CASE Unknown(t)
  BY <1>1, TypeTickParts DEF Unknown, TypeOK
<1>2. CASE TargetKept(t)
  BY <1>2, TypeTickParts DEF TargetKept, TypeOK
<1>3. CASE TargetRefused(t)
  <2>1. torn' \in SUBSET Item
    BY <1>3, TypeTickParts DEF TargetRefused, Tear, InFlight, TypeOK, TickState
  <2> QED BY <1>3, <2>1, TypeTickParts DEF TargetRefused, TypeOK
<1>4. CASE SeesBusy(t)
  BY <1>4, TypeTickParts DEF SeesBusy, TypeOK
<1>5. CASE SeesIdle(t)
  BY <1>5, TypeTickParts DEF SeesIdle, TypeOK
<1>6. CASE SubagentsWork(t)
  BY <1>6, TypeTickParts DEF SubagentsWork, TypeOK
<1>7. CASE Overtaken(t)
  <2>1. missed' \in [Session -> SUBSET {"hold", "edit", "sending"}]
    BY <1>7 DEF Overtaken, Misses, TypeOK
  <2> QED BY <1>7, <2>1, TypeTickParts DEF Overtaken, TypeOK
<1>8. CASE HandOver(t)
  <2>1. sending' \in [Session -> Item \cup {None}]
    BY <1>8, TypeTickParts DEF HandOver, TypeOK
  <2>2. ticks' \in [Tick -> TickState]
    BY <1>8, TypeTickParts DEF HandOver
  <2> QED BY <1>8, <2>1, <2>2 DEF HandOver, TypeOK
<1>9. CASE Consents(t)
  BY <1>9, TypeTickParts DEF Consents, TypeOK
<1>10. CASE Refuses(t)
  <2>1. backoff' \in [Session -> Item \cup {None}]
    BY <1>10, TypeTickParts DEF Refuses
  <2> QED BY <1>10, <2>1, TypeTickParts DEF Refuses, TypeOK
<1>11. CASE SendFails(t)
  <2>1. backoff' \in [Session -> Item \cup {None}]
    BY <1>11, TypeTickParts DEF SendFails, Fails
  <2> QED BY <1>11, <2>1, TypeTickParts DEF SendFails, Fails, TypeOK
<1>12. CASE Accepts(t)
  <2>1. ticks[t].session \in Session \cup {None}
    BY DEF TypeOK, TickState
  <2>2. accepted' \in [Item -> Nat] /\ turn' \in [Session -> BOOLEAN]
    <3>1. accepted' = [accepted EXCEPT ![ticks[t].item] = accepted[ticks[t].item] + 1]
      BY <1>12 DEF Accepts
    <3>2. accepted \in [Item -> Nat]
      BY DEF TypeOK
    <3>3. accepted' \in [Item -> Nat]
      <4>1. CASE ticks[t].item \in Item
        <5>1. accepted[ticks[t].item] + 1 \in Nat
          BY <3>2, <4>1
        <5> QED BY <3>1, <3>2, <5>1
      <4>2. CASE ticks[t].item \notin Item
        BY <3>1, <3>2, <4>2
      <4> QED BY <4>1, <4>2
    <3>4. turn' \in [Session -> BOOLEAN]
      BY <1>12 DEF Accepts, TypeOK
    <3> QED BY <3>3, <3>4
  <2>3. hub' \in [Session -> Seq(Event)]
    <3>1. \A h \in Seq(Event) : Append(h, "busy") \in Seq(Event)
      BY DEF Event
    <3> QED BY <1>12, <3>1 DEF Accepts, TypeOK
  <2>4. ticks' \in [Tick -> TickState]
    BY <1>12, TypeTickParts DEF Accepts
  <2> QED BY <1>12, <2>2, <2>3, <2>4 DEF Accepts, TypeOK, stored
<1>13. CASE AnswerLost(t)
  <2>1. backoff' \in [Session -> Item \cup {None}]
    BY <1>13, TypeTickParts DEF AnswerLost, Fails
  <2>2. lost' \in Nat
    BY <1>13 DEF AnswerLost, TypeOK
  <2>3. /\ ticks' \in [Tick -> TickState] /\ sending' \in [Session -> Item \cup {None}]
        /\ timers' \in [Session -> BOOLEAN]
        /\ missed' \in [Session -> SUBSET {"hold", "edit", "sending"}]
    BY <1>13, TypeTickParts DEF AnswerLost, Fails
  <2> QED BY <1>13, <2>1, <2>2, <2>3 DEF AnswerLost, Fails, TypeOK
<1>14. CASE Sent(t)
  <2>1. backoff' \in [Session -> Item \cup {None}]
    BY <1>14, TypeTickParts DEF Sent
  <2> QED BY <1>14, <2>1, TypeTickParts DEF Sent, TypeOK
<1> QED BY <1>1, <1>2, <1>3, <1>4, <1>5, <1>6, <1>7, <1>8, <1>9, <1>10, <1>11, <1>12,
           <1>13, <1>14 DEF Ticking

\* And what OpenCode and people do, the file and the restarts.
LEMMA TypeWorld ==
  ASSUME TypeOK, NEW s \in Session
  PROVE  \/ TurnEnds(s) \/ SubagentReturns(s) \/ Prompt(s) \/ Abort(s) \/ Delete(s)
         => TypeOK'
PROOF
<1> USE DEF World
<1>0. \A h \in Seq(Event) :
        /\ Append(h, "busy") \in Seq(Event) /\ h \o <<"idle">> \in Seq(Event)
        /\ h \o <<"idle", "aborted">> \in Seq(Event) /\ h \o <<"deleted">> \in Seq(Event)
  BY DEF Event
<1>1. CASE TurnEnds(s)
  <2>1. hub' \in [Session -> Seq(Event)]
    BY <1>0, <1>1 DEF TurnEnds, Emits, TypeOK
  <2>2. turn' \in [Session -> BOOLEAN]
    BY <1>1 DEF TurnEnds, TypeOK
  <2>3. subagent' \in [Session -> BOOLEAN] /\ reruns' \in Nat
    <3>1. reruns \in Nat /\ subagent \in [Session -> BOOLEAN]
      BY DEF TypeOK
    <3>2. \/ UNCHANGED <<subagent, reruns>>
          \/ reruns' = reruns + 1 /\ subagent' = [subagent EXCEPT ![s] = TRUE]
      BY <1>1, Zenon DEF TurnEnds
    <3>3. CASE UNCHANGED <<subagent, reruns>>
      BY <3>1, <3>3
    <3>4. CASE reruns' = reruns + 1 /\ subagent' = [subagent EXCEPT ![s] = TRUE]
      <4>1. [subagent EXCEPT ![s] = TRUE] \in [Session -> BOOLEAN]
        BY <3>1
      <4>2. reruns + 1 \in Nat
        BY <3>1
      <4> QED BY <3>4, <4>1, <4>2, Zenon
    <3> QED BY <3>2, <3>3, <3>4
  <2> QED BY <1>1, <2>1, <2>2, <2>3 DEF TurnEnds, TypeOK, stored, memory, history
<1>2. Begins(s) => hub' \in [Session -> Seq(Event)] /\ turn' \in [Session -> BOOLEAN]
  BY <1>0 DEF Begins, TypeOK
<1>3. CASE SubagentReturns(s)
  <2>1. subagent' \in [Session -> BOOLEAN]
    BY <1>3 DEF SubagentReturns, TypeOK
  <2> QED BY <1>2, <1>3, <2>1 DEF SubagentReturns, TypeOK, stored, memory, history
<1>4. CASE Prompt(s)
  BY <1>2, <1>4 DEF Prompt, Request, TypeOK, stored, memory, history
<1>5. CASE Abort(s)
  <2>1. hub' \in [Session -> Seq(Event)]
    BY <1>0, <1>5 DEF Abort, Emits, TypeOK
  <2>2. turn' \in [Session -> BOOLEAN] /\ acts' \in Nat
    BY <1>5 DEF Abort, Request, TypeOK
  <2> QED BY <1>5, <2>1, <2>2 DEF Abort, TypeOK, stored, memory, history
<1>6. CASE Delete(s)
  <2>1. hub' \in [Session -> Seq(Event)]
    BY <1>0, <1>6 DEF Delete, Emits, TypeOK
  <2>2. alive' \in [Session -> BOOLEAN] /\ turn' \in [Session -> BOOLEAN]
        /\ subagent' \in [Session -> BOOLEAN] /\ acts' \in Nat
    BY <1>6 DEF Delete, Request, TypeOK
  <2> QED BY <1>6, <2>1, <2>2 DEF Delete, TypeOK, stored, memory, history
<1> QED BY <1>1, <1>3, <1>4, <1>5, <1>6

LEMMA TypeServer ==
  ASSUME TypeOK
  PROVE  Reconnect \/ Persist \/ Crash => TypeOK'
PROOF
<1>1. CASE Reconnect
  <2>1. hub' \in [Session -> Seq(Event)] /\ gaps' \in Nat
    BY <1>1 DEF Reconnect, Everywhere, TypeOK
  <2>2. timers' \in [Session -> BOOLEAN]
        /\ missed' \in [Session -> SUBSET {"hold", "edit", "sending"}]
    BY <1>1 DEF Reconnect, Arm, TypeOK
  <2> QED BY <1>1, <2>1, <2>2 DEF Reconnect, TypeOK, stored, history
<1>2. CASE Persist
  BY <1>2 DEF Persist, TypeOK, memory, openCode, bounds, history
<1>3. CASE Crash
  <2>1. queue' \in [Session -> Queue] /\ rank' \in [Item -> Nat]
    BY <1>3 DEF Crash, TypeOK
  <2>2. ticks' \in [Tick -> TickState]
    <3>1. IdleTick \in TickState
      BY DEF IdleTick, TickState
    <3> QED BY <1>3, <3>1 DEF Crash
  <2>3. /\ sending' \in [Session -> Item \cup {None}]
        /\ backoff' \in [Session -> Item \cup {None}]
        /\ aborted' \in [Session -> BOOLEAN] /\ held' \in [Session -> BOOLEAN]
        /\ timers' \in [Session -> BOOLEAN]
        /\ missed' \in [Session -> SUBSET {"hold", "edit", "sending"}]
        /\ hub' \in [Session -> Seq(Event)] /\ crashes' \in Nat
    BY <1>3 DEF Crash, Everywhere, TypeOK
  <2> QED BY <1>3, <2>1, <2>2, <2>3 DEF Crash, TypeOK, history
<1> QED BY <1>1, <1>2, <1>3

LEMMA TypeStep == TypeOK /\ [Next]_vars => TypeOK'
PROOF
<1> SUFFICES ASSUME TypeOK, [Next]_vars PROVE TypeOK'
  OBVIOUS
<1>1. CASE UNCHANGED vars
  BY <1>1 DEF TypeOK, vars, memory, stored, openCode, bounds, history
<1>2. CASE Next
  BY <1>2, TypeRequest, TypeCancelTask, TypeHearing, TypeTickStart, TypeTick, TypeWorld,
     TypeServer DEF Next
<1> QED BY <1>1, <1>2

\* The queues, the sends and the ticks stay well-formed, and no queue outgrows its
\* limit, whatever is requested, heard or lost (runtime.js: enqueue, tick).
THEOREM TypeSafe == Spec => []TypeOK
PROOF
<1> QED BY TypeInit, TypeStep, PTL DEF Spec

-----------------------------------------------------------------------------
(* One send at a time, and what follows of it.                             *)

LEMMA SafeInit == Init => Safe
PROOF
<1> SUFFICES ASSUME Init PROVE Safe
  OBVIOUS
<1>1. /\ \A s \in Session : queue[s] = {} /\ file.queue[s] = {}
      /\ \A t \in Tick : ticks[t].pc = "idle"
      /\ \A i \in Item : accepted[i] = 0
      /\ back = {} /\ lost = 0 /\ crashes = 0
  BY DEF Init, Everywhere, IdleTick
<1> QED BY <1>1 DEF Safe, Separate, OneSend, Sends, Counted, OutOfReach

\* What people take back or the scheduler cancels is not in flight.
LEMMA SafeShrink ==
  ASSUME TypeOK, Safe, TypeOK',
         \A s \in Session : queue'[s] \subseteq queue[s],
         UNCHANGED <<file, sending, ticks, made, lost, crashes, accepted>>,
         \A i \in back' \ back :
           /\ \E s \in Session : i \in queue[s] /\ sending[s] # i
           /\ \A s \in Session : i \notin queue'[s]
  PROVE  Safe'
PROOF
<1>1. Separate(queue)' /\ Separate(file.queue)'
  BY DEF Safe, Separate
<1>2. OneSend'
  BY DEF Safe, OneSend, Sends
<1>3. Counted'
  BY DEF Safe, Counted
<1>4. OutOfReach'
  <2> SUFFICES ASSUME lost = 0, crashes = 0, NEW i \in back'
               PROVE  /\ i <= made /\ accepted[i] = 0
                      /\ \A s \in Session : i \notin queue'[s]
                      /\ \A t \in Tick : Sends(t) => ticks[t].item # i
    BY DEF OutOfReach, Sends
  <2>1. CASE i \in back
    BY <2>1 DEF Safe, OutOfReach
  <2>2. CASE i \notin back
    <3>1. PICK s \in Session : i \in queue[s] /\ sending[s] # i
      BY <2>2
    <3>2. i \in 1..made /\ i \in Item /\ accepted[i] \in Nat
      BY <3>1 DEF Safe, Separate, TypeOK, Queue
    <3>3. ASSUME NEW t \in Tick, Sends(t) PROVE ticks[t].item # i
      BY <3>1, <3>3 DEF Safe, OneSend, Sends
    <3>4. accepted[i] = 0
      BY <3>1, <3>2, <3>3 DEF Safe, Counted, Sends
    <3> QED BY <2>2, <3>2, <3>3, <3>4
  <2> QED BY <2>1, <2>2
<1> QED BY <1>1, <1>2, <1>3, <1>4 DEF Safe

LEMMA SafePut ==
  ASSUME TypeOK, Safe, TypeOK', NEW s \in Session, made < MaxItems, Put(s, made + 1)
  PROVE  Safe'
PROOF
<1> DEFINE i == made + 1
<1>1. made \in Nat /\ made' = made + 1 /\ i \in Item
  BY QueueAssumption DEF TypeOK, Put, Item
<1>2. /\ queue'[s] \subseteq queue[s] \cup {i}
      /\ \A x \in Session : x # s => queue'[x] \subseteq queue[x]
  BY DEF Put
<1>3. UNCHANGED <<file, sending, ticks, lost, crashes, accepted, back>>
  BY DEF Put
<1>4. \A x \in Session : queue[x] \subseteq 1..made
  BY DEF Safe, Separate
<1> HIDE DEF i
<1>5. Separate(queue)'
  <2>1. \A x \in Session : queue'[x] \subseteq 1..made'
    <3>1. 1..made \subseteq 1..made' /\ i \in 1..made'
      BY <1>1 DEF i
    <3> QED BY <1>2, <1>4, <3>1
  <2>2. \A x, y \in Session : x # y => queue'[x] \cap queue'[y] = {}
    <3>1. \A x \in Session : i \notin queue[x]
      BY <1>1, <1>4 DEF i
    <3> QED BY <1>2, <3>1 DEF Safe, Separate
  <2> QED BY <2>1, <2>2 DEF Separate
<1>6. Separate(file.queue)'
  <2>1. 1..made \subseteq 1..made'
    BY <1>1
  <2> QED BY <1>3, <2>1 DEF Safe, Separate
<1>7. OneSend'
  <2>1. ASSUME NEW t \in Tick, ticks[t].pc # "idle"
        PROVE  /\ ticks[t].session \in Session /\ ticks[t].item \in 1..made'
               /\ \A x \in Session : ticks[t].item \in queue'[x] => x = ticks[t].session
    <3>1. ticks[t].session \in Session /\ ticks[t].item \in 1..made
      BY <2>1 DEF Safe, OneSend
    <3>2. ticks[t].item \in 1..made' /\ ticks[t].item # i
      BY <1>1, <3>1 DEF i
    <3>3. \A x \in Session : ticks[t].item \in queue[x] => x = ticks[t].session
      BY <2>1 DEF Safe, OneSend
    <3> QED BY <1>2, <3>1, <3>2, <3>3
  <2> QED BY <1>3, <2>1 DEF Safe, OneSend, Sends
<1>8. Counted'
  <2>1. accepted[i] = 0 /\ lost \in Nat /\ crashes \in Nat
    BY <1>1 DEF Safe, Counted, TypeOK, i
  <2>2. \A j \in Item : j > made' => accepted[j] = 0
    BY <1>1 DEF Safe, Counted, Item
  <2>3. ASSUME NEW x \in Session, NEW j \in queue'[x]
        PROVE  \/ accepted[j] <= lost + crashes
               \/ \E t \in Tick : ticks[t].pc = "answer" /\ ticks[t].item = j
    <3>1. CASE j = i
      BY <2>1, <3>1
    <3>2. CASE j # i
      BY <1>2, <3>2 DEF Safe, Counted
    <3> QED BY <3>1, <3>2
  <2> QED BY <1>3, <2>2, <2>3 DEF Safe, Counted
<1>9. OutOfReach'
  <2> SUFFICES ASSUME lost = 0, crashes = 0, NEW j \in back
               PROVE  /\ j <= made' /\ accepted[j] = 0
                      /\ \A x \in Session : j \notin queue'[x]
                      /\ \A t \in Tick : Sends(t) => ticks[t].item # j
    BY <1>3 DEF OutOfReach, Sends
  <2>1. /\ j <= made /\ accepted[j] = 0
        /\ \A x \in Session : j \notin queue[x]
        /\ \A t \in Tick : Sends(t) => ticks[t].item # j
    BY DEF Safe, OutOfReach
  <2>2. j \in Nat
    BY DEF TypeOK, Item
  <2>3. j # i /\ j <= made'
    BY <1>1, <2>1, <2>2 DEF i
  <2> QED BY <1>2, <2>1, <2>3
<1> QED BY <1>5, <1>6, <1>7, <1>8, <1>9 DEF Safe

\* A tick that is not sending moves on or ends; the queues may lose items.
LEMMA SafeWaiting ==
  ASSUME TypeOK, Safe, TypeOK', NEW t \in Tick, ~Sends(t), ticks[t].pc # "idle",
         \/ Ends(t)
         \/ \E pc \in {"validating", "subagents"} : Goes(t, pc),
         \A s \in Session : queue'[s] \subseteq queue[s],
         UNCHANGED <<file, sending, made, lost, crashes, accepted, back>>
  PROVE  Safe'
PROOF
<1>1. /\ \A u \in Tick : u # t => ticks'[u] = ticks[u]
      /\ ticks'[t].pc \in {"idle", "validating", "subagents"}
      /\ ticks'[t].pc # "idle" =>
           ticks'[t].session = ticks[t].session /\ ticks'[t].item = ticks[t].item
  <2>1. CASE Ends(t)
    BY <2>1 DEF Ends, IdleTick, TypeOK
  <2>2. ASSUME NEW pc \in {"validating", "subagents"}, Goes(t, pc)
        PROVE  /\ \A u \in Tick : u # t => ticks'[u] = ticks[u]
               /\ ticks'[t].pc = pc /\ ticks'[t].session = ticks[t].session
               /\ ticks'[t].item = ticks[t].item
    BY <2>2 DEF Goes, TypeOK, TickState
  <2> QED BY <2>1, <2>2
<1>2. Separate(queue)' /\ Separate(file.queue)'
  BY DEF Safe, Separate
<1>3. OneSend'
  BY <1>1 DEF Safe, OneSend, Sends
<1>4. \A u \in Tick :
        \/ ticks'[u].pc \in {"before", "sending", "answer"}
        \/ ticks[u].pc \in {"before", "sending", "answer"}
      => ticks'[u] = ticks[u]
  BY <1>1 DEF Sends
<1>5. Counted'
  BY <1>4 DEF Safe, Counted
<1>6. OutOfReach'
  BY <1>4 DEF Safe, OutOfReach, Sends
<1> QED BY <1>2, <1>3, <1>5, <1>6 DEF Safe

LEMMA SafeStart ==
  ASSUME TypeOK, Safe, TypeOK', NEW t \in Tick, NEW s \in Session, TickStarts(t, s)
  PROVE  Safe'
PROOF
<1>1. First(s) \in queue[s]
  BY FirstIsQueued DEF TickStarts
<1>2. /\ \A u \in Tick : u # t => ticks'[u] = ticks[u]
      /\ ticks'[t] = [pc |-> "status", session |-> s, item |-> First(s)]
      /\ ticks[t].pc = "idle"
  BY DEF TickStarts, TypeOK
<1>3. UNCHANGED <<queue, file, sending, made, lost, crashes, accepted, back>>
  BY DEF TickStarts, stored, bounds, history
<1>4. Separate(queue)' /\ Separate(file.queue)'
  BY <1>3 DEF Safe, Separate
<1>5. OneSend'
  <2>1. First(s) \in 1..made /\ \A x \in Session : First(s) \in queue[x] => x = s
    BY <1>1 DEF Safe, Separate
  <2>2. \A u \in Tick : u # t /\ ticks[u].pc # "idle" /\ ticks[u].item = First(s)
          => ticks[u].session = s
    BY <1>1 DEF Safe, OneSend
  <2>3. \A u, v \in Tick :
          /\ ticks'[u].pc # "idle" /\ ticks'[v].pc # "idle"
          /\ ticks'[u].item = ticks'[v].item
          => ticks'[u].session = ticks'[v].session
    BY <1>2, <2>2 DEF Safe, OneSend
  <2> QED BY <1>2, <1>3, <2>1, <2>3 DEF Safe, OneSend, Sends
<1>6. \A u \in Tick :
        \/ ticks'[u].pc \in {"before", "sending", "answer"}
        \/ ticks[u].pc \in {"before", "sending", "answer"}
      => ticks'[u] = ticks[u]
  BY <1>2
<1>7. Counted'
  BY <1>3, <1>6 DEF Safe, Counted
<1>8. OutOfReach'
  BY <1>3, <1>6 DEF Safe, OutOfReach, Sends
<1> QED BY <1>4, <1>5, <1>7, <1>8 DEF Safe

\* A tick begins its send: no other sends for the session.
LEMMA SafeHandOver ==
  ASSUME TypeOK, Safe, TypeOK', NEW t \in Tick, HandOver(t)
  PROVE  Safe'
PROOF
<1> DEFINE s == ticks[t].session
           i == ticks[t].item
<1>1. s \in Session /\ i \in 1..made /\ i \in Item /\ i # None
  <2>1. s \in Session /\ i \in 1..made
    BY DEF HandOver, Safe, OneSend
  <2> QED BY <2>1, MadeAreItems
<1>2. i \in queue[s] /\ sending[s] = None
  BY <1>1, FirstIsQueued DEF HandOver, StillFirst
<1>3. /\ \A u \in Tick : u # t => ticks'[u] = ticks[u]
      /\ ticks'[t].pc \in {"before", "sending"}
      /\ ticks'[t].session = s /\ ticks'[t].item = i
  BY DEF HandOver, Goes, TypeOK, TickState
<1>4. UNCHANGED <<queue, file, made, lost, crashes, accepted, back>>
  BY DEF HandOver, Outside, bounds
<1>5. sending' = [sending EXCEPT ![s] = i]
  BY DEF HandOver
<1>6. \A u \in Tick : Sends(u) => ticks[u].session # s
  <2> SUFFICES ASSUME NEW u \in Tick, Sends(u), ticks[u].session = s PROVE FALSE
    OBVIOUS
  <2>1. sending[s] = ticks[u].item
    BY DEF Safe, OneSend
  <2>2. ticks[u].item \in 1..made
    BY DEF Safe, OneSend, Sends
  <2> QED BY <1>2, <2>1, <2>2, QueueAssumption DEF TypeOK
<1>7. \A u \in Tick : Sends(u) => ticks[u].item # i
  <2> SUFFICES ASSUME NEW u \in Tick, Sends(u), ticks[u].item = i PROVE FALSE
    OBVIOUS
  <2>1. ticks[u].session = s
    BY <1>1, <1>2 DEF Safe, OneSend, Sends
  <2> QED BY <1>6, <2>1
<1>8. accepted[i] <= lost + crashes
  BY <1>1, <1>2, <1>7 DEF Safe, Counted, Sends
<1> HIDE DEF s, i
<1>9. Separate(queue)' /\ Separate(file.queue)'
  BY <1>4 DEF Safe, Separate
<1>10. OneSend'
  <2>1. ASSUME NEW u \in Tick, ticks'[u].pc # "idle"
        PROVE  /\ ticks'[u].session \in Session /\ ticks'[u].item \in 1..made
               /\ \A x \in Session : ticks'[u].item \in queue[x] => x = ticks'[u].session
    <3>1. CASE u = t
      BY <1>1, <1>2, <1>3, <3>1 DEF Safe, Separate
    <3>2. CASE u # t
      BY <1>3, <2>1, <3>2 DEF Safe, OneSend
    <3> QED BY <3>1, <3>2
  <2>2. ASSUME NEW u \in Tick, ticks'[u].pc \in {"before", "sending", "answer"}
        PROVE  sending'[ticks'[u].session] = ticks'[u].item
    <3>1. CASE u = t
      BY <1>1, <1>3, <1>5, <3>1 DEF TypeOK
    <3>2. CASE u # t
      <4>1. Sends(u) /\ ticks'[u] = ticks[u]
        BY <1>3, <2>2, <3>2 DEF Sends
      <4>2. ticks[u].session \in Session /\ ticks[u].session # s
        BY <1>6, <4>1 DEF Safe, OneSend, Sends
      <4>3. sending[ticks[u].session] = ticks[u].item
        BY <4>1 DEF Safe, OneSend
      <4> QED BY <1>5, <4>1, <4>2, <4>3 DEF TypeOK
    <3> QED BY <3>1, <3>2
  <2>3. ASSUME NEW u \in Tick, NEW v \in Tick, ticks'[u].session = ticks'[v].session,
               ticks'[u].pc \in {"before", "sending", "answer"},
               ticks'[v].pc \in {"before", "sending", "answer"}
        PROVE  u = v
    BY <1>3, <1>6, <2>3 DEF Safe, OneSend, Sends
  <2>4. \A u, v \in Tick :
          /\ ticks'[u].pc # "idle" /\ ticks'[v].pc # "idle"
          /\ ticks'[u].item = ticks'[v].item
          => ticks'[u].session = ticks'[v].session
    <3>1. \A u \in Tick : /\ ticks'[u].pc # "idle" => ticks[u].pc # "idle"
                          /\ ticks'[u].item = ticks[u].item
                          /\ ticks'[u].session = ticks[u].session
      BY <1>3 DEF HandOver, s, i
    <3> QED BY <3>1 DEF Safe, OneSend
  <2> QED BY <1>4, <2>1, <2>2, <2>3, <2>4 DEF OneSend, Sends
<1>11. Counted'
  <2>1. \A u \in Tick : ticks[u].pc = "answer" => ticks'[u] = ticks[u]
    BY <1>3 DEF HandOver
  <2>2. \A u \in Tick : ticks'[u].pc \in {"before", "sending"} =>
          accepted[ticks'[u].item] <= lost + crashes
    BY <1>3, <1>8 DEF Safe, Counted
  <2> QED BY <1>4, <2>1, <2>2 DEF Safe, Counted
<1>12. OutOfReach'
  BY <1>1, <1>2, <1>3, <1>4 DEF Safe, OutOfReach, Sends
<1> QED BY <1>9, <1>10, <1>11, <1>12 DEF Safe

\* The scheduler consents, or OpenCode accepts the message.
LEMMA SafeAdvance ==
  ASSUME TypeOK, Safe, TypeOK', NEW t \in Tick, Consents(t) \/ Accepts(t)
  PROVE  Safe'
PROOF
<1> DEFINE s == ticks[t].session
           i == ticks[t].item
<1>1. Sends(t) /\ ticks[t].pc \in {"before", "sending"}
  BY DEF Consents, Accepts, Sends
<1>2. s \in Session /\ i \in 1..made /\ i \in Item
  <2>1. s \in Session /\ i \in 1..made
    BY <1>1 DEF Safe, OneSend, Sends
  <2> QED BY <2>1, MadeAreItems
<1>3. /\ \A u \in Tick : u # t => ticks'[u] = ticks[u]
      /\ ticks'[t].pc \in {"sending", "answer"}
      /\ ticks'[t].session = s /\ ticks'[t].item = i
      /\ ticks'[t].pc = "sending" => Consents(t)
  <2>1. ASSUME NEW pc, Goes(t, pc)
        PROVE  /\ \A u \in Tick : u # t => ticks'[u] = ticks[u]
               /\ ticks'[t].pc = pc /\ ticks'[t].session = s /\ ticks'[t].item = i
    BY <2>1 DEF Goes, TypeOK, TickState
  <2>2. CASE Consents(t)
    <3>1. Goes(t, "sending")
      BY <2>2 DEF Consents
    <3> QED BY <2>1, <2>2, <3>1
  <2>3. CASE Accepts(t)
    <3>1. Goes(t, "answer")
      BY <2>3 DEF Accepts
    <3> QED BY <2>1, <2>3, <3>1
  <2> QED BY <2>2, <2>3
<1>4. UNCHANGED <<queue, file, sending, made, lost, crashes, back>>
  BY DEF Consents, Accepts, Waits, Outside, bounds, stored
<1>5. /\ \A j \in Item : j # i => accepted'[j] = accepted[j]
      /\ accepted'[i] \in {accepted[i], accepted[i] + 1}
      /\ Consents(t) => accepted' = accepted
  <2>1. CASE Consents(t)
    BY <2>1 DEF Consents, Waits
  <2>2. CASE Accepts(t)
    <3>1. accepted' = [accepted EXCEPT ![i] = accepted[i] + 1] /\ accepted \in [Item -> Nat]
      BY <2>2 DEF Accepts, TypeOK
    <3>2. ~Consents(t)
      BY <2>2 DEF Accepts, Consents
    <3> QED BY <1>2, <3>1, <3>2
  <2> QED BY <2>1, <2>2
<1>6. accepted[i] <= lost + crashes /\ accepted[i] \in Nat /\ lost \in Nat /\ crashes \in Nat
  BY <1>1, <1>2 DEF Safe, Counted, TypeOK
<1>7. \A u \in Tick : u # t /\ Sends(u) => ticks[u].item # i
  <2> SUFFICES ASSUME NEW u \in Tick, u # t, Sends(u), ticks[u].item = i PROVE FALSE
    OBVIOUS
  <2>1. ticks[u].session # s
    BY <1>1 DEF Safe, OneSend
  <2> QED BY <1>1, <2>1 DEF Safe, OneSend, Sends
<1> HIDE DEF s, i
<1>8. Separate(queue)' /\ Separate(file.queue)'
  BY <1>4 DEF Safe, Separate
<1>9. OneSend'
  BY <1>1, <1>3, <1>4 DEF Safe, OneSend, Sends, s, i
<1>10. Counted'
  <2>1. \A j \in Item : accepted'[j] <= 1 + lost + crashes
    BY <1>2, <1>5, <1>6 DEF Safe, Counted
  <2>2. \A j \in Item : j > made => accepted'[j] = 0
    <3>1. ~(i > made)
      BY <1>2 DEF TypeOK
    <3> QED BY <1>5, <3>1 DEF Safe, Counted
  <2>3. ASSUME NEW x \in Session, NEW j \in queue[x]
        PROVE  \/ accepted'[j] <= lost + crashes
               \/ \E u \in Tick : ticks'[u].pc = "answer" /\ ticks'[u].item = j
    <3>1. j \in Item
      BY DEF TypeOK, Queue
    <3>2. CASE j = i
      BY <1>3, <1>5, <1>6, <3>2
    <3>3. CASE j # i
      <4>1. accepted'[j] = accepted[j]
        BY <1>5, <3>1, <3>3
      <4>2. CASE accepted[j] <= lost + crashes
        BY <4>1, <4>2
      <4>3. CASE \E u \in Tick : ticks[u].pc = "answer" /\ ticks[u].item = j
        <5>1. PICK u \in Tick : ticks[u].pc = "answer" /\ ticks[u].item = j
          BY <4>3
        <5>2. u # t
          BY <1>1, <5>1
        <5> QED BY <1>3, <5>1, <5>2
      <4> QED BY <4>2, <4>3 DEF Safe, Counted
    <3> QED BY <3>2, <3>3
  <2>4. ASSUME NEW u \in Tick, ticks'[u].pc \in {"before", "sending"}
        PROVE  accepted'[ticks'[u].item] <= lost + crashes
    <3>1. CASE u = t
      BY <1>3, <1>5, <1>6, <2>4, <3>1
    <3>2. CASE u # t
      <4>1. ticks'[u] = ticks[u] /\ Sends(u)
        BY <1>3, <2>4, <3>2 DEF Sends
      <4>2. ticks[u].item # i /\ ticks[u].item \in 1..made
        BY <1>7, <3>2, <4>1 DEF Safe, OneSend, Sends
      <4>3. accepted'[ticks[u].item] = accepted[ticks[u].item]
        BY <1>5, <4>2, MadeAreItems
      <4> QED BY <2>4, <4>1, <4>3 DEF Safe, Counted
    <3> QED BY <3>1, <3>2
  <2> QED BY <1>4, <2>1, <2>2, <2>3, <2>4 DEF Counted
<1>11. OutOfReach'
  <2> SUFFICES ASSUME lost = 0, crashes = 0, NEW j \in back
               PROVE  /\ j <= made /\ accepted'[j] = 0
                      /\ \A x \in Session : j \notin queue[x]
                      /\ \A u \in Tick : ticks'[u].pc \in {"before", "sending", "answer"}
                                           => ticks'[u].item # j
    BY <1>4 DEF OutOfReach, Sends
  <2>1. j # i /\ j \in Item
    BY <1>1 DEF Safe, OutOfReach, TypeOK, i
  <2> QED BY <1>1, <1>3, <1>5, <2>1 DEF Safe, OutOfReach, Sends
<1> QED BY <1>8, <1>9, <1>10, <1>11 DEF Safe

\* A send ends: its item has gone, or was accepted by sends without an answer only.
LEMMA SafeResolved ==
  ASSUME TypeOK, Safe, TypeOK', NEW t \in Tick, Sends(t), Ends(t), Resolved(t),
         \A s \in Session : queue'[s] \subseteq queue[s],
         UNCHANGED <<file, made, crashes, accepted, back>>,
         lost' \in {lost, lost + 1},
         \/ ticks[t].item \notin queue'[ticks[t].session]
         \/ accepted[ticks[t].item] <= lost' + crashes
  PROVE  Safe'
PROOF
<1> DEFINE s == ticks[t].session
           i == ticks[t].item
<1>1. s \in Session /\ i \in 1..made
  BY DEF Safe, OneSend, Sends
<1>2. ticks'[t].pc = "idle" /\ \A u \in Tick : u # t => ticks'[u] = ticks[u]
  BY DEF Ends, IdleTick, TypeOK
<1>3. sending' = [sending EXCEPT ![s] = None]
  BY DEF Resolved
<1>4. lost \in Nat /\ crashes \in Nat /\ lost <= lost'
  BY DEF TypeOK
<1>5. Separate(queue)' /\ Separate(file.queue)'
  BY DEF Safe, Separate
<1>6. OneSend'
  <2>1. ASSUME NEW u \in Tick, ticks'[u].pc \in {"before", "sending", "answer"}
        PROVE  sending'[ticks'[u].session] = ticks'[u].item
    <3>1. u # t /\ ticks'[u] = ticks[u] /\ Sends(u)
      BY <1>2, <2>1 DEF Sends
    <3>2. ticks[u].session # s
      BY <3>1 DEF Safe, OneSend
    <3>3. ticks[u].session \in Session /\ sending[ticks[u].session] = ticks[u].item
      BY <3>1 DEF Safe, OneSend, Sends
    <3> QED BY <1>3, <3>1, <3>2, <3>3 DEF TypeOK
  <2>2. \A u \in Tick : ticks'[u].pc # "idle" => ticks'[u] = ticks[u]
    BY <1>2
  <2> QED BY <2>1, <2>2 DEF Safe, OneSend, Sends
<1>7. Counted'
  <2>1. \A j \in Item : accepted[j] \in Nat
    BY DEF TypeOK
  <2>2. \A j \in Item : accepted[j] <= 1 + lost' + crashes
    <3> SUFFICES ASSUME NEW j \in Item PROVE accepted[j] <= 1 + lost' + crashes
      OBVIOUS
    <3>1. accepted[j] <= 1 + lost + crashes
      BY DEF Safe, Counted
    <3> QED BY <1>4, <2>1, <3>1
  <2>3. ASSUME NEW x \in Session, NEW j \in queue'[x]
        PROVE  \/ accepted[j] <= lost' + crashes
               \/ \E u \in Tick : ticks'[u].pc = "answer" /\ ticks'[u].item = j
    <3>1. j \in queue[x] /\ j \in Item
      <4>1. queue[x] \in SUBSET Item
        BY DEF TypeOK, Queue
      <4> QED BY <4>1
    <3>2. CASE accepted[j] <= lost + crashes
      <4>1. accepted[j] \in Nat /\ lost \in Nat /\ crashes \in Nat
        BY <2>1, <3>1 DEF TypeOK
      <4> QED BY <1>4, <3>2, <4>1
    <3>3. CASE \E u \in Tick : ticks[u].pc = "answer" /\ ticks[u].item = j
      <4>1. PICK u \in Tick : ticks[u].pc = "answer" /\ ticks[u].item = j
        BY <3>3
      <4>2. CASE u = t
        <5>1. x = s
          BY <3>1, <4>1, <4>2 DEF Safe, OneSend
        <5> QED BY <4>1, <4>2, <5>1
      <4>3. CASE u # t
        BY <1>2, <4>1, <4>3
      <4> QED BY <4>2, <4>3
    <3> QED BY <3>1, <3>2, <3>3 DEF Safe, Counted
  <2>4. ASSUME NEW u \in Tick, ticks'[u].pc \in {"before", "sending"}
        PROVE  accepted[ticks'[u].item] <= lost' + crashes
    <3>1. ticks'[u] = ticks[u] /\ ticks[u].pc # "idle"
      BY <1>2, <2>4
    <3>2. accepted[ticks[u].item] <= lost + crashes /\ ticks[u].item \in 1..made
      BY <2>4, <3>1 DEF Safe, Counted, OneSend
    <3>3. accepted[ticks[u].item] \in Nat
      BY <2>1, <3>2, MadeAreItems
    <3>4. lost \in Nat /\ crashes \in Nat
      BY DEF TypeOK
    <3>5. lost' \in {lost, lost + 1}
      BY <1>4
    <3>6. accepted[ticks[u].item] <= lost' + crashes
      BY <3>2, <3>3, <3>4, <3>5
    <3> QED BY <3>1, <3>6
  <2> QED BY <2>2, <2>3, <2>4 DEF Safe, Counted
<1>8. OutOfReach'
  <2>1. \A u \in Tick : ticks'[u].pc # "idle" => ticks'[u] = ticks[u]
    BY <1>2
  <2>2. lost' = 0 => lost = 0
    BY <1>4 DEF TypeOK
  <2> QED BY <2>1, <2>2 DEF Safe, OutOfReach, Sends
<1> QED BY <1>5, <1>6, <1>7, <1>8 DEF Safe

LEMMA SafeTick ==
  ASSUME TypeOK, Safe, TypeOK', NEW t \in Tick, Ticking(t)
  PROVE  Safe'
PROOF
<1>1. \A status : Drop(ticks[t].session, {ticks[t].item}, status) =>
        /\ \A s \in Session : queue'[s] \subseteq queue[s]
        /\ ticks[t].session \in Session => ticks[t].item \notin queue'[ticks[t].session]
  BY DEF Drop, TypeOK
<1>2. CASE \/ Unknown(t) \/ TargetKept(t) \/ SeesBusy(t) \/ SeesIdle(t)
           \/ SubagentsWork(t) \/ Overtaken(t)
  <2>1. ~Sends(t) /\ ticks[t].pc # "idle"
    BY <1>2 DEF Unknown, TargetKept, SeesBusy, SeesIdle, SubagentsWork, Overtaken, Sends
  <2>2. Ends(t) \/ \E pc \in {"validating", "subagents"} : Goes(t, pc)
    BY <1>2 DEF Unknown, TargetKept, SeesBusy, SeesIdle, SubagentsWork, Overtaken
  <2>3. UNCHANGED <<queue, file, sending, made, lost, crashes, accepted, back>>
    BY <1>2 DEF Unknown, TargetKept, SeesBusy, SeesIdle, SubagentsWork, Overtaken, Waits,
                Outside, bounds
  <2> QED BY <2>1, <2>2, <2>3, SafeWaiting
<1>3. CASE TargetRefused(t)
  <2>1. ~Sends(t) /\ ticks[t].pc # "idle"
    BY <1>3 DEF TargetRefused, Sends
  <2> QED BY <1>1, <1>3, <2>1, SafeWaiting DEF TargetRefused, Outside, bounds
<1>4. CASE HandOver(t)
  BY <1>4, SafeHandOver
<1>5. CASE Consents(t) \/ Accepts(t)
  BY <1>5, SafeAdvance
<1>6. CASE Refuses(t) \/ Sent(t)
  <2>1. Sends(t)
    BY <1>6 DEF Refuses, Sent, Sends
  <2>2. ticks[t].session \in Session
    BY <2>1 DEF Safe, OneSend, Sends
  <2>3. Ends(t) /\ Resolved(t)
        /\ UNCHANGED <<file, made, lost, crashes, accepted, back>>
    BY <1>6 DEF Refuses, Sent, Outside, bounds
  <2>4. \E status : Drop(ticks[t].session, {ticks[t].item}, status)
    BY <1>6 DEF Refuses, Sent
  <2> QED BY <1>1, <2>1, <2>2, <2>3, <2>4, SafeResolved
<1>7. CASE SendFails(t)
  <2>1. Sends(t) /\ accepted[ticks[t].item] <= lost + crashes
    BY <1>7 DEF SendFails, Sends, Safe, Counted
  <2> QED BY <1>7, <2>1, SafeResolved DEF SendFails, Fails, Outside, bounds
<1>8. CASE AnswerLost(t)
  <2>1. Sends(t)
    BY <1>8 DEF AnswerLost, Sends
  <2>2. ticks[t].item \in Item
    BY <2>1, MadeAreItems DEF Safe, OneSend, Sends
  <2>3. accepted[ticks[t].item] <= lost' + crashes
    <3>1. accepted[ticks[t].item] <= 1 + lost + crashes /\ lost' = lost + 1
      BY <1>8, <2>2 DEF Safe, Counted, AnswerLost
    <3>2. lost \in Nat /\ crashes \in Nat /\ accepted[ticks[t].item] \in Nat
      BY <2>2 DEF TypeOK
    <3> QED BY <3>1, <3>2
  <2> QED BY <1>8, <2>1, <2>3, SafeResolved DEF AnswerLost, Fails, Outside
<1> QED BY <1>2, <1>3, <1>4, <1>5, <1>6, <1>7, <1>8 DEF Ticking

LEMMA SafeCrash ==
  ASSUME TypeOK, Safe, TypeOK', Crash
  PROVE  Safe'
PROOF
<1>1. queue' = file.queue /\ UNCHANGED <<file, made, lost, accepted, back>>
  BY DEF Crash, history
<1>2. crashes' = crashes + 1 /\ crashes \in Nat /\ lost \in Nat
  BY DEF Crash, TypeOK
<1>3. \A t \in Tick : ticks'[t].pc = "idle"
  BY DEF Crash, IdleTick
<1>4. \A i \in Item : accepted[i] \in Nat /\ accepted[i] <= 1 + lost + crashes
  BY DEF Safe, Counted, TypeOK
<1>5. Separate(queue)' /\ Separate(file.queue)'
  BY <1>1 DEF Safe, Separate
<1>6. OneSend'
  BY <1>3 DEF OneSend, Sends
<1>7. Counted'
  <2>1. \A i \in Item : accepted[i] <= lost + crashes' /\ accepted[i] <= 1 + lost + crashes'
    BY <1>2, <1>4
  <2>2. \A s \in Session : \A i \in queue'[s] : i \in Item
    BY DEF TypeOK, Queue
  <2> QED BY <1>1, <1>3, <2>1, <2>2 DEF Safe, Counted
<1>8. OutOfReach'
  BY <1>2 DEF OutOfReach
<1> QED BY <1>5, <1>6, <1>7, <1>8 DEF Safe

LEMMA SafePersist ==
  ASSUME TypeOK, Safe, TypeOK', Persist
  PROVE  Safe'
PROOF
<1>1. file'.queue = queue
      /\ UNCHANGED <<queue, sending, ticks, made, lost, crashes, accepted, back>>
  BY DEF Persist, memory, bounds, history
<1> QED BY <1>1 DEF Safe, Separate, OneSend, Sends, Counted, OutOfReach

LEMMA SafeStep == TypeOK /\ Safe /\ [Next]_vars => Safe'
PROOF
<1> SUFFICES ASSUME TypeOK, Safe, [Next]_vars PROVE Safe'
  OBVIOUS
<1>0. TypeOK'
  BY TypeStep
<1>1. CASE UNCHANGED <<queue, file, sending, ticks, made, lost, crashes, accepted, back>>
  BY <1>0, <1>1, SafeShrink
<1>2. ASSUME NEW s \in Session, Enqueue(s) \/ EnqueueTask(s) PROVE Safe'
  BY <1>0, <1>2, SafePut DEF Enqueue, EnqueueTask
<1>3. ASSUME NEW s \in Session, NEW gone, gone \subseteq queue[s] \ {sending[s]},
             GiveBack(s, gone)
      PROVE  Safe'
  <2>1. /\ \A x \in Session : queue'[x] \subseteq queue[x]
        /\ back' \ back \subseteq gone /\ queue'[s] = queue[s] \ gone
        /\ \A x \in Session : x # s => queue'[x] = queue[x]
    BY <1>3 DEF GiveBack, Drop, TypeOK
  <2>2. \A i \in back' \ back : i \in queue[s] /\ sending[s] # i
    BY <1>3, <2>1
  <2>3. \A i \in back' \ back : \A x \in Session : i \notin queue'[x]
    BY <1>3, <2>1 DEF Safe, Separate
  <2>4. UNCHANGED <<file, sending, ticks, made, lost, crashes, accepted>>
    BY <1>3 DEF GiveBack, NoOtherBound
  <2> QED BY <1>0, <2>1, <2>2, <2>3, <2>4, SafeShrink
<1>4. CASE CancelTask
  <2> DEFINE gone == tasks \ InFlight
  <2>1. /\ \A x \in Session : queue'[x] = queue[x] \ gone
        /\ \A i \in back' \ back : i \in gone /\ \E x \in Session : i \in queue[x]
    BY <1>4 DEF CancelTask
  <2>2. ASSUME NEW i \in gone, NEW x \in Session, i \in queue[x] PROVE sending[x] # i
    <3>1. i # None
      BY <2>2, QueueAssumption DEF TypeOK, Queue, Item
    <3> QED BY <2>2, <3>1 DEF InFlight
  <2>3. UNCHANGED <<file, sending, ticks, made, lost, crashes, accepted>>
    BY <1>4 DEF CancelTask, NoOtherBound
  <2> QED BY <1>0, <2>1, <2>2, <2>3, SafeShrink
<1>5. ASSUME NEW s \in Session, HearDeleted(s) PROVE Safe'
  <2>1. \A x \in Session : queue'[x] \subseteq queue[x]
    BY <1>5 DEF HearDeleted, Drop, TypeOK
  <2> QED BY <1>0, <1>5, <2>1, SafeShrink DEF HearDeleted, HearKeeps, bounds
<1>6. ASSUME NEW t \in Tick, NEW s \in Session, TickStarts(t, s) PROVE Safe'
  BY <1>0, <1>6, SafeStart
<1>7. ASSUME NEW t \in Tick, Ticking(t) PROVE Safe'
  BY <1>0, <1>7, SafeTick
<1>8. CASE Crash \/ Persist
  BY <1>0, <1>8, SafeCrash, SafePersist
<1>9. CASE UNCHANGED vars
  BY <1>1, <1>9 DEF vars, memory, stored, bounds, history
<1>10. CASE Next
  <2>1. ASSUME NEW s \in Session,
               \/ \E i \in Item : Remove(s, i)
               \/ TakeAll(s) \/ Clear(s)
        PROVE  Safe'
    <3>1. ASSUME NEW i \in Item, Remove(s, i) PROVE Safe'
      BY <1>3, <3>1 DEF Remove
    <3>2. CASE TakeAll(s)
      BY <1>3, <3>2 DEF TakeAll
    <3>3. CASE Clear(s)
      BY <1>3, <3>3 DEF Clear
    <3> QED BY <2>1, <3>1, <3>2, <3>3
  <2>2. ASSUME NEW s \in Session,
               \/ Reorder(s) \/ Hold(s) \/ Release(s) \/ HoldExpires(s)
        PROVE  Safe'
    BY <1>1, <2>2 DEF Reorder, Hold, Release, HoldExpires, NoOtherBound, memory, stored,
                      bounds, history
  <2>3. ASSUME NEW s \in Session,
               \/ HearNothing(s) \/ HearIdle(s) \/ HearBusy(s) \/ HearAborted(s)
        PROVE  Safe'
    BY <1>1, <2>3 DEF HearNothing, HearIdle, HearBusy, HearAborted, HearKeeps, bounds
  <2>4. ASSUME NEW s \in Session,
               AbortWindowEnds(s) \/ BackoffEnds(s) \/ TickStops(s)
        PROVE  Safe'
    BY <1>1, <2>4 DEF AbortWindowEnds, BackoffEnds, TickStops, stored, bounds, history
  <2>5. ASSUME NEW s \in Session,
               \/ TurnEnds(s) \/ SubagentReturns(s) \/ Prompt(s) \/ Abort(s) \/ Delete(s)
        PROVE  Safe'
    BY <1>1, <2>5 DEF TurnEnds, SubagentReturns, Prompt, Abort, Delete, World, memory,
                      stored, history
  <2>6. CASE Reconnect
    BY <1>1, <2>6 DEF Reconnect, stored, history
  <2> QED BY <1>2, <1>4, <1>5, <1>6, <1>7, <1>8, <1>10, <2>1, <2>2, <2>3, <2>4, <2>5, <2>6
          DEF Next, Hearing
<1> QED BY <1>9, <1>10

-----------------------------------------------------------------------------
\* A message goes out once: only an answer that was lost or a restart makes the
\* queue send it again, however ticks, edits and retries interleave (runtime.js:
\* tick and its re-read after the awaits).
THEOREM SentOnceSafe == Spec => []SentOnce
PROOF
<1>1. Safe => SentOnce
  BY DEF Safe, Counted, SentOnce
<1> QED BY <1>1, TypeInit, TypeStep, SafeInit, SafeStep, PTL DEF Spec

\* A message taken back, removed or cancelled is not sent (runtime.js: remove, take,
\* takeAll, clear and cancelScheduledTask, which spare the message in flight).
THEOREM TakenBackSafe == Spec => []TakenBackStaysBack
PROOF
<1>1. Safe => TakenBackStaysBack
  BY DEF Safe, OutOfReach, TakenBackStaysBack
<1> QED BY <1>1, TypeInit, TypeStep, SafeInit, SafeStep, PTL DEF Spec

\* The first item of a queue is the first of all.
LEMMA FirstIsFirst ==
  ASSUME TypeOK, NEW s \in Session, queue[s] # {}
  PROVE  \A j \in queue[s] : rank[First(s)] <= rank[j]
PROOF
<1> DEFINE ranks == {rank[i] : i \in queue[s]}
           less == OpToRel(<, Nat)
<1>1. ranks \in SUBSET Nat /\ ranks # {}
  BY DEF TypeOK, Queue
<1>2. \A m, n \in Nat : <<m, n>> \in less <=> m < n
  BY DEF OpToRel
<1>3. IsWellFoundedOn(less, Nat)
  BY NatLessThanWellFounded
<1> HIDE DEF ranks, less
<1>4. PICK n \in ranks : \A m \in ranks : <<m, n>> \notin less
  BY <1>1, <1>3, WFMin
<1>5. \A m \in ranks : n <= m
  <2> SUFFICES ASSUME NEW m \in ranks PROVE n <= m
    OBVIOUS
  <2>1. m \in Nat /\ n \in Nat /\ ~(m < n)
    BY <1>1, <1>2, <1>4
  <2> QED BY <2>1
<1>6. \E i \in queue[s] : \A j \in queue[s] : rank[i] <= rank[j]
  BY <1>4, <1>5 DEF ranks
<1> QED BY <1>6 DEF First

\* The tick that moves is one, and keeps its session and its item.
LEMMA TickMoves ==
  ASSUME TypeOK, NEW t \in Tick, Ticking(t)
  PROVE  /\ ticks[t].pc # "idle"
         /\ \A u \in Tick : u # t => ticks'[u] = ticks[u]
         /\ \/ ticks'[t].pc = "idle"
            \/ ticks'[t].session = ticks[t].session /\ ticks'[t].item = ticks[t].item
PROOF
<1>1. ticks[t].pc # "idle"
  BY DEF Ticking, Unknown, TargetKept, TargetRefused, SeesBusy, SeesIdle, SubagentsWork, Overtaken,
         HandOver, Consents, Refuses, SendFails, Accepts, AnswerLost, Sent
<1>2. Ends(t) \/ \E pc : Goes(t, pc)
  <2>1. CASE Unknown(t) \/ TargetKept(t) \/ TargetRefused(t) \/ SeesBusy(t) \/ SubagentsWork(t)
             \/ Overtaken(t) \/ Refuses(t) \/ Sent(t) \/ SendFails(t) \/ AnswerLost(t)
    BY <2>1 DEF Unknown, TargetKept, TargetRefused, SeesBusy, SubagentsWork, Overtaken, Refuses,
                Sent, SendFails, AnswerLost, Fails
  <2>2. CASE SeesIdle(t) \/ HandOver(t) \/ Consents(t) \/ Accepts(t)
    BY <2>2 DEF SeesIdle, HandOver, Consents, Accepts
  <2> QED BY <2>1, <2>2 DEF Ticking
<1>3. CASE Ends(t)
  BY <1>1, <1>3 DEF Ends, IdleTick, TypeOK
<1>4. ASSUME NEW pc, Goes(t, pc)
      PROVE  /\ \A u \in Tick : u # t => ticks'[u] = ticks[u]
             /\ ticks'[t].session = ticks[t].session /\ ticks'[t].item = ticks[t].item
  BY <1>4 DEF Goes, TypeOK, TickState
<1> QED BY <1>1, <1>2, <1>3, <1>4

\* Nobody's turn: what begins no tick, moves none and is no restart.
Calm ==
  /\ UNCHANGED <<ticks, sending, accepted, lost, crashes>>
  /\ made' >= made /\ acts' >= acts /\ reruns' >= reruns
  /\ \A s \in Session :
       queue'[s] \subseteq queue[s] \/ (made' = made + 1 /\ queue'[s] \subseteq queue[s] \cup {made'})
  /\ acts' = acts => rank' = rank
  /\ file' = file \/ file' = [queue |-> queue, rank |-> rank]
  /\ acts' = acts /\ reruns' = reruns =>
       \A s \in Session : ~subagent[s] => ~subagent'[s] /\ (turn'[s] => turn[s])

LEMMA CalmStep ==
  ASSUME TypeOK, Next,
         \A t \in Tick : ~Ticking(t) /\ \A s \in Session : ~TickStarts(t, s),
         ~Crash
  PROVE  Calm
PROOF
<1>0. acts \in Nat /\ made \in Nat /\ reruns \in Nat
  BY QueueAssumption DEF TypeOK
<1>1. ASSUME NEW s \in Session, Enqueue(s) \/ EnqueueTask(s)
      PROVE  Calm
  <2>1. Put(s, made + 1)
    BY <1>1 DEF Enqueue, EnqueueTask
  <2> QED BY <1>0, <2>1 DEF Put, Calm, openCode
<1>2. ASSUME NEW s \in Session, NEW gone, GiveBack(s, gone)
      PROVE  Calm
  BY <1>0, <1>2 DEF GiveBack, Request, NoOtherBound, Drop, Calm, openCode, TypeOK
<1>3. ASSUME NEW s \in Session,
             (\E i \in Item : Remove(s, i)) \/ TakeAll(s) \/ Clear(s)
      PROVE  Calm
  BY <1>2, <1>3 DEF Remove, TakeAll, Clear
<1>4. CASE CancelTask
  BY <1>0, <1>4 DEF CancelTask, Request, NoOtherBound, Calm, openCode
<1>5. ASSUME NEW s \in Session, Reorder(s)
      PROVE  Calm
  BY <1>0, <1>5 DEF Reorder, Request, NoOtherBound, Calm, openCode, memory, history
<1>6. ASSUME NEW s \in Session, Hold(s) \/ Release(s) \/ HoldExpires(s)
      PROVE  Calm
  BY <1>0, <1>6 DEF Hold, Release, HoldExpires, Request, NoOtherBound, Calm, openCode, stored,
                    history, bounds
<1>7. ASSUME NEW s \in Session, Hearing(s)
      PROVE  Calm
  <2>1. HearKeeps /\ (queue' = queue \/ queue' = [queue EXCEPT ![s] = @ \ queue[s]])
    BY <1>7 DEF Hearing, HearNothing, HearIdle, HearBusy, HearAborted, HearDeleted, Drop
  <2>2. \A x \in Session : queue'[x] \subseteq queue[x]
    <3>1. queue \in [Session -> Queue]
      BY DEF TypeOK
    <3>2. CASE queue' = [queue EXCEPT ![s] = @ \ queue[s]]
      BY <3>1, <3>2
    <3> QED BY <2>1, <3>2
  <2> QED BY <1>0, <2>1, <2>2 DEF HearKeeps, Calm, bounds
<1>8. ASSUME NEW s \in Session, AbortWindowEnds(s) \/ BackoffEnds(s) \/ TickStops(s)
      PROVE  Calm
  BY <1>0, <1>8 DEF AbortWindowEnds, BackoffEnds, TickStops, Calm, openCode, stored, history, bounds
<1>9. CASE Reconnect
  BY <1>0, <1>9 DEF Reconnect, Calm, stored, history
<1>10. CASE Persist
  BY <1>0, <1>10 DEF Persist, Calm, memory, openCode, history, bounds
<1>11. ASSUME NEW s \in Session, TurnEnds(s)
       PROVE  Calm
  BY <1>0, <1>11 DEF TurnEnds, World, Calm, stored, memory, history, TypeOK
<1>12. ASSUME NEW s \in Session, SubagentReturns(s)
       PROVE  Calm
  BY <1>0, <1>12 DEF SubagentReturns, Begins, World, Calm, stored, memory, history, TypeOK
<1>13. ASSUME NEW s \in Session, Prompt(s) \/ Abort(s) \/ Delete(s)
       PROVE  Calm
  BY <1>0, <1>13 DEF Prompt, Abort, Delete, Request, World, Calm, stored, memory, history
<1> QED BY <1>1, <1>3, <1>4, <1>5, <1>6, <1>7, <1>8, <1>9, <1>10, <1>11, <1>12, <1>13 DEF Next

\* What the moves of a tick leave alone.
LEMMA TickLeaves ==
  ASSUME TypeOK, NEW t \in Tick, Ticking(t)
  PROVE  /\ UNCHANGED <<rank, file, made, acts, reruns, crashes, subagent>>
         /\ \A s \in Session : queue'[s] \subseteq queue[s]
         /\ lost' >= lost
         /\ ~Accepts(t) => accepted' = accepted /\ turn' = turn
PROOF
<1>0. lost \in Nat
  BY DEF TypeOK
<1>1. CASE Unknown(t) \/ TargetKept(t) \/ SeesBusy(t) \/ SeesIdle(t) \/ SubagentsWork(t)
           \/ Overtaken(t) \/ HandOver(t) \/ Consents(t)
  BY <1>0, <1>1 DEF Unknown, TargetKept, SeesBusy, SeesIdle, SubagentsWork, Overtaken, HandOver,
                    Consents, Waits, Outside, openCode, bounds
<1>2. CASE TargetRefused(t) \/ Refuses(t) \/ Sent(t)
  <2>1. /\ Outside /\ UNCHANGED <<bounds, accepted>>
        /\ \E status : Drop(ticks[t].session, {ticks[t].item}, status)
    BY <1>2 DEF TargetRefused, Refuses, Sent
  <2> QED BY <1>0, <1>2, <2>1 DEF Outside, Drop, openCode, bounds, TypeOK
<1>3. CASE SendFails(t) \/ AnswerLost(t)
  BY <1>0, <1>3 DEF SendFails, AnswerLost, Fails, Outside, openCode, bounds
<1>4. CASE Accepts(t)
  BY <1>0, <1>4 DEF Accepts, stored, bounds
<1> QED BY <1>1, <1>2, <1>3, <1>4 DEF Ticking

\* Only a handover begins a send.
LEMMA SendsBegin ==
  ASSUME TypeOK, NEW t \in Tick, Ticking(t), ~Sends(t), ~HandOver(t)
  PROVE  ticks'[t].pc \notin {"before", "sending", "answer"}
PROOF
<1>1. Ends(t) \/ \E pc \in {"validating", "subagents"} : Goes(t, pc)
  <2>1. CASE Unknown(t) \/ TargetKept(t) \/ TargetRefused(t) \/ SeesBusy(t) \/ SeesIdle(t)
             \/ SubagentsWork(t) \/ Overtaken(t)
    BY <2>1 DEF Unknown, TargetKept, TargetRefused, SeesBusy, SeesIdle, SubagentsWork, Overtaken
  <2> QED BY <2>1 DEF Ticking, Sends, Consents, Refuses, SendFails, Accepts, AnswerLost, Sent
<1> QED BY <1>1 DEF Ends, Goes, IdleTick, TypeOK, TickState

-----------------------------------------------------------------------------
(* The order of the messages.                                              *)

\* The item of a tick still waits.
Stays(t) == ticks[t].pc # "idle" /\ ticks[t].item \in queue[ticks[t].session]

\* As long as people do not reorder, a tick works on the oldest item that waits, and what
\* is sent meanwhile is that item.
Orderly ==
  acts = 0 =>
    /\ \A i \in Item : rank[i] = i /\ file.rank[i] = i
    /\ \A t \in Tick : Stays(t) => \A i \in queue[ticks[t].session] : ticks[t].item <= i
    /\ \A t, u \in Tick :
         Stays(t) /\ Sends(u) /\ ticks[t].session = ticks[u].session
           => ticks[t].item = ticks[u].item

\* An item that is queued is new.
LEMMA OldStays ==
  ASSUME TypeOK, Safe, Calm, NEW t \in Tick, Stays(t)'
  PROVE  /\ Stays(t) /\ ticks[t].item \in 1..made
         /\ \A i \in queue'[ticks[t].session] : i \in queue[ticks[t].session] \/ i > ticks[t].item
PROOF
<1> DEFINE s == ticks[t].session
           j == ticks[t].item
<1>1. ticks' = ticks /\ ticks[t].pc # "idle" /\ j \in queue'[s]
  BY DEF Calm, Stays
<1>2. s \in Session /\ j \in 1..made /\ made \in Nat
  BY <1>1, QueueAssumption DEF Safe, OneSend, TypeOK
<1>3. queue'[s] \subseteq queue[s] \/ (made' = made + 1 /\ queue'[s] \subseteq queue[s] \cup {made'})
  BY <1>2 DEF Calm
<1> HIDE DEF s, j
<1>4. j \in queue[s] /\ \A i \in queue'[s] : i \in queue[s] \/ i > j
  BY <1>1, <1>2, <1>3
<1> QED BY <1>1, <1>2, <1>4 DEF s, j, Stays

LEMMA OrderlyStart ==
  ASSUME TypeOK, Safe, Orderly, NEW t \in Tick, NEW s \in Session, TickStarts(t, s)
  PROVE  Orderly'
PROOF
<1>1. First(s) \in queue[s] /\ \A j \in queue[s] : rank[First(s)] <= rank[j]
  BY FirstIsQueued, FirstIsFirst DEF TickStarts
<1>2. /\ \A u \in Tick : u # t => ticks'[u] = ticks[u]
      /\ ticks'[t] = [pc |-> "status", session |-> s, item |-> First(s)]
      /\ sending[s] = None
      /\ UNCHANGED <<queue, rank, file, acts>>
  BY DEF TickStarts, stored, bounds, TypeOK
<1> SUFFICES ASSUME acts = 0
             PROVE  /\ \A u \in Tick : Stays(u)' =>
                         \A i \in queue[ticks'[u].session] : ticks'[u].item <= i
                    /\ \A u, v \in Tick :
                         Stays(u)' /\ Sends(v)' /\ ticks'[u].session = ticks'[v].session
                           => ticks'[u].item = ticks'[v].item
  BY <1>2 DEF Orderly
<1>3. \A i \in queue[s] : First(s) <= i
  <2>1. queue[s] \subseteq Item
    BY DEF TypeOK, Queue
  <2> QED BY <1>1, <2>1 DEF Orderly
<1>4. \A v \in Tick : Sends(v)' => v # t /\ Sends(v) /\ ticks[v].session # s
  <2> SUFFICES ASSUME NEW v \in Tick, Sends(v)'
               PROVE  v # t /\ Sends(v) /\ ticks[v].session # s
    OBVIOUS
  <2>1. v # t /\ Sends(v)
    BY <1>2 DEF Sends
  <2>2. ticks[v].item # None
    BY <2>1, MadeAreItems DEF Safe, OneSend, Sends
  <2> QED BY <1>2, <2>1, <2>2 DEF Safe, OneSend
<1> QED BY <1>2, <1>3, <1>4 DEF Orderly, Stays

LEMMA OrderlyTick ==
  ASSUME TypeOK, Safe, Orderly, NEW t \in Tick, Ticking(t)
  PROVE  Orderly'
PROOF
<1>1. /\ UNCHANGED <<rank, file, made, acts>>
      /\ \A s \in Session : queue'[s] \subseteq queue[s]
  BY TickLeaves
<1>2. /\ \A u \in Tick : u # t => ticks'[u] = ticks[u]
      /\ ticks[t].pc # "idle"
      /\ \/ ticks'[t].pc = "idle"
         \/ ticks'[t].session = ticks[t].session /\ ticks'[t].item = ticks[t].item
  BY TickMoves
<1>3. \A u \in Tick : Stays(u)' =>
        /\ Stays(u) /\ ticks'[u].session = ticks[u].session /\ ticks'[u].item = ticks[u].item
        /\ ticks[u].session \in Session
  BY <1>1, <1>2 DEF Stays, Safe, OneSend
<1> SUFFICES ASSUME acts = 0
             PROVE  /\ \A u \in Tick : Stays(u)' =>
                         \A i \in queue'[ticks'[u].session] : ticks'[u].item <= i
                    /\ \A u, v \in Tick :
                         Stays(u)' /\ Sends(v)' /\ ticks'[u].session = ticks'[v].session
                           => ticks'[u].item = ticks'[v].item
  BY <1>1 DEF Orderly
<1>4. \A u \in Tick : Stays(u)' => \A i \in queue'[ticks'[u].session] : ticks'[u].item <= i
  BY <1>1, <1>3 DEF Orderly
<1>5. ASSUME NEW u \in Tick, NEW v \in Tick, Stays(u)', Sends(v)',
             ticks'[u].session = ticks'[v].session
      PROVE  ticks'[u].item = ticks'[v].item
  <2>1. CASE Sends(v)
    <3>1. ticks'[v].session = ticks[v].session /\ ticks'[v].item = ticks[v].item
      BY <1>2, <1>5, <2>1 DEF Sends
    <3> QED BY <1>3, <1>5, <2>1, <3>1 DEF Orderly
  <2>2. CASE ~Sends(v)
    <3>1. v = t /\ HandOver(t)
      BY <1>2, <1>5, <2>2, SendsBegin DEF Sends
    <3>2. /\ ticks'[t].session = ticks[t].session /\ ticks'[t].item = ticks[t].item
          /\ ticks[t].session \in Session
      BY <1>2, <1>5, <3>1 DEF Sends, Safe, OneSend
    <3>3. ticks[t].item \in queue[ticks[t].session]
      BY <3>1, <3>2, FirstIsQueued DEF HandOver, StillFirst
    <3>4. Stays(t) /\ Stays(u) /\ ticks[u].session = ticks[t].session
      BY <1>2, <1>3, <1>5, <3>1, <3>2, <3>3 DEF Stays
    <3>5. ticks[t].item <= ticks[u].item /\ ticks[u].item <= ticks[t].item
      BY <3>4 DEF Orderly, Stays
    <3>6. ticks[t].item \in Nat /\ ticks[u].item \in Nat
      BY <3>4 DEF Stays, Safe, OneSend
    <3> QED BY <1>3, <1>5, <3>1, <3>2, <3>5, <3>6
  <2> QED BY <2>1, <2>2
<1> QED BY <1>4, <1>5

LEMMA OrderlyStep ==
  ASSUME TypeOK, Safe, Orderly, [Next]_vars
  PROVE  Orderly'
PROOF
<1>1. ASSUME Calm
      PROVE  Orderly'
  <2> SUFFICES ASSUME acts' = 0 PROVE Orderly'
    BY DEF Orderly
  <2>1. acts = 0 /\ rank' = rank /\ ticks' = ticks
    BY <1>1 DEF Calm, TypeOK
  <2>2. \A i \in Item : rank'[i] = i /\ file'.rank[i] = i
    BY <1>1, <2>1 DEF Calm, Orderly
  <2>3. \A t \in Tick : Stays(t)' => \A i \in queue'[ticks[t].session] : ticks[t].item <= i
    <3> SUFFICES ASSUME NEW t \in Tick, Stays(t)', NEW i \in queue'[ticks[t].session]
                 PROVE  ticks[t].item <= i
      BY <2>1
    <3>1. /\ Stays(t) /\ ticks[t].item \in 1..made
          /\ i \in queue[ticks[t].session] \/ i > ticks[t].item
      BY <1>1, OldStays
    <3>2. CASE i \in queue[ticks[t].session]
      BY <2>1, <3>1, <3>2 DEF Orderly
    <3>3. CASE i > ticks[t].item
      <4>1. ticks[t].session \in Session
        BY <3>1 DEF Stays, Safe, OneSend
      <4>2. queue'[ticks[t].session] \subseteq Item
        BY <4>1, TypeStep DEF TypeOK, Queue
      <4>3. i \in Nat /\ ticks[t].item \in Nat
        BY <3>1, <4>2 DEF Item
      <4> QED BY <3>3, <4>3
    <3> QED BY <3>1, <3>2, <3>3
  <2>4. \A t \in Tick : Stays(t)' => Stays(t)
    BY <1>1, OldStays
  <2> QED BY <2>1, <2>2, <2>3, <2>4 DEF Orderly, Sends
<1>2. CASE Crash
  <2>1. \A t \in Tick : ticks'[t].pc = "idle"
    BY <1>2 DEF Crash, IdleTick
  <2>2. rank' = file.rank /\ file' = file /\ acts' = acts
    BY <1>2 DEF Crash
  <2> QED BY <2>1, <2>2 DEF Orderly, Stays, Sends
<1>3. CASE UNCHANGED vars
  BY <1>3 DEF vars, memory, stored, bounds, Orderly, Stays, Sends
<1> QED BY <1>1, <1>2, <1>3, CalmStep, OrderlyStart, OrderlyTick

LEMMA OrderlyInit ==
  ASSUME Init
  PROVE  Orderly
BY DEF Init, Orderly, Stays, Sends, IdleTick

\* What OpenCode accepts is what the tick that sent it works on.
LEMMA AcceptedBy ==
  ASSUME TypeOK, Safe, [Next]_vars, NEW i \in Item, accepted'[i] > accepted[i]
  PROVE  \E t \in Tick : Accepts(t) /\ ticks[t].item = i
PROOF
<1>0. accepted[i] \in Nat
  BY DEF TypeOK
<1>1. accepted' # accepted
  BY <1>0
<1>2. PICK t \in Tick : Accepts(t)
  <2>1. CASE UNCHANGED vars
    BY <1>1, <2>1 DEF vars, history
  <2>2. ~Crash
    BY <1>1 DEF Crash, history
  <2>3. \A t \in Tick, s \in Session : ~TickStarts(t, s)
    BY <1>1 DEF TickStarts, history
  <2>4. ~Calm
    BY <1>1 DEF Calm
  <2> QED BY <1>1, <2>1, <2>2, <2>3, <2>4, CalmStep, TickLeaves
<1>3. accepted' = [accepted EXCEPT ![ticks[t].item] = @ + 1]
  BY <1>2 DEF Accepts
<1> QED BY <1>0, <1>2, <1>3 DEF TypeOK

LEMMA OrderKept ==
  ASSUME TypeOK, Safe, Orderly, [Next]_vars, acts = 0, NEW s \in Session,
         NEW i \in queue[s], NEW j \in queue[s], accepted'[j] > accepted[j]
  PROVE  ~(i < j)
PROOF
<1>1. i \in Item /\ j \in Item /\ i \in Nat /\ j \in Nat
  BY DEF TypeOK, Queue, Item
<1>2. PICK t \in Tick : Accepts(t) /\ ticks[t].item = j
  BY <1>1, AcceptedBy
<1>3. ticks[t].session = s /\ Stays(t)
  BY <1>2 DEF Accepts, Stays, Safe, OneSend
<1>4. j <= i
  BY <1>2, <1>3 DEF Orderly
<1> QED BY <1>1, <1>4

\* A message does not overtake an older one, with any number of sessions, ticks and
\* messages: a tick works on the oldest item that waits from its start to its end.
THEOREM SentInOrder == Spec => InOrder
PROOF
<1>1. TypeOK /\ Safe /\ Orderly /\ [Next]_vars =>
        [acts = 0 /\ crashes = 0 =>
           \A s \in Session : \A i, j \in queue[s] :
             (accepted'[j] > accepted[j] /\ i < j) => accepted[i] > 0]_vars
  BY OrderKept
<1>2. TypeOK /\ Safe /\ Orderly /\ [Next]_vars => Orderly'
  BY OrderlyStep
<1>3. Init => Orderly
  BY OrderlyInit
<1> QED BY <1>1, <1>2, <1>3, TypeInit, TypeStep, SafeInit, SafeStep, PTL DEF Spec, InOrder

-----------------------------------------------------------------------------
(* Turns.                                                                  *)

Undisturbed == acts = 0 /\ lost = 0 /\ reruns = 0

\* A tick that has found its session idle sends into no turn: one that has begun since is
\* of its own item, which is then gone before the send can be handed over.
Alone ==
  Undisturbed =>
    /\ \A s \in Session : ~subagent[s]
    /\ \A t \in Tick : ticks[t].pc \in {"before", "sending"} => ~turn[ticks[t].session]
    /\ \A t \in Tick : ticks[t].pc = "subagents" /\ Stays(t) /\ turn[ticks[t].session] =>
         \E u \in Tick : ticks[u].pc = "answer" /\ ticks[u].item = ticks[t].item

LEMMA AloneTick ==
  ASSUME TypeOK, Safe, Orderly, Alone, NEW t \in Tick, Ticking(t)
  PROVE  Alone'
PROOF
<1>0. /\ acts' = acts /\ reruns' = reruns /\ subagent' = subagent /\ lost' >= lost
      /\ \A s \in Session : queue'[s] \subseteq queue[s]
      /\ ~Accepts(t) => turn' = turn
      /\ lost \in Nat
  BY TickLeaves DEF TypeOK
<1> SUFFICES ASSUME Undisturbed'
             PROVE  /\ \A u \in Tick : ticks'[u].pc \in {"before", "sending"}
                         => ~turn'[ticks'[u].session]
                    /\ \A u \in Tick :
                         ticks'[u].pc = "subagents" /\ Stays(u)' /\ turn'[ticks'[u].session]
                         => \E v \in Tick : ticks'[v].pc = "answer"
                                            /\ ticks'[v].item = ticks'[u].item
  BY <1>0 DEF Alone, Undisturbed
<1>1. Undisturbed
  BY <1>0 DEF Undisturbed
<1>2. /\ \A u \in Tick : u # t => ticks'[u] = ticks[u]
      /\ ticks[t].pc # "idle"
      /\ \/ ticks'[t].pc = "idle"
         \/ ticks'[t].session = ticks[t].session /\ ticks'[t].item = ticks[t].item
  BY TickMoves
<1>3. \A u \in Tick : Stays(u)' =>
        /\ Stays(u) /\ ticks'[u].session = ticks[u].session /\ ticks'[u].item = ticks[u].item
        /\ ticks[u].session \in Session
  BY <1>0, <1>2 DEF Stays, Safe, OneSend
<1>4. ticks[t].session \in Session /\ ticks[t].item \in 1..made
  BY <1>2 DEF Safe, OneSend
<1>5. CASE Accepts(t)
  <2>1. /\ ticks[t].pc = "sending" /\ turn' = [turn EXCEPT ![ticks[t].session] = TRUE]
        /\ ticks'[t].pc = "answer" /\ ticks'[t].item = ticks[t].item
        /\ queue' = queue
    BY <1>5 DEF Accepts, Goes, TypeOK, TickState, stored
  <2>2. ASSUME NEW u \in Tick, ticks'[u].pc \in {"before", "sending"}
        PROVE  ~turn'[ticks'[u].session]
    <3>1. u # t /\ ticks'[u] = ticks[u] /\ ticks[u].session # ticks[t].session
      BY <1>2, <2>1, <2>2 DEF Safe, OneSend, Sends
    <3>2. ~turn[ticks[u].session] /\ ticks[u].session \in Session
      BY <1>1, <2>2, <3>1 DEF Alone, Safe, OneSend
    <3> QED BY <2>1, <3>1, <3>2 DEF TypeOK
  <2>3. ASSUME NEW u \in Tick, ticks'[u].pc = "subagents", Stays(u)', turn'[ticks'[u].session]
        PROVE  \E v \in Tick : ticks'[v].pc = "answer" /\ ticks'[v].item = ticks'[u].item
    <3>1. u # t /\ ticks'[u] = ticks[u] /\ Stays(u) /\ ticks[u].session \in Session
      BY <1>2, <1>3, <2>1, <2>3
    <3>2. CASE ticks[u].session = ticks[t].session
      <4>1. ticks[u].item = ticks[t].item
        BY <1>1, <2>1, <3>1, <3>2 DEF Orderly, Sends, Undisturbed
      <4> QED BY <2>1, <3>1, <4>1
    <3>3. CASE ticks[u].session # ticks[t].session
      <4>1. turn[ticks[u].session]
        BY <2>1, <2>3, <3>1, <3>3 DEF TypeOK
      <4>2. PICK v \in Tick : ticks[v].pc = "answer" /\ ticks[v].item = ticks[u].item
        BY <1>1, <2>3, <3>1, <4>1 DEF Alone
      <4>3. v # t
        BY <2>1, <4>2
      <4> QED BY <1>2, <3>1, <4>2, <4>3
    <3> QED BY <3>2, <3>3
  <2> QED BY <2>2, <2>3
<1>6. CASE ~Accepts(t)
  <2>0. turn' = turn
    BY <1>0, <1>6
  <2>1. ASSUME ticks'[t].pc \in {"before", "sending"}
        PROVE  ~turn[ticks[t].session]
    <3>1. CASE ticks[t].pc \in {"before", "sending"}
      BY <1>1, <3>1 DEF Alone
    <3>2. CASE HandOver(t)
      <4>1. Stays(t) /\ sending[ticks[t].session] = None /\ ticks[t].pc = "subagents"
        BY <1>4, <3>2, FirstIsQueued DEF HandOver, StillFirst, Stays
      <4> SUFFICES ASSUME turn[ticks[t].session] PROVE FALSE
        OBVIOUS
      <4>2. PICK u \in Tick : ticks[u].pc = "answer" /\ ticks[u].item = ticks[t].item
        BY <1>1, <4>1 DEF Alone
      <4>3. ticks[u].session = ticks[t].session
        BY <1>4, <4>1, <4>2 DEF Safe, OneSend
      <4>4. sending[ticks[t].session] = ticks[t].item
        BY <4>2, <4>3 DEF Safe, OneSend, Sends
      <4> QED BY <1>4, <4>1, <4>4, MadeAreItems
    <3>3. CASE ticks[t].pc = "answer"
      <4>1. Ends(t)
        BY <3>3 DEF Ticking, Unknown, TargetKept, TargetRefused, SeesBusy, SeesIdle,
                    SubagentsWork, Overtaken, HandOver, Consents, Refuses, SendFails, Accepts,
                    AnswerLost, Sent, Fails
      <4> QED BY <2>1, <4>1 DEF Ends, IdleTick, TypeOK
    <3>4. CASE ~Sends(t) /\ ~HandOver(t)
      BY <2>1, <3>4, SendsBegin
    <3> QED BY <3>1, <3>2, <3>3, <3>4 DEF Sends
  <2>2. ASSUME NEW u \in Tick, ticks'[u].pc \in {"before", "sending"}
        PROVE  ~turn'[ticks'[u].session]
    BY <1>1, <1>2, <2>0, <2>1, <2>2 DEF Alone
  <2>3. ASSUME NEW u \in Tick, ticks'[u].pc = "subagents", Stays(u)', turn'[ticks'[u].session]
        PROVE  \E v \in Tick : ticks'[v].pc = "answer" /\ ticks'[v].item = ticks'[u].item
    <3>1. Stays(u) /\ turn[ticks[u].session] /\ ticks'[u].item = ticks[u].item
          /\ ticks'[u].session = ticks[u].session /\ ticks[u].session \in Session
      BY <1>3, <2>0, <2>3
    <3>2. u # t
      <4> SUFFICES ASSUME u = t PROVE FALSE
        OBVIOUS
      <4>1. Ends(t) \/ (\E pc \in {"validating", "before", "sending", "answer"} : Goes(t, pc))
            \/ SeesIdle(t)
        <5>1. CASE Unknown(t) \/ TargetKept(t) \/ TargetRefused(t) \/ SeesBusy(t)
                   \/ SubagentsWork(t) \/ Overtaken(t)
          BY <5>1 DEF Unknown, TargetKept, TargetRefused, SeesBusy, SubagentsWork, Overtaken
        <5>2. CASE HandOver(t) \/ Consents(t) \/ Accepts(t)
          BY <5>2 DEF HandOver, Consents, Accepts
        <5>3. CASE Refuses(t) \/ SendFails(t) \/ AnswerLost(t) \/ Sent(t)
          BY <5>3 DEF Refuses, SendFails, AnswerLost, Sent, Fails
        <5> QED BY <5>1, <5>2, <5>3 DEF Ticking
      <4>2. SeesIdle(t)
        BY <4>1, <2>3 DEF Ends, Goes, IdleTick, TypeOK, TickState
      <4> QED BY <3>1, <4>2 DEF SeesIdle
    <3>3. ticks'[u] = ticks[u] /\ ticks[u].pc = "subagents"
      BY <1>2, <2>3, <3>2
    <3>4. PICK v \in Tick : ticks[v].pc = "answer" /\ ticks[v].item = ticks[u].item
      BY <1>1, <3>1, <3>3 DEF Alone
    <3>5. CASE v # t
      BY <1>2, <3>3, <3>4, <3>5
    <3>6. CASE v = t
      <4>1. Sent(t)
        <5>1. ~AnswerLost(t)
          BY <1>0 DEF AnswerLost, Undisturbed
        <5> QED BY <1>6, <3>4, <3>6, <5>1 DEF Ticking, Unknown, TargetKept, TargetRefused,
                 SeesBusy, SeesIdle, SubagentsWork, Overtaken, HandOver, Consents, Refuses,
                 SendFails
      <4>2. ticks[t].item \notin queue'[ticks[t].session]
        BY <1>4, <4>1 DEF Sent, Drop, TypeOK
      <4>3. ticks[u].session = ticks[t].session
        BY <3>3, <3>4, <3>6 DEF Safe, OneSend
      <4> QED BY <2>3, <3>1, <3>4, <3>6, <4>2, <4>3 DEF Stays
    <3> QED BY <3>5, <3>6
  <2> QED BY <2>2, <2>3
<1> QED BY <1>5, <1>6

LEMMA AloneStep ==
  ASSUME TypeOK, Safe, Orderly, Alone, [Next]_vars
  PROVE  Alone'
PROOF
<1>1. ASSUME Calm
      PROVE  Alone'
  <2> SUFFICES ASSUME Undisturbed' PROVE Alone'
    BY DEF Alone
  <2>1. Undisturbed /\ acts' = acts /\ reruns' = reruns /\ ticks' = ticks
    BY <1>1 DEF Calm, Undisturbed, TypeOK
  <2>2. \A s \in Session : ~subagent'[s] /\ (turn'[s] => turn[s])
    BY <1>1, <2>1 DEF Calm, Alone
  <2>3. \A t \in Tick : ticks[t].pc # "idle" => ticks[t].session \in Session
    BY DEF Safe, OneSend
  <2>4. \A t \in Tick : Stays(t)' => Stays(t)
    BY <1>1, OldStays
  <2> QED BY <2>1, <2>2, <2>3, <2>4 DEF Alone
<1>2. CASE Crash
  <2>1. \A t \in Tick : ticks'[t].pc = "idle"
    BY <1>2 DEF Crash, IdleTick
  <2>2. UNCHANGED <<acts, lost, reruns, subagent>>
    BY <1>2 DEF Crash
  <2> QED BY <2>1, <2>2 DEF Alone, Undisturbed
<1>3. CASE UNCHANGED vars
  BY <1>3 DEF vars, memory, stored, bounds, openCode, Alone, Undisturbed, Stays
<1>4. ASSUME NEW t \in Tick, NEW s \in Session, TickStarts(t, s)
      PROVE  Alone'
  <2>1. /\ \A u \in Tick : u # t => ticks'[u] = ticks[u]
        /\ ticks[t].pc = "idle" /\ ticks'[t].pc = "status"
        /\ UNCHANGED <<queue, turn, subagent, acts, lost, reruns>>
    BY <1>4 DEF TickStarts, stored, bounds, openCode, TypeOK
  <2>2. \A u \in Tick : ticks[u].pc = "answer" => ticks'[u] = ticks[u]
    BY <2>1
  <2> QED BY <2>1, <2>2 DEF Alone, Undisturbed, Stays
<1> QED BY <1>1, <1>2, <1>3, <1>4, CalmStep, AloneTick

LEMMA AloneInit ==
  ASSUME Init
  PROVE  Alone
BY DEF Init, Alone, IdleTick, Everywhere

LEMMA TurnKept ==
  ASSUME TypeOK, Safe, Alone, [Next]_vars, Undisturbed, NEW s \in Session,
         NEW i \in queue[s], accepted'[i] > accepted[i]
  PROVE  ~turn[s]
PROOF
<1>1. i \in Item
  BY DEF TypeOK, Queue
<1>2. PICK t \in Tick : Accepts(t) /\ ticks[t].item = i
  BY <1>1, AcceptedBy
<1>3. ticks[t].pc = "sending" /\ ticks[t].session = s
  BY <1>2 DEF Accepts, Safe, OneSend
<1> QED BY <1>3 DEF Alone

\* A message starts a turn of its own, with any number of ticks under way for the session:
\* the session is asked before a send, and whatever begins a turn between the answer and
\* the send takes the message out of the queue, which the tick then notices.
THEOREM SentWhenIdle == Spec => NotIntoATurn
PROOF
<1>1. TypeOK /\ Safe /\ Alone /\ [Next]_vars =>
        [acts = 0 /\ lost = 0 /\ reruns = 0 =>
           \A s \in Session : \A i \in queue[s] : accepted'[i] > accepted[i] => ~turn[s]]_vars
  BY TurnKept DEF Undisturbed
<1>2. TypeOK /\ Safe /\ Orderly /\ Alone /\ [Next]_vars => (Orderly /\ Alone)'
  BY OrderlyStep, AloneStep
<1>3. Init => Orderly /\ Alone
  BY OrderlyInit, AloneInit
<1> QED BY <1>1, <1>2, <1>3, TypeInit, TypeStep, SafeInit, SafeStep, PTL DEF Spec, NotIntoATurn

-----------------------------------------------------------------------------
(* What the scheduler is told.                                             *)

Unharmed == lost = 0 /\ crashes = 0

\* An item that was not sent and never will be.
Gone(i) ==
  /\ accepted[i] = 0
  /\ \A s \in Session : i \notin queue[s]
  /\ \A t \in Tick : Sends(t) => ticks[t].item # i

\* What the scheduler counts as cancelled or failed is gone, unless it was dropped in the
\* middle of its send.
Told ==
  /\ \A i \in Item : result[i] # "none" => i <= made
  /\ Unharmed =>
       \A i \in Item \ torn : result[i] \in {"failed", "cancelled"} => Gone(i)

\* An item that waits and is not in flight was not sent.
LEMMA WaitsUnsent ==
  ASSUME TypeOK, Safe, Unharmed, NEW x \in Session, NEW i \in queue[x], sending[x] # i
  PROVE  /\ accepted[i] = 0 /\ i \in 1..made
         /\ \A t \in Tick : Sends(t) => ticks[t].item # i
PROOF
<1>1. i \in Item /\ i \in 1..made
  BY DEF TypeOK, Queue, Safe, Separate
<1>2. \A t \in Tick : Sends(t) => ticks[t].item # i
  BY DEF Safe, OneSend, Sends
<1>3. accepted[i] <= lost + crashes
  BY <1>2 DEF Safe, Counted, Sends
<1>4. accepted[i] \in Nat
  BY <1>1 DEF TypeOK
<1> QED BY <1>1, <1>2, <1>3, <1>4 DEF Unharmed

\* It is gone once it is dropped.
LEMMA DropsUnsent ==
  ASSUME TypeOK, Safe, Unharmed, NEW x \in Session, NEW i \in queue[x], sending[x] # i,
         i \notin queue'[x], UNCHANGED accepted,
         \A y \in Session : queue'[y] \subseteq queue[y] \cup {made + 1},
         \A t \in Tick : Sends(t)' => Sends(t) /\ ticks'[t].item = ticks[t].item
  PROVE  Gone(i)'
PROOF
<1>1. accepted[i] = 0 /\ i \in 1..made /\ \A t \in Tick : Sends(t) => ticks[t].item # i
  BY WaitsUnsent
<1>2. made \in Nat
  BY QueueAssumption DEF TypeOK
<1>3. ASSUME NEW y \in Session PROVE i \notin queue'[y]
  <2>1. i # made + 1
    BY <1>1, <1>2
  <2>2. y # x => i \notin queue[y]
    BY DEF Safe, Separate
  <2> QED BY <2>1, <2>2
<1> QED BY <1>1, <1>3 DEF Gone

\* What is gone stays so.
LEMMA GoneStays ==
  ASSUME TypeOK, Safe, [Next]_vars, Unharmed', NEW i \in 1..made, Gone(i)
  PROVE  Gone(i)'
PROOF
<1>0. made \in Nat /\ i \in Item
  BY QueueAssumption, MadeAreItems DEF TypeOK
<1>1. ASSUME Calm
      PROVE  Gone(i)'
  <2>1. ticks' = ticks /\ accepted' = accepted
    BY <1>1 DEF Calm
  <2>2. ASSUME NEW s \in Session PROVE i \notin queue'[s]
    <3>1. i \notin queue[s] /\ i # made + 1
      BY <1>0 DEF Gone
    <3> QED BY <1>1, <3>1 DEF Calm
  <2> QED BY <2>1, <2>2 DEF Gone, Sends
<1>2. ~Crash
  <2>1. crashes \in Nat
    BY DEF TypeOK
  <2>2. crashes' = 0
    BY DEF Unharmed
  <2>3. Crash => crashes' = crashes + 1
    BY DEF Crash
  <2>4. crashes + 1 # 0
    BY <2>1
  <2> QED BY <2>2, <2>3, <2>4
<1>3. CASE UNCHANGED vars
  BY <1>3 DEF vars, memory, stored, history, Gone, Sends
<1>4. ASSUME NEW t \in Tick, NEW s \in Session, TickStarts(t, s)
      PROVE  Gone(i)'
  BY <1>4 DEF TickStarts, stored, history, Gone, Sends, TypeOK
<1>5. ASSUME NEW t \in Tick, Ticking(t)
      PROVE  Gone(i)'
  <2>1. /\ \A u \in Tick : u # t => ticks'[u] = ticks[u]
        /\ ticks[t].pc # "idle"
        /\ \/ ticks'[t].pc = "idle"
           \/ ticks'[t].session = ticks[t].session /\ ticks'[t].item = ticks[t].item
    BY <1>5, TickMoves
  <2>2. \A s \in Session : i \notin queue'[s]
    BY <1>5, TickLeaves DEF Gone
  <2>3. accepted'[i] = 0
    <3>1. CASE Accepts(t)
      <4>1. ticks[t].item # i
        BY <3>1 DEF Accepts, Gone, Sends
      <4> QED BY <1>0, <3>1, <4>1 DEF Accepts, Gone, TypeOK
    <3> QED BY <1>5, <3>1, TickLeaves DEF Gone
  <2>4. ASSUME Sends(t)' PROVE ticks'[t].item # i
    <3>1. ticks'[t].item = ticks[t].item
      BY <2>1, <2>4 DEF Sends
    <3>2. CASE HandOver(t)
      <4>1. ticks[t].session \in Session
        BY <2>1 DEF Safe, OneSend
      <4>2. ticks[t].item \in queue[ticks[t].session]
        BY <3>2, <4>1, FirstIsQueued DEF HandOver, StillFirst
      <4> QED BY <3>1, <4>1, <4>2 DEF Gone
    <3>3. CASE Sends(t)
      BY <3>1, <3>3 DEF Gone
    <3> QED BY <1>5, <2>4, <3>2, <3>3, SendsBegin DEF Sends
  <2>5. \A u \in Tick : Sends(u)' => ticks'[u].item # i
    BY <2>1, <2>4 DEF Gone, Sends
  <2> QED BY <2>2, <2>3, <2>5 DEF Gone
<1> QED BY <1>1, <1>2, <1>3, <1>4, <1>5, CalmStep

\* What an action that drops items tells of one of them.
Tells(i) == /\ \E x \in Session : i \in queue[x]
            /\ Unharmed' /\ result'[i] \in {"failed", "cancelled"} /\ i \notin torn' => Gone(i)'

LEMMA PutTells ==
  ASSUME TypeOK, Safe, NEW s \in Session, made < MaxItems, Put(s, made + 1),
         NEW i \in Item, result'[i] # result[i]
  PROVE  Tells(i)
PROOF
<1> DEFINE pushed == IF Cardinality(queue[s]) < QueueLimit THEN {} ELSE {First(s)}
           stale == Stale(s)
<1>1. /\ queue' = [x \in Session |->
                     IF x = s THEN (queue[x] \cup {made + 1}) \ pushed
                     ELSE IF x \in stale THEN {} ELSE queue[x]]
      /\ Report(pushed \cup UNION {queue[x] : x \in stale}, "cancelled") /\ Tear(pushed)
      /\ UNCHANGED <<ticks, accepted, sending, lost, crashes>>
  BY DEF Put
<1>2. \A x \in stale : x \in Session /\ x # s /\ sending[x] = None
  BY DEF Stale, Queued
<1>3. pushed \subseteq queue[s]
  <2>1. CASE queue[s] = {}
    BY <2>1, FS_EmptySet, QueueAssumption
  <2>2. CASE queue[s] # {}
    BY <2>2, FirstIsQueued
  <2> QED BY <2>1, <2>2
<1> HIDE DEF pushed, stale
<1>4. i \in pushed \cup UNION {queue[x] : x \in stale}
  BY <1>1 DEF Report
<1>5. PICK x \in Session : /\ i \in queue[x] /\ i \notin queue'[x]
                           /\ i \in torn' \/ sending[x] # i
  <2>1. CASE i \in pushed
    <3>1. i \in queue[s] /\ i \notin queue'[s]
      BY <1>1, <1>3, <2>1
    <3>2. i # None
      BY QueueAssumption DEF Item
    <3>3. sending[s] = i => i \in torn'
      BY <1>1, <2>1, <3>2 DEF Tear, InFlight
    <3> QED BY <3>1, <3>3
  <2>2. CASE i \notin pushed
    <3>1. PICK x \in stale : i \in queue[x]
      BY <1>4, <2>2
    <3>2. x \in Session /\ x # s /\ sending[x] = None /\ i # None
      BY <1>2, QueueAssumption DEF Item
    <3>3. queue'[x] = {}
      BY <1>1, <3>1, <3>2
    <3> QED BY <3>1, <3>2, <3>3
  <2> QED BY <2>1, <2>2
<1>6. \A y \in Session : queue'[y] \subseteq queue[y] \cup {made + 1}
  BY <1>1
<1>7. ASSUME Unharmed', i \notin torn' PROVE Gone(i)'
  <2>1. sending[x] # i /\ Unharmed
    BY <1>1, <1>5, <1>7 DEF Unharmed
  <2> QED BY <1>1, <1>5, <1>6, <2>1, DropsUnsent DEF Sends
<1> QED BY <1>5, <1>7 DEF Tells

LEMMA GiveBackTells ==
  ASSUME TypeOK, Safe, NEW s \in Session, NEW gone, GiveBack(s, gone), sending[s] \notin gone,
         NEW i \in Item, result'[i] # result[i]
  PROVE  Tells(i)
PROOF
<1>1. /\ queue' = [queue EXCEPT ![s] = @ \ gone]
      /\ Report(queue[s] \cap gone, "cancelled")
      /\ UNCHANGED <<ticks, accepted, lost, crashes>>
  BY DEF GiveBack, Drop, NoOtherBound
<1>2. i \in queue[s] /\ i \in gone
  BY <1>1 DEF Report
<1>3. i \notin queue'[s] /\ \A y \in Session : queue'[y] \subseteq queue[y] \cup {made + 1}
  BY <1>1, <1>2 DEF TypeOK
<1>4. ASSUME Unharmed' PROVE Gone(i)'
  BY <1>1, <1>2, <1>3, <1>4, DropsUnsent DEF Unharmed, Sends
<1> QED BY <1>2, <1>4 DEF Tells

LEMMA CancelTells ==
  ASSUME TypeOK, Safe, CancelTask, NEW i \in Item, result'[i] # result[i]
  PROVE  Tells(i)
PROOF
<1> DEFINE gone == tasks \ InFlight
           hit  == {s \in Session : queue[s] \cap gone # {}}
<1>1. /\ queue' = [s \in Session |-> queue[s] \ gone]
      /\ Report(UNION {queue[s] \cap gone : s \in hit}, "cancelled")
      /\ UNCHANGED <<ticks, accepted, lost, crashes>>
  BY DEF CancelTask, NoOtherBound
<1>2. PICK x \in Session : i \in queue[x] /\ i \in gone
  BY <1>1 DEF Report
<1>3. sending[x] # i
  BY <1>2, QueueAssumption DEF InFlight, Item
<1>4. i \notin queue'[x] /\ \A y \in Session : queue'[y] \subseteq queue[y] \cup {made + 1}
  BY <1>1, <1>2
<1>5. ASSUME Unharmed' PROVE Gone(i)'
  BY <1>1, <1>2, <1>3, <1>4, <1>5, DropsUnsent DEF Unharmed, Sends
<1> QED BY <1>2, <1>5 DEF Tells

LEMMA DeletedTells ==
  ASSUME TypeOK, Safe, NEW s \in Session, HearDeleted(s), NEW i \in Item,
         result'[i] # result[i]
  PROVE  Tells(i)
PROOF
<1>1. /\ queue' = [queue EXCEPT ![s] = @ \ queue[s]]
      /\ Report(queue[s] \cap queue[s], "cancelled") /\ Tear(queue[s])
      /\ UNCHANGED <<ticks, accepted, lost, crashes>>
  BY DEF HearDeleted, Drop, HearKeeps, bounds
<1>2. i \in queue[s]
  BY <1>1 DEF Report
<1>3. i \in torn' \/ sending[s] # i
  BY <1>1, <1>2, QueueAssumption DEF Tear, InFlight, Item
<1>4. i \notin queue'[s] /\ \A y \in Session : queue'[y] \subseteq queue[y] \cup {made + 1}
  BY <1>1, <1>2 DEF TypeOK
<1>5. ASSUME Unharmed', i \notin torn' PROVE Gone(i)'
  BY <1>1, <1>2, <1>3, <1>4, <1>5, DropsUnsent DEF Unharmed, Sends
<1> QED BY <1>2, <1>5 DEF Tells

LEMMA TickTells ==
  ASSUME TypeOK, Safe, NEW t \in Tick, Ticking(t), NEW i \in Item, result'[i] # result[i]
  PROVE  Tells(i)
PROOF
<1>1. \/ TargetRefused(t) \/ Refuses(t) \/ Sent(t)
  <2>1. CASE Unknown(t) \/ TargetKept(t) \/ SeesBusy(t) \/ SeesIdle(t) \/ SubagentsWork(t)
             \/ Overtaken(t) \/ HandOver(t) \/ Consents(t)
    BY <2>1 DEF Unknown, TargetKept, SeesBusy, SeesIdle, SubagentsWork, Overtaken, HandOver,
                Consents, Waits
  <2>2. CASE SendFails(t) \/ AnswerLost(t) \/ Accepts(t)
    BY <2>2 DEF SendFails, AnswerLost, Fails, Accepts
  <2> QED BY <2>1, <2>2 DEF Ticking
<1> DEFINE s == ticks[t].session
<1>2. /\ s \in Session /\ Ends(t) /\ UNCHANGED <<accepted, lost, crashes>>
      /\ queue' = [queue EXCEPT ![s] = @ \ {ticks[t].item}]
      /\ \E status : Report(queue[s] \cap {ticks[t].item}, status)
  BY <1>1 DEF TargetRefused, Refuses, Sent, Drop, bounds, Safe, OneSend
<1>3. i \in queue[s] /\ i = ticks[t].item
  BY <1>2 DEF Report
<1>4. i \notin queue'[s] /\ \A y \in Session : queue'[y] \subseteq queue[y] \cup {made + 1}
  BY <1>2, <1>3 DEF TypeOK
<1>5. \A u \in Tick : Sends(u)' => u # t /\ Sends(u) /\ ticks'[u] = ticks[u]
  BY <1>2 DEF Ends, IdleTick, Sends, TypeOK
<1>6. ASSUME Unharmed', result'[i] \in {"failed", "cancelled"}, i \notin torn'
      PROVE  Gone(i)'
  <2>1. Unharmed
    BY <1>2, <1>6 DEF Unharmed
  <2>2. CASE TargetRefused(t)
    <3>1. sending[s] # i
      BY <1>2, <1>3, <1>6, <2>2, QueueAssumption DEF TargetRefused, Tear, InFlight, Item
    <3> QED BY <1>2, <1>3, <1>4, <1>5, <2>1, <3>1, DropsUnsent
  <2>3. CASE Refuses(t)
    <3>1. ticks[t].pc = "before"
      BY <2>3 DEF Refuses
    <3>2. accepted[i] <= lost + crashes /\ accepted[i] \in Nat
      BY <1>3, <3>1 DEF Safe, Counted, TypeOK
    <3>3. accepted'[i] = 0
      BY <1>2, <2>1, <3>2 DEF Unharmed
    <3>4. \A u \in Tick : Sends(u)' => ticks'[u].item # i
      BY <1>3, <1>5, <3>1 DEF Safe, OneSend, Sends
    <3>5. ASSUME NEW y \in Session PROVE i \notin queue'[y]
      BY <1>2, <1>3, <1>4 DEF Safe, Separate, TypeOK
    <3> QED BY <3>3, <3>4, <3>5 DEF Gone
  <2>4. CASE Sent(t)
    <3>1. Report(queue[s] \cap {ticks[t].item}, "sent")
      BY <2>4 DEF Sent, Drop
    <3> QED BY <1>6, <3>1 DEF Report
  <2> QED BY <1>1, <2>2, <2>3, <2>4
<1> QED BY <1>2, <1>3, <1>6 DEF Tells

\* An item the scheduler hears of waited, and is gone when it is told so.
LEMMA ChangeTells ==
  ASSUME TypeOK, Safe, [Next]_vars, NEW i \in Item, result'[i] # result[i]
  PROVE  Tells(i)
PROOF
<1>1. ASSUME NEW s \in Session, Enqueue(s) \/ EnqueueTask(s)
      PROVE  Tells(i)
  BY <1>1, PutTells DEF Enqueue, EnqueueTask
<1>2. ASSUME NEW s \in Session, (\E j \in Item : Remove(s, j)) \/ TakeAll(s) \/ Clear(s)
      PROVE  Tells(i)
  BY <1>2, GiveBackTells DEF Remove, TakeAll, Clear
<1>3. ASSUME NEW s \in Session, Hearing(s)
      PROVE  Tells(i)
  BY <1>3, DeletedTells DEF Hearing, HearNothing, HearIdle, HearBusy, HearAborted
<1>4. \A s \in Session : /\ ~Reorder(s) /\ ~Hold(s) /\ ~Release(s) /\ ~HoldExpires(s)
                         /\ ~AbortWindowEnds(s) /\ ~BackoffEnds(s) /\ ~TickStops(s)
                         /\ \A t \in Tick : ~TickStarts(t, s)
  BY DEF Reorder, Hold, Release, HoldExpires, AbortWindowEnds, BackoffEnds, TickStops, TickStarts,
         history
<1>5. \A s \in Session : ~TurnEnds(s) /\ ~SubagentReturns(s) /\ ~Prompt(s) /\ ~Abort(s) /\ ~Delete(s)
  BY DEF TurnEnds, SubagentReturns, Prompt, Abort, Delete, World, history
<1>6. ~Reconnect /\ ~Persist /\ ~Crash /\ ~UNCHANGED vars
  BY DEF Reconnect, Persist, Crash, vars, history
<1> QED BY <1>1, <1>2, <1>3, <1>4, <1>5, <1>6, CancelTells, TickTells DEF Next

\* Nothing is spared again, and the numbers grow.
LEMMA MadeGrows ==
  ASSUME TypeOK, [Next]_vars
  PROVE  made' >= made /\ torn \subseteq torn' /\ (Unharmed' => Unharmed)
PROOF
<1>0. made \in Nat /\ lost \in Nat /\ crashes \in Nat
  BY QueueAssumption DEF TypeOK
<1>1. made' >= made /\ (Unharmed' => Unharmed)
  <2>1. ASSUME Calm PROVE made' >= made /\ (Unharmed' => Unharmed)
    BY <2>1 DEF Calm, Unharmed
  <2>2. ASSUME NEW t \in Tick, Ticking(t) PROVE made' >= made /\ (Unharmed' => Unharmed)
    <3>1. made' = made /\ crashes' = crashes /\ lost' >= lost
      BY <2>2, TickLeaves
    <3>2. lost' \in Nat
      BY TypeStep DEF TypeOK
    <3> QED BY <1>0, <3>1, <3>2 DEF Unharmed
  <2>3. ASSUME NEW t \in Tick, NEW s \in Session, TickStarts(t, s)
        PROVE  made' >= made /\ (Unharmed' => Unharmed)
    BY <1>0, <2>3 DEF TickStarts, bounds, Unharmed
  <2>4. CASE Crash
    BY <1>0, <2>4 DEF Crash, Unharmed
  <2>5. CASE UNCHANGED vars
    BY <1>0, <2>5 DEF vars, bounds, Unharmed
  <2> QED BY <2>1, <2>2, <2>3, <2>4, <2>5, CalmStep
<1>2. torn \subseteq torn'
  <2>1. ASSUME NEW s \in Session, Enqueue(s) \/ EnqueueTask(s) PROVE torn \subseteq torn'
    <3>1. Put(s, made + 1)
      BY <2>1 DEF Enqueue, EnqueueTask
    <3> QED BY <3>1 DEF Put, Tear
  <2>2. ASSUME NEW s \in Session, (\E j \in Item : Remove(s, j)) \/ TakeAll(s) \/ Clear(s)
        PROVE  torn \subseteq torn'
    BY <2>2 DEF Remove, TakeAll, Clear, GiveBack
  <2>3. ASSUME NEW s \in Session, Hearing(s) PROVE torn \subseteq torn'
    BY <2>3 DEF Hearing, HearNothing, HearIdle, HearBusy, HearAborted, HearDeleted, Tear
  <2>4. ASSUME NEW s \in Session, Reorder(s) \/ Hold(s) \/ Release(s) \/ HoldExpires(s)
        PROVE  torn \subseteq torn'
    BY <2>4 DEF Reorder, Hold, Release, HoldExpires, history
  <2>5. ASSUME NEW s \in Session, AbortWindowEnds(s) \/ BackoffEnds(s) \/ TickStops(s)
                                  \/ \E t \in Tick : TickStarts(t, s)
        PROVE  torn \subseteq torn'
    BY <2>5 DEF AbortWindowEnds, BackoffEnds, TickStops, TickStarts, history
  <2>6. ASSUME NEW s \in Session, TurnEnds(s) \/ SubagentReturns(s) \/ Prompt(s) \/ Abort(s) \/ Delete(s)
        PROVE  torn \subseteq torn'
    BY <2>6 DEF TurnEnds, SubagentReturns, Prompt, Abort, Delete, World, history
  <2>7. CASE CancelTask \/ Reconnect \/ Persist \/ Crash \/ UNCHANGED vars
    BY <2>7 DEF CancelTask, Reconnect, Persist, Crash, vars, history
  <2>8. ASSUME NEW t \in Tick, Ticking(t) PROVE torn \subseteq torn'
    <3>1. CASE Unknown(t) \/ TargetKept(t) \/ SeesBusy(t) \/ SeesIdle(t) \/ SubagentsWork(t)
               \/ Overtaken(t) \/ HandOver(t) \/ Consents(t)
      BY <3>1 DEF Unknown, TargetKept, SeesBusy, SeesIdle, SubagentsWork, Overtaken, HandOver,
                  Consents, Waits
    <3>2. CASE SendFails(t) \/ AnswerLost(t) \/ Accepts(t) \/ Refuses(t) \/ Sent(t)
      BY <3>2 DEF SendFails, AnswerLost, Fails, Accepts, Refuses, Sent
    <3>3. CASE TargetRefused(t)
      BY <3>3 DEF TargetRefused, Tear
    <3> QED BY <2>8, <3>1, <3>2, <3>3 DEF Ticking
  <2> QED BY <2>1, <2>2, <2>3, <2>4, <2>5, <2>6, <2>7, <2>8 DEF Next
<1> QED BY <1>1, <1>2

LEMMA ToldStep ==
  ASSUME TypeOK, Safe, Told, [Next]_vars
  PROVE  Told'
PROOF
<1>1. made' >= made /\ torn \subseteq torn' /\ (Unharmed' => Unharmed)
  BY MadeGrows
<1>2. made \in Nat /\ made' \in Nat
  BY TypeStep, QueueAssumption DEF TypeOK
<1>3. ASSUME NEW i \in Item, result'[i] # "none" PROVE i <= made
  <2>1. CASE result'[i] = result[i]
    BY <1>3, <2>1 DEF Told
  <2>2. CASE result'[i] # result[i]
    <3>1. PICK x \in Session : i \in queue[x]
      BY <2>2, ChangeTells DEF Tells
    <3> QED BY <3>1 DEF Safe, Separate
  <2> QED BY <2>1, <2>2
<1>4. ASSUME Unharmed', NEW i \in Item \ torn', result'[i] \in {"failed", "cancelled"}
      PROVE  Gone(i)'
  <2>1. CASE result'[i] = result[i]
    <3>1. i \in 1..made
      BY <1>2, <1>3, <1>4 DEF Item
    <3>2. Gone(i)
      BY <1>1, <1>4, <2>1 DEF Told
    <3> QED BY <1>4, <3>1, <3>2, GoneStays
  <2>2. CASE result'[i] # result[i]
    BY <1>4, <2>2, ChangeTells DEF Tells
  <2> QED BY <2>1, <2>2
<1>5. \A i \in Item : i <= made => i <= made'
  BY <1>1, <1>2 DEF Item
<1> QED BY <1>3, <1>4, <1>5 DEF Told

\* The scheduler is told the truth about its prompts, with any number of sessions, ticks
\* and messages: what it hears of as cancelled or failed was in no send, and no send finds
\* it again.
THEOREM ToldTruthSafe == Spec => []ToldTheTruth
PROOF
<1>1. Init => Told
  BY DEF Init, Told
<1>2. TypeOK /\ Safe /\ Told /\ [Next]_vars => Told'
  BY ToldStep
<1>3. Told => ToldTheTruth
  BY DEF Told, ToldTheTruth, Gone, Unharmed
<1> QED BY <1>1, <1>2, <1>3, TypeInit, TypeStep, SafeInit, SafeStep, PTL DEF Spec

-----------------------------------------------------------------------------
(* Who looks at a queue next.                                              *)

Waking(events) == \E k \in DOMAIN events : events[k] \in {"idle", "deleted"}

\* A turn that is told of either runs on, or its end is told of as well.
Heard(events, running) ==
  \A k \in DOMAIN events : events[k] = "busy" =>
    running \/ \E m \in DOMAIN events : m > k /\ events[m] \in {"idle", "deleted"}

\* Something other than a tick that will look at the queue, or a wake-up that came to nothing.
Eyed(s) == timers[s] \/ turn[s] \/ subagent[s] \/ missed[s] # {} \/ Waking(hub[s])

Attended(s) == \E t \in Tick : ticks[t].pc # "idle" /\ ticks[t].session = s

Looked ==
  /\ \A s \in Session : queue[s] # {} => Eyed(s) \/ Attended(s)
  /\ \A t \in Tick, s \in Session : ticks[t].pc = "answer" /\ ticks[t].session = s =>
       Eyed(s) \/ queue[s] \subseteq {ticks[t].item}
  /\ \A s \in Session : Heard(hub[s], turn[s])
  /\ \A s \in Session : sending[s] # None =>
       \E t \in Tick : Sends(t) /\ ticks[t].session = s

LEMMA TailHeard ==
  ASSUME NEW events \in Seq(Event), events # <<>>, NEW running \in BOOLEAN,
         Heard(events, running)
  PROVE  /\ Heard(Tail(events), running)
         /\ Waking(events) /\ Head(events) \notin {"idle", "deleted"} => Waking(Tail(events))
         /\ Head(events) = "busy" => running \/ Waking(Tail(events))
PROOF
<1> DEFINE n == Len(events)
           rest == Tail(events)
<1>1. /\ n \in Nat /\ n > 0 /\ DOMAIN events = 1..n /\ DOMAIN rest = 1..(n - 1)
      /\ \A k \in 1..(n - 1) : rest[k] = events[k + 1]
      /\ Head(events) = events[1]
  OBVIOUS
<1> HIDE DEF n, rest
<1>2. ASSUME NEW m \in 1..n, m > 1, events[m] \in {"idle", "deleted"}
      PROVE  m - 1 \in 1..(n - 1) /\ rest[m - 1] \in {"idle", "deleted"}
  BY <1>1, <1>2
<1>3. Heard(rest, running)
  <2> SUFFICES ASSUME NEW k \in 1..(n - 1), rest[k] = "busy", ~running
               PROVE  \E m \in 1..(n - 1) : m > k /\ rest[m] \in {"idle", "deleted"}
    BY <1>1 DEF Heard
  <2>1. k + 1 \in 1..n /\ events[k + 1] = "busy"
    BY <1>1
  <2>2. PICK m \in 1..n : m > k + 1 /\ events[m] \in {"idle", "deleted"}
    BY <1>1, <2>1 DEF Heard
  <2>3. m > 1 /\ m - 1 > k
    BY <2>2
  <2> QED BY <1>2, <2>2, <2>3
<1>4. Waking(events) /\ Head(events) \notin {"idle", "deleted"} => Waking(rest)
  <2> SUFFICES ASSUME NEW k \in 1..n, events[k] \in {"idle", "deleted"}, k # 1
               PROVE  Waking(rest)
    BY <1>1 DEF Waking
  <2>1. k > 1
    OBVIOUS
  <2> QED BY <1>1, <1>2, <2>1 DEF Waking
<1>5. Head(events) = "busy" => running \/ Waking(rest)
  <2> SUFFICES ASSUME events[1] = "busy", ~running PROVE Waking(rest)
    BY <1>1
  <2>1. PICK m \in 1..n : m > 1 /\ events[m] \in {"idle", "deleted"}
    BY <1>1 DEF Heard
  <2> QED BY <1>1, <1>2, <2>1 DEF Waking
<1> QED BY <1>3, <1>4, <1>5 DEF rest

LEMMA BusyHeard ==
  ASSUME NEW events \in Seq(Event)
  PROVE  /\ Heard(events, TRUE) /\ Heard(Append(events, "busy"), TRUE)
BY DEF Heard

\* The end of a turn is told of.
LEMMA EndHeard ==
  ASSUME NEW events \in Seq(Event),
         NEW end \in {<<"idle">>, <<"idle", "aborted">>, <<"deleted">>}
  PROVE  Waking(events \o end) /\ Heard(events \o end, FALSE)
PROOF
<1> DEFINE n == Len(events)
           all == events \o end
<1>1. /\ end[1] \in {"idle", "deleted"} /\ Len(end) \in 1..2 /\ end \in Seq(Event)
      /\ \A k \in DOMAIN end : end[k] # "busy"
  <2>1. CASE end = <<"idle">>
    BY <2>1 DEF Event
  <2>2. CASE end = <<"idle", "aborted">>
    BY <2>2 DEF Event
  <2>3. CASE end = <<"deleted">>
    BY <2>3 DEF Event
  <2> QED BY <2>1, <2>2, <2>3
<1>2. /\ n \in Nat /\ DOMAIN all = 1..(n + Len(end))
      /\ \A k \in 1..(n + Len(end)) : all[k] = IF k <= n THEN events[k] ELSE end[k - n]
  BY <1>1
<1> HIDE DEF n, all
<1>3. n + 1 \in DOMAIN all /\ all[n + 1] \in {"idle", "deleted"}
  BY <1>1, <1>2
<1>4. ASSUME NEW k \in DOMAIN all, all[k] = "busy" PROVE n + 1 > k
  <2> SUFFICES ASSUME k > n PROVE FALSE
    BY <1>2
  <2>1. k - n \in DOMAIN end /\ all[k] = end[k - n]
    BY <1>1, <1>2
  <2> QED BY <1>1, <1>4, <2>1
<1> QED BY <1>3, <1>4 DEF Waking, Heard, all

\* What a step of nobody's turn does for the eyes on a queue.
Keeps(s) ==
  /\ Heard(hub[s], turn[s])'
  /\ Eyed(s)' \/ queue'[s] = {} \/ (~Eyed(s) /\ queue'[s] \subseteq queue[s])

LEMMA SameKeeps ==
  ASSUME NEW x \in Session, Heard(hub[x], turn[x]), queue'[x] \subseteq queue[x],
         hub'[x] = hub[x], turn'[x] = turn[x], subagent'[x] = subagent[x],
         \/ timers'[x] = timers[x] /\ missed'[x] = missed[x]
         \/ timers'[x] \/ missed'[x] # {} \/ queue'[x] = {}
  PROVE  Keeps(x)
BY DEF Keeps, Eyed

LEMMA ArmKeeps ==
  ASSUME TypeOK, NEW x \in Session, NEW some, Arm(some)
  PROVE  timers'[x] \/ (timers'[x] = timers[x] /\ missed'[x] = missed[x])
PROOF
<1> DEFINE armed == {s \in some : queue'[s] # {}}
<1>1. /\ timers' = [s \in Session |-> timers[s] \/ s \in armed]
      /\ missed' = [s \in Session |-> IF s \in armed THEN {} ELSE missed[s]]
  BY DEF Arm
<1>2. timers[x] \in BOOLEAN
  BY DEF TypeOK
<1> HIDE DEF armed
<1>3. CASE x \in armed
  BY <1>1, <1>3
<1>4. CASE x \notin armed
  BY <1>1, <1>2, <1>4
<1> QED BY <1>3, <1>4

LEMMA RequestKeeps ==
  ASSUME TypeOK, NEW x \in Session, Heard(hub[x], turn[x]), NEW s \in Session,
         \/ Enqueue(s) \/ EnqueueTask(s) \/ (\E i \in Item : Remove(s, i)) \/ TakeAll(s)
         \/ (Clear(s) /\ s # x) \/ Reorder(s) \/ CancelTask
  PROVE  Keeps(x)
PROOF
<1>1. CASE Enqueue(s) \/ EnqueueTask(s)
  <2>1. Put(s, made + 1) /\ openCode' = openCode
    BY <1>1 DEF Enqueue, EnqueueTask, Put
  <2>2. CASE x = s
    <3>1. timers'[x]
      BY <2>1, <2>2 DEF Put
    <3> QED BY <2>1, <3>1 DEF Keeps, Eyed, openCode
  <2>3. CASE x # s
    <3> DEFINE stale == x \in Stale(s)
    <3>1. stale => queue'[x] = {}
      BY <2>1, <2>3 DEF Put
    <3>2. ~stale => queue'[x] = queue[x] /\ timers'[x] = timers[x] /\ missed'[x] = missed[x]
      BY <2>1, <2>3 DEF Put, TypeOK
    <3>3. UNCHANGED <<hub, turn, subagent>>
      BY <2>1 DEF openCode
    <3> HIDE DEF stale
    <3>4. queue'[x] \subseteq queue[x]
      BY <3>1, <3>2
    <3> QED BY <3>1, <3>2, <3>3, <3>4, SameKeeps
  <2> QED BY <2>2, <2>3
<1>2. CASE (\E i \in Item : Remove(s, i)) \/ TakeAll(s)
  <2>1. /\ \E gone : queue' = [queue EXCEPT ![s] = @ \ gone]
        /\ UNCHANGED <<openCode, timers, missed>>
    BY <1>2 DEF Remove, TakeAll, GiveBack, Drop
  <2>2. queue'[x] \subseteq queue[x]
    BY <2>1 DEF TypeOK
  <2> QED BY <2>1, <2>2, SameKeeps DEF openCode
<1>3. CASE Clear(s) /\ s # x
  <2>1. /\ \E gone : queue' = [queue EXCEPT ![s] = @ \ gone]
        /\ timers'[x] = timers[x]
        /\ UNCHANGED <<openCode, missed>>
    BY <1>3 DEF Clear, GiveBack, Drop, Disarm, TypeOK
  <2>2. queue'[x] \subseteq queue[x]
    BY <2>1 DEF TypeOK
  <2> QED BY <2>1, <2>2, SameKeeps DEF openCode
<1>4. CASE Reorder(s)
  BY <1>4, SameKeeps DEF Reorder, memory, openCode
<1>5. CASE CancelTask
  <2>1. \E some : Arm(some)
    BY <1>5 DEF CancelTask
  <2>2. timers'[x] \/ (timers'[x] = timers[x] /\ missed'[x] = missed[x])
    BY <2>1, ArmKeeps
  <2>3. queue'[x] \subseteq queue[x] /\ openCode' = openCode
    BY <1>5 DEF CancelTask
  <2> QED BY <2>2, <2>3, SameKeeps DEF openCode
<1> QED BY <1>1, <1>2, <1>3, <1>4, <1>5

LEMMA ServerKeeps ==
  ASSUME TypeOK, NEW x \in Session, Heard(hub[x], turn[x]), NEW s \in Session,
         \/ Hold(s) \/ Release(s) \/ HoldExpires(s) \/ AbortWindowEnds(s) \/ BackoffEnds(s)
         \/ TickStops(s) \/ Reconnect \/ Persist
  PROVE  Keeps(x)
PROOF
<1>1. CASE Hold(s) \/ TickStops(s)
  <2>1. /\ UNCHANGED <<queue, openCode>>
        /\ timers' = [timers EXCEPT ![s] = FALSE]
        /\ \/ missed' = missed /\ queue[s] = {}
           \/ \E why \in {"hold", "sending"} : missed' = [missed EXCEPT ![s] = @ \cup {why}]
    BY <1>1 DEF Hold, TickStops, Misses, Disarm, stored
  <2>2. \/ timers'[x] = timers[x] /\ missed'[x] = missed[x]
        \/ missed'[x] # {} \/ queue'[x] = {}
    <3>1. CASE missed' = missed /\ queue[s] = {}
      BY <2>1, <3>1 DEF TypeOK
    <3>2. ASSUME NEW why, missed' = [missed EXCEPT ![s] = @ \cup {why}]
          PROVE  IF x = s THEN missed'[x] # {} ELSE timers'[x] = timers[x] /\ missed'[x] = missed[x]
      <4>1. CASE x = s
        <5>1. missed'[x] = missed[x] \cup {why}
          BY <3>2, <4>1 DEF TypeOK
        <5> QED BY <4>1, <5>1
      <4>2. CASE x # s
        BY <2>1, <3>2, <4>2 DEF TypeOK
      <4> QED BY <4>1, <4>2
    <3> QED BY <2>1, <3>1, <3>2
  <2> QED BY <2>1, <2>2, SameKeeps DEF openCode
<1>2. CASE Release(s)
  <2>1. timers'[x] \/ (timers'[x] = timers[x] /\ missed'[x] = missed[x])
    BY <1>2, ArmKeeps DEF Release
  <2> QED BY <1>2, <2>1, SameKeeps DEF Release, stored, openCode
<1>3. CASE HoldExpires(s) \/ AbortWindowEnds(s) \/ BackoffEnds(s)
  BY <1>3, SameKeeps DEF HoldExpires, AbortWindowEnds, BackoffEnds, stored, openCode
<1>4. CASE Reconnect
  <2>1. timers'[x] \/ queue'[x] = {}
    BY <1>4 DEF Reconnect, Arm
  <2>2. hub'[x] = <<>>
    BY <1>4 DEF Reconnect, Everywhere
  <2> QED BY <2>1, <2>2 DEF Keeps, Eyed, Heard
<1>5. CASE Persist
  BY <1>5, SameKeeps DEF Persist, memory, openCode
<1> QED BY <1>1, <1>2, <1>3, <1>4, <1>5

LEMMA HearingKeeps ==
  ASSUME TypeOK, NEW x \in Session, Heard(hub[x], turn[x]), NEW s \in Session, Hearing(s)
  PROVE  Keeps(x)
PROOF
<1>1. /\ hub[s] # <<>> /\ hub' = [hub EXCEPT ![s] = Tail(@)]
      /\ UNCHANGED <<turn, subagent>>
  BY DEF Hearing, HearNothing, HearIdle, HearBusy, HearAborted, HearDeleted, Hear, HearKeeps
<1>2. CASE x # s
  <2>1. hub'[x] = hub[x]
    BY <1>1, <1>2 DEF TypeOK
  <2>2. queue'[x] = queue[x] /\ timers'[x] = timers[x] /\ missed'[x] = missed[x]
    <3>1. CASE HearNothing(s) \/ HearAborted(s) \/ HearBusy(s)
      BY <1>2, <3>1 DEF HearNothing, HearAborted, HearBusy, Disarm, TypeOK
    <3>2. CASE HearIdle(s)
      BY <1>2, <3>2 DEF HearIdle, Arm, TypeOK
    <3>3. CASE HearDeleted(s)
      BY <1>2, <3>3 DEF HearDeleted, Drop, Disarm, TypeOK
    <3> QED BY <3>1, <3>2, <3>3 DEF Hearing
  <2> QED BY <1>1, <2>1, <2>2, SameKeeps
<1>3. CASE x = s
  <2>1. hub[x] \in Seq(Event) /\ turn[x] \in BOOLEAN /\ hub'[x] = Tail(hub[x]) /\ hub[x] # <<>>
    BY <1>1, <1>3 DEF TypeOK
  <2>2. /\ Heard(hub'[x], turn[x])
        /\ Waking(hub[x]) /\ Head(hub[x]) \notin {"idle", "deleted"} => Waking(hub'[x])
        /\ Head(hub[x]) = "busy" => turn[x] \/ Waking(hub'[x])
    BY <2>1, TailHeard
  <2>3. Eyed(x)' \/ queue'[x] = {} \/ (~Eyed(x) /\ queue'[x] \subseteq queue[x])
    <3>1. CASE HearNothing(s)
      BY <1>3, <3>1 DEF HearNothing, Queued
    <3>2. CASE HearIdle(s)
      BY <1>3, <3>2 DEF HearIdle, Arm, Eyed
    <3>3. CASE HearBusy(s)
      BY <1>1, <1>3, <2>2, <3>3 DEF HearBusy, Eyed
    <3>4. CASE HearAborted(s)
      BY <1>1, <1>3, <2>2, <3>4 DEF HearAborted, Eyed
    <3>5. CASE HearDeleted(s)
      BY <1>3, <3>5 DEF HearDeleted, Drop, TypeOK
    <3> QED BY <3>1, <3>2, <3>3, <3>4, <3>5 DEF Hearing
  <2> QED BY <1>1, <2>2, <2>3 DEF Keeps
<1> QED BY <1>2, <1>3

LEMMA WorldKeeps ==
  ASSUME TypeOK, NEW x \in Session, Heard(hub[x], turn[x]), NEW s \in Session,
         TurnEnds(s) \/ SubagentReturns(s) \/ Prompt(s) \/ Abort(s) \/ Delete(s)
  PROVE  Keeps(x)
PROOF
<1>1. UNCHANGED <<queue, timers, missed>>
  BY DEF TurnEnds, SubagentReturns, Prompt, Abort, Delete, World, stored, memory
<1>2. CASE TurnEnds(s) \/ Abort(s) \/ Delete(s)
  <2>1. /\ turn' = [turn EXCEPT ![s] = FALSE]
        /\ \E end \in {<<"idle">>, <<"idle", "aborted">>, <<"deleted">>} :
             hub' = [hub EXCEPT ![s] = @ \o end]
        /\ subagent' = subagent \/ \E b \in BOOLEAN : subagent' = [subagent EXCEPT ![s] = b]
    <3>1. CASE TurnEnds(s)
      BY <3>1 DEF TurnEnds, Emits
    <3>2. CASE Abort(s)
      BY <3>2 DEF Abort, Emits
    <3>3. CASE Delete(s)
      BY <3>3 DEF Delete, Emits
    <3> QED BY <1>2, <3>1, <3>2, <3>3
  <2>2. CASE x # s
    <3>1. hub'[x] = hub[x]
      BY <2>1, <2>2 DEF TypeOK
    <3>2. turn'[x] = turn[x] /\ subagent'[x] = subagent[x]
      BY <2>1, <2>2 DEF TypeOK
    <3> QED BY <1>1, <3>1, <3>2, SameKeeps
  <2>3. CASE x = s
    <3>1. hub[x] \in Seq(Event) /\ ~turn'[x]
      BY <2>1, <2>3 DEF TypeOK
    <3>2. \E end \in {<<"idle">>, <<"idle", "aborted">>, <<"deleted">>} : hub'[x] = hub[x] \o end
      BY <2>1, <2>3 DEF TypeOK
    <3>3. Waking(hub'[x]) /\ Heard(hub'[x], FALSE)
      BY <3>1, <3>2, EndHeard
    <3> QED BY <3>1, <3>3 DEF Keeps, Eyed, Heard
  <2> QED BY <2>2, <2>3
<1>3. CASE SubagentReturns(s) \/ Prompt(s)
  <2>1. Begins(s)
    BY <1>3 DEF SubagentReturns, Prompt
  <2>2. CASE x # s
    <3>1. hub'[x] = hub[x] /\ turn'[x] = turn[x]
      BY <2>1, <2>2 DEF Begins, TypeOK
    <3>2. subagent'[x] = subagent[x]
      BY <1>3, <2>2 DEF SubagentReturns, Prompt, TypeOK
    <3> QED BY <1>1, <3>1, <3>2, SameKeeps
  <2>3. CASE x = s
    <3>1. turn'[x]
      BY <1>3, <2>3 DEF SubagentReturns, Prompt, Begins, TypeOK
    <3> QED BY <3>1 DEF Keeps, Eyed, Heard
  <2> QED BY <2>2, <2>3
<1> QED BY <1>2, <1>3

\* A step of nobody's turn that keeps the eyes on every queue.
LEMMA LookedKept ==
  ASSUME TypeOK, Looked, Calm, \A x \in Session : Keeps(x)
  PROVE  Looked'
PROOF
<1>1. ticks' = ticks /\ sending' = sending
  BY DEF Calm
<1>2. ASSUME NEW s \in Session, queue'[s] # {} PROVE Eyed(s)' \/ Attended(s)'
  <2>1. CASE Eyed(s)'
    BY <2>1
  <2>2. CASE ~Eyed(s) /\ queue'[s] \subseteq queue[s]
    <3>1. Attended(s)
      BY <1>2, <2>2 DEF Looked
    <3> QED BY <1>1, <3>1 DEF Attended
  <2> QED BY <1>2, <2>1, <2>2 DEF Keeps
<1>3. ASSUME NEW t \in Tick, NEW s \in Session, ticks[t].pc = "answer", ticks[t].session = s
      PROVE  Eyed(s)' \/ queue'[s] \subseteq {ticks[t].item}
  <2>1. Eyed(s) \/ queue[s] \subseteq {ticks[t].item}
    BY <1>3 DEF Looked
  <2>2. Eyed(s)' \/ queue'[s] = {} \/ (~Eyed(s) /\ queue'[s] \subseteq queue[s])
    BY DEF Keeps
  <2> QED BY <2>1, <2>2
<1>4. \A s \in Session : Heard(hub[s], turn[s])'
  BY DEF Keeps
<1>5. ASSUME NEW s \in Session, sending[s] # None
      PROVE  \E t \in Tick : Sends(t)' /\ ticks'[t].session = s
  BY <1>1, <1>5 DEF Looked, Sends
<1>6. \A t \in Tick : ticks'[t] = ticks[t]
  BY <1>1
<1> QED BY <1>1, <1>2, <1>3, <1>4, <1>5, <1>6 DEF Looked

\* A queue that is cleared keeps its item in flight at most, and the tick that sends it.
LEMMA ClearLooked ==
  ASSUME TypeOK, Safe, Looked, NEW s \in Session, Clear(s)
  PROVE  Looked'
PROOF
<1>1. /\ queue' = [queue EXCEPT ![s] = @ \ (queue[s] \ {sending[s]})]
      /\ UNCHANGED <<ticks, sending, openCode, missed>>
      /\ timers' = [timers EXCEPT ![s] = FALSE]
  BY DEF Clear, GiveBack, Drop, Disarm
<1>2. queue'[s] \subseteq {sending[s]} /\ queue'[s] \subseteq Item
  BY <1>1, TypeStep DEF TypeOK, Queue
<1>3. \A x \in Session : Heard(hub[x], turn[x])'
  BY <1>1 DEF Looked, openCode
<1>4. ASSUME NEW x \in Session, x # s
      PROVE  queue'[x] = queue[x] /\ (Eyed(x) => Eyed(x)')
  <2>1. queue'[x] = queue[x] /\ timers'[x] = timers[x]
    BY <1>1, <1>4 DEF TypeOK
  <2> QED BY <1>1, <2>1 DEF Eyed, openCode
<1>5. ASSUME NEW x \in Session, queue'[x] # {} PROVE Eyed(x)' \/ Attended(x)'
  <2>1. CASE x = s
    <3>1. sending[s] # None
      BY <1>2, <1>5, <2>1, QueueAssumption DEF Item
    <3> QED BY <1>1, <2>1, <3>1 DEF Looked, Attended, Sends
  <2>2. CASE x # s
    BY <1>1, <1>4, <1>5, <2>2 DEF Looked, Attended
  <2> QED BY <2>1, <2>2
<1>6. ASSUME NEW t \in Tick, NEW x \in Session, ticks[t].pc = "answer", ticks[t].session = x
      PROVE  Eyed(x)' \/ queue'[x] \subseteq {ticks[t].item}
  <2>1. CASE x = s
    <3>1. sending[s] = ticks[t].item
      BY <1>6, <2>1 DEF Safe, OneSend, Sends
    <3> QED BY <1>2, <2>1, <3>1
  <2>2. CASE x # s
    BY <1>4, <1>6, <2>2 DEF Looked
  <2> QED BY <2>1, <2>2
<1>7. \A x \in Session : sending[x] # None =>
        \E t \in Tick : Sends(t)' /\ ticks'[t].session = x
  BY <1>1 DEF Looked, Sends
<1> QED BY <1>1, <1>3, <1>5, <1>6, <1>7 DEF Looked

LEMMA StartLooked ==
  ASSUME TypeOK, Safe, Looked, NEW t \in Tick, NEW s \in Session, TickStarts(t, s)
  PROVE  Looked'
PROOF
<1>1. /\ ticks[t].pc = "idle" /\ sending[s] = None
      /\ \A u \in Tick : u # t => ticks'[u] = ticks[u]
      /\ ticks'[t].pc = "status" /\ ticks'[t].session = s
      /\ timers' = [timers EXCEPT ![s] = FALSE]
      /\ UNCHANGED <<queue, sending, missed, openCode>>
  BY DEF TickStarts, Disarm, stored, TypeOK
<1>2. ASSUME NEW x \in Session, x # s PROVE Eyed(x) => Eyed(x)'
  <2>1. timers'[x] = timers[x]
    BY <1>1, <1>2 DEF TypeOK
  <2> QED BY <1>1, <2>1 DEF Eyed, openCode
<1>3. ASSUME NEW u \in Tick, Sends(u) \/ Sends(u)'
      PROVE  u # t /\ Sends(u) /\ ticks[u].session \in Session /\ ticks[u].session # s
  <2>1. u # t /\ Sends(u)
    BY <1>1, <1>3 DEF Sends
  <2>2. ticks[u].session \in Session /\ ticks[u].item # None
        /\ sending[ticks[u].session] = ticks[u].item
    BY <2>1, MadeAreItems DEF Safe, OneSend, Sends
  <2> QED BY <1>1, <2>1, <2>2
<1>4. ASSUME NEW x \in Session, queue'[x] # {} PROVE Eyed(x)' \/ Attended(x)'
  <2>1. CASE x = s
    BY <1>1, <2>1 DEF Attended
  <2>2. CASE x # s
    <3>1. Eyed(x) \/ Attended(x)
      BY <1>1, <1>4 DEF Looked
    <3>2. Attended(x) => Attended(x)'
      BY <1>1 DEF Attended
    <3> QED BY <1>2, <2>2, <3>1, <3>2
  <2> QED BY <2>1, <2>2
<1>5. ASSUME NEW u \in Tick, NEW x \in Session, ticks'[u].pc = "answer", ticks'[u].session = x
      PROVE  Eyed(x)' \/ queue'[x] \subseteq {ticks'[u].item}
  <2>1. u # t /\ ticks'[u] = ticks[u] /\ x # s
    BY <1>1, <1>3, <1>5 DEF Sends
  <2> QED BY <1>1, <1>2, <1>5, <2>1 DEF Looked
<1>6. ASSUME NEW x \in Session, sending'[x] # None
      PROVE  \E u \in Tick : Sends(u)' /\ ticks'[u].session = x
  <2>1. PICK u \in Tick : Sends(u) /\ ticks[u].session = x
    BY <1>1, <1>6 DEF Looked
  <2>2. u # t
    BY <1>3, <2>1
  <2> QED BY <1>1, <2>1, <2>2 DEF Sends
<1>7. \A x \in Session : Heard(hub[x], turn[x])'
  BY <1>1 DEF Looked, openCode
<1> QED BY <1>4, <1>5, <1>6, <1>7 DEF Looked

\* A tick that ends leaves something that looks, no queue, or the tick that sends.
LEMMA EndLooked ==
  ASSUME TypeOK, Safe, Looked, NEW t \in Tick, Ticking(t), ticks'[t].pc = "idle",
         NEW s \in Session, ticks[t].session = s
  PROVE  \/ Eyed(s)' \/ queue'[s] = {}
         \/ \E u \in Tick : u # t /\ Sends(u) /\ ticks[u].session = s
PROOF
<1>1. ASSUME Arm({s}) PROVE timers'[s] \/ queue'[s] = {}
  BY <1>1 DEF Arm
<1>2. ASSUME NEW pc, pc # "idle", Goes(t, pc) PROVE FALSE
  BY <1>2 DEF Goes, TypeOK, TickState
<1>3. CASE Unknown(t) \/ TargetKept(t) \/ TargetRefused(t) \/ SubagentsWork(t) \/ Refuses(t)
           \/ SendFails(t) \/ AnswerLost(t)
  <2>1. Arm({s})
    BY <1>2, <1>3 DEF Unknown, TargetKept, TargetRefused, SubagentsWork, Refuses, SendFails,
                      AnswerLost, Fails
  <2> QED BY <1>1, <2>1 DEF Eyed
<1>4. CASE SeesIdle(t) \/ HandOver(t) \/ Consents(t) \/ Accepts(t)
  <2>1. \E pc \in {"subagents", "before", "sending", "answer"} : Goes(t, pc)
    BY <1>4 DEF SeesIdle, HandOver, Consents, Accepts
  <2> QED BY <1>2, <2>1
<1>5. CASE SeesBusy(t)
  BY <1>5 DEF SeesBusy, Waits, Outside, openCode, Eyed
<1>6. CASE Overtaken(t)
  <2>1. ticks[t].pc = "subagents" /\ timers' = timers /\ queue' = queue
    BY <1>6 DEF Overtaken, Waits
  <2>2. CASE timers[s] \/ queue[s] = {}
    BY <2>1, <2>2 DEF Eyed
  <2>3. CASE sending[s] # None
    <3>1. PICK u \in Tick : Sends(u) /\ ticks[u].session = s
      BY <2>3 DEF Looked
    <3> QED BY <2>1, <3>1 DEF Sends
  <2>4. CASE ~(timers[s] \/ queue[s] = {} \/ sending[s] # None)
    <3>1. missed' = [missed EXCEPT ![s] = @ \cup {"edit"}]
      BY <1>6, <2>4 DEF Overtaken, Misses
    <3>2. missed'[s] = missed[s] \cup {"edit"}
      BY <3>1 DEF TypeOK
    <3> QED BY <3>2 DEF Eyed
  <2> QED BY <2>2, <2>3, <2>4
<1>7. CASE Sent(t)
  <2>1. /\ ticks[t].pc = "answer" /\ UNCHANGED <<timers, missed, openCode>>
        /\ queue' = [queue EXCEPT ![s] = @ \ {ticks[t].item}]
    BY <1>7 DEF Sent, Drop, Outside
  <2>2. CASE Eyed(s)
    BY <2>1, <2>2 DEF Eyed, openCode
  <2>3. CASE queue[s] \subseteq {ticks[t].item}
    <3>1. queue'[s] = queue[s] \ {ticks[t].item}
      BY <2>1 DEF TypeOK
    <3> QED BY <2>3, <3>1
  <2> QED BY <2>1, <2>2, <2>3 DEF Looked
<1> QED BY <1>3, <1>4, <1>5, <1>6, <1>7 DEF Ticking

\* A tick puts out no eye, and OpenCode answers with a turn.
LEMMA TickEyes ==
  ASSUME TypeOK, NEW t \in Tick, Ticking(t), NEW x \in Session, Heard(hub[x], turn[x])
  PROVE  /\ Eyed(x) => Eyed(x)'
         /\ Heard(hub[x], turn[x])'
         /\ ticks'[t].pc = "answer" /\ ticks[t].session = x => Eyed(x)'
PROOF
<1>1. CASE Accepts(t)
  <2> DEFINE s == ticks[t].session
  <2>1. /\ turn' = [turn EXCEPT ![s] = TRUE]
        /\ hub' = IF turn[s] THEN hub ELSE [hub EXCEPT ![s] = Append(@, "busy")]
        /\ UNCHANGED <<timers, missed, subagent>>
    BY <1>1 DEF Accepts
  <2> HIDE DEF s
  <2>2. CASE x = s
    <3>1. turn'[x]
      BY <2>1, <2>2 DEF TypeOK
    <3> QED BY <3>1 DEF Eyed, Heard
  <2>3. CASE x # s
    <3>1. hub'[x] = hub[x] /\ turn'[x] = turn[x]
      BY <2>1, <2>3 DEF TypeOK
    <3> QED BY <2>1, <2>3, <3>1 DEF Eyed, s
  <2> QED BY <2>2, <2>3
<1>2. CASE ~Accepts(t)
  <2>1. openCode' = openCode
    <3>1. CASE Unknown(t) \/ TargetKept(t) \/ SeesBusy(t) \/ SeesIdle(t) \/ SubagentsWork(t)
               \/ Overtaken(t) \/ HandOver(t) \/ Consents(t)
      BY <3>1 DEF Unknown, TargetKept, SeesBusy, SeesIdle, SubagentsWork, Overtaken, HandOver,
                  Consents, Waits, Outside
    <3>2. CASE TargetRefused(t) \/ Refuses(t) \/ SendFails(t) \/ AnswerLost(t) \/ Sent(t)
      BY <3>2 DEF TargetRefused, Refuses, SendFails, AnswerLost, Sent, Fails, Outside
    <3> QED BY <1>2, <3>1, <3>2 DEF Ticking
  <2>2. timers'[x] \/ missed'[x] # {} \/ (timers'[x] = timers[x] /\ missed'[x] = missed[x])
    <3>1. CASE \E some : Arm(some)
      BY <3>1, ArmKeeps
    <3>2. CASE UNCHANGED <<timers, missed>>
      BY <3>2
    <3>3. CASE Overtaken(t) /\ ~UNCHANGED <<timers, missed>>
      <4>1. timers' = timers /\ missed' = [missed EXCEPT ![ticks[t].session] = @ \cup {"edit"}]
        BY <3>3 DEF Overtaken, Misses
      <4>2. CASE x = ticks[t].session
        <5>1. missed'[x] = missed[x] \cup {"edit"}
          BY <4>1, <4>2 DEF TypeOK
        <5> QED BY <5>1
      <4>3. CASE x # ticks[t].session
        BY <4>1, <4>3 DEF TypeOK
      <4> QED BY <4>2, <4>3
    <3>4. CASE Unknown(t) \/ TargetKept(t) \/ TargetRefused(t) \/ SubagentsWork(t) \/ Refuses(t)
               \/ SendFails(t) \/ AnswerLost(t)
      BY <3>1, <3>2, <3>4 DEF Unknown, TargetKept, TargetRefused, SubagentsWork, Refuses,
                              SendFails, AnswerLost, Fails
    <3>5. CASE SeesBusy(t) \/ SeesIdle(t) \/ HandOver(t) \/ Consents(t) \/ Sent(t)
      BY <3>2, <3>5 DEF SeesBusy, SeesIdle, HandOver, Consents, Sent
    <3> QED BY <1>2, <3>2, <3>3, <3>4, <3>5 DEF Ticking
  <2>3. ticks'[t].pc # "answer"
    <3>1. Ends(t) \/ \E pc \in {"validating", "subagents", "before", "sending"} : Goes(t, pc)
      <4>1. CASE Unknown(t) \/ TargetKept(t) \/ TargetRefused(t) \/ SeesBusy(t) \/ SeesIdle(t)
                 \/ SubagentsWork(t) \/ Overtaken(t)
        BY <4>1 DEF Unknown, TargetKept, TargetRefused, SeesBusy, SeesIdle, SubagentsWork, Overtaken
      <4>2. CASE HandOver(t) \/ Consents(t) \/ Refuses(t) \/ SendFails(t) \/ AnswerLost(t) \/ Sent(t)
        BY <4>2 DEF HandOver, Consents, Refuses, SendFails, AnswerLost, Sent, Fails
      <4> QED BY <1>2, <4>1, <4>2 DEF Ticking
    <3> QED BY <3>1 DEF Ends, Goes, IdleTick, TypeOK, TickState
  <2> QED BY <2>1, <2>2, <2>3 DEF openCode, Eyed
<1> QED BY <1>1, <1>2

LEMMA TickLooked ==
  ASSUME TypeOK, Safe, Looked, NEW t \in Tick, Ticking(t)
  PROVE  Looked'
PROOF
<1> DEFINE s == ticks[t].session
<1>1. /\ \A u \in Tick : u # t => ticks'[u] = ticks[u]
      /\ ticks[t].pc # "idle"
      /\ \/ ticks'[t].pc = "idle"
         \/ ticks'[t].session = s /\ ticks'[t].item = ticks[t].item
  BY TickMoves
<1>2. s \in Session /\ \A x \in Session : queue'[x] \subseteq queue[x]
  BY <1>1, TickLeaves DEF Safe, OneSend
<1>3. \A x \in Session : /\ Eyed(x) => Eyed(x)'
                         /\ Heard(hub[x], turn[x])'
  BY TickEyes DEF Looked
<1>4. ASSUME NEW x \in Session, queue'[x] # {} PROVE Eyed(x)' \/ Attended(x)'
  <2>1. CASE x = s
    <3>1. CASE ticks'[t].pc = "idle"
      <4>1. \/ Eyed(x)'
            \/ \E u \in Tick : u # t /\ Sends(u) /\ ticks[u].session = x
        BY <1>4, <2>1, <3>1, EndLooked
      <4> QED BY <1>1, <4>1 DEF Attended, Sends
    <3>2. CASE ticks'[t].pc # "idle"
      BY <1>1, <2>1, <3>2 DEF Attended
    <3> QED BY <3>1, <3>2
  <2>2. CASE x # s
    <3>1. Eyed(x) \/ Attended(x)
      BY <1>2, <1>4 DEF Looked
    <3>2. Attended(x) => Attended(x)'
      BY <1>1, <2>2 DEF Attended
    <3> QED BY <1>3, <3>1, <3>2
  <2> QED BY <2>1, <2>2
<1>5. ASSUME NEW u \in Tick, NEW x \in Session, ticks'[u].pc = "answer", ticks'[u].session = x
      PROVE  Eyed(x)' \/ queue'[x] \subseteq {ticks'[u].item}
  <2>1. CASE u = t
    BY <1>1, <1>5, <2>1, TickEyes DEF Looked
  <2>2. CASE u # t
    BY <1>1, <1>2, <1>3, <1>5, <2>2 DEF Looked
  <2> QED BY <2>1, <2>2
<1>6. ASSUME NEW x \in Session, sending'[x] # None
      PROVE  \E u \in Tick : Sends(u)' /\ ticks'[u].session = x
  <2>1. CASE HandOver(t) /\ x = s
    <3>1. ticks'[t].pc \in {"before", "sending"} /\ ticks'[t].session = s
      BY <2>1 DEF HandOver, Goes, TypeOK, TickState
    <3> QED BY <2>1, <3>1 DEF Sends
  <2>2. CASE ~(HandOver(t) /\ x = s)
    <3>1. sending[x] # None /\ (Sends(t) /\ x = s => Sends(t)')
      <4>1. CASE Resolved(t)
        <5>1. sending' = [sending EXCEPT ![s] = None]
          BY <4>1 DEF Resolved
        <5> HIDE DEF s
        <5>2. x # s /\ sending'[x] = sending[x]
          BY <1>2, <1>6, <5>1 DEF TypeOK
        <5> QED BY <1>6, <5>2
      <4>2. CASE HandOver(t)
        <5>1. sending' = [sending EXCEPT ![s] = ticks[t].item] /\ ticks[t].pc = "subagents"
          BY <4>2 DEF HandOver
        <5> HIDE DEF s
        <5>2. sending'[x] = sending[x]
          BY <2>2, <4>2, <5>1 DEF TypeOK
        <5> QED BY <1>6, <2>2, <4>2, <5>2
      <4>3. CASE Consents(t) \/ Accepts(t)
        <5>1. sending' = sending /\ \E pc \in {"sending", "answer"} : Goes(t, pc)
          BY <4>3 DEF Consents, Accepts, Waits
        <5>2. ticks'[t].pc \in {"sending", "answer"}
          BY <5>1 DEF Goes, TypeOK, TickState
        <5> QED BY <1>6, <5>1, <5>2 DEF Sends
      <4>4. CASE Unknown(t) \/ TargetKept(t) \/ TargetRefused(t) \/ SeesBusy(t) \/ SeesIdle(t)
                 \/ SubagentsWork(t) \/ Overtaken(t)
        <5>1. sending' = sending /\ ~Sends(t)
          BY <4>4 DEF Unknown, TargetKept, TargetRefused, SeesBusy, SeesIdle, SubagentsWork,
                      Overtaken, Waits, Sends
        <5> QED BY <1>6, <5>1
      <4>5. CASE Refuses(t) \/ SendFails(t) \/ AnswerLost(t) \/ Sent(t)
        BY <4>1, <4>5 DEF Refuses, SendFails, AnswerLost, Sent, Fails
      <4> QED BY <4>1, <4>2, <4>3, <4>4, <4>5 DEF Ticking
    <3>2. PICK u \in Tick : Sends(u) /\ ticks[u].session = x
      BY <3>1 DEF Looked
    <3>3. CASE u # t
      BY <1>1, <3>2, <3>3 DEF Sends
    <3>4. CASE u = t
      <4>1. x = s /\ Sends(t)'
        BY <3>1, <3>2, <3>4
      <4> QED BY <1>1, <4>1 DEF Sends
    <3> QED BY <3>3, <3>4
  <2> QED BY <2>1, <2>2
<1> QED BY <1>3, <1>4, <1>5, <1>6 DEF Looked

LEMMA LookedStep ==
  ASSUME TypeOK, Safe, Looked, [Next]_vars
  PROVE  Looked'
PROOF
<1>1. ASSUME \A x \in Session : Keeps(x), Calm PROVE Looked'
  BY <1>1, LookedKept
<1>2. CASE Crash
  <2>1. /\ \A t \in Tick : ticks'[t].pc = "idle"
        /\ \A s \in Session : /\ queue'[s] # {} => timers'[s]
                              /\ sending'[s] = None /\ hub'[s] = <<>>
    BY <1>2 DEF Crash, IdleTick, Everywhere
  <2> QED BY <2>1 DEF Looked, Eyed, Heard
<1>3. CASE UNCHANGED vars
  BY <1>3 DEF vars, memory, stored, openCode, Looked, Eyed, Attended, Sends
<1>4. ASSUME NEW s \in Session, Clear(s) PROVE Looked'
  BY <1>4, ClearLooked
<1>5. ASSUME NEW t \in Tick, NEW s \in Session, TickStarts(t, s) PROVE Looked'
  BY <1>5, StartLooked
<1>6. ASSUME NEW t \in Tick, Ticking(t) PROVE Looked'
  BY <1>6, TickLooked
<1>7. CASE Next /\ ~Crash /\ \A t \in Tick : ~Ticking(t) /\ \A s \in Session : ~TickStarts(t, s)
  <2>1. Calm
    BY <1>7, CalmStep
  <2>2. CASE \A s \in Session : ~Clear(s)
    <3>1. ASSUME NEW x \in Session PROVE Keeps(x)
      <4>1. Heard(hub[x], turn[x])
        BY DEF Looked
      <4> QED BY <1>7, <2>2, <4>1, RequestKeeps, ServerKeeps, HearingKeeps, WorldKeeps DEF Next
    <3> QED BY <1>1, <2>1, <3>1
  <2> QED BY <1>4, <2>2
<1> QED BY <1>2, <1>3, <1>5, <1>6, <1>7

\* A queue that can be sent has something coming that will look at it, or its last wake-up
\* came to nothing, with any number of sessions, ticks, events and messages.
THEOREM QueueWatched == Spec => []Watched
PROOF
<1>1. Init => Looked
  BY DEF Init, Everywhere, IdleTick, Looked, Heard
<1>2. TypeOK /\ Safe /\ Looked /\ [Next]_vars => Looked'
  BY LookedStep
<1>3. ASSUME TypeOK, Looked, NEW s \in Session, queue[s] # {}
      PROVE  \/ timers[s] \/ HasTick(s)
             \/ turn[s] \/ subagent[s] \/ hub[s] # <<>>
             \/ missed[s] # {}
  <2>1. hub[s] = <<>> => ~Waking(hub[s])
    BY DEF Waking
  <2> QED BY <1>3, <2>1 DEF Looked, Eyed, Attended, HasTick
<1>4. TypeOK /\ Looked => Watched
  BY <1>3 DEF Watched, Queued
<1> QED BY <1>1, <1>2, <1>4, TypeInit, TypeStep, SafeInit, SafeStep, PTL DEF Spec
=============================================================================
