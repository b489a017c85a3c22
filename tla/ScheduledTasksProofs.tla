------------------------ MODULE ScheduledTasksProofs ------------------------
(***************************************************************************)
(* Proofs about ScheduledTasks.                                            *)
(*                                                                         *)
(* An occurrence runs once: the claim compares with the last occurrence    *)
(* claimed only, so the invariant says that whatever ran is not after it;  *)
(* what is due is not after the clock, which keeps every occurrence in     *)
(* range.  The slots that are taken are those of runs under way.  A mark   *)
(* in the file has a run that has begun and will take it back.  A server   *)
(* whose copy of a task agrees with the stored one is led to what is to    *)
(* come, and no step but a crash or a change by people ends that.          *)
(***************************************************************************)
EXTENDS ScheduledTasks, SequenceTheorems, FiniteSetTheorems, WellFoundedInduction,
        TLAPS

Stored == Record \cup {None}
Entry  == [task : Task, due : Occurrence]

\* What is waiting or begun has fallen due, and what is begun is a task.
Fallen ==
  /\ \A s \in Server : \A i \in DOMAIN entries[s] : Due(entries[s][i].due) <= clock
  /\ \A s \in Server, t \in Task :
       /\ runs[s][t].pc = "claim" => runs[s][t].due \in Occurrence /\ Due(runs[s][t].due) <= clock
       /\ runs[s][t].pc # "idle" => runs[s][t].task \in Record

Slots ==
  /\ keys \in [Server -> SUBSET Task] /\ running \in [Server -> SUBSET Task]
  /\ entries \in [Server -> Seq(Entry)]
  /\ runs \in [Server -> [Task -> RunState]]
  /\ unpumped \in [Server -> BOOLEAN]
  /\ Fallen

Timers ==
  /\ timers \in [Server -> [Task -> Occurrence \cup {None}]]
  /\ lost \in [Server -> SUBSET Task]

Copies ==
  /\ file \in [Task -> Stored] /\ shown \in [Task -> Stored]
  /\ tasks \in [Server -> [Task -> Stored]] /\ listed \in [Server -> [Task -> Stored]]

Counts ==
  /\ clock \in 0..MaxClock
  /\ live \in [Server -> BOOLEAN] /\ owed \in [Server -> BOOLEAN]
  /\ lists \in Nat /\ acts \in Nat /\ manuals \in Nat /\ faults \in Nat /\ crashes \in Nat

Claims ==
  /\ ran \in [Task -> [Occurrence -> Nat]]
  /\ late \in SUBSET Task /\ rewound \in SUBSET Task

TypeInv == Slots /\ Timers /\ Copies /\ Counts /\ Claims

\* What ran of a task is not after the last occurrence claimed, which ran.
Last(t) ==
  /\ \A o \in Occurrence : ran[t][o] <= 1
  /\ file[t] # None =>
       /\ file[t].last # None => ran[t][file[t].last] > 0
       /\ \A o \in Occurrence : ran[t][o] > 0 => file[t].last # None /\ o <= file[t].last

Once == \A t \in Task \ (late \cup rewound) : Last(t)

-----------------------------------------------------------------------------
(* Occurrences.                                                            *)

LEMMA Halves ==
  ASSUME NEW n \in 0..MaxClock
  PROVE  n \div 2 + 1 \in Occurrence /\ (n + 1) \div 2 + 1 \in Occurrence
BY ScheduleAssumption DEF Occurrence

LEMMA NextRunTyped ==
  ASSUME NEW task \in Record, NEW now \in 0..MaxClock
  PROVE  NextRun(task, now) \in Occurrence \cup {None}
BY Halves DEF NextRun, Record

LEMMA FollowingTyped ==
  ASSUME NEW task \in Record, NEW from \in 0..MaxClock
  PROVE  Following(task, from) \in Occurrence \cup {None}
BY NextRunTyped DEF Following, Record

LEMMA FromTyped ==
  ASSUME TypeInv, NEW s \in Server, NEW t \in Task, runs[s][t].pc = "claim"
  PROVE  From(s, t) = clock /\ From(s, t) \in 0..MaxClock
BY DEF TypeInv, Slots, Fallen, Counts, From, Later, Due, Occurrence

LEMMA KnownTyped ==
  ASSUME TypeInv, NEW s \in Server, NEW t \in Task, runs[s][t].pc # "idle"
  PROVE  Known(s, t) \in Record
BY DEF TypeInv, Slots, Fallen, Copies, Stored, Known

LEMMA ArmTyped ==
  ASSUME Timers, NEW s \in Server, NEW t \in Task, NEW o \in Occurrence \cup {None},
         Arm(s, t, o)
  PROVE  Timers'
PROOF
<1>1. CASE o = None
  BY <1>1 DEF Timers, Arm
<1>2. CASE o # None
  <2>1. /\ timers' = [timers EXCEPT ![s][t] = o]
        /\ lost' = [lost EXCEPT ![s] = @ \ {t}]
    BY <1>2 DEF Arm
  <2> HIDE DEF Occurrence
  <2> QED BY <2>1 DEF Timers
<1> QED BY <1>1, <1>2

LEMMA RememberTyped ==
  ASSUME tasks \in [Server -> [Task -> Stored]], NEW s \in Server, NEW t \in Task,
         NEW task \in Stored, Remember(s, t, task)
  PROVE  tasks' \in [Server -> [Task -> Stored]]
BY DEF Remember

-----------------------------------------------------------------------------
(* The queue and its slots.                                                *)

LEMMA GoesTyped ==
  ASSUME Slots, clock' = clock, NEW s \in Server, NEW t \in Task,
         NEW pc \in {"unclaimed", "session", "complete", "retry"},
         runs[s][t].pc # "idle", Goes(s, t, pc)
  PROVE  Slots'
PROOF
<1> USE DEF Slots, Goes
<1>1. runs' \in [Server -> [Task -> RunState]]
  <2>0. runs[s][t] \in RunState
    OBVIOUS
  <2>1. [runs[s][t] EXCEPT !.pc = pc] \in RunState
    <3> DEFINE r == runs[s][t]
               pcs == {"idle", "claim", "unclaimed", "start", "session", "complete", "retry"}
    <3>1. pc \in pcs
      OBVIOUS
    <3>2. RunState = [pc : pcs, manual : BOOLEAN, due : Occurrence \cup {None},
                      task : Record \cup {None}]
      BY DEF RunState
    <3> HIDE DEF pcs, Occurrence, Record, Slots, Goes, r
    <3>3. r \in RunState
      BY <2>0 DEF r
    <3>4. [r EXCEPT !.pc = pc] \in RunState
      BY <3>1, <3>2, <3>3, ZenonT(30)
    <3> QED BY <3>4 DEF r
  <2>2. runs' = [runs EXCEPT ![s] = [runs[s] EXCEPT ![t] = [runs[s][t] EXCEPT !.pc = pc]]]
    OBVIOUS
  <2> QED BY <2>1, <2>2
<1>2. \A x \in Server, u \in Task :
        /\ runs'[x][u].task = runs[x][u].task /\ runs'[x][u].due = runs[x][u].due
        /\ runs'[x][u].pc = IF x = s /\ u = t THEN pc ELSE runs[x][u].pc
  BY DEF RunState
<1>3. Fallen'
  BY <1>2 DEF Fallen
<1> QED BY <1>1, <1>3

LEMMA PumpTyped ==
  ASSUME Slots, clock' = clock, tasks' \in [Server -> [Task -> Stored]],
         NEW s \in Server, NEW taken, NEW waiting \in Seq(Entry), NEW over,
         taken.keys \in SUBSET Task, taken.running \in SUBSET Task,
         \A i \in DOMAIN waiting : Due(waiting[i].due) <= clock,
         Pump(s, taken, waiting, over)
  PROVE  Slots'
PROOF
<1> DEFINE fit == {i \in DOMAIN waiting :
                     /\ Enabled(tasks'[s][waiting[i].task])
                     /\ waiting[i].task \notin taken.running
                     /\ \A j \in 1..(i - 1) : waiting[j].task # waiting[i].task}
           looked == {i \in DOMAIN waiting :
                        Cardinality(taken.running) + Cardinality({j \in fit : j < i}) < Limit}
           begun == fit \cap looked
           Of(entriesSeen) == {waiting[i].task : i \in entriesSeen}
           First(t) == CHOOSE i \in begun : waiting[i].task = t
           rest == SubSeq(waiting, Cardinality(looked) + 1, Len(waiting))
<1>0. ASSUME NEW i \in DOMAIN waiting
      PROVE  waiting[i] \in Entry /\ waiting[i].task \in Task /\ waiting[i].due \in Occurrence
  <2>1. waiting[i] \in Entry
    BY ElementOfSeq
  <2> QED BY <2>1 DEF Entry
<1>1. /\ entries' = [entries EXCEPT ![s] = rest]
      /\ keys' = [keys EXCEPT ![s] = taken.keys \ Of(looked)]
      /\ running' = [running EXCEPT ![s] = taken.running \cup Of(begun)]
      /\ unpumped' = [unpumped EXCEPT ![s] = FALSE]
      /\ runs' = [runs EXCEPT ![s] = [t \in Task |->
           IF t \in Of(begun) THEN Begun(FALSE, waiting[First(t)].due, tasks'[s][t])
           ELSE IF t = over THEN NoRun ELSE runs[s][t]]]
  BY DEF Pump
<1>2. Cardinality(looked) \in Nat
  <2>1. looked \in SUBSET (1..Len(waiting)) /\ Len(waiting) \in Nat
    OBVIOUS
  <2> HIDE DEF looked
  <2>2. IsFiniteSet(1..Len(waiting))
    BY <2>1, FS_Interval
  <2>3. IsFiniteSet(looked)
    BY <2>1, <2>2, FS_Subset
  <2> QED BY <2>3, FS_CardinalityType
<1>3. /\ rest \in Seq(Entry)
      /\ \A i \in DOMAIN rest : Due(rest[i].due) <= clock
  <2> DEFINE k == Cardinality(looked)
  <2> HIDE DEF k, looked
  <2>2. k \in Nat
    BY <1>2 DEF k
  <2>1. \A i \in (k + 1)..Len(waiting) : waiting[i] \in Entry
    BY <1>0, <2>2
  <2>3. /\ rest \in Seq(Entry)
        /\ Len(rest) = IF k + 1 <= Len(waiting) THEN Len(waiting) - (k + 1) + 1 ELSE 0
        /\ \A i \in 1..(Len(waiting) - (k + 1) + 1) : rest[i] = waiting[i + (k + 1) - 1]
    BY <2>1, <2>2, SubSeqProperties DEF k
  <2>4. ASSUME NEW i \in DOMAIN rest
        PROVE  i + k \in DOMAIN waiting /\ rest[i] = waiting[i + k]
    BY <2>2, <2>3
  <2> QED BY <2>3, <2>4
<1> HIDE DEF rest, fit
<1>4. ASSUME NEW t \in Of(begun)
      PROVE  /\ First(t) \in DOMAIN waiting /\ waiting[First(t)].task = t
             /\ First(t) \in fit
  OBVIOUS
<1>5. Of(looked) \subseteq Task /\ Of(begun) \subseteq Task
  BY <1>0 DEF fit
<1>6. ASSUME NEW t \in Of(begun)
      PROVE  tasks'[s][t] \in Record
  <2>1. Enabled(tasks'[s][t])
    BY <1>4, <1>6 DEF fit
  <2>2. tasks'[s][t] \in Stored
    BY <1>5, <1>6
  <2> QED BY <2>1, <2>2 DEF Enabled, Stored
<1> DEFINE Run(t) == IF t \in Of(begun)
                       THEN Begun(FALSE, waiting[First(t)].due, tasks'[s][t])
                       ELSE IF t = over THEN NoRun ELSE runs[s][t]
<1>7. ASSUME NEW t \in Task
      PROVE  /\ Run(t) \in RunState
             /\ Run(t).pc = "claim" => Run(t).due \in Occurrence /\ Due(Run(t).due) <= clock
             /\ Run(t).pc # "idle" => Run(t).task \in Record
  <2>1. CASE t \in Of(begun)
    <3> DEFINE o == waiting[First(t)].due
    <3>1. First(t) \in DOMAIN waiting
      BY <1>4, <2>1
    <3>2. Run(t) = [pc |-> "claim", manual |-> FALSE, due |-> o, task |-> tasks'[s][t]]
      BY <2>1 DEF Begun
    <3> HIDE DEF Run, First, Of, begun, looked
    <3>3. o \in Occurrence /\ Due(o) <= clock
      BY <1>0, <3>1
    <3>4. tasks'[s][t] \in Record
      BY <1>6, <2>1
    <3> HIDE DEF o, Occurrence, Record
    <3>5. Run(t) \in RunState
      BY <3>2, <3>3, <3>4 DEF RunState
    <3> QED BY <3>2, <3>3, <3>4, <3>5
  <2>2. CASE t \notin Of(begun) /\ t = over
    BY <2>2 DEF NoRun, RunState
  <2>3. CASE t \notin Of(begun) /\ t # over
    <3>1. Run(t) = runs[s][t]
      BY <2>3
    <3> HIDE DEF Run
    <3> QED BY <3>1 DEF Slots, Fallen
  <2> QED BY <2>1, <2>2, <2>3
<1>8. runs' = [runs EXCEPT ![s] = [t \in Task |-> Run(t)]]
  BY <1>1
<1> HIDE DEF Run, Of, begun, looked, First
<1>9. runs' \in [Server -> [Task -> RunState]]
  BY <1>7, <1>8 DEF Slots
<1>10. Fallen'
  <2>1. \A x \in Server : \A i \in DOMAIN entries'[x] : Due(entries'[x][i].due) <= clock'
    BY <1>1, <1>3 DEF Slots, Fallen
  <2>2. \A x \in Server, t \in Task : runs'[x][t] = IF x = s THEN Run(t) ELSE runs[x][t]
    BY <1>8 DEF Slots
  <2>3. ASSUME NEW x \in Server, NEW t \in Task
        PROVE  /\ runs'[x][t].pc = "claim"
                    => runs'[x][t].due \in Occurrence /\ Due(runs'[x][t].due) <= clock'
               /\ runs'[x][t].pc # "idle" => runs'[x][t].task \in Record
    <3>1. CASE x = s
      BY <1>7, <2>2, <3>1
    <3>2. CASE x # s
      BY <2>2, <3>2 DEF Slots, Fallen
    <3> QED BY <3>1, <3>2
  <2> QED BY <2>1, <2>3 DEF Fallen
<1>11. /\ keys' \in [Server -> SUBSET Task] /\ running' \in [Server -> SUBSET Task]
       /\ entries' \in [Server -> Seq(Entry)] /\ unpumped' \in [Server -> BOOLEAN]
  BY <1>1, <1>3, <1>5 DEF Slots
<1> QED BY <1>9, <1>10, <1>11 DEF Slots

LEMMA ReleaseTyped ==
  ASSUME Slots, clock' = clock, tasks' \in [Server -> [Task -> Stored]],
         NEW s \in Server, NEW t \in Task, Release(s, t)
  PROVE  Slots'
PROOF
<1>1. CASE runs[s][t].manual
  <2>1. /\ running' = [running EXCEPT ![s] = @ \ {t}]
        /\ runs' = [runs EXCEPT ![s][t] = NoRun]
        /\ unpumped' = [unpumped EXCEPT ![s] = TRUE]
        /\ entries' = entries /\ keys' = keys
    BY <1>1 DEF Release
  <2>2. NoRun \in RunState /\ NoRun.pc = "idle"
    BY DEF NoRun, RunState
  <2> HIDE DEF NoRun
  <2>3. /\ running' \in [Server -> SUBSET Task]
        /\ unpumped' \in [Server -> BOOLEAN]
        /\ runs' \in [Server -> [Task -> RunState]]
    BY <2>1, <2>2 DEF Slots
  <2>4. \A x \in Server, u \in Task : runs'[x][u] = IF x = s /\ u = t THEN NoRun ELSE runs[x][u]
    BY <2>1 DEF Slots
  <2>5. Fallen'
    BY <2>1, <2>2, <2>4 DEF Slots, Fallen
  <2> QED BY <2>1, <2>3, <2>5 DEF Slots
<1>2. CASE ~runs[s][t].manual
  <2> DEFINE taken == [keys |-> keys[s], running |-> running[s] \ {t}]
  <2>1. Pump(s, taken, entries[s], t)
    BY <1>2 DEF Release
  <2>2. /\ taken.keys \in SUBSET Task /\ taken.running \in SUBSET Task
        /\ entries[s] \in Seq(Entry)
        /\ \A i \in DOMAIN entries[s] : Due(entries[s][i].due) <= clock
    BY DEF Slots, Fallen
  <2> HIDE DEF taken
  <2> QED BY <2>1, <2>2, PumpTyped
<1> QED BY <1>1, <1>2

-----------------------------------------------------------------------------
(* The steps of a run.                                                     *)

LEMMA RunKept ==
  ASSUME Counts, Copies, RunKeeps, Fault \/ NoFault,
         file' \in [Task -> Stored], tasks' \in [Server -> [Task -> Stored]]
  PROVE  Counts' /\ Copies' /\ clock' = clock
BY DEF Counts, Copies, RunKeeps, Fault, NoFault

\* What a run writes is a task.
LEMMA Written ==
  ASSUME Copies, NEW t \in Task, NEW task \in Stored
  PROVE  [file EXCEPT ![t] = task] \in [Task -> Stored]
BY DEF Copies

LEMMA Edited ==
  ASSUME NEW task \in Record, NEW b \in BOOLEAN, NEW o \in Occurrence,
         NEW n \in Occurrence \cup {None}
  PROVE  /\ [task EXCEPT !.enabled = b, !.due = o] \in Record
         /\ [task EXCEPT !.running = b, !.next = n] \in Record
         /\ [task EXCEPT !.last = o, !.running = b, !.next = n] \in Record
PROOF
<1> DEFINE Next1 == Occurrence \cup {None}
<1>1. o \in Next1 /\ n \in Next1
  OBVIOUS
<1>2. Record = [enabled : BOOLEAN, kind : Kind, due : Occurrence, last : Next1,
                next : Next1, running : BOOLEAN]
  BY DEF Record
<1> HIDE DEF Next1, Occurrence, Kind
<1>3. [task EXCEPT !.enabled = b, !.due = o] \in Record
  BY <1>1, <1>2, ZenonT(30)
<1>4. [task EXCEPT !.running = b, !.next = n] \in Record
  BY <1>1, <1>2, ZenonT(30)
<1>5. [task EXCEPT !.last = o, !.running = b, !.next = n] \in Record
  BY <1>1, <1>2, ZenonT(30)
<1> QED BY <1>3, <1>4, <1>5

LEMMA ClaimTyped ==
  ASSUME TypeInv, NEW s \in Server, NEW t \in Task, Claim(s, t)
  PROVE  TypeInv'
PROOF
<1> DEFINE o == runs[s][t].due
           n == NextRun(runs[s][t].task, From(s, t))
           written == [file[t] EXCEPT !.last = o, !.running = TRUE, !.next = n]
<1>1. /\ runs[s][t].pc = "claim" /\ file[t] # None
      /\ file' = [file EXCEPT ![t] = written]
      /\ Remember(s, t, file'[t]) /\ Goes(s, t, "session")
      /\ ran' = [ran EXCEPT ![t][o] = @ + 1]
      /\ late' = IF \E x \in Occurrence : x > o /\ ran[t][x] > 0 THEN late \cup {t} ELSE late
      /\ RunKeeps /\ NoFault /\ timers' = timers /\ lost' = lost /\ rewound' = rewound
  BY DEF Claim, InRun
<1>2. o \in Occurrence /\ runs[s][t].task \in Record
  BY <1>1 DEF TypeInv, Slots, Fallen
<1>3. n \in Occurrence \cup {None}
  BY <1>1, <1>2, FromTyped, NextRunTyped
<1>4. file[t] \in Record
  BY <1>1 DEF TypeInv, Copies, Stored
<1> HIDE DEF n, o
<1>5. written \in Record
  BY <1>2, <1>3, <1>4, Edited
<1> HIDE DEF written
<1>6. file' \in [Task -> Stored] /\ file'[t] \in Stored
  BY <1>1, <1>5, Written DEF TypeInv, Copies, Stored
<1>7. tasks' \in [Server -> [Task -> Stored]]
  BY <1>1, <1>6, RememberTyped DEF TypeInv, Copies
<1>8. Counts' /\ Copies' /\ clock' = clock
  BY <1>1, <1>6, <1>7, RunKept DEF TypeInv
<1>9. Slots'
  BY <1>1, <1>8, GoesTyped DEF TypeInv
<1>10. Claims' /\ Timers'
  BY <1>1, <1>2 DEF TypeInv, Claims, Timers
<1> QED BY <1>8, <1>9, <1>10 DEF TypeInv

LEMMA ClaimLostTyped ==
  ASSUME TypeInv, NEW s \in Server, NEW t \in Task, ClaimLost(s, t)
  PROVE  TypeInv'
PROOF
<1> DEFINE n == IF file[t] = None THEN None ELSE Following(file[t], From(s, t))
<1>1. /\ runs[s][t].pc = "claim"
      /\ Remember(s, t, file[t]) /\ Arm(s, t, n) /\ Release(s, t)
      /\ RunKeeps /\ NoFault /\ file' = file
      /\ ran' = ran /\ late' = late /\ rewound' = rewound
  BY DEF ClaimLost, InRun, history
<1>2. file[t] \in Stored
  BY DEF TypeInv, Copies
<1>3. n \in Occurrence \cup {None}
  BY <1>1, <1>2, FromTyped, FollowingTyped DEF Stored
<1> HIDE DEF n
<1>4. tasks' \in [Server -> [Task -> Stored]]
  BY <1>1, <1>2, RememberTyped DEF TypeInv, Copies
<1>5. Counts' /\ Copies' /\ clock' = clock
  BY <1>1, <1>4, RunKept DEF TypeInv, Copies
<1>6. Slots'
  BY <1>1, <1>4, <1>5, ReleaseTyped DEF TypeInv
<1>7. Claims' /\ Timers'
  BY <1>1, <1>3, ArmTyped DEF TypeInv, Claims
<1> QED BY <1>5, <1>6, <1>7 DEF TypeInv

LEMMA ClaimFailsTyped ==
  ASSUME TypeInv, NEW s \in Server, NEW t \in Task, ClaimFails(s, t)
  PROVE  TypeInv'
PROOF
<1> DEFINE n == Following(Known(s, t), From(s, t))
<1>1. /\ runs[s][t].pc = "claim"
      /\ Arm(s, t, n) /\ Goes(s, t, "unclaimed")
      /\ RunKeeps /\ Fault /\ file' = file /\ tasks' = tasks
      /\ ran' = ran /\ late' = late /\ rewound' = rewound
  BY DEF ClaimFails, InRun, history
<1>2. n \in Occurrence \cup {None}
  BY <1>1, FromTyped, KnownTyped, FollowingTyped
<1> HIDE DEF n
<1>3. Counts' /\ Copies' /\ clock' = clock
  BY <1>1, RunKept DEF TypeInv, Copies
<1>4. Slots'
  BY <1>1, <1>3, GoesTyped DEF TypeInv
<1>5. Claims' /\ Timers'
  BY <1>1, <1>2, ArmTyped DEF TypeInv, Claims
<1> QED BY <1>3, <1>4, <1>5 DEF TypeInv

LEMMA FailureTyped ==
  ASSUME TypeInv, NEW s \in Server, NEW t \in Task,
         FailureRecorded(s, t) \/ FailureUnrecorded(s, t)
  PROVE  TypeInv'
PROOF
<1>1. /\ runs[s][t].pc = "unclaimed" /\ Release(s, t)
      /\ RunKeeps /\ (Fault \/ NoFault) /\ timers' = timers /\ lost' = lost
      /\ ran' = ran /\ late' = late /\ rewound' = rewound
  BY DEF FailureRecorded, FailureUnrecorded, InRun, history
<1>2. file' \in [Task -> Stored] /\ tasks' \in [Server -> [Task -> Stored]]
  <2>1. CASE FailureRecorded(s, t)
    <3>1. file' \in [Task -> Stored]
      <4>1. CASE file' = file
        BY <4>1 DEF TypeInv, Copies
      <4>2. CASE file' # file
        <5>1. file' = [file EXCEPT ![t] = [file[t] EXCEPT !.running = FALSE]] /\ file[t] # None
          BY <2>1, <4>2 DEF FailureRecorded
        <5>2. file[t] \in Record
          BY <5>1 DEF TypeInv, Copies, Stored
        <5>3. [file[t] EXCEPT !.running = FALSE] \in Stored
          BY <5>2 DEF Record, Stored
        <5> QED BY <5>1, <5>3, Written DEF TypeInv
      <4> QED BY <4>1, <4>2
    <3>2. Remember(s, t, file'[t])
      BY <2>1 DEF FailureRecorded
    <3> QED BY <3>1, <3>2, RememberTyped DEF TypeInv, Copies
  <2>2. CASE FailureUnrecorded(s, t)
    <3>1. runs[s][t].task \in Record
      BY <1>1 DEF TypeInv, Slots, Fallen
    <3>2. [runs[s][t].task EXCEPT !.running = FALSE] \in Stored
      BY <3>1 DEF Record, Stored
    <3>3. Remember(s, t, [runs[s][t].task EXCEPT !.running = FALSE]) /\ file' = file
      BY <2>2 DEF FailureUnrecorded
    <3> QED BY <3>2, <3>3, RememberTyped DEF TypeInv, Copies
  <2> QED BY <2>1, <2>2 DEF FailureRecorded, FailureUnrecorded
<1>3. Counts' /\ Copies' /\ clock' = clock
  BY <1>1, <1>2, RunKept DEF TypeInv
<1>4. Slots'
  BY <1>1, <1>2, <1>3, ReleaseTyped DEF TypeInv
<1>5. Claims' /\ Timers'
  BY <1>1 DEF TypeInv, Claims, Timers
<1> QED BY <1>3, <1>4, <1>5 DEF TypeInv

LEMMA StartTyped ==
  ASSUME TypeInv, NEW s \in Server, NEW t \in Task, Start(s, t) \/ StartFails(s, t)
  PROVE  TypeInv'
PROOF
<1>1. runs[s][t].pc = "start" /\ RunKeeps /\ Claims'
  BY DEF Start, StartFails, InRun, history, TypeInv, Claims
<1>2. CASE Start(s, t)
  <2>1. file' \in [Task -> Stored]
    <3>1. CASE file[t] = None
      BY <1>2, <3>1 DEF Start, TypeInv, Copies
    <3>2. CASE file[t] # None
      <4>1. file' = [file EXCEPT ![t] = [file[t] EXCEPT !.running = TRUE]]
        BY <1>2, <3>2 DEF Start
      <4>2. [file[t] EXCEPT !.running = TRUE] \in Stored
        BY <3>2 DEF TypeInv, Copies, Record, Stored
      <4> QED BY <4>1, <4>2, Written DEF TypeInv
    <3> QED BY <3>1, <3>2
  <2>2. tasks' \in [Server -> [Task -> Stored]]
    BY <1>2, <2>1, RememberTyped DEF Start, TypeInv, Copies
  <2>3. Counts' /\ Copies' /\ clock' = clock
    BY <1>1, <1>2, <2>1, <2>2, RunKept DEF TypeInv, Start
  <2>4. Slots'
    BY <1>1, <1>2, <2>3, GoesTyped DEF TypeInv, Start
  <2> QED BY <1>1, <1>2, <2>3, <2>4 DEF TypeInv, Timers, Start
<1>3. CASE StartFails(s, t)
  <2>1. Release(s, t) /\ Fault /\ file' = file /\ tasks' = tasks /\ timers' = timers
    BY <1>3 DEF StartFails
  <2>2. Counts' /\ Copies' /\ clock' = clock
    BY <1>1, <2>1, RunKept DEF TypeInv, Copies
  <2>3. Slots'
    BY <2>1, <2>2, ReleaseTyped DEF TypeInv, Copies
  <2>4. lost' \in [Server -> SUBSET Task]
    BY <1>3 DEF StartFails, TypeInv, Timers
  <2> QED BY <1>1, <2>1, <2>2, <2>3, <2>4 DEF TypeInv, Timers
<1> QED BY <1>2, <1>3

LEMMA SessionTyped ==
  ASSUME TypeInv, NEW s \in Server, NEW t \in Task,
         SessionOpened(s, t) \/ Consume(s, t) \/ ConsumeFails(s, t)
  PROVE  TypeInv'
PROOF
<1>1. /\ runs[s][t].pc = "session" /\ RunKeeps /\ (Fault \/ NoFault)
      /\ timers' = timers /\ lost' = lost
  BY DEF SessionOpened, Consume, ConsumeFails, Consumes, InRun
<1>2. Known(s, t) \in Record
  BY <1>1, KnownTyped
<1>3. CASE SessionOpened(s, t)
  <2>1. file[t] \in Stored /\ Remember(s, t, file[t]) /\ file' = file
    BY <1>3 DEF SessionOpened, TypeInv, Copies
  <2>2. tasks' \in [Server -> [Task -> Stored]]
    BY <2>1, RememberTyped DEF TypeInv, Copies
  <2>3. Counts' /\ Copies' /\ clock' = clock
    BY <1>1, <2>1, <2>2, RunKept DEF TypeInv, Copies
  <2>4. Slots' /\ Claims'
    BY <1>3, <2>3 DEF SessionOpened, TypeInv, Slots, Fallen, Claims, history
  <2> QED BY <1>1, <2>3, <2>4 DEF TypeInv, Timers
<1>4. CASE Consume(s, t)
  <2> DEFINE done == [Known(s, t) EXCEPT !.enabled = FALSE]
  <2>1. file' = [file EXCEPT ![t] = done] /\ Remember(s, t, file'[t]) /\ Goes(s, t, "complete")
    BY <1>4 DEF Consume
  <2>2. done \in Stored
    BY <1>2 DEF Record, Stored
  <2> HIDE DEF done
  <2>3. file' \in [Task -> Stored] /\ file'[t] \in Stored
    BY <2>1, <2>2, Written DEF TypeInv
  <2>4. tasks' \in [Server -> [Task -> Stored]]
    BY <2>1, <2>3, RememberTyped DEF TypeInv, Copies
  <2>5. Counts' /\ Copies' /\ clock' = clock
    BY <1>1, <2>3, <2>4, RunKept DEF TypeInv
  <2>6. Slots'
    BY <1>1, <2>1, <2>5, GoesTyped DEF TypeInv
  <2>7. Claims'
    BY <1>4 DEF Consume, Rewind, TypeInv, Claims
  <2> QED BY <1>1, <2>5, <2>6, <2>7 DEF TypeInv, Timers
<1>5. CASE ConsumeFails(s, t)
  <2>1. file' = file /\ tasks' = tasks /\ Goes(s, t, "complete")
    BY <1>5 DEF ConsumeFails
  <2>2. Counts' /\ Copies' /\ clock' = clock
    BY <1>1, <2>1, RunKept DEF TypeInv, Copies
  <2>3. Slots'
    BY <1>1, <2>1, <2>2, GoesTyped DEF TypeInv
  <2>4. Claims'
    BY <1>5 DEF ConsumeFails, history, TypeInv, Claims
  <2> QED BY <1>1, <2>2, <2>3, <2>4 DEF TypeInv, Timers
<1> QED BY <1>3, <1>4, <1>5

LEMMA CompletedTyped ==
  ASSUME TypeInv, NEW s \in Server, NEW t \in Task, runs[s][t].pc # "idle",
         NEW task \in Record
  PROVE  /\ Completed(s, t, task) \in Record
         /\ Following(Known(s, t), clock) \in Occurrence \cup {None}
PROOF
<1>1. Known(s, t) \in Record /\ clock \in 0..MaxClock
  BY KnownTyped DEF TypeInv, Counts
<1>2. NextRun(Known(s, t), clock) \in Occurrence \cup {None}
  BY <1>1, NextRunTyped
<1>3. Completed(s, t, task) \in Record
  <2> DEFINE n == NextRun(Known(s, t), clock)
  <2>1. Completed(s, t, task) = [task EXCEPT !.running = FALSE, !.next = n]
    BY DEF Completed
  <2> HIDE DEF n
  <2>2. n \in Occurrence \cup {None}
    BY <1>2 DEF n
  <2>3. 1 \in Occurrence
    BY ScheduleAssumption DEF Occurrence
  <2>4. [task EXCEPT !.running = FALSE, !.next = n] \in Record
    BY <2>2, <2>3, Edited, ZenonT(30)
  <2> QED BY <2>1, <2>4
<1> QED BY <1>1, <1>3, FollowingTyped

LEMMA CompleteTyped ==
  ASSUME TypeInv, NEW s \in Server, NEW t \in Task,
         Complete(s, t) \/ CompleteFails(s, t) \/ RetryFails(s, t)
  PROVE  TypeInv'
PROOF
<1>1. /\ runs[s][t].pc # "idle" /\ RunKeeps /\ (Fault \/ NoFault) /\ Claims'
  BY DEF Complete, CompleteFails, RetryFails, InRun, history, TypeInv, Claims
<1>2. CASE Complete(s, t)
  <2> DEFINE n == IF file'[t] = None THEN None
                  ELSE IF file'[t].enabled THEN file'[t].next ELSE None
  <2>1. Remember(s, t, file'[t]) /\ Arm(s, t, n) /\ Release(s, t)
    BY <1>2 DEF Complete
  <2>2. file' \in [Task -> Stored] /\ file'[t] \in Stored
    <3>1. CASE file[t] = None
      BY <1>2, <3>1 DEF Complete, TypeInv, Copies
    <3>2. CASE file[t] # None
      <4>1. file' = [file EXCEPT ![t] = Completed(s, t, file[t])]
        BY <1>2, <3>2 DEF Complete
      <4>2. Completed(s, t, file[t]) \in Stored
        BY <1>1, <3>2, CompletedTyped DEF TypeInv, Copies, Stored
      <4> QED BY <4>1, <4>2, Written DEF TypeInv
    <3> QED BY <3>1, <3>2
  <2>3. n \in Occurrence \cup {None}
    BY <2>2 DEF Stored, Record
  <2> HIDE DEF n
  <2>4. tasks' \in [Server -> [Task -> Stored]]
    BY <2>1, <2>2, RememberTyped DEF TypeInv, Copies
  <2>5. Counts' /\ Copies' /\ clock' = clock
    BY <1>1, <2>2, <2>4, RunKept DEF TypeInv
  <2>6. Slots' /\ Timers'
    BY <2>1, <2>3, <2>4, <2>5, ReleaseTyped, ArmTyped DEF TypeInv
  <2> QED BY <1>1, <2>5, <2>6 DEF TypeInv
<1>3. CASE CompleteFails(s, t)
  <2> DEFINE task == Completed(s, t, Known(s, t))
  <2>1. Remember(s, t, task) /\ Goes(s, t, "retry") /\ file' = file
        /\ timers' = timers /\ lost' = lost
    BY <1>3 DEF CompleteFails
  <2>2. task \in Stored
    BY <1>1, KnownTyped, CompletedTyped DEF Stored
  <2> HIDE DEF task
  <2>3. tasks' \in [Server -> [Task -> Stored]]
    BY <2>1, <2>2, RememberTyped DEF TypeInv, Copies
  <2>4. Counts' /\ Copies' /\ clock' = clock
    BY <1>1, <2>1, <2>3, RunKept DEF TypeInv, Copies
  <2>5. Slots'
    BY <1>1, <2>1, <2>4, GoesTyped DEF TypeInv
  <2> QED BY <1>1, <2>1, <2>4, <2>5 DEF TypeInv, Timers
<1>4. CASE RetryFails(s, t)
  <2> DEFINE n == Following(Known(s, t), clock)
  <2>1. Arm(s, t, n) /\ Release(s, t) /\ file' = file /\ tasks' = tasks
    BY <1>4 DEF RetryFails
  <2>2. n \in Occurrence \cup {None}
    BY <1>1, KnownTyped, CompletedTyped
  <2> HIDE DEF n
  <2>3. Counts' /\ Copies' /\ clock' = clock
    BY <1>1, <2>1, RunKept DEF TypeInv, Copies
  <2>4. Slots' /\ Timers'
    BY <2>1, <2>2, <2>3, ReleaseTyped, ArmTyped DEF TypeInv, Copies
  <2> QED BY <1>1, <2>3, <2>4 DEF TypeInv
<1> QED BY <1>2, <1>3, <1>4

LEMMA RunningTyped ==
  ASSUME TypeInv, NEW s \in Server, NEW t \in Task, Running(s, t)
  PROVE  TypeInv'
BY ClaimTyped, ClaimLostTyped, ClaimFailsTyped, FailureTyped, StartTyped, SessionTyped,
   CompleteTyped DEF Running

-----------------------------------------------------------------------------
(* Timers, runs by hand, syncs, people and restarts.                       *)

LEMMA FiresTyped ==
  ASSUME TypeInv, NEW s \in Server, NEW t \in Task, TimerFires(s, t)
  PROVE  TypeInv'
PROOF
<1> DEFINE o == timers[s][t]
           taken == [keys |-> keys[s] \cup ({t} \ running[s]), running |-> running[s]]
           waiting == IF t \in keys[s] \cup running[s] THEN entries[s]
                      ELSE Append(entries[s], [task |-> t, due |-> o])
<1>1. o \in Occurrence /\ Due(o) <= clock
  BY DEF TimerFires, TypeInv, Timers
<1>2. Counts' /\ Copies' /\ Claims' /\ clock' = clock /\ tasks' = tasks
  BY DEF TimerFires, TypeInv, Counts, Copies, Claims, bounds, history
<1>3. Timers'
  BY DEF TimerFires, TypeInv, Timers
<1>4. Slots'
  <2>1. CASE ~Enabled(tasks[s][t])
    BY <1>2, <2>1 DEF TimerFires, TypeInv, Slots, Fallen
  <2>2. CASE Enabled(tasks[s][t])
    <3>1. Pump(s, taken, waiting, None)
      BY <2>2 DEF TimerFires
    <3>2. taken.keys \in SUBSET Task /\ taken.running \in SUBSET Task
      BY DEF TypeInv, Slots
    <3>3. /\ waiting \in Seq(Entry)
          /\ \A i \in DOMAIN waiting : Due(waiting[i].due) <= clock
      <4>1. entries[s] \in Seq(Entry) /\ \A i \in DOMAIN entries[s] : Due(entries[s][i].due) <= clock
        BY DEF TypeInv, Slots, Fallen
      <4>2. [task |-> t, due |-> o] \in Entry
        BY <1>1 DEF Entry
      <4> HIDE DEF o
      <4> QED BY <1>1, <4>1, <4>2
    <3> HIDE DEF taken, waiting
    <3> QED BY <1>2, <3>1, <3>2, <3>3, PumpTyped DEF TypeInv, Copies
  <2> QED BY <2>1, <2>2
<1> QED BY <1>2, <1>3, <1>4 DEF TypeInv

LEMMA RunNowTyped ==
  ASSUME TypeInv, NEW s \in Server, NEW t \in Task, RunNow(s, t)
  PROVE  TypeInv'
PROOF
<1> DEFINE r == Begun(TRUE, None, tasks[s][t])
<1>1. tasks[s][t] \in Record
  BY DEF RunNow, TypeInv, Copies, Stored
<1>2. r = [pc |-> "start", manual |-> TRUE, due |-> None, task |-> tasks[s][t]]
  BY DEF Begun
<1>3. runs' = [runs EXCEPT ![s][t] = r]
  BY DEF RunNow
<1> HIDE DEF r
<1>4. r \in RunState /\ r.pc = "start" /\ r.task \in Record
  BY <1>1, <1>2 DEF RunState
<1>5. runs' \in [Server -> [Task -> RunState]]
  BY <1>3, <1>4 DEF TypeInv, Slots
<1>6. \A x \in Server, u \in Task : runs'[x][u] = IF x = s /\ u = t THEN r ELSE runs[x][u]
  BY <1>3 DEF TypeInv, Slots
<1>7. clock' = clock /\ entries' = entries /\ keys' = keys /\ unpumped' = unpumped
      /\ running' \in [Server -> SUBSET Task]
  BY DEF RunNow, TypeInv, Slots
<1>8. Slots'
  BY <1>4, <1>5, <1>6, <1>7 DEF TypeInv, Slots, Fallen
<1>9. Timers' /\ Copies' /\ Counts' /\ Claims'
  BY DEF RunNow, TypeInv, Timers, Copies, Counts, Claims, history
<1> QED BY <1>8, <1>9 DEF TypeInv

LEMMA NoTasksTyped ==
  NoTasks \in [Task -> Stored] /\ NoTasks \in [Task -> Occurrence \cup {None}]
BY DEF NoTasks, Stored

LEMMA SyncTyped ==
  ASSUME TypeInv, NEW s \in Server,
         SyncBegins(s) \/ SyncFails(s) \/ \E t \in Task : SyncTask(s, t)
  PROVE  TypeInv'
PROOF
<1>1. CASE SyncBegins(s)
  <2>1. Timers'
    BY <1>1, NoTasksTyped DEF SyncBegins, TypeInv, Timers
  <2>2. Copies'
    BY <1>1 DEF SyncBegins, TypeInv, Copies
  <2>3. Slots' /\ Claims'
    BY <1>1 DEF SyncBegins, Outside, TypeInv, Slots, Fallen, Claims, history
  <2>4. Counts'
    BY <1>1 DEF SyncBegins, Outside, TypeInv, Counts
  <2> QED BY <2>1, <2>2, <2>3, <2>4 DEF TypeInv
<1>2. CASE SyncFails(s)
  <2>1. Timers'
    BY <1>2 DEF SyncFails, TypeInv, Timers
  <2>2. Copies'
    BY <1>2, NoTasksTyped DEF SyncFails, TypeInv, Copies
  <2>3. Slots' /\ Claims'
    BY <1>2 DEF SyncFails, Outside, TypeInv, Slots, Fallen, Claims, history
  <2>4. Counts'
    BY <1>2 DEF SyncFails, Fault, Outside, TypeInv, Counts
  <2> QED BY <2>1, <2>2, <2>3, <2>4 DEF TypeInv
<1>3. ASSUME NEW t \in Task, SyncTask(s, t)
      PROVE  TypeInv'
  <2> DEFINE n == NextRun(listed[s][t], clock)
             armed == IF file'[t] = None THEN None
                      ELSE IF file'[t].enabled THEN file'[t].next ELSE None
  <2>1. /\ listed[s][t] # None /\ Remember(s, t, file'[t]) /\ Arm(s, t, armed)
        /\ listed' = [listed EXCEPT ![s][t] = None]
        /\ file' = IF file[t] = None THEN file ELSE [file EXCEPT ![t].next = n]
    BY <1>3 DEF SyncTask
  <2>2. n \in Occurrence \cup {None}
    BY <2>1, NextRunTyped DEF TypeInv, Copies, Counts, Stored
  <2> HIDE DEF n
  <2>3. file' \in [Task -> Stored] /\ file'[t] \in Stored
    <3>1. CASE file[t] = None
      BY <2>1, <3>1 DEF TypeInv, Copies
    <3>2. CASE file[t] # None
      <4>1. file' = [file EXCEPT ![t] = [file[t] EXCEPT !.next = n]]
        BY <2>1, <3>2
      <4>2. [file[t] EXCEPT !.next = n] \in Stored
        BY <2>2, <3>2 DEF TypeInv, Copies, Record, Stored
      <4> QED BY <4>1, <4>2, Written DEF TypeInv
    <3> QED BY <3>1, <3>2
  <2>4. armed \in Occurrence \cup {None}
    BY <2>3 DEF Stored, Record
  <2> HIDE DEF armed
  <2>5. tasks' \in [Server -> [Task -> Stored]]
    BY <2>1, <2>3, RememberTyped DEF TypeInv, Copies
  <2>6. listed' \in [Server -> [Task -> Stored]] /\ shown' = shown
    BY <1>3, <2>1 DEF SyncTask, TypeInv, Copies, Stored
  <2>7. Copies' /\ Timers'
    BY <2>1, <2>3, <2>4, <2>5, <2>6, ArmTyped DEF TypeInv, Copies
  <2>8. Slots' /\ Claims' /\ Counts'
    BY <1>3 DEF SyncTask, Outside, TypeInv, Slots, Fallen, Claims, history, Counts
  <2> QED BY <2>7, <2>8 DEF TypeInv
<1> QED BY <1>1, <1>2, <1>3

LEMMA ActTyped ==
  ASSUME TypeInv, NEW s \in Server, NEW t \in Task, Save(s, t) \/ Delete(s, t)
  PROVE  TypeInv'
PROOF
<1>1. Act(s)
  BY DEF Save, Delete
<1>2. Slots' /\ Timers' /\ Counts'
  BY <1>1 DEF Act, Outside, TypeInv, Slots, Fallen, Timers, Counts
<1>3. Claims'
  BY <1>1 DEF Act, Save, Delete, Rewind, TypeInv, Claims
<1>4. file' \in [Task -> Stored]
  <2>1. CASE Save(s, t)
    <3>1. PICK enabled \in BOOLEAN, o \in Occurrence :
            file' = [file EXCEPT ![t] = [shown[t] EXCEPT !.enabled = enabled, !.due = o]]
      BY <2>1 DEF Save
    <3>2. shown[t] \in Record
      BY <2>1 DEF Save, TypeInv, Copies, Stored
    <3>3. [shown[t] EXCEPT !.enabled = enabled, !.due = o] \in Stored
      BY <3>2, Edited DEF Stored
    <3> QED BY <3>1, <3>3, Written DEF TypeInv
  <2>2. CASE Delete(s, t)
    BY <2>2 DEF Delete, TypeInv, Copies, Stored
  <2> QED BY <2>1, <2>2
<1>5. Copies'
  BY <1>1, <1>4 DEF Act, TypeInv, Copies
<1> QED BY <1>2, <1>3, <1>5 DEF TypeInv

LEMMA UpTyped ==
  ASSUME TypeInv, NEW s \in Server, Boot(s) \/ Crash(s)
  PROVE  TypeInv'
PROOF
<1>1. CASE Boot(s)
  BY <1>1 DEF Boot, TypeInv, Slots, Fallen, Timers, Copies, Counts, Claims, bounds, history
<1>2. CASE Crash(s)
  <2>1. /\ runs' = [runs EXCEPT ![s] = [t \in Task |-> NoRun]]
        /\ entries' = [entries EXCEPT ![s] = <<>>] /\ clock' = clock
    BY <1>2 DEF Crash
  <2>2. NoRun \in RunState /\ NoRun.pc = "idle"
    BY DEF NoRun, RunState
  <2> HIDE DEF NoRun
  <2>3. /\ runs' \in [Server -> [Task -> RunState]]
        /\ entries' \in [Server -> Seq(Entry)] /\ <<>> \in Seq(Entry)
    BY <2>1, <2>2 DEF TypeInv, Slots
  <2>4. \A x \in Server : /\ entries'[x] = IF x = s THEN <<>> ELSE entries[x]
                          /\ \A u \in Task : runs'[x][u] = IF x = s THEN NoRun ELSE runs[x][u]
    BY <2>1 DEF TypeInv, Slots
  <2>5. Fallen'
    BY <2>1, <2>2, <2>4 DEF TypeInv, Slots, Fallen
  <2>6. keys' \in [Server -> SUBSET Task] /\ running' \in [Server -> SUBSET Task]
        /\ unpumped' \in [Server -> BOOLEAN]
    BY <1>2 DEF Crash, TypeInv, Slots
  <2>7. Timers' /\ Copies'
    BY <1>2, NoTasksTyped DEF Crash, TypeInv, Timers, Copies
  <2>8. Counts' /\ Claims'
    BY <1>2 DEF Crash, TypeInv, Counts, Claims, history
  <2> QED BY <2>3, <2>5, <2>6, <2>7, <2>8 DEF TypeInv, Slots
<1> QED BY <1>1, <1>2

LEMMA TickTyped ==
  ASSUME TypeInv, Tick
  PROVE  TypeInv'
PROOF
<1>1. clock' = clock + 1 /\ clock < MaxClock /\ UNCHANGED <<file, shown, server, bounds, history>>
  BY DEF Tick
<1>2. Counts'
  BY <1>1, ScheduleAssumption DEF TypeInv, Counts, bounds, server
<1>3. ASSUME NEW s \in Server, NEW i \in DOMAIN entries[s]
      PROVE  entries[s][i].due \in Occurrence
  <2>1. entries[s] \in Seq(Entry)
    BY DEF TypeInv, Slots
  <2>2. entries[s][i] \in Entry
    BY <2>1, ElementOfSeq
  <2> QED BY <2>2 DEF Entry
<1>4. Slots'
  <2>1. Fallen'
    BY <1>1, <1>3 DEF TypeInv, Slots, Fallen, Counts, Due, Occurrence, server
  <2> QED BY <1>1, <2>1 DEF TypeInv, Slots, server
<1>5. Timers' /\ Copies' /\ Claims'
  BY <1>1 DEF TypeInv, Timers, Copies, Claims, server, history
<1> QED BY <1>2, <1>4, <1>5 DEF TypeInv

LEMMA StepTyped ==
  ASSUME TypeInv, [Next]_vars
  PROVE  TypeInv'
PROOF
<1>1. CASE Next
  BY <1>1, RunningTyped, FiresTyped, RunNowTyped, SyncTyped, ActTyped, UpTyped, TickTyped
     DEF Next
<1>2. CASE UNCHANGED vars
  BY <1>2 DEF vars, server, bounds, history, TypeInv, Slots, Fallen, Timers, Copies, Counts, Claims
<1> QED BY <1>1, <1>2

LEMMA InitTyped ==
  ASSUME Init
  PROVE  TypeInv
PROOF
<1>1. file \in [Task -> Stored] /\ shown = file
  <2>1. 1 \in Occurrence
    BY ScheduleAssumption DEF Occurrence
  <2>2. [enabled : {TRUE}, kind : Kinds, due : {1}, last : {None}, next : {None},
         running : {FALSE}] \subseteq Record
    BY <2>1, ScheduleAssumption DEF Record
  <2> QED BY <2>2 DEF Init, Stored
<1>2. Copies
  BY <1>1, NoTasksTyped DEF Init, Copies
<1>3. Timers
  BY NoTasksTyped DEF Init, Timers
<1>4. Slots
  BY DEF Init, Slots, Fallen, NoRun, RunState
<1>5. Counts /\ Claims
  BY ScheduleAssumption DEF Init, Counts, Claims
<1> QED BY <1>2, <1>3, <1>4, <1>5 DEF TypeInv

LEMMA Inductive == Spec => []TypeInv
PROOF
<1>1. Init => TypeInv
  BY InitTyped
<1>2. TypeInv /\ [Next]_vars => TypeInv'
  BY StepTyped
<1> QED BY <1>1, <1>2, PTL DEF Spec

-----------------------------------------------------------------------------
(* An occurrence runs once.                                                *)

\* Nothing claimed, and the last occurrence claimed of whatever is still stored kept,
\* unless an older copy replaces it.
Unclaimed ==
  /\ ran' = ran /\ late' = late /\ rewound \subseteq rewound'
  /\ \A t \in Task \ rewound' :
       file'[t] # None => file[t] # None /\ file'[t].last = file[t].last

LEMMA RunUnclaimed ==
  ASSUME TypeInv, NEW s \in Server, NEW t \in Task, Running(s, t), ~Claim(s, t)
  PROVE  Unclaimed
PROOF
<1> USE DEF TypeInv, Copies, Stored, history
<1>1. CASE ClaimLost(s, t) \/ ClaimFails(s, t) \/ FailureUnrecorded(s, t) \/ StartFails(s, t)
           \/ SessionOpened(s, t) \/ ConsumeFails(s, t) \/ CompleteFails(s, t)
           \/ RetryFails(s, t)
  BY <1>1 DEF Unclaimed, ClaimLost, ClaimFails, FailureUnrecorded, StartFails, SessionOpened,
              ConsumeFails, CompleteFails, RetryFails
<1>2. CASE FailureRecorded(s, t)
  BY <1>2 DEF Unclaimed, FailureRecorded, Record
<1>3. CASE Start(s, t)
  BY <1>3 DEF Unclaimed, Start, Record
<1>4. CASE Complete(s, t)
  <2>1. file' = IF file[t] = None THEN file ELSE [file EXCEPT ![t] = Completed(s, t, file[t])]
    BY <1>4 DEF Complete
  <2>2. file[t] # None => Completed(s, t, file[t]).last = file[t].last
    BY DEF Completed, Record
  <2> QED BY <1>4, <2>1, <2>2 DEF Unclaimed, Complete
<1>5. CASE Consume(s, t)
  <2>1. Known(s, t) \in Record
    BY <1>5, KnownTyped DEF Consume, Consumes, InRun
  <2>2. /\ file' = [file EXCEPT ![t] = [Known(s, t) EXCEPT !.enabled = FALSE]]
        /\ Rewind(t, Known(s, t)) /\ ran' = ran /\ late' = late
    BY <1>5 DEF Consume
  <2>3. [Known(s, t) EXCEPT !.enabled = FALSE].last = Known(s, t).last
    BY <2>1 DEF Record
  <2> QED BY <2>2, <2>3 DEF Unclaimed, Rewind
<1> QED BY <1>1, <1>2, <1>3, <1>4, <1>5 DEF Running

LEMMA RestUnclaimed ==
  ASSUME TypeInv, [Next]_vars, \A s \in Server, t \in Task : ~Running(s, t)
  PROVE  Unclaimed
PROOF
<1> USE DEF TypeInv, Copies, Stored, history
<1>1. ASSUME NEW s \in Server,
             SyncBegins(s) \/ SyncFails(s) \/ Boot(s) \/ Crash(s) \/
             \E t \in Task : TimerFires(s, t) \/ RunNow(s, t)
      PROVE  Unclaimed
  BY <1>1 DEF Unclaimed, SyncBegins, SyncFails, Boot, Crash, TimerFires, RunNow
<1>2. ASSUME NEW s \in Server, NEW t \in Task, SyncTask(s, t)
      PROVE  Unclaimed
  <2>1. file[t] # None => file[t] \in Record
    OBVIOUS
  <2> QED BY <1>2, <2>1 DEF Unclaimed, SyncTask, Record
<1>3. ASSUME NEW s \in Server, NEW t \in Task, Save(s, t)
      PROVE  Unclaimed
  <2>1. PICK enabled \in BOOLEAN, o \in Occurrence :
          file' = [file EXCEPT ![t] = [shown[t] EXCEPT !.enabled = enabled, !.due = o]]
    BY <1>3 DEF Save
  <2>2. [shown[t] EXCEPT !.enabled = enabled, !.due = o].last = shown[t].last
    BY <1>3 DEF Save, Record
  <2>3. Rewind(t, shown[t]) /\ ran' = ran /\ late' = late
    BY <1>3 DEF Save, Act
  <2> QED BY <2>1, <2>2, <2>3 DEF Unclaimed, Rewind
<1>4. ASSUME NEW s \in Server, NEW t \in Task, Delete(s, t)
      PROVE  Unclaimed
  BY <1>4 DEF Unclaimed, Delete, Act
<1>5. CASE Tick \/ UNCHANGED vars
  BY <1>5 DEF Unclaimed, Tick, vars
<1> QED BY <1>1, <1>2, <1>3, <1>4, <1>5 DEF Next

LEMMA UnclaimedOnce ==
  ASSUME TypeInv, Once, Unclaimed
  PROVE  Once'
PROOF
<1> SUFFICES ASSUME NEW t \in Task \ (late' \cup rewound')
             PROVE  Last(t)'
  BY DEF Once
<1>1. Last(t)
  BY DEF Once, Unclaimed
<1>2. ran' = ran /\ (file'[t] # None => file[t] # None /\ file'[t].last = file[t].last)
  BY DEF Unclaimed
<1> QED BY <1>1, <1>2 DEF Last

\* The claim: the occurrence is not the last one claimed, and nothing after it was, so it
\* is the first after the last.
LEMMA ClaimOnce ==
  ASSUME TypeInv, Once, NEW s \in Server, NEW u \in Task, Claim(s, u)
  PROVE  Once'
PROOF
<1> DEFINE o == runs[s][u].due
           n == NextRun(runs[s][u].task, From(s, u))
<1>1. /\ runs[s][u].pc = "claim" /\ file[u] # None /\ file[u].last # o
      /\ file' = [file EXCEPT ![u] = [file[u] EXCEPT !.last = o, !.running = TRUE, !.next = n]]
      /\ ran' = [ran EXCEPT ![u] = [ran[u] EXCEPT ![o] = ran[u][o] + 1]]
      /\ late' = IF \E x \in Occurrence : x > o /\ ran[u][x] > 0 THEN late \cup {u} ELSE late
      /\ rewound' = rewound
  BY DEF Claim, InRun, CanClaim
<1>2. o \in Occurrence /\ file[u] \in Record
  BY <1>1 DEF TypeInv, Slots, Fallen, Copies, Stored
<1> HIDE DEF o, n
<1>3. ran \in [Task -> [Occurrence -> Nat]] /\ file \in [Task -> Stored]
  BY DEF TypeInv, Claims, Copies
<1> SUFFICES ASSUME NEW t \in Task \ (late' \cup rewound')
             PROVE  Last(t)'
  BY DEF Once
<1>4. Last(t)
  BY <1>1 DEF Once
<1>5. CASE t # u
  BY <1>1, <1>3, <1>4, <1>5 DEF Last
<1>6. CASE t = u
  <2>1. \A x \in Occurrence : ran[u][x] > 0 => x <= o
    BY <1>1, <1>2, <1>6 DEF Occurrence
  <2>2. ran[u][o] = 0
    <3>1. SUFFICES ASSUME ran[u][o] > 0 PROVE FALSE
      BY <1>2, <1>3
    <3>2. file[u].last # None /\ o <= file[u].last /\ ran[u][file[u].last] > 0
      BY <1>1, <1>2, <1>4, <1>6, <3>1 DEF Last
    <3>3. file[u].last \in Occurrence
      BY <1>2, <3>2 DEF Record
    <3>4. file[u].last <= o
      BY <2>1, <3>2, <3>3
    <3> QED BY <1>1, <1>2, <3>2, <3>3, <3>4 DEF Occurrence
  <2>3. \A x \in Occurrence : ran'[u][x] = IF x = o THEN 1 ELSE ran[u][x]
    BY <1>1, <1>2, <1>3, <2>2
  <2>4. file'[u].last = o
    BY <1>1, <1>2, <1>3 DEF Record
  <2>5. o # None
    BY <1>2, ScheduleAssumption DEF Occurrence
  <2> QED BY <1>2, <1>4, <1>6, <2>1, <2>3, <2>4, <2>5 DEF Last, Occurrence
<1> QED BY <1>5, <1>6

LEMMA StepOnce ==
  ASSUME TypeInv, Once, [Next]_vars
  PROVE  Once'
BY RunUnclaimed, RestUnclaimed, UnclaimedOnce, ClaimOnce

LEMMA InitOnce ==
  ASSUME Init
  PROVE  Once
PROOF
<1>1. \A t \in Task : file[t] # None => file[t].last = None
  BY DEF Init
<1>2. \A t \in Task, o \in Occurrence : ran[t][o] = 0
  BY DEF Init
<1> QED BY <1>1, <1>2 DEF Once, Last

-----------------------------------------------------------------------------
(* The queue and its slots, in their numbers.                              *)

\* Of the positions of a queue in a set, one is the first.
LEMMA FirstExists ==
  ASSUME NEW S \in SUBSET Nat, S # {}
  PROVE  \E i \in S : \A j \in S : i <= j
PROOF
<1> DEFINE R == OpToRel(<, Nat)
<1>1. \A i, j \in Nat : <<i, j>> \in R <=> i < j
  BY DEF OpToRel
<1>2. IsWellFoundedOn(R, Nat)
  BY NatLessThanWellFounded
<1> HIDE DEF R
<1>3. PICK i \in S : \A j \in S : <<j, i>> \notin R
  BY <1>2, WFMin
<1>4. ASSUME NEW j \in S
      PROVE  i <= j
  <2>1. i \in Nat /\ j \in Nat /\ <<j, i>> \notin R
    BY <1>3
  <2>2. ~(j < i)
    BY <1>1, <2>1
  <2> QED BY <2>1, <2>2
<1> QED BY <1>4

\* A run of task t that server s begins here.
Fresh(s, t) ==
  /\ runs'[s][t].pc = "claim" /\ ~runs'[s][t].manual
  /\ runs'[s][t].task = tasks'[s][t] /\ Enabled(tasks'[s][t])

Busy(s) == {t \in Task : runs[s][t].pc # "idle"}

\* What pumpQueue does: the runs under way are those that were, but for the one that
\* ended, and those it began; whatever it leaves in the queue it leaves for want of a
\* slot; and an enabled task that waited still waits or runs.
Pumped(s, taken, over) ==
  /\ running'[s] = Busy(s)'
  /\ entries'[s] # <<>> => Cardinality(running'[s]) >= Limit
  /\ \A t \in taken.keys : Enabled(tasks'[s][t]) => t \in keys'[s] \cup running'[s]
  /\ \A t \in Task :
       \/ t # over /\ runs'[s][t] = runs[s][t]
       \/ t = over /\ runs'[s][t] = NoRun
       \/ (t = over \/ runs[s][t].pc = "idle") /\ Fresh(s, t)

LEMMA PumpPumps ==
  ASSUME Slots, tasks' \in [Server -> [Task -> Stored]],
         NEW s \in Server, NEW taken, NEW waiting \in Seq(Entry), NEW over,
         taken.keys \in SUBSET Task, taken.running = Busy(s) \ {over},
         Pump(s, taken, waiting, over)
  PROVE  /\ Pumped(s, taken, over)
         /\ \A x \in Server \ {s} : /\ runs'[x] = runs[x] /\ running'[x] = running[x]
                                    /\ keys'[x] = keys[x] /\ entries'[x] = entries[x]
                                    /\ unpumped'[x] = unpumped[x]
PROOF
<1> DEFINE fit == {i \in DOMAIN waiting :
                     /\ Enabled(tasks'[s][waiting[i].task])
                     /\ waiting[i].task \notin taken.running
                     /\ \A j \in 1..(i - 1) : waiting[j].task # waiting[i].task}
           Before(i) == {j \in fit : j < i}
           looked == {i \in DOMAIN waiting :
                        Cardinality(taken.running) + Cardinality(Before(i)) < Limit}
           begun == fit \cap looked
           Of(entriesSeen) == {waiting[i].task : i \in entriesSeen}
           First(t) == CHOOSE i \in begun : waiting[i].task = t
           rest == SubSeq(waiting, Cardinality(looked) + 1, Len(waiting))
<1>1. /\ entries' = [entries EXCEPT ![s] = rest]
      /\ keys' = [keys EXCEPT ![s] = taken.keys \ Of(looked)]
      /\ running' = [running EXCEPT ![s] = taken.running \cup Of(begun)]
      /\ unpumped' = [unpumped EXCEPT ![s] = FALSE]
      /\ runs' = [runs EXCEPT ![s] = [t \in Task |->
           IF t \in Of(begun) THEN Begun(FALSE, waiting[First(t)].due, tasks'[s][t])
           ELSE IF t = over THEN NoRun ELSE runs[s][t]]]
  BY DEF Pump
<1>2. DOMAIN waiting = 1..Len(waiting) /\ Len(waiting) \in Nat
  OBVIOUS
<1>3. ASSUME NEW i \in DOMAIN waiting
      PROVE  waiting[i].task \in Task
  <2>1. waiting[i] \in Entry
    BY ElementOfSeq
  <2> QED BY <2>1 DEF Entry
<1>4. fit \subseteq DOMAIN waiting /\ looked \subseteq DOMAIN waiting
      /\ Of(begun) \subseteq Task /\ Of(looked) \subseteq Task
  BY <1>3
<1>5. /\ IsFiniteSet(DOMAIN waiting) /\ Cardinality(DOMAIN waiting) = Len(waiting)
      /\ IsFiniteSet(looked) /\ Cardinality(looked) \in Nat
  <2>1. IsFiniteSet(DOMAIN waiting) /\ Cardinality(DOMAIN waiting) = Len(waiting)
    <3> DEFINE n == Len(waiting)
    <3>1. n \in Nat /\ DOMAIN waiting = 1..n
      BY <1>2
    <3> HIDE DEF n
    <3>2. IsFiniteSet(1..n) /\ Cardinality(1..n) = IF 1 > n THEN 0 ELSE n - 1 + 1
      BY <3>1, FS_Interval
    <3>3. Cardinality(1..n) = n
      BY <3>1, <3>2
    <3> QED BY <3>1, <3>2, <3>3 DEF n
  <2> HIDE DEF looked
  <2> QED BY <1>4, <2>1, FS_Subset, FS_CardinalityType
<1>6. /\ IsFiniteSet(Of(begun)) /\ Cardinality(Of(begun)) \in Nat
      /\ IsFiniteSet(taken.running) /\ Cardinality(taken.running) \in Nat
  <2>1. taken.running \subseteq Task
    BY DEF Busy
  <2> HIDE DEF Of
  <2> QED BY <1>4, <2>1, ScheduleAssumption, FS_Subset, FS_CardinalityType
<1>7. ASSUME NEW i \in Nat
      PROVE  IsFiniteSet(Before(i)) /\ Cardinality(Before(i)) \in Nat
  <2>1. Before(i) \subseteq DOMAIN waiting
    BY <1>4
  <2> HIDE DEF Before
  <2> QED BY <1>5, <2>1, FS_Subset, FS_CardinalityType
<1>8. ASSUME NEW i \in looked, NEW j \in DOMAIN waiting, j <= i
      PROVE  j \in looked
  <2>1. Before(j) \subseteq Before(i) /\ i \in Nat /\ j \in Nat
    BY <1>2, <1>4, <1>8
  <2>2. Cardinality(taken.running) + Cardinality(Before(i)) < Limit
    BY <1>8
  <2>3. Cardinality(Before(j)) <= Cardinality(Before(i))
    <3> HIDE DEF Before
    <3> QED BY <1>7, <2>1, FS_Subset
  <2> DEFINE a == Cardinality(taken.running)
             b == Cardinality(Before(i))
             c == Cardinality(Before(j))
  <2>4. a \in Nat /\ b \in Nat /\ c \in Nat /\ a + b < Limit /\ c <= b /\ Limit \in Nat
    BY <1>6, <1>7, <2>1, <2>2, <2>3, ScheduleAssumption
  <2> HIDE DEF a, b, c
  <2>5. a + c < Limit
    BY <2>4
  <2> QED BY <1>8, <2>5 DEF a, c
<1>9. taken.running \cap Of(begun) = {}
  OBVIOUS
<1>10. running'[s] = Busy(s)' /\ \A t \in Task :
         \/ t # over /\ runs'[s][t] = runs[s][t]
         \/ t = over /\ runs'[s][t] = NoRun
         \/ (t = over \/ runs[s][t].pc = "idle") /\ Fresh(s, t)
  <2>1. \A t \in Task : runs'[s][t] =
           IF t \in Of(begun) THEN Begun(FALSE, waiting[First(t)].due, tasks'[s][t])
           ELSE IF t = over THEN NoRun ELSE runs[s][t]
    BY <1>1 DEF Slots
  <2>2. \A t \in Of(begun) : Enabled(tasks'[s][t]) /\ t \notin taken.running
    OBVIOUS
  <2>3. running'[s] = taken.running \cup Of(begun)
    BY <1>1 DEF Slots
  <2> HIDE DEF First, Of, begun
  <2>4. \A t \in Task : t \in Of(begun) =>
          (t = over \/ runs[s][t].pc = "idle") /\ Fresh(s, t)
    <3> SUFFICES ASSUME NEW t \in Task, t \in Of(begun)
                 PROVE  (t = over \/ runs[s][t].pc = "idle") /\ Fresh(s, t)
      OBVIOUS
    <3> DEFINE o == waiting[First(t)].due
    <3>1. runs'[s][t] = Begun(FALSE, o, tasks'[s][t])
      BY <2>1
    <3>2. t \notin taken.running /\ Enabled(tasks'[s][t])
      BY <2>2
    <3> HIDE DEF o
    <3>3. runs'[s][t].pc = "claim" /\ ~runs'[s][t].manual /\ runs'[s][t].task = tasks'[s][t]
      BY <3>1 DEF Begun
    <3>4. t = over \/ runs[s][t].pc = "idle"
      BY <3>2 DEF Busy
    <3> QED BY <3>2, <3>3, <3>4 DEF Fresh
  <2>5. \A t \in Task : t \notin Of(begun) =>
          IF t = over THEN runs'[s][t] = NoRun ELSE runs'[s][t] = runs[s][t]
    BY <2>1
  <2>6. NoRun.pc = "idle"
    BY DEF NoRun
  <2>7. ASSUME NEW t \in Task
        PROVE  t \in running'[s] <=> runs'[s][t].pc # "idle"
    BY <2>3, <2>4, <2>5, <2>6 DEF Busy, Fresh
  <2>8. running'[s] \subseteq Task
    BY <1>4, <2>3 DEF Busy
  <2> HIDE DEF NoRun
  <2> QED BY <2>4, <2>5, <2>7, <2>8 DEF Busy
<1>11. ASSUME entries'[s] # <<>>
       PROVE  Cardinality(running'[s]) >= Limit
  <2>1. rest # <<>>
    BY <1>1, <1>11 DEF Slots
  <2>2. looked # DOMAIN waiting
    <3> HIDE DEF looked
    <3>1. Cardinality(looked) + 1 <= Len(waiting)
      BY <1>2, <1>5, <2>1
    <3> QED BY <1>2, <1>5, <3>1
  <2> DEFINE left == DOMAIN waiting \ looked
  <2>3. left \in SUBSET Nat /\ left # {}
    <3>1. looked \subseteq DOMAIN waiting /\ DOMAIN waiting \subseteq Nat
      BY <1>2, <1>4
    <3> HIDE DEF looked
    <3> QED BY <2>2, <3>1
  <2> HIDE DEF left
  <2>4. PICK i \in left : \A j \in left : i <= j
    BY <2>3, FirstExists
  <2>5. i \in DOMAIN waiting /\ i \notin looked /\ i \in Nat
    BY <1>2, <2>4 DEF left
  <2>6. Before(i) \subseteq begun
    <3> SUFFICES ASSUME NEW j \in fit, j < i PROVE j \in looked
      OBVIOUS
    <3>1. j \in DOMAIN waiting /\ j \in Nat
      BY <1>2, <1>4
    <3> HIDE DEF looked, fit
    <3>2. j \notin left
      BY <2>4, <2>5, <3>1
    <3> QED BY <3>1, <3>2 DEF left
  <2> DEFINE taskOf == [j \in Before(i) |-> waiting[j].task]
  <2>7. taskOf \in Injection(Before(i), Of(begun))
    <3>1. taskOf \in [Before(i) -> Of(begun)]
      BY <2>6
    <3>2. ASSUME NEW j \in Before(i), NEW k \in Before(i), taskOf[j] = taskOf[k]
          PROVE  j = k
      <4>1. j \in 1..Len(waiting) /\ k \in 1..Len(waiting)
        BY <1>2, <1>4
      <4>2. ~(j < k) /\ ~(k < j)
        BY <3>2, <4>1
      <4> QED BY <4>1, <4>2
    <3> HIDE DEF taskOf, Before, Of
    <3> QED BY <3>1, <3>2 DEF Injection, IsInjective
  <2> HIDE DEF taskOf
  <2>8. Cardinality(Before(i)) <= Cardinality(Of(begun))
    <3> HIDE DEF Before, Of
    <3> QED BY <1>6, <2>7, FS_Injection
  <2>9. Cardinality(taken.running) + Cardinality(Before(i)) >= Limit
    <3>1. ~(Cardinality(taken.running) + Cardinality(Before(i)) < Limit)
      BY <2>5
    <3> HIDE DEF Before
    <3>2. Cardinality(taken.running) \in Nat /\ Limit \in Nat
      BY <1>6, ScheduleAssumption
    <3>3. Cardinality(Before(i)) \in Nat
      BY <1>7, <2>5
    <3> DEFINE a == Cardinality(taken.running)
               b == Cardinality(Before(i))
    <3>4. ~(a + b < Limit) /\ a \in Nat /\ b \in Nat
      BY <3>1, <3>2, <3>3
    <3> HIDE DEF a, b
    <3>5. a + b >= Limit
      BY <3>2, <3>4
    <3> QED BY <3>5 DEF a, b
  <2>10. Cardinality(taken.running \cup Of(begun))
           = Cardinality(taken.running) + Cardinality(Of(begun))
    <3> HIDE DEF Of
    <3> DEFINE T1 == taken.running
               T2 == Of(begun)
    <3>1. IsFiniteSet(T1) /\ IsFiniteSet(T2) /\ T1 \cap T2 = {}
      BY <1>6, <1>9
    <3>2. Cardinality(T1) \in Nat /\ Cardinality(T2) \in Nat
      BY <1>6
    <3> HIDE DEF T1, T2
    <3>3. Cardinality(T1 \cap T2) = 0
      BY <3>1, FS_EmptySet
    <3>4. Cardinality(T1 \cup T2) = Cardinality(T1) + Cardinality(T2) - Cardinality(T1 \cap T2)
      BY <3>1, FS_Union
    <3>5. Cardinality(T1 \cup T2) = Cardinality(T1) + Cardinality(T2)
      BY <3>2, <3>3, <3>4
    <3> QED BY <3>5 DEF T1, T2
  <2>11. running'[s] = taken.running \cup Of(begun)
    BY <1>1 DEF Slots
  <2> HIDE DEF Before, Of
  <2> DEFINE a == Cardinality(taken.running)
             b == Cardinality(Before(i))
             c == Cardinality(Of(begun))
  <2>12. a \in Nat /\ b \in Nat /\ c \in Nat /\ b <= c /\ a + b >= Limit
         /\ Cardinality(running'[s]) = a + c
    BY <1>6, <1>7, <2>5, <2>8, <2>9, <2>10, <2>11
  <2> HIDE DEF a, b, c
  <2> QED BY <2>12, ScheduleAssumption
<1>12. ASSUME NEW t \in taken.keys, Enabled(tasks'[s][t])
       PROVE  t \in keys'[s] \cup running'[s]
  <2>1. /\ keys'[s] = taken.keys \ Of(looked)
        /\ running'[s] = taken.running \cup Of(begun)
    BY <1>1 DEF Slots
  <2>2. CASE t \in Of(looked) /\ t \notin taken.running
    <3> DEFINE places == {i \in DOMAIN waiting : waiting[i].task = t}
    <3>1. PICK i \in looked : waiting[i].task = t
      BY <2>2
    <3>2. places \in SUBSET Nat /\ i \in places
      BY <1>2, <1>4, <3>1
    <3> HIDE DEF places
    <3>3. PICK k \in places : \A j \in places : k <= j
      BY <3>2, FirstExists
    <3>4. k \in DOMAIN waiting /\ waiting[k].task = t /\ k <= i
      BY <3>2, <3>3 DEF places
    <3>5. k \in looked
      BY <1>8, <3>1, <3>4
    <3>6. \A j \in 1..(k - 1) : waiting[j].task # t
      BY <1>2, <3>3, <3>4 DEF places
    <3>7. k \in fit
      BY <1>12, <2>2, <3>4, <3>6
    <3> QED BY <2>1, <3>4, <3>5, <3>7
  <2>3. CASE t \notin Of(looked) \/ t \in taken.running
    BY <2>1, <2>3
  <2> QED BY <2>2, <2>3
<1>13. Pumped(s, taken, over)
  BY <1>10, <1>11, <1>12 DEF Pumped
<1> HIDE DEF rest, Of, First, begun, looked
<1> QED BY <1>1, <1>13 DEF Slots

Elsewhere(s) ==
  \A x \in Server \ {s} : /\ runs'[x] = runs[x] /\ running'[x] = running[x]
                          /\ keys'[x] = keys[x] /\ entries'[x] = entries[x]
                          /\ unpumped'[x] = unpumped[x]

Waits(s) == entries[s] # <<>> => Cardinality(running[s]) >= Limit \/ unpumped[s]

\* The slots that are taken are those of runs under way, and what waits, waits for one.
Line == \A s \in Server : running[s] = Busy(s) /\ Waits(s)

\* What a step of server s on task t leaves of its slots: other runs go on, others may
\* begin, and what waits and is enabled waits on or begins.
SlotsStep(s, t) ==
  /\ running'[s] = Busy(s)' /\ Waits(s)'
  /\ \A u \in Task \ {t} :
       \/ runs'[s][u] = runs[s][u]
       \/ runs[s][u].pc = "idle" /\ Fresh(s, u)
  /\ \A u \in Task \ {t} :
       u \in keys[s] \cup running[s] /\ Enabled(tasks'[s][u])
         => u \in keys'[s] \cup running'[s]
  /\ Elsewhere(s)

LEMMA BusyFinite ==
  ASSUME NEW s \in Server
  PROVE  IsFiniteSet(Busy(s))
BY ScheduleAssumption, FS_Subset DEF Busy

LEMMA GoesOn ==
  ASSUME Slots, Line, NEW s \in Server, NEW t \in Task, runs[s][t].pc # "idle",
         NEW pc \in {"unclaimed", "session", "complete", "retry"}, Goes(s, t, pc)
  PROVE  /\ SlotsStep(s, t)
         /\ runs'[s][t].pc = pc /\ runs'[s][t].task = runs[s][t].task
         /\ t \in running'[s] /\ keys' = keys
PROOF
<1>1. \A x \in Server, u \in Task :
        /\ ~(x = s /\ u = t) => runs'[x][u] = runs[x][u]
        /\ runs'[s][t].pc = pc /\ runs'[s][t].task = runs[s][t].task
  BY DEF Slots, Goes, RunState
<1>2. /\ entries' = entries /\ keys' = keys /\ running' = running /\ unpumped' = unpumped
      /\ \A x \in Server \ {s} : runs'[x] = runs[x]
  BY DEF Slots, Goes
<1>3. Busy(s)' = Busy(s)
  BY <1>1 DEF Busy
<1> QED BY <1>1, <1>2, <1>3 DEF SlotsStep, Line, Waits, Elsewhere, Busy

LEMMA ReleaseFrees ==
  ASSUME Slots, Line, tasks' \in [Server -> [Task -> Stored]],
         NEW s \in Server, NEW t \in Task, Release(s, t)
  PROVE  SlotsStep(s, t) /\ (runs'[s][t] = NoRun \/ Fresh(s, t))
PROOF
<1>1. CASE runs[s][t].manual
  <2>1. /\ running' = [running EXCEPT ![s] = @ \ {t}]
        /\ runs' = [runs EXCEPT ![s] = [runs[s] EXCEPT ![t] = NoRun]]
        /\ unpumped' = [unpumped EXCEPT ![s] = TRUE]
        /\ entries' = entries /\ keys' = keys
    BY <1>1 DEF Release
  <2>2. NoRun.pc = "idle"
    BY DEF NoRun
  <2> HIDE DEF NoRun
  <2>3. \A u \in Task : runs'[s][u] = IF u = t THEN NoRun ELSE runs[s][u]
    BY <2>1 DEF Slots
  <2>4. running'[s] = running[s] \ {t} /\ unpumped'[s] /\ Elsewhere(s)
    BY <2>1 DEF Slots, Elsewhere
  <2>5. Busy(s)' = Busy(s) \ {t}
    BY <2>2, <2>3 DEF Busy
  <2> QED BY <2>1, <2>3, <2>4, <2>5 DEF SlotsStep, Line, Waits
<1>2. CASE ~runs[s][t].manual
  <2> DEFINE taken == [keys |-> keys[s], running |-> running[s] \ {t}]
  <2>1. Pump(s, taken, entries[s], t)
    BY <1>2 DEF Release
  <2>2. /\ taken.keys \in SUBSET Task /\ taken.keys = keys[s]
        /\ taken.running = Busy(s) \ {t} /\ entries[s] \in Seq(Entry)
    BY DEF Slots, Line
  <2> HIDE DEF taken
  <2>3. Pumped(s, taken, t) /\ Elsewhere(s)
    BY <2>1, <2>2, PumpPumps DEF Elsewhere
  <2>4. /\ running'[s] = Busy(s)' /\ Waits(s)'
        /\ runs'[s][t] = NoRun \/ Fresh(s, t)
    BY <2>3 DEF Pumped, Waits
  <2>5. \A u \in Task : u # t =>
          runs'[s][u] = runs[s][u] \/ (runs[s][u].pc = "idle" /\ Fresh(s, u))
    BY <2>3 DEF Pumped
  <2>6. \A u \in Task \ {t} : u \in running[s] => u \in running'[s]
    BY <2>4, <2>5 DEF Line, Busy, Fresh
  <2>7. \A u \in keys[s] : Enabled(tasks'[s][u]) => u \in keys'[s] \cup running'[s]
    BY <2>2, <2>3 DEF Pumped
  <2> QED BY <2>3, <2>4, <2>5, <2>6, <2>7 DEF SlotsStep
<1> QED BY <1>1, <1>2

LEMMA FiresBegins ==
  ASSUME TypeInv, Line, NEW s \in Server, NEW t \in Task, TimerFires(s, t)
  PROVE  /\ running'[s] = Busy(s)' /\ Waits(s)' /\ Elsewhere(s)
         /\ \A u \in Task :
              \/ runs'[s][u] = runs[s][u]
              \/ runs[s][u].pc = "idle" /\ Fresh(s, u)
         /\ \A u \in Task :
              u \in keys[s] \cup running[s] \cup {t} /\ Enabled(tasks[s][u])
                => u \in keys'[s] \cup running'[s]
PROOF
<1> DEFINE o == timers[s][t]
           taken == [keys |-> keys[s] \cup ({t} \ running[s]), running |-> running[s]]
           waiting == IF t \in keys[s] \cup running[s] THEN entries[s]
                      ELSE Append(entries[s], [task |-> t, due |-> o])
<1>1. o \in Occurrence /\ tasks' = tasks /\ tasks' \in [Server -> [Task -> Stored]]
  BY DEF TimerFires, TypeInv, Timers, Copies
<1>2. CASE ~Enabled(tasks[s][t])
  BY <1>2 DEF TimerFires, Line, Waits, Busy, Elsewhere
<1>3. CASE Enabled(tasks[s][t])
  <2>1. Pump(s, taken, waiting, None)
    BY <1>3 DEF TimerFires
  <2>2. /\ taken.keys \in SUBSET Task /\ taken.running = Busy(s) \ {None}
        /\ taken.keys = keys[s] \cup ({t} \ running[s])
    BY ScheduleAssumption DEF TypeInv, Slots, Line, Busy
  <2>3. waiting \in Seq(Entry)
    <3>1. entries[s] \in Seq(Entry)
      BY DEF TypeInv, Slots
    <3>2. [task |-> t, due |-> o] \in Entry
      BY <1>1 DEF Entry
    <3> HIDE DEF o
    <3> QED BY <3>1, <3>2
  <2> HIDE DEF taken, waiting
  <2>4. Pumped(s, taken, None) /\ Elsewhere(s)
    BY <1>1, <2>1, <2>2, <2>3, PumpPumps DEF Elsewhere, TypeInv
  <2>5. running'[s] = Busy(s)' /\ Waits(s)'
    BY <2>4 DEF Pumped, Waits
  <2>6. \A u \in Task : \/ runs'[s][u] = runs[s][u]
                        \/ runs[s][u].pc = "idle" /\ Fresh(s, u)
    BY <2>4, ScheduleAssumption DEF Pumped
  <2>7. \A u \in Task : u \in running[s] => u \in running'[s]
    BY <2>5, <2>6 DEF Line, Busy, Fresh
  <2>8. \A u \in keys[s] \cup ({t} \ running[s]) :
          Enabled(tasks[s][u]) => u \in keys'[s] \cup running'[s]
    BY <1>1, <2>2, <2>4 DEF Pumped
  <2> QED BY <2>4, <2>5, <2>6, <2>7, <2>8
<1> QED BY <1>2, <1>3

\* Each step of a run goes on or frees the slot.
LEMMA RunningSlots ==
  ASSUME TypeInv, Line, NEW s \in Server, NEW t \in Task, Running(s, t)
  PROVE  SlotsStep(s, t)
PROOF
<1>0. tasks' \in [Server -> [Task -> Stored]]
  BY RunningTyped DEF TypeInv, Copies
<1>1. CASE Claim(s, t) \/ ClaimFails(s, t) \/ Start(s, t) \/ Consume(s, t)
           \/ ConsumeFails(s, t) \/ CompleteFails(s, t)
  <2>1. \E pc \in {"unclaimed", "session", "complete", "retry"} : Goes(s, t, pc)
    BY <1>1 DEF Claim, ClaimFails, Start, Consume, ConsumeFails, CompleteFails
  <2>2. runs[s][t].pc # "idle"
    BY <1>1 DEF Claim, ClaimFails, Start, Consume, ConsumeFails, CompleteFails, Consumes, InRun
  <2> QED BY <2>1, <2>2, GoesOn DEF TypeInv
<1>2. CASE ClaimLost(s, t) \/ FailureRecorded(s, t) \/ FailureUnrecorded(s, t)
           \/ StartFails(s, t) \/ Complete(s, t) \/ RetryFails(s, t)
  <2>1. Release(s, t)
    BY <1>2 DEF ClaimLost, FailureRecorded, FailureUnrecorded, StartFails, Complete, RetryFails
  <2> QED BY <1>0, <2>1, ReleaseFrees DEF TypeInv
<1>3. CASE SessionOpened(s, t)
  BY <1>3 DEF SessionOpened, SlotsStep, Line, Waits, Busy, Elsewhere
<1> QED BY <1>1, <1>2, <1>3 DEF Running

LEMMA LineStep ==
  ASSUME TypeInv, Line, [Next]_vars
  PROVE  Line'
PROOF
<1>a. ASSUME NEW s \in Server, running'[s] = Busy(s)', Waits(s)', Elsewhere(s)
      PROVE  Line'
  <2> SUFFICES ASSUME NEW x \in Server, x # s
               PROVE  running'[x] = Busy(x)' /\ Waits(x)'
    BY <1>a DEF Line
  <2> QED BY <1>a DEF Elsewhere, Line, Waits, Busy
<1>1. ASSUME NEW s \in Server, NEW t \in Task, Running(s, t)
      PROVE  Line'
  BY <1>1, <1>a, RunningSlots DEF SlotsStep
<1>2. ASSUME NEW s \in Server, NEW t \in Task, TimerFires(s, t)
      PROVE  Line'
  BY <1>2, <1>a, FiresBegins
<1>3. ASSUME NEW s \in Server, NEW t \in Task, RunNow(s, t)
      PROVE  Line'
  <2>1. /\ running' = [running EXCEPT ![s] = running[s] \cup {t}]
        /\ runs' = [runs EXCEPT ![s] = [runs[s] EXCEPT ![t] = Begun(TRUE, None, tasks[s][t])]]
        /\ entries' = entries /\ keys' = keys /\ unpumped' = unpumped
    BY <1>3 DEF RunNow
  <2>2. Begun(TRUE, None, tasks[s][t]).pc = "start"
    BY DEF Begun
  <2>3. \A u \in Task : runs'[s][u].pc = IF u = t THEN "start" ELSE runs[s][u].pc
    BY <2>1, <2>2 DEF TypeInv, Slots
  <2>4. running'[s] = running[s] \cup {t} /\ Elsewhere(s)
    BY <2>1 DEF TypeInv, Slots, Elsewhere
  <2>5. running'[s] = Busy(s)'
    BY <2>3, <2>4 DEF Line, Busy
  <2>6. Waits(s)'
    <3>1. /\ IsFiniteSet(Busy(s)) /\ running[s] = Busy(s)
          /\ Cardinality(Busy(s)) \in Nat
      BY BusyFinite, FS_CardinalityType DEF Line
    <3> DEFINE taken == running[s]
    <3>2. /\ IsFiniteSet(taken) /\ Cardinality(taken) \in Nat
          /\ running'[s] = taken \cup {t}
      BY <2>4, <3>1
    <3> HIDE DEF taken
    <3>3. Cardinality(taken \cup {t}) = IF t \in taken THEN Cardinality(taken)
                                       ELSE Cardinality(taken) + 1
      BY <3>2, FS_AddElement
    <3>4. Cardinality(running'[s]) >= Cardinality(taken) /\ Cardinality(running'[s]) \in Nat
      BY <3>2, <3>3
    <3>5. entries[s] # <<>> => Cardinality(taken) >= Limit \/ unpumped[s]
      BY DEF Line, Waits, taken
    <3> QED BY <2>1, <3>2, <3>4, <3>5, ScheduleAssumption DEF Waits
  <2> QED BY <1>a, <2>4, <2>5, <2>6
<1>4. ASSUME NEW s \in Server, Crash(s)
      PROVE  Line'
  <2>1. \A u \in Task : runs'[s][u].pc = "idle"
    BY <1>4 DEF Crash, TypeInv, Slots, NoRun
  <2>2. running'[s] = {} /\ entries'[s] = <<>> /\ Elsewhere(s)
    BY <1>4 DEF Crash, TypeInv, Slots, Elsewhere
  <2> QED BY <1>a, <2>1, <2>2 DEF Busy, Waits
<1>5. ASSUME UNCHANGED <<running, runs, entries, unpumped>>
      PROVE  Line'
  BY <1>5 DEF Line, Waits, Busy
<1>6. ASSUME NEW s \in Server,
             \/ SyncBegins(s) \/ SyncFails(s) \/ Boot(s)
             \/ \E t \in Task : SyncTask(s, t) \/ Save(s, t) \/ Delete(s, t)
      PROVE  Line'
  BY <1>5, <1>6 DEF SyncBegins, SyncFails, Boot, SyncTask, Save, Delete, Act, Outside
<1>7. CASE Tick \/ UNCHANGED vars
  BY <1>5, <1>7 DEF Tick, vars, server
<1> QED BY <1>1, <1>2, <1>3, <1>4, <1>6, <1>7 DEF Next

LEMMA LineInit ==
  ASSUME Init
  PROVE  Line
BY DEF Init, Line, Waits, Busy, NoRun

-----------------------------------------------------------------------------
(* What is shown as running.                                               *)

\* A run that has begun: what ends it takes the mark back.
Ongoing(t) ==
  \E s \in Server : runs[s][t].pc \in {"session", "complete", "retry"}

\* A run that has failed to write once is the one fault so far.
Faulty ==
  \A s \in Server, t \in Task : runs[s][t].pc \in {"unclaimed", "retry"} => faults >= 1

Marked(t) ==
  (crashes = 0 /\ faults <= 1 /\ file[t] # None) => (file[t].running => Ongoing(t))

Shown == Faulty /\ \A t \in Task \ rewound : Marked(t)

\* What a step does not concern is left as it is.
RunsGoOn(t) ==
  \A s \in Server : runs'[s][t] = runs[s][t] \/ runs[s][t].pc = "idle"

LEMMA Elapses ==
  ASSUME TypeInv, [Next]_vars
  PROVE  faults' >= faults /\ crashes' >= crashes /\ rewound \subseteq rewound'
PROOF
<1>1. faults \in Nat /\ crashes \in Nat
  BY DEF TypeInv, Counts
<1>2. (faults' = faults \/ faults' = faults + 1) /\ (crashes' = crashes \/ crashes' = crashes + 1)
  <2>1. ASSUME NEW s \in Server, NEW t \in Task, Running(s, t)
        PROVE  (faults' = faults \/ faults' = faults + 1) /\ crashes' = crashes
    <3>1. (Fault \/ NoFault) /\ RunKeeps
      BY <2>1 DEF Running, Claim, ClaimLost, ClaimFails, FailureRecorded, FailureUnrecorded,
                  Start, StartFails, SessionOpened, Consume, ConsumeFails, Complete,
                  CompleteFails, RetryFails
    <3> QED BY <3>1 DEF Fault, NoFault, RunKeeps
  <2>2. ASSUME NEW s \in Server, SyncBegins(s) \/ SyncFails(s) \/ Boot(s) \/ Crash(s)
        PROVE  (faults' = faults \/ faults' = faults + 1)
               /\ (crashes' = crashes \/ crashes' = crashes + 1)
    BY <2>2 DEF SyncBegins, SyncFails, Boot, Crash, Fault, bounds
  <2>3. ASSUME NEW s \in Server, NEW t \in Task,
               TimerFires(s, t) \/ RunNow(s, t) \/ SyncTask(s, t) \/ Save(s, t) \/ Delete(s, t)
        PROVE  faults' = faults /\ crashes' = crashes
    BY <2>3 DEF TimerFires, RunNow, SyncTask, Save, Delete, Act, bounds
  <2>4. CASE Tick \/ UNCHANGED vars
    BY <2>4 DEF Tick, vars, bounds
  <2> QED BY <2>1, <2>2, <2>3, <2>4 DEF Next
<1>3. rewound \subseteq rewound'
  <2>1. ASSUME NEW s \in Server, NEW t \in Task, Claim(s, t)
        PROVE  rewound' = rewound
    BY <2>1 DEF Claim
  <2> QED BY <2>1, RunUnclaimed, RestUnclaimed DEF Unclaimed
<1> QED BY <1>1, <1>2, <1>3

LEMMA FaultyStep ==
  ASSUME TypeInv, Line, Faulty, [Next]_vars
  PROVE  Faulty'
PROOF
<1> SUFFICES ASSUME NEW x \in Server, NEW u \in Task, runs'[x][u].pc \in {"unclaimed", "retry"}
             PROVE  faults' >= 1
  BY DEF Faulty
<1>0. faults \in Nat /\ faults' >= faults /\ faults' \in Nat
  BY Elapses, StepTyped DEF TypeInv, Counts
<1>1. CASE runs'[x][u] = runs[x][u]
  BY <1>0, <1>1 DEF Faulty
<1>2. CASE runs'[x][u] # runs[x][u]
  <2>0. ~Fresh(x, u)
    BY DEF Fresh
  <2>1. ASSUME NEW s \in Server, NEW t \in Task, Running(s, t)
        PROVE  faults' >= 1
    <3>1. x = s /\ u = t
      BY <1>2, <2>0, <2>1, RunningSlots DEF SlotsStep, Elsewhere
    <3>2. CASE ClaimFails(s, t) \/ CompleteFails(s, t)
      BY <1>0, <3>2 DEF ClaimFails, CompleteFails, Fault
    <3>3. CASE Claim(s, t) \/ Start(s, t) \/ Consume(s, t) \/ ConsumeFails(s, t)
      <4>1. Goes(s, t, "session") \/ Goes(s, t, "complete")
        BY <3>3 DEF Claim, Start, Consume, ConsumeFails
      <4> QED BY <3>1, <4>1 DEF Goes, TypeInv, Slots, RunState
    <3>4. CASE SessionOpened(s, t)
      BY <1>2, <3>4 DEF SessionOpened
    <3>5. CASE ClaimLost(s, t) \/ FailureRecorded(s, t) \/ FailureUnrecorded(s, t)
               \/ StartFails(s, t) \/ Complete(s, t) \/ RetryFails(s, t)
      <4>1. Release(s, t)
        BY <3>5 DEF ClaimLost, FailureRecorded, FailureUnrecorded, StartFails, Complete, RetryFails
      <4>2. tasks' \in [Server -> [Task -> Stored]]
        BY StepTyped DEF TypeInv, Copies
      <4> QED BY <2>0, <3>1, <4>1, <4>2, ReleaseFrees DEF TypeInv, NoRun
    <3> QED BY <2>1, <3>2, <3>3, <3>4, <3>5 DEF Running
  <2>2. ASSUME NEW s \in Server, NEW t \in Task, TimerFires(s, t)
        PROVE  FALSE
    BY <1>2, <2>0, <2>2, FiresBegins DEF Elsewhere
  <2>3. ASSUME NEW s \in Server, NEW t \in Task, RunNow(s, t)
        PROVE  FALSE
    BY <1>2, <2>3 DEF RunNow, Begun, TypeInv, Slots
  <2>4. ASSUME NEW s \in Server, Crash(s)
        PROVE  FALSE
    BY <1>2, <2>4 DEF Crash, NoRun, TypeInv, Slots
  <2>5. ASSUME NEW s \in Server,
               \/ SyncBegins(s) \/ SyncFails(s) \/ Boot(s)
               \/ \E t \in Task : SyncTask(s, t) \/ Save(s, t) \/ Delete(s, t)
        PROVE  FALSE
    BY <1>2, <2>5 DEF SyncBegins, SyncFails, Boot, SyncTask, Save, Delete, Act, Outside
  <2>6. CASE Tick \/ UNCHANGED vars
    BY <1>2, <2>6 DEF Tick, vars, server
  <2> QED BY <2>1, <2>2, <2>3, <2>4, <2>5, <2>6 DEF Next
<1> QED BY <1>1, <1>2

\* A mark that was there stays right as long as the runs go on.
LEMMA MarkKept ==
  ASSUME TypeInv, [Next]_vars, NEW t \in Task, Marked(t), RunsGoOn(t),
         file'[t] # None /\ file'[t].running => file[t] # None /\ file[t].running
  PROVE  Marked(t)'
PROOF
<1> SUFFICES ASSUME crashes' = 0, faults' <= 1, file'[t] # None, file'[t].running
             PROVE  Ongoing(t)'
  BY DEF Marked
<1>1. crashes = 0 /\ faults <= 1
  BY Elapses, StepTyped DEF TypeInv, Counts
<1>2. PICK s \in Server : runs[s][t].pc \in {"session", "complete", "retry"}
  BY <1>1 DEF Marked, Ongoing
<1>3. runs'[s][t] = runs[s][t]
  BY <1>2 DEF RunsGoOn
<1> QED BY <1>2, <1>3 DEF Ongoing

LEMMA RunMarks ==
  ASSUME TypeInv, Line, Shown, NEW s \in Server, NEW t \in Task, Running(s, t),
         NEW u \in Task \ rewound'
  PROVE  Marked(u)'
PROOF
<1>0. Next /\ Marked(u) /\ SlotsStep(s, t)
  BY Elapses, RunningSlots DEF Next, Shown
<1>1. CASE u # t
  <2>1. file'[u] = file[u]
    BY <1>1 DEF Running, Claim, ClaimLost, ClaimFails, FailureRecorded, FailureUnrecorded, Start,
                StartFails, SessionOpened, Consume, ConsumeFails, Complete, CompleteFails,
                RetryFails, TypeInv, Copies
  <2>2. RunsGoOn(u)
    BY <1>0, <1>1 DEF RunsGoOn, SlotsStep, Elsewhere
  <2> QED BY <1>0, <2>1, <2>2, MarkKept
<1>2. CASE u = t
  <2>1. CASE Claim(s, t) \/ Start(s, t) \/ Consume(s, t) \/ ConsumeFails(s, t)
             \/ CompleteFails(s, t)
    <3>1. Goes(s, t, "session") \/ Goes(s, t, "complete") \/ Goes(s, t, "retry")
      BY <2>1 DEF Claim, Start, Consume, ConsumeFails, CompleteFails
    <3>2. runs'[s][t].pc \in {"session", "complete", "retry"}
      BY <3>1 DEF Goes, TypeInv, Slots, RunState
    <3> QED BY <1>2, <3>2 DEF Marked, Ongoing
  <2>2. CASE SessionOpened(s, t)
    BY <1>0, <1>2, <2>2, MarkKept DEF SessionOpened, RunsGoOn
  <2>3. CASE ClaimLost(s, t) \/ ClaimFails(s, t) \/ StartFails(s, t)
             \/ FailureRecorded(s, t) \/ FailureUnrecorded(s, t)
    <3>1. runs[s][t].pc \notin {"session", "complete", "retry"}
      BY <2>3 DEF ClaimLost, ClaimFails, StartFails, FailureRecorded, FailureUnrecorded, InRun
    <3>2. file'[t] # None /\ file'[t].running => file[t] # None /\ file[t].running
      <4>1. CASE ~FailureRecorded(s, t)
        BY <2>3, <4>1 DEF ClaimLost, ClaimFails, StartFails, FailureUnrecorded
      <4>2. CASE FailureRecorded(s, t)
        BY <4>2 DEF FailureRecorded, TypeInv, Copies, Stored, Record
      <4> QED BY <4>1, <4>2
    <3> SUFFICES ASSUME crashes' = 0, faults' <= 1, file'[t] # None, file'[t].running
                 PROVE  Ongoing(t)'
      BY <1>2 DEF Marked
    <3>3. crashes = 0 /\ faults <= 1
      BY <1>0, Elapses, StepTyped DEF TypeInv, Counts
    <3>4. PICK x \in Server : runs[x][t].pc \in {"session", "complete", "retry"}
      BY <1>0, <1>2, <3>2, <3>3 DEF Marked, Ongoing
    <3>5. runs'[x] = runs[x]
      BY <1>0, <3>1, <3>4 DEF SlotsStep, Elsewhere
    <3> QED BY <3>4, <3>5 DEF Ongoing
  <2>4. CASE Complete(s, t)
    <3>1. file'[t] # None => ~file'[t].running
      <4>1. file' = IF file[t] = None THEN file ELSE [file EXCEPT ![t] = Completed(s, t, file[t])]
        BY <2>4 DEF Complete
      <4>2. file[t] # None => ~Completed(s, t, file[t]).running
        BY DEF Completed, TypeInv, Copies, Stored, Record
      <4> QED BY <4>1, <4>2 DEF TypeInv, Copies
    <3> QED BY <1>2, <3>1 DEF Marked
  <2>5. CASE RetryFails(s, t)
    <3>1. faults >= 1 /\ faults' = faults + 1 /\ faults \in Nat
      BY <2>5 DEF RetryFails, InRun, Fault, Shown, Faulty, TypeInv, Counts
    <3> QED BY <1>2, <3>1 DEF Marked
  <2> QED BY <2>1, <2>2, <2>3, <2>4, <2>5 DEF Running
<1> QED BY <1>1, <1>2

LEMMA RestMarks ==
  ASSUME TypeInv, Line, Shown, [Next]_vars, \A s \in Server, t \in Task : ~Running(s, t),
         NEW u \in Task \ rewound'
  PROVE  Marked(u)'
PROOF
<1>0. Marked(u)
  BY Elapses DEF Shown
<1>1. ASSUME NEW s \in Server, Crash(s)
      PROVE  Marked(u)'
  <2>1. crashes' = crashes + 1 /\ crashes \in Nat
    BY <1>1 DEF Crash, TypeInv, Counts
  <2> QED BY <2>1 DEF Marked
<1>2. ASSUME NEW s \in Server, NEW t \in Task, TimerFires(s, t)
      PROVE  Marked(u)'
  <2>1. file' = file
    BY <1>2 DEF TimerFires
  <2>2. Elsewhere(s) /\ (runs'[s][u] = runs[s][u] \/ runs[s][u].pc = "idle")
    BY <1>2, FiresBegins
  <2>3. RunsGoOn(u)
    BY <2>2 DEF RunsGoOn, Elsewhere
  <2> QED BY <1>0, <2>1, <2>3, MarkKept
<1>3. ASSUME NEW s \in Server, NEW t \in Task, RunNow(s, t)
      PROVE  Marked(u)'
  <2>1. runs[s][t].pc = "idle" /\ file' = file
    BY <1>3 DEF RunNow, Line, Busy
  <2>2. RunsGoOn(u)
    BY <1>3, <2>1 DEF RunsGoOn, RunNow, TypeInv, Slots
  <2> QED BY <1>0, <2>1, <2>2, MarkKept
<1>4. ASSUME NEW s \in Server, NEW t \in Task, SyncTask(s, t)
      PROVE  Marked(u)'
  <2>1. RunsGoOn(u)
    BY <1>4 DEF RunsGoOn, SyncTask, Outside
  <2>2. file'[u] # None /\ file'[u].running => file[u] # None /\ file[u].running
    BY <1>4 DEF SyncTask, TypeInv, Copies, Stored, Record
  <2> QED BY <1>0, <2>1, <2>2, MarkKept
<1>5. ASSUME NEW s \in Server, NEW t \in Task, Save(s, t)
      PROVE  Marked(u)'
  <2>1. RunsGoOn(u)
    BY <1>5 DEF RunsGoOn, Save, Act, Outside
  <2>2. PICK enabled \in BOOLEAN, o \in Occurrence :
          file' = [file EXCEPT ![t] = [shown[t] EXCEPT !.enabled = enabled, !.due = o]]
    BY <1>5 DEF Save
  <2>3. [shown[t] EXCEPT !.enabled = enabled, !.due = o].running = shown[t].running
    BY <1>5 DEF Save, TypeInv, Copies, Stored, Record
  <2>4. Rewind(t, shown[t])
    BY <1>5 DEF Save
  <2>5. file'[u] # None /\ file'[u].running => file[u] # None /\ file[u].running
    BY <2>2, <2>3, <2>4 DEF Rewind, TypeInv, Copies
  <2> QED BY <1>0, <2>1, <2>5, MarkKept
<1>6. ASSUME NEW s \in Server, SyncBegins(s) \/ SyncFails(s) \/ Boot(s)
      PROVE  Marked(u)'
  <2>1. RunsGoOn(u) /\ file' = file
    BY <1>6 DEF RunsGoOn, SyncBegins, SyncFails, Boot, Outside
  <2> QED BY <1>0, <2>1, MarkKept
<1>7. ASSUME NEW s \in Server, NEW t \in Task, Delete(s, t)
      PROVE  Marked(u)'
  <2>1. RunsGoOn(u) /\ file' = [file EXCEPT ![t] = None]
    BY <1>7 DEF RunsGoOn, Delete, Act, Outside
  <2> QED BY <1>0, <2>1, MarkKept DEF TypeInv, Copies
<1>8. CASE Tick \/ UNCHANGED vars
  <2>1. RunsGoOn(u) /\ file' = file
    BY <1>8 DEF RunsGoOn, Tick, vars, server
  <2> QED BY <1>0, <2>1, MarkKept
<1> QED BY <1>1, <1>2, <1>3, <1>4, <1>5, <1>6, <1>7, <1>8 DEF Next

LEMMA ShownStep ==
  ASSUME TypeInv, Line, Shown, [Next]_vars
  PROVE  Shown'
BY FaultyStep, RunMarks, RestMarks DEF Shown

LEMMA ShownInit ==
  ASSUME Init
  PROVE  Shown
PROOF
<1>1. \A t \in Task : file[t] # None => ~file[t].running
  BY DEF Init
<1> QED BY <1>1 DEF Init, Shown, Faulty, Marked, NoRun

-----------------------------------------------------------------------------
(* What is still to come.                                                  *)

\* A copy of an enabled task that tells what the stored one tells.
Agree(copy, stored) ==
  copy # None /\ copy.enabled /\ copy.kind = stored.kind /\ copy.due = stored.due

\* An enabled task has occurrences ahead; the date of a one-time task must be.
Ahead(task, now) == task.enabled /\ (task.kind = "once" => now + 1 < Due(task.due))

LEMMA NextRunAhead ==
  ASSUME NEW task \in Record, NEW now \in 0..MaxClock
  PROVE  /\ NextRun(task, now) # None <=> Ahead(task, now)
         /\ NextRun(task, now) # None => Due(NextRun(task, now)) > now
PROOF
<1>1. None \notin Occurrence /\ task.due \in Occurrence /\ task.kind \in Kind
  BY ScheduleAssumption DEF Occurrence, Record
<1>2. now \div 2 + 1 \in Occurrence /\ (now + 1) \div 2 + 1 \in Occurrence
  BY Halves
<1>3. 2 * (now \div 2 + 1) > now /\ 2 * ((now + 1) \div 2 + 1) > now
  BY ScheduleAssumption
<1>4. now \in Nat /\ task.due \in Nat
  BY <1>1 DEF Occurrence
<1> DEFINE n == NextRun(task, now)
<1>5. CASE ~task.enabled
  BY <1>5 DEF NextRun, Ahead
<1>6. CASE task.enabled /\ task.kind = "cron"
  BY <1>1, <1>2, <1>3, <1>6 DEF NextRun, Ahead, Due
<1>7. CASE task.enabled /\ task.kind = "daily"
  BY <1>1, <1>2, <1>3, <1>7 DEF NextRun, Ahead, Due
<1>8. CASE task.enabled /\ task.kind = "once"
  <2>1. n = IF now + 1 < Due(task.due) THEN task.due ELSE None
    BY <1>8 DEF NextRun
  <2>2. Due(task.due) \in Nat /\ task.due # None
    BY <1>1, <1>4 DEF Due
  <2> QED BY <1>4, <1>8, <2>1, <2>2 DEF Ahead
<1> QED BY <1>1, <1>5, <1>6, <1>7, <1>8 DEF Kind

LEMMA FollowingAhead ==
  ASSUME NEW task \in Record, NEW now \in 0..MaxClock
  PROVE  /\ Ahead(task, now) => Following(task, now) # None
         /\ Following(task, now) # None => Due(Following(task, now)) > now
BY NextRunAhead DEF Following, Ahead

LEMMA ToComeAhead ==
  ASSUME TypeInv, NEW t \in Task
  PROVE  ToCome(t) <=> file[t] # None /\ Ahead(file[t], clock)
BY NextRunAhead DEF TypeInv, Copies, Counts, Stored, ToCome

\* What is stored of a task tells what it told, but for people and for what disables it.
Stays(t) ==
  file'[t] # None /\ file'[t].enabled =>
    file[t] # None /\ file[t].enabled /\ file'[t].kind = file[t].kind /\ file'[t].due = file[t].due

LEMMA FileStays ==
  ASSUME TypeInv, [Next]_vars, NEW t \in Task,
         \A s \in Server : ~Save(s, t) /\ ~Delete(s, t)
  PROVE  Stays(t)
PROOF
<1> USE DEF TypeInv, Copies, Stored
<1>1. ASSUME NEW s \in Server, NEW u \in Task, Running(s, u)
      PROVE  Stays(t)
  <2>1. CASE ClaimLost(s, u) \/ ClaimFails(s, u) \/ FailureUnrecorded(s, u) \/ StartFails(s, u)
             \/ SessionOpened(s, u) \/ ConsumeFails(s, u) \/ CompleteFails(s, u)
             \/ RetryFails(s, u)
    BY <2>1 DEF Stays, ClaimLost, ClaimFails, FailureUnrecorded, StartFails, SessionOpened,
                ConsumeFails, CompleteFails, RetryFails
  <2>2. CASE Claim(s, u)
    BY <2>2 DEF Stays, Claim, Record
  <2>3. CASE FailureRecorded(s, u) \/ Start(s, u)
    <3>1. \/ file' = file
          \/ /\ file[u] # None
             /\ \E b \in BOOLEAN : file' = [file EXCEPT ![u] = [file[u] EXCEPT !.running = b]]
      BY <2>3 DEF FailureRecorded, Start
    <3>2. CASE file' = file
      BY <3>2 DEF Stays
    <3>3. ASSUME NEW b \in BOOLEAN, file[u] # None,
                 file' = [file EXCEPT ![u] = [file[u] EXCEPT !.running = b]]
          PROVE  Stays(t)
      <4>1. file[u] \in Record
        BY <3>3
      <4> DEFINE r == [file[u] EXCEPT !.running = b]
      <4>2. r.enabled = file[u].enabled /\ r.kind = file[u].kind /\ r.due = file[u].due
        BY <4>1 DEF Record
      <4>3. file' = [file EXCEPT ![u] = r]
        BY <3>3
      <4> HIDE DEF r
      <4> QED BY <3>3, <4>2, <4>3 DEF Stays
    <3> QED BY <3>1, <3>2, <3>3
  <2>4. CASE Complete(s, u)
    <3>1. file' = IF file[u] = None THEN file ELSE [file EXCEPT ![u] = Completed(s, u, file[u])]
      BY <2>4 DEF Complete
    <3>2. file[u] # None => /\ Completed(s, u, file[u]).enabled = file[u].enabled
                            /\ Completed(s, u, file[u]).kind = file[u].kind
                            /\ Completed(s, u, file[u]).due = file[u].due
      BY DEF Completed, Record
    <3> QED BY <3>1, <3>2 DEF Stays
  <2>5. CASE Consume(s, u)
    <3>1. file' = [file EXCEPT ![u] = [Known(s, u) EXCEPT !.enabled = FALSE]]
      BY <2>5 DEF Consume
    <3>2. Known(s, u) \in Record
      BY <2>5, KnownTyped DEF Consume, Consumes, InRun
    <3>3. ~[Known(s, u) EXCEPT !.enabled = FALSE].enabled
      BY <3>2 DEF Record
    <3> QED BY <3>1, <3>3 DEF Stays
  <2> QED BY <1>1, <2>1, <2>2, <2>3, <2>4, <2>5 DEF Running
<1>2. ASSUME NEW s \in Server, NEW u \in Task, SyncTask(s, u)
      PROVE  Stays(t)
  BY <1>2 DEF Stays, SyncTask, Record
<1>3. ASSUME NEW s \in Server, NEW u \in Task, Save(s, u) \/ Delete(s, u)
      PROVE  Stays(t)
  <2>1. u # t
    BY <1>3
  <2> QED BY <1>3, <2>1 DEF Stays, Save, Delete
<1>4. ASSUME NEW s \in Server,
             \/ SyncBegins(s) \/ SyncFails(s) \/ Boot(s) \/ Crash(s)
             \/ \E u \in Task : TimerFires(s, u) \/ RunNow(s, u)
      PROVE  Stays(t)
  BY <1>4 DEF Stays, SyncBegins, SyncFails, Boot, Crash, TimerFires, RunNow
<1>5. CASE Tick \/ UNCHANGED vars
  BY <1>5 DEF Stays, Tick, vars
<1> QED BY <1>1, <1>2, <1>3, <1>4, <1>5 DEF Next

LEMMA ClockRuns ==
  ASSUME [Next]_vars
  PROVE  clock' = clock \/ Tick
PROOF
<1>1. ASSUME NEW s \in Server, NEW t \in Task, Running(s, t)
      PROVE  clock' = clock
  <2>1. RunKeeps
    BY <1>1 DEF Running, Claim, ClaimLost, ClaimFails, FailureRecorded, FailureUnrecorded, Start,
                StartFails, SessionOpened, Consume, ConsumeFails, Complete, CompleteFails,
                RetryFails
  <2> QED BY <2>1 DEF RunKeeps
<1>2. ASSUME NEW s \in Server,
             \/ SyncBegins(s) \/ SyncFails(s) \/ Boot(s) \/ Crash(s)
             \/ \E t \in Task : TimerFires(s, t) \/ RunNow(s, t) \/ SyncTask(s, t)
                               \/ Save(s, t) \/ Delete(s, t)
      PROVE  clock' = clock
  BY <1>2 DEF SyncBegins, SyncFails, Boot, Crash, TimerFires, RunNow, SyncTask, Save, Delete, Act
<1> QED BY <1>1, <1>2 DEF Next, vars

\* What is still to come after a step was to come before it.
LEMMA WasToCome ==
  ASSUME TypeInv, [Next]_vars, NEW t \in Task, Stays(t), ToCome(t)'
  PROVE  /\ ToCome(t) /\ file'[t] # None /\ file[t] # None /\ file'[t].enabled
         /\ file[t].enabled /\ file'[t].kind = file[t].kind /\ file'[t].due = file[t].due
PROOF
<1>1. TypeInv' /\ clock \in Nat /\ (clock' = clock \/ clock' = clock + 1)
  BY StepTyped, ClockRuns DEF TypeInv, Counts, Tick
<1>2. file'[t] # None /\ Ahead(file'[t], clock')
  <2>1. file'[t] \in Stored /\ clock' \in 0..MaxClock
    BY <1>1 DEF TypeInv, Copies, Counts
  <2>2. file'[t] # None /\ NextRun(file'[t], clock') # None
    BY DEF ToCome
  <2> QED BY <2>1, <2>2, NextRunAhead DEF Stored
<1>3. file[t] # None /\ file[t] \in Record /\ file[t].enabled
      /\ file'[t].kind = file[t].kind /\ file'[t].due = file[t].due
  BY <1>2 DEF Stays, Ahead, TypeInv, Copies, Stored
<1>4. Ahead(file[t], clock)
  BY <1>1, <1>2, <1>3 DEF Ahead, Due, Record, Occurrence
<1> QED BY <1>2, <1>3, <1>4, ToComeAhead DEF Ahead

\* The timer of a run whose claim failed is set for an occurrence to come: one that fired
\* now would be dropped.
Timely(s, t) ==
  runs[s][t].pc = "unclaimed" /\ timers[s][t] # None => Due(timers[s][t]) > clock

\* What leads a server to the occurrence to come.
Led(s, t) ==
  \/ Agree(listed[s][t], file[t]) /\ Timely(s, t)
  \/ timers[s][t] # None /\ Timely(s, t)
  \/ t \in lost[s]
  \/ runs[s][t].pc # "unclaimed" /\ t \in running[s] \cup keys[s]

\* The server knows the task as it is stored and is led to it, or will read it.
Sees(s, t) ==
  live[s] /\ (owed[s] \/ (Agree(tasks[s][t], file[t]) /\ Led(s, t)))

Seen(t) == \E x \in Server : Sees(x, t) \/ Down(x)

Lenient == acts > 0 /\ faults > 1

Expects ==
  Lenient \/ \A s \in Server, t \in Task :
               (live[s] /\ ToCome(t)) => Sees(s, t) \/ (acts > 0 /\ Seen(t))

\* Until people change a task every copy of it is right.
Same ==
  acts = 0 => \A s \in Server, t \in Task :
    (file[t] # None /\ file[t].enabled) =>
      /\ tasks[s][t] # None => Agree(tasks[s][t], file[t])
      /\ runs[s][t].task # None => Agree(runs[s][t].task, file[t])

\* A step that does not touch what a server keeps of a task.
Apart(x, t) ==
  /\ tasks'[x][t] = tasks[x][t] /\ listed'[x][t] = listed[x][t]
  /\ timers'[x][t] = timers[x][t] /\ (t \in lost[x] => t \in lost'[x])
  /\ live'[x] = live[x] /\ (owed[x] => owed'[x])

\* ... nor its place among the slots.
WaitsOn(x, t) ==
  /\ runs'[x][t] = runs[x][t] \/ Fresh(x, t)
  /\ t \in running[x] \cup keys[x] /\ Enabled(tasks'[x][t]) => t \in running'[x] \cup keys'[x]

\* The stored task tells what it told.
Steady(t) ==
  /\ file[t] # None /\ file[t].enabled /\ file'[t] # None /\ file'[t].enabled
  /\ file'[t].kind = file[t].kind /\ file'[t].due = file[t].due

LEMMA AgreeKept ==
  ASSUME NEW t, Steady(t), NEW copy
  PROVE  Agree(copy, file[t]) <=> Agree(copy, file'[t])
BY DEF Steady, Agree

LEMMA SeesOn ==
  ASSUME NEW x \in Server, NEW t \in Task, Steady(t), Apart(x, t), WaitsOn(x, t),
         clock' = clock \/ runs[x][t].pc # "unclaimed", Sees(x, t)
  PROVE  Sees(x, t)'
PROOF
<1>1. live'[x]
  BY DEF Apart, Sees
<1>2. CASE owed[x]
  BY <1>1, <1>2 DEF Apart, Sees
<1>3. CASE Agree(tasks[x][t], file[t]) /\ Led(x, t)
  <2>1. Agree(tasks'[x][t], file'[t]) /\ Enabled(tasks'[x][t])
    BY <1>3, AgreeKept DEF Apart, Agree, Enabled
  <2>2. Timely(x, t) => Timely(x, t)'
    BY DEF Timely, Apart, WaitsOn, Fresh
  <2>3. Agree(listed[x][t], file[t]) => Agree(listed'[x][t], file'[t])
    BY AgreeKept DEF Apart
  <2>4. runs[x][t].pc # "unclaimed" => runs'[x][t].pc # "unclaimed"
    BY DEF WaitsOn, Fresh
  <2>5. Led(x, t)'
    BY <1>3, <2>1, <2>2, <2>3, <2>4 DEF Led, Apart, WaitsOn
  <2> QED BY <1>1, <2>1, <2>5 DEF Sees
<1> QED BY <1>2, <1>3 DEF Sees

\* What the step of a run changes is the task's own, in its own server.
LEMMA RunningApart ==
  ASSUME TypeInv, NEW s \in Server, NEW u \in Task, Running(s, u)
  PROVE  /\ clock' = clock /\ acts' = acts /\ live' = live /\ owed' = owed /\ listed' = listed
         /\ \A x \in Server, t \in Task : ~(x = s /\ t = u) => Apart(x, t)
PROOF
<1>1. RunKeeps
  BY DEF Running, Claim, ClaimLost, ClaimFails, FailureRecorded, FailureUnrecorded, Start,
         StartFails, SessionOpened, Consume, ConsumeFails, Complete, CompleteFails, RetryFails
<1>2. \/ tasks' = tasks
      \/ \E r : tasks' = [tasks EXCEPT ![s][u] = r]
  BY DEF Running, Claim, ClaimLost, ClaimFails, FailureRecorded, FailureUnrecorded, Start,
         StartFails, SessionOpened, Consume, ConsumeFails, Complete, CompleteFails, RetryFails,
         Remember
<1>3. \/ timers' = timers /\ lost' = lost
      \/ timers' = timers /\ lost' = [lost EXCEPT ![s] = @ \cup {u}]
      \/ \E o : timers' = [timers EXCEPT ![s][u] = o] /\ lost' = [lost EXCEPT ![s] = @ \ {u}]
  <2>1. CASE Claim(s, u) \/ FailureRecorded(s, u) \/ FailureUnrecorded(s, u) \/ Start(s, u)
             \/ SessionOpened(s, u) \/ Consume(s, u) \/ ConsumeFails(s, u) \/ CompleteFails(s, u)
    BY <2>1 DEF Claim, FailureRecorded, FailureUnrecorded, Start, SessionOpened, Consume,
                ConsumeFails, CompleteFails
  <2>2. CASE StartFails(s, u)
    BY <2>2 DEF StartFails
  <2>3. CASE ClaimLost(s, u) \/ ClaimFails(s, u) \/ Complete(s, u) \/ RetryFails(s, u)
    <3>1. \E o : Arm(s, u, o)
      BY <2>3 DEF ClaimLost, ClaimFails, Complete, RetryFails
    <3> QED BY <3>1 DEF Arm
  <2> QED BY <2>1, <2>2, <2>3 DEF Running
<1>4. ASSUME NEW x \in Server, NEW t \in Task, ~(x = s /\ t = u)
      PROVE  /\ tasks'[x][t] = tasks[x][t] /\ timers'[x][t] = timers[x][t]
             /\ t \in lost[x] => t \in lost'[x]
  BY <1>2, <1>3, <1>4 DEF TypeInv, Copies, Timers
<1> QED BY <1>1, <1>4 DEF RunKeeps, Apart

\* The server arms an occurrence to come.
LEMMA ArmLeads ==
  ASSUME TypeInv, NEW s \in Server, NEW t \in Task, NEW o, o # None, Arm(s, t, o),
         runs'[s][t].pc = "unclaimed" => Due(o) > clock'
  PROVE  Led(s, t)'
BY DEF Arm, TypeInv, Timers, Led, Timely

\* What the run remembers of the stored task agrees with it.
LEMMA Remembered ==
  ASSUME TypeInv, NEW s \in Server, NEW t \in Task, Steady(t), Remember(s, t, file'[t])
  PROVE  Agree(tasks'[s][t], file'[t])
BY DEF Remember, TypeInv, Copies, Steady, Agree

LEMMA SeesRun ==
  ASSUME TypeInv, Line, Faulty, Same, NEW s \in Server, NEW t \in Task, Running(s, t),
         Sees(s, t), Steady(t), Ahead(file[t], clock), ~Lenient'
  PROVE  Sees(s, t)'
PROOF
<1>1. /\ clock' = clock /\ acts' = acts /\ live' = live /\ owed' = owed /\ listed' = listed
      /\ live[s] /\ clock \in 0..MaxClock
  BY RunningApart DEF Sees, TypeInv, Counts
<1>2. CASE owed[s]
  BY <1>1, <1>2 DEF Sees
<1>3. CASE Agree(tasks[s][t], file[t]) /\ Led(s, t)
  <2> SUFFICES Agree(tasks'[s][t], file'[t]) /\ Led(s, t)'
    BY <1>1 DEF Sees
  <2>0. SlotsStep(s, t) /\ tasks' \in [Server -> [Task -> Stored]]
    BY RunningSlots, RunningTyped DEF TypeInv, Copies
  <2>1. /\ Known(s, t) = tasks[s][t] /\ Known(s, t) \in Record /\ Ahead(Known(s, t), clock)
        /\ file[t] \in Record /\ Agree(tasks[s][t], file'[t])
    BY <1>3, AgreeKept DEF Known, Agree, TypeInv, Copies, Stored, Ahead, Steady
  <2>2. ASSUME NEW pc \in {"session", "complete", "retry"}, Goes(s, t, pc), runs[s][t].pc # "idle"
        PROVE  Led(s, t)'
    <3>1. runs'[s][t].pc = pc /\ t \in running'[s]
      BY <2>2, GoesOn DEF TypeInv
    <3> QED BY <3>1 DEF Led
  <2>3. ASSUME Release(s, t)
        PROVE  runs'[s][t].pc # "unclaimed" /\ Timely(s, t)'
    BY <2>0, <2>3, ReleaseFrees DEF TypeInv, NoRun, Fresh, Timely
  <2>4. CASE Claim(s, t) \/ Start(s, t)
    <3>1. /\ Remember(s, t, file'[t]) /\ Goes(s, t, "session") /\ runs[s][t].pc # "idle"
      BY <2>4 DEF Claim, Start, InRun
    <3> QED BY <2>2, <3>1, Remembered
  <2>5. CASE ClaimLost(s, t)
    <3>1. /\ Remember(s, t, file'[t]) /\ Release(s, t) /\ runs[s][t].pc = "claim"
          /\ Arm(s, t, Following(file[t], From(s, t)))
      BY <2>5 DEF ClaimLost, InRun, Steady
    <3>2. Following(file[t], From(s, t)) # None
      BY <1>1, <2>1, <3>1, FromTyped, FollowingAhead
    <3> QED BY <2>3, <3>1, <3>2, ArmLeads, Remembered
  <2>6. CASE ClaimFails(s, t)
    <3>1. /\ Goes(s, t, "unclaimed") /\ tasks' = tasks /\ runs[s][t].pc = "claim"
          /\ Arm(s, t, Following(Known(s, t), From(s, t)))
      BY <2>6 DEF ClaimFails, InRun
    <3>2. Following(Known(s, t), From(s, t)) # None
          /\ Due(Following(Known(s, t), From(s, t))) > clock
      BY <1>1, <2>1, <3>1, FromTyped, FollowingAhead
    <3> QED BY <1>1, <2>1, <3>1, <3>2, ArmLeads
  <2>7. CASE FailureRecorded(s, t)
    <3>1. /\ Remember(s, t, file'[t]) /\ Release(s, t) /\ runs[s][t].pc = "unclaimed"
          /\ timers' = timers /\ lost' = lost
      BY <2>7 DEF FailureRecorded, InRun
    <3>2. Led(s, t)'
      BY <1>1, <1>3, <2>3, <3>1, AgreeKept DEF Led
    <3> QED BY <3>1, <3>2, Remembered
  <2>8. CASE FailureUnrecorded(s, t)
    <3>1. /\ Remember(s, t, [runs[s][t].task EXCEPT !.running = FALSE]) /\ Release(s, t)
          /\ runs[s][t].pc = "unclaimed" /\ Fault
          /\ timers' = timers /\ lost' = lost
      BY <2>8 DEF FailureUnrecorded, InRun
    <3>2. Led(s, t)'
      BY <1>1, <1>3, <2>3, <3>1, AgreeKept DEF Led
    <3>3. acts = 0
      BY <1>1, <3>1 DEF Faulty, Fault, Lenient, TypeInv, Counts
    <3>4. runs[s][t].task \in Record /\ Agree(runs[s][t].task, file[t])
      BY <3>1, <3>3, NoneAssumption DEF Same, Steady, TypeInv, Slots, Fallen
    <3> DEFINE r == [runs[s][t].task EXCEPT !.running = FALSE]
    <3>5. r # None /\ r.enabled /\ r.kind = file[t].kind /\ r.due = file[t].due
      <4>1. r \in Record
        BY <3>4 DEF Record
      <4>2. r.enabled /\ r.kind = file[t].kind /\ r.due = file[t].due
        BY <3>4 DEF Agree, Record
      <4> QED BY <4>1, <4>2, NoneAssumption
    <3>6. tasks' = IF r = None THEN tasks ELSE [tasks EXCEPT ![s][t] = r]
      BY <3>1 DEF Remember
    <3> HIDE DEF r
    <3>7. tasks'[s][t] = r
      BY <3>5, <3>6 DEF TypeInv, Copies
    <3> QED BY <3>2, <3>5, <3>7 DEF Agree, Steady
  <2>9. CASE StartFails(s, t)
    <3>1. /\ lost' = IF timers[s][t] = None THEN [lost EXCEPT ![s] = @ \cup {t}] ELSE lost
          /\ Release(s, t) /\ tasks' = tasks /\ timers' = timers
      BY <2>9 DEF StartFails
    <3>2. timers'[s][t] # None \/ t \in lost'[s]
      BY <3>1 DEF TypeInv, Timers
    <3> QED BY <2>1, <2>3, <3>1, <3>2 DEF Led
  <2>10. CASE SessionOpened(s, t)
    <3>1. /\ Remember(s, t, file'[t]) /\ runs' = runs /\ running' = running /\ keys' = keys
          /\ timers' = timers /\ lost' = lost
      BY <2>10 DEF SessionOpened
    <3>2. Timely(s, t) => Timely(s, t)'
      BY <1>1, <3>1 DEF Timely
    <3>3. Led(s, t)'
      BY <1>1, <1>3, <3>1, <3>2, AgreeKept DEF Led
    <3> QED BY <3>1, <3>3, Remembered
  <2>11. CASE Consume(s, t)
    <3>1. file' = [file EXCEPT ![t] = [Known(s, t) EXCEPT !.enabled = FALSE]]
      BY <2>11 DEF Consume
    <3>2. ~file'[t].enabled
      BY <2>1, <3>1 DEF Record, TypeInv, Copies
    <3> QED BY <3>2 DEF Steady
  <2>12. CASE ConsumeFails(s, t)
    <3>1. Goes(s, t, "complete") /\ tasks' = tasks /\ runs[s][t].pc # "idle"
      BY <2>12 DEF ConsumeFails, Consumes, InRun
    <3> QED BY <2>1, <2>2, <3>1
  <2>13. CASE Complete(s, t)
    <3>1. /\ file' = [file EXCEPT ![t] = Completed(s, t, file[t])]
          /\ Remember(s, t, file'[t]) /\ Release(s, t) /\ Arm(s, t, file'[t].next)
      BY <2>13 DEF Complete, Steady
    <3>2. file'[t].next = NextRun(Known(s, t), clock)
      BY <2>1, <3>1 DEF Completed, Record, TypeInv, Copies
    <3>3. file'[t].next # None
      BY <1>1, <2>1, <3>2, NextRunAhead
    <3> QED BY <2>3, <3>1, <3>3, ArmLeads, Remembered
  <2>14. CASE CompleteFails(s, t)
    <3>1. /\ Goes(s, t, "retry") /\ runs[s][t].pc # "idle"
          /\ Remember(s, t, Completed(s, t, Known(s, t)))
      BY <2>14 DEF CompleteFails, InRun
    <3> DEFINE r == Completed(s, t, Known(s, t))
    <3>2. /\ r.enabled = Known(s, t).enabled /\ r.kind = Known(s, t).kind
          /\ r.due = Known(s, t).due
      BY <2>1 DEF Completed, Record
    <3>3. tasks' = IF r = None THEN tasks ELSE [tasks EXCEPT ![s][t] = r]
      BY <3>1 DEF Remember
    <3> HIDE DEF r
    <3>4. tasks'[s][t] = r \/ tasks'[s][t] = tasks[s][t]
      BY <3>3 DEF TypeInv, Copies
    <3>5. r # None
      BY <2>1, <2>14, CompletedTyped, NoneAssumption DEF r, CompleteFails, InRun
    <3> QED BY <2>1, <2>2, <3>1, <3>2, <3>4, <3>5 DEF Agree
  <2>15. CASE RetryFails(s, t)
    <3>1. Arm(s, t, Following(Known(s, t), clock)) /\ tasks' = tasks /\ Release(s, t)
      BY <2>15 DEF RetryFails
    <3>2. Following(Known(s, t), clock) # None
      BY <1>1, <2>1, FollowingAhead
    <3> QED BY <2>1, <2>3, <3>1, <3>2, ArmLeads
  <2> QED BY <2>4, <2>5, <2>6, <2>7, <2>8, <2>9, <2>10, <2>11, <2>12, <2>13, <2>14, <2>15
       DEF Running
<1> QED BY <1>2, <1>3 DEF Sees

LEMMA SyncSees ==
  ASSUME TypeInv, NEW s \in Server, NEW u \in Task, NEW x \in Server, NEW t \in Task,
         SyncTask(s, u), Sees(x, t), Steady(t), Ahead(file[t], clock)
  PROVE  Sees(x, t)'
PROOF
<1> DEFINE n == NextRun(listed[s][u], clock)
           o == IF file'[u] = None THEN None ELSE IF file'[u].enabled THEN file'[u].next ELSE None
<1>1. /\ listed[s][u] # None /\ listed' = [listed EXCEPT ![s] = [listed[s] EXCEPT ![u] = None]]
      /\ file' = IF file[u] = None THEN file ELSE [file EXCEPT ![u].next = n]
      /\ Remember(s, u, file'[u]) /\ Arm(s, u, o)
      /\ clock' = clock /\ live' = live /\ owed' = owed
      /\ runs' = runs /\ running' = running /\ keys' = keys
  BY DEF SyncTask, Outside
<1>2. CASE ~(x = s /\ t = u)
  <2>1. tasks'[x][t] = tasks[x][t] /\ timers'[x][t] = timers[x][t]
        /\ (t \in lost[x] => t \in lost'[x])
    <3> HIDE DEF o
    <3> QED BY <1>1, <1>2 DEF Remember, Arm, TypeInv, Copies, Timers
  <2>2. Apart(x, t)
    BY <1>1, <1>2, <2>1 DEF Apart, TypeInv, Copies
  <2>3. WaitsOn(x, t)
    BY <1>1 DEF WaitsOn
  <2> QED BY <1>1, <2>2, <2>3, SeesOn
<1>3. CASE x = s /\ t = u
  <2>1. /\ file[t] \in Record /\ listed[s][t] \in Record /\ clock \in 0..MaxClock
    BY <1>1, <1>3 DEF Steady, TypeInv, Copies, Stored, Counts
  <2>2. o = n
    BY <1>1, <1>3, <2>1 DEF Steady, TypeInv, Copies, Record
  <2>3. Agree(tasks'[s][t], file'[t])
    BY <1>1, <1>3, Remembered
  <2> HIDE DEF o
  <2> SUFFICES ASSUME ~owed[s] PROVE Led(s, t)'
    BY <1>1, <1>3, <2>3 DEF Sees
  <2>4. CASE o = None
    <3>1. timers' = timers /\ lost' = lost
      BY <1>1, <2>4 DEF Arm
    <3>2. ~Agree(listed[s][t], file[t])
      BY <1>3, <2>1, <2>2, <2>4, NextRunAhead DEF Agree, Ahead
    <3> QED BY <1>1, <1>3, <3>1, <3>2 DEF Sees, Led, Timely
  <2>5. CASE o # None
    <3>1. Due(o) > clock
      BY <1>3, <2>1, <2>2, <2>5, NextRunAhead
    <3> QED BY <1>1, <1>3, <2>5, <3>1, ArmLeads
  <2> QED BY <2>4, <2>5
<1> QED BY <1>2, <1>3

\* Nothing but a crash, and people who change the task, keeps a server from it.
LEMMA SeesStep ==
  ASSUME TypeInv, Line, Faulty, Same, [Next]_vars, NEW x \in Server, NEW t \in Task,
         ~Crash(x), Sees(x, t), Steady(t), Ahead(file[t], clock), ~Lenient'
  PROVE  Sees(x, t)'
PROOF
<1>1. ASSUME NEW s \in Server, NEW u \in Task, Running(s, u)
      PROVE  Sees(x, t)'
  <2>1. CASE x = s /\ t = u
    BY <1>1, <2>1, SeesRun
  <2>2. CASE ~(x = s /\ t = u)
    <3>1. Apart(x, t) /\ clock' = clock
      BY <1>1, <2>2, RunningApart
    <3>2. WaitsOn(x, t)
      BY <1>1, <2>2, RunningSlots DEF SlotsStep, Elsewhere, WaitsOn
    <3> QED BY <3>1, <3>2, SeesOn
  <2> QED BY <2>1, <2>2
<1>2. ASSUME NEW s \in Server, NEW u \in Task, TimerFires(s, u)
      PROVE  Sees(x, t)'
  <2>1. WaitsOn(x, t) /\ clock' = clock
    <3>1. clock' = clock
      BY <1>2 DEF TimerFires
    <3>2. CASE x = s
      <4>1. tasks' = tasks
        BY <1>2 DEF TimerFires
      <4>2. /\ runs'[s][t] = runs[s][t] \/ Fresh(s, t)
            /\ t \in keys[s] \cup running[s] /\ Enabled(tasks[s][t])
                 => t \in keys'[s] \cup running'[s]
        BY <1>2, FiresBegins
      <4> QED BY <3>1, <3>2, <4>1, <4>2 DEF WaitsOn, Fresh
    <3>3. CASE x # s
      <4>1. Elsewhere(s)
        BY <1>2, FiresBegins
      <4> QED BY <3>1, <3>3, <4>1 DEF WaitsOn, Elsewhere
    <3> QED BY <3>1, <3>2, <3>3
  <2>2. CASE ~(x = s /\ t = u)
    <3>1. Apart(x, t)
      BY <1>2, <2>2 DEF TimerFires, Apart, TypeInv, Timers
    <3> QED BY <2>1, <3>1, SeesOn
  <2>3. CASE x = s /\ t = u
    <3>1. /\ timers[s][t] # None /\ Due(timers[s][t]) <= clock
          /\ timers'[s][t] = None /\ lost' = lost /\ tasks' = tasks /\ listed' = listed
          /\ file' = file /\ live' = live /\ owed' = owed
          /\ clock \in Nat /\ timers[s][t] \in Nat
      BY <1>2, <2>3 DEF TimerFires, TypeInv, Timers, Counts, Occurrence
    <3> SUFFICES ASSUME Agree(tasks[s][t], file[t]), Led(s, t)
                 PROVE  Led(s, t)'
      BY <2>3, <3>1 DEF Sees
    <3>2. t \in keys'[s] \cup running'[s]
      BY <1>2, <2>3, FiresBegins DEF Agree, Enabled
    <3>3. CASE runs[s][t].pc = "unclaimed"
      <4>1. ~Timely(s, t)
        BY <3>1, <3>3 DEF Timely, Due
      <4> QED BY <3>1, <3>3, <4>1 DEF Led
    <3>4. CASE runs[s][t].pc # "unclaimed"
      BY <2>1, <2>3, <3>2, <3>4 DEF WaitsOn, Fresh, Led
    <3> QED BY <3>3, <3>4
  <2> QED BY <2>2, <2>3
<1>3. ASSUME NEW s \in Server, NEW u \in Task, RunNow(s, u)
      PROVE  Sees(x, t)'
  <2>1. Apart(x, t) /\ clock' = clock /\ keys' = keys /\ file' = file
    BY <1>3 DEF RunNow, Apart
  <2>2. CASE ~(x = s /\ t = u)
    <3>1. WaitsOn(x, t)
      BY <1>3, <2>1, <2>2 DEF RunNow, WaitsOn, TypeInv, Slots
    <3> QED BY <2>1, <3>1, SeesOn
  <2>3. CASE x = s /\ t = u
    <3>1. t \in running'[s] /\ runs'[s][t].pc = "start"
      BY <1>3, <2>3 DEF RunNow, Begun, TypeInv, Slots
    <3> QED BY <2>1, <2>3, <3>1 DEF Apart, Sees, Led
  <2> QED BY <2>2, <2>3
<1>4. ASSUME NEW s \in Server, NEW u \in Task, SyncTask(s, u)
      PROVE  Sees(x, t)'
  BY <1>4, SyncSees
<1>5. ASSUME NEW s \in Server, SyncBegins(s)
      PROVE  Sees(x, t)'
  <2>1. /\ tasks' = [tasks EXCEPT ![s] = file] /\ listed' = [listed EXCEPT ![s] = file]
        /\ timers' = [timers EXCEPT ![s] = NoTasks] /\ keys' = [keys EXCEPT ![s] = {}]
        /\ owed' = [owed EXCEPT ![s] = FALSE]
        /\ file' = file /\ lost' = lost /\ runs' = runs /\ running' = running
        /\ live' = live /\ clock' = clock
    BY <1>5 DEF SyncBegins, Outside
  <2>2. CASE x # s
    <3>1. Apart(x, t) /\ WaitsOn(x, t)
      BY <2>1, <2>2 DEF Apart, WaitsOn, TypeInv, Copies, Timers, Slots, Counts
    <3> QED BY <2>1, <3>1, SeesOn
  <2>3. CASE x = s
    <3>1. tasks'[s] = file /\ listed'[s] = file /\ timers'[s][t] = None
      BY <2>1 DEF TypeInv, Copies, Timers, NoTasks
    <3>2. Agree(file[t], file'[t])
      BY <2>1 DEF Steady, Agree
    <3> QED BY <2>1, <2>3, <3>1, <3>2 DEF Sees, Led, Timely
  <2> QED BY <2>2, <2>3
<1>6. ASSUME NEW s \in Server, SyncFails(s)
      PROVE  Sees(x, t)'
  <2>1. /\ listed' = [listed EXCEPT ![s] = NoTasks]
        /\ lost' = [lost EXCEPT ![s] = lost[s] \cup
                      {u \in Task : listed[s][u] # None /\ timers[s][u] = None}]
        /\ tasks' = tasks /\ timers' = timers /\ keys' = keys /\ owed' = owed
        /\ file' = file /\ runs' = runs /\ running' = running
        /\ live' = live /\ clock' = clock
    BY <1>6 DEF SyncFails, Outside
  <2>2. CASE x # s
    <3>1. Apart(x, t) /\ WaitsOn(x, t)
      BY <2>1, <2>2 DEF Apart, WaitsOn, TypeInv, Copies, Timers
    <3> QED BY <2>1, <3>1, SeesOn
  <2>3. CASE x = s
    <3>1. lost'[s] = lost[s] \cup {u \in Task : listed[s][u] # None /\ timers[s][u] = None}
      BY <2>1 DEF TypeInv, Timers
    <3>2. Timely(s, t) => Timely(s, t)'
      BY <2>1 DEF Timely
    <3>3. Led(s, t) => Led(s, t)'
      BY <2>1, <3>1, <3>2 DEF Led, Agree
    <3> QED BY <2>1, <2>3, <3>3 DEF Sees
  <2> QED BY <2>2, <2>3
<1>7. ASSUME NEW s \in Server, Boot(s) \/ Crash(s)
      PROVE  Sees(x, t)'
  <2>1. CASE Boot(s)
    <3>1. x # s
      BY <2>1 DEF Boot, Sees
    <3>2. Apart(x, t)
      BY <2>1, <3>1 DEF Boot, Apart, TypeInv, Counts
    <3>3. WaitsOn(x, t) /\ clock' = clock
      BY <2>1 DEF Boot, WaitsOn
    <3> QED BY <3>2, <3>3, SeesOn
  <2>2. CASE Crash(s)
    <3>1. Apart(x, t)
      BY <1>7, <2>2 DEF Crash, Apart, TypeInv, Copies, Timers, Counts
    <3>2. WaitsOn(x, t) /\ clock' = clock
      BY <1>7, <2>2 DEF Crash, WaitsOn, TypeInv, Slots
    <3> QED BY <3>1, <3>2, SeesOn
  <2> QED BY <1>7, <2>1, <2>2
<1>8. ASSUME NEW s \in Server, NEW u \in Task, Save(s, u) \/ Delete(s, u)
      PROVE  Sees(x, t)'
  <2>1. Apart(x, t) /\ WaitsOn(x, t) /\ clock' = clock
    BY <1>8 DEF Save, Delete, Act, Outside, Apart, WaitsOn, TypeInv, Counts
  <2> QED BY <2>1, SeesOn
<1>9. CASE Tick \/ UNCHANGED vars
  <2>1. Apart(x, t) /\ WaitsOn(x, t)
    BY <1>9 DEF Tick, vars, server, Apart, WaitsOn
  <2>2. clock' = clock \/ runs[x][t].pc # "unclaimed"
    BY <1>9 DEF Tick, InRun, vars
  <2> QED BY <2>1, <2>2, SeesOn
<1> QED BY <1>1, <1>2, <1>3, <1>4, <1>5, <1>6, <1>7, <1>8, <1>9 DEF Next

LEMMA ActsElapse ==
  ASSUME TypeInv, [Next]_vars
  PROVE  /\ acts' >= acts
         /\ acts' = 0 => \A s \in Server, t \in Task : ~Save(s, t) /\ ~Delete(s, t)
PROOF
<1>1. acts \in Nat
  BY DEF TypeInv, Counts
<1>2. ASSUME NEW s \in Server, NEW t \in Task, Running(s, t)
      PROVE  acts' = acts
  BY <1>2, RunningApart
<1>3. ASSUME NEW s \in Server, NEW t \in Task, Save(s, t) \/ Delete(s, t)
      PROVE  acts' = acts + 1
  BY <1>3 DEF Save, Delete, Act
<1>4. ASSUME NEW s \in Server,
             \/ SyncBegins(s) \/ SyncFails(s) \/ Boot(s) \/ Crash(s)
             \/ \E t \in Task : TimerFires(s, t) \/ RunNow(s, t) \/ SyncTask(s, t)
      PROVE  acts' = acts
  BY <1>4 DEF SyncBegins, SyncFails, Boot, Crash, TimerFires, RunNow, SyncTask, bounds
<1>5. ASSUME Tick \/ UNCHANGED vars
      PROVE  acts' = acts
  BY <1>5 DEF Tick, vars, bounds
<1>6. \/ acts' = acts
      \/ acts' = acts + 1
  BY <1>2, <1>3, <1>4, <1>5 DEF Next
<1> QED BY <1>1, <1>3, <1>6

LEMMA LiveStays ==
  ASSUME TypeInv, [Next]_vars, NEW x \in Server, ~Crash(x), ~Boot(x)
  PROVE  live'[x] = live[x]
PROOF
<1>1. ASSUME NEW s \in Server, NEW t \in Task, Running(s, t)
      PROVE  live' = live
  BY <1>1, RunningApart
<1>2. ASSUME NEW s \in Server, Boot(s) \/ Crash(s)
      PROVE  live'[x] = live[x]
  <2>1. s # x
    BY <1>2
  <2> QED BY <1>2, <2>1 DEF Boot, Crash, TypeInv, Counts
<1>3. ASSUME NEW s \in Server,
             \/ SyncBegins(s) \/ SyncFails(s)
             \/ \E t \in Task : \/ TimerFires(s, t) \/ RunNow(s, t) \/ SyncTask(s, t)
                               \/ Save(s, t) \/ Delete(s, t)
      PROVE  live' = live
  BY <1>3 DEF SyncBegins, SyncFails, TimerFires, RunNow, SyncTask, Save, Delete, Act
<1>4. CASE Tick \/ UNCHANGED vars
  BY <1>4 DEF Tick, vars, server
<1> QED BY <1>1, <1>2, <1>3, <1>4 DEF Next

LEMMA BootOwes ==
  ASSUME TypeInv, NEW x \in Server, NEW t \in Task, Boot(x)
  PROVE  Sees(x, t)'
BY DEF Boot, Sees, TypeInv, Counts

LEMMA ExpectsStep ==
  ASSUME TypeInv, Line, Faulty, Same, Expects, [Next]_vars
  PROVE  Expects'
PROOF
<1>1. /\ acts \in Nat /\ acts' \in Nat /\ acts' >= acts
      /\ faults \in Nat /\ faults' \in Nat /\ faults' >= faults
      /\ crashes \in Nat /\ crashes' \in Nat /\ crashes' >= crashes
  BY ActsElapse, Elapses, StepTyped DEF TypeInv, Counts
<1> SUFFICES ASSUME ~Lenient', NEW s \in Server, NEW t \in Task, live'[s], ToCome(t)'
             PROVE  Sees(s, t)' \/ (acts' > 0 /\ Seen(t)')
  BY DEF Expects
<1>2. ~Lenient
  BY <1>1 DEF Lenient
<1>3. ASSUME NEW y \in Server, Save(y, t)
      PROVE  acts' > 0 /\ Seen(t)'
  <2>1. acts' > 0 /\ live'[y] /\ owed'[y]
    BY <1>1, <1>3 DEF Save, Act, TypeInv, Counts
  <2>2. Sees(y, t)'
    BY <2>1 DEF Sees
  <2> QED BY <2>1, <2>2 DEF Seen
<1>4. ASSUME NEW y \in Server, Delete(y, t)
      PROVE  FALSE
  <2>1. file'[t] = None
    BY <1>4 DEF Delete, TypeInv, Copies
  <2> QED BY <2>1 DEF ToCome
<1>5. CASE \A y \in Server : ~Save(y, t) /\ ~Delete(y, t)
  <2>1. Stays(t)
    BY <1>5, FileStays
  <2>2. ToCome(t) /\ Steady(t) /\ Ahead(file[t], clock)
    <3>1. ToCome(t) /\ Steady(t)
      BY <2>1, WasToCome DEF Steady
    <3> QED BY <3>1, ToComeAhead
  <2>3. ASSUME NEW x \in Server, Sees(x, t), ~Crash(x)
        PROVE  Sees(x, t)'
    BY <2>2, <2>3, SeesStep
  <2>4. ASSUME NEW x \in Server, Crash(x)
        PROVE  Down(x)'
    BY <1>1, <2>4 DEF Crash, Down, TypeInv, Counts
  <2>5. CASE Boot(s)
    BY <2>5, BootOwes
  <2>6. CASE ~Boot(s)
    <3>1. ~Crash(s)
      BY DEF Crash, TypeInv, Counts
    <3>2. live[s]
      BY <2>6, <3>1, LiveStays
    <3>3. CASE Sees(s, t)
      BY <2>3, <3>1, <3>3
    <3>4. CASE acts > 0 /\ Seen(t)
      <4>1. PICK x \in Server : Sees(x, t) \/ Down(x)
        BY <3>4 DEF Seen
      <4>2. Sees(x, t)' \/ Down(x)'
        <5>1. CASE Crash(x)
          BY <2>4, <5>1
        <5>2. CASE Boot(x)
          BY <5>2, BootOwes
        <5>3. CASE ~Crash(x) /\ ~Boot(x)
          <6>1. CASE Sees(x, t)
            BY <2>3, <5>3, <6>1
          <6>2. CASE Down(x)
            BY <1>1, <5>3, <6>2, LiveStays DEF Down
          <6> QED BY <4>1, <6>1, <6>2
        <5> QED BY <5>1, <5>2, <5>3
      <4> QED BY <1>1, <3>4, <4>2 DEF Seen
    <3> QED BY <1>2, <2>2, <3>2, <3>3, <3>4 DEF Expects
  <2> QED BY <2>5, <2>6
<1> QED BY <1>3, <1>4, <1>5

\* What a run remembers is what is stored, what it was begun with or what was known.
LEMMA RunRemembers ==
  ASSUME TypeInv, NEW s \in Server, NEW t \in Task, Running(s, t), tasks'[s][t] # None
  PROVE  \/ tasks'[s][t] = tasks[s][t] \/ tasks'[s][t] = file'[t]
         \/ \E copy \in {tasks[s][t], runs[s][t].task} :
              /\ copy # None
              /\ tasks'[s][t].enabled = copy.enabled /\ tasks'[s][t].kind = copy.kind
              /\ tasks'[s][t].due = copy.due
PROOF
<1>0. ASSUME NEW r, Remember(s, t, r)
      PROVE  tasks'[s][t] = tasks[s][t] \/ tasks'[s][t] = r
  BY <1>0 DEF Remember, TypeInv, Copies
<1>1. CASE Claim(s, t) \/ FailureRecorded(s, t) \/ Start(s, t) \/ Consume(s, t) \/ Complete(s, t)
  <2>1. Remember(s, t, file'[t])
    BY <1>1 DEF Claim, FailureRecorded, Start, Consume, Complete
  <2> QED BY <1>0, <2>1
<1>2. CASE ClaimLost(s, t) \/ SessionOpened(s, t)
  <2>1. Remember(s, t, file[t]) /\ file' = file
    BY <1>2 DEF ClaimLost, SessionOpened
  <2> QED BY <1>0, <2>1
<1>3. CASE ClaimFails(s, t) \/ StartFails(s, t) \/ ConsumeFails(s, t) \/ RetryFails(s, t)
  BY <1>3 DEF ClaimFails, StartFails, ConsumeFails, RetryFails
<1>4. CASE FailureUnrecorded(s, t)
  <2> DEFINE r == [runs[s][t].task EXCEPT !.running = FALSE]
  <2>1. Remember(s, t, r) /\ runs[s][t].task \in Record
    BY <1>4 DEF FailureUnrecorded, InRun, TypeInv, Slots, Fallen
  <2>2. r.enabled = runs[s][t].task.enabled /\ r.kind = runs[s][t].task.kind
        /\ r.due = runs[s][t].task.due
    BY <2>1 DEF Record
  <2> HIDE DEF r
  <2> QED BY <1>0, <2>1, <2>2, NoneAssumption
<1>5. CASE CompleteFails(s, t)
  <2> DEFINE r == Completed(s, t, Known(s, t))
  <2>1. Remember(s, t, r) /\ Known(s, t) \in Record
    BY <1>5, KnownTyped DEF CompleteFails, InRun
  <2>2. r.enabled = Known(s, t).enabled /\ r.kind = Known(s, t).kind /\ r.due = Known(s, t).due
    BY <2>1 DEF Completed, Record
  <2>3. Known(s, t) \in {tasks[s][t], runs[s][t].task} /\ Known(s, t) # None
    BY <2>1, NoneAssumption DEF Known
  <2> HIDE DEF r
  <2> QED BY <1>0, <2>1, <2>2, <2>3
<1> QED BY <1>1, <1>2, <1>3, <1>4, <1>5 DEF Running

LEMMA SameStep ==
  ASSUME TypeInv, Line, Same, [Next]_vars
  PROVE  Same'
PROOF
<1> SUFFICES ASSUME acts' = 0, NEW x \in Server, NEW t \in Task, file'[t] # None, file'[t].enabled
             PROVE  /\ tasks'[x][t] # None => Agree(tasks'[x][t], file'[t])
                    /\ runs'[x][t].task # None => Agree(runs'[x][t].task, file'[t])
  BY DEF Same
<1>1. acts = 0 /\ \A s \in Server : ~Save(s, t) /\ ~Delete(s, t)
  BY ActsElapse DEF TypeInv, Counts
<1>2. Steady(t)
  BY <1>1, FileStays DEF Stays, Steady
<1>3. /\ tasks[x][t] # None => Agree(tasks[x][t], file'[t])
      /\ runs[x][t].task # None => Agree(runs[x][t].task, file'[t])
      /\ Agree(file[t], file'[t]) /\ Agree(file'[t], file'[t])
  BY <1>1, <1>2 DEF Same, Steady, Agree
<1>4. ASSUME NEW s \in Server, NEW u \in Task, Running(s, u)
      PROVE  /\ tasks'[x][t] # None => Agree(tasks'[x][t], file'[t])
             /\ runs'[x][t].task # None => Agree(runs'[x][t].task, file'[t])
  <2>0. SlotsStep(s, u)
    BY <1>4, RunningSlots
  <2>1. tasks'[x][t] # None => Agree(tasks'[x][t], file'[t])
    <3>1. CASE x = s /\ t = u
      BY <1>3, <1>4, <3>1, RunRemembers DEF Agree
    <3>2. CASE ~(x = s /\ t = u)
      BY <1>3, <1>4, <3>2, RunningApart DEF Apart
    <3> QED BY <3>1, <3>2
  <2>2. runs'[x][t].task = runs[x][t].task \/ runs'[x][t] = NoRun \/ Fresh(x, t)
    <3>1. CASE ~(x = s /\ t = u)
      BY <2>0, <3>1 DEF SlotsStep, Elsewhere
    <3>2. CASE x = s /\ t = u
      <4>1. CASE \E pc \in {"unclaimed", "session", "complete", "retry"} : Goes(s, u, pc)
        <5>1. PICK pc \in {"unclaimed", "session", "complete", "retry"} : Goes(s, u, pc)
          BY <4>1
        <5> QED BY <3>2, <5>1 DEF Goes, TypeInv, Slots, RunState
      <4>2. CASE Release(s, u)
        <5>1. tasks' \in [Server -> [Task -> Stored]]
          BY <1>4, RunningTyped DEF TypeInv, Copies
        <5> QED BY <3>2, <4>2, <5>1, ReleaseFrees DEF TypeInv
      <4>3. CASE SessionOpened(s, u)
        BY <4>3 DEF SessionOpened
      <4> QED BY <1>4, <4>1, <4>2, <4>3 DEF Running, Claim, ClaimLost, ClaimFails,
              FailureRecorded, FailureUnrecorded, Start, StartFails, Consume, ConsumeFails,
              Complete, CompleteFails, RetryFails
    <3> QED BY <3>1, <3>2
  <2>3. Fresh(x, t) => runs'[x][t].task = tasks'[x][t]
    BY DEF Fresh
  <2> QED BY <1>3, <2>1, <2>2, <2>3 DEF NoRun
<1>5. ASSUME NEW s \in Server, NEW u \in Task, TimerFires(s, u)
      PROVE  /\ tasks'[x][t] # None => Agree(tasks'[x][t], file'[t])
             /\ runs'[x][t].task # None => Agree(runs'[x][t].task, file'[t])
  <2>1. tasks' = tasks
    BY <1>5 DEF TimerFires
  <2>2. runs'[x][t] = runs[x][t] \/ Fresh(x, t)
    BY <1>5, FiresBegins DEF Elsewhere
  <2> QED BY <1>3, <2>1, <2>2 DEF Fresh
<1>6. ASSUME NEW s \in Server, NEW u \in Task, RunNow(s, u)
      PROVE  /\ tasks'[x][t] # None => Agree(tasks'[x][t], file'[t])
             /\ runs'[x][t].task # None => Agree(runs'[x][t].task, file'[t])
  <2>1. tasks' = tasks
        /\ (runs'[x][t] = runs[x][t] \/ runs'[x][t] = Begun(TRUE, None, tasks[x][t]))
    BY <1>6 DEF RunNow, TypeInv, Slots
  <2> QED BY <1>3, <2>1 DEF Begun
<1>7. ASSUME NEW s \in Server, NEW u \in Task, SyncTask(s, u)
      PROVE  /\ tasks'[x][t] # None => Agree(tasks'[x][t], file'[t])
             /\ runs'[x][t].task # None => Agree(runs'[x][t].task, file'[t])
  <2>1. runs' = runs /\ Remember(s, u, file'[u])
    BY <1>7 DEF SyncTask, Outside
  <2>2. tasks'[x][t] = tasks[x][t] \/ tasks'[x][t] = file'[t]
    BY <2>1 DEF Remember, TypeInv, Copies
  <2> QED BY <1>3, <2>1, <2>2
<1>8. ASSUME NEW s \in Server, SyncBegins(s) \/ SyncFails(s) \/ Boot(s) \/ Crash(s)
      PROVE  /\ tasks'[x][t] # None => Agree(tasks'[x][t], file'[t])
             /\ runs'[x][t].task # None => Agree(runs'[x][t].task, file'[t])
  <2>1. \/ tasks'[x][t] = tasks[x][t] \/ tasks'[x][t] = file[t] \/ tasks'[x][t] = None
    BY <1>8 DEF SyncBegins, SyncFails, Boot, Crash, NoTasks, TypeInv, Copies
  <2>2. runs'[x][t] = runs[x][t] \/ runs'[x][t] = NoRun
    <3>1. runs' = runs \/ runs' = [runs EXCEPT ![s] = [u \in Task |-> NoRun]]
      BY <1>8 DEF SyncBegins, SyncFails, Boot, Crash, Outside
    <3>2. CASE runs' = [runs EXCEPT ![s] = [u \in Task |-> NoRun]]
      <4>1. runs'[x] = IF x = s THEN [u \in Task |-> NoRun] ELSE runs[x]
        BY <3>2 DEF TypeInv, Slots
      <4> QED BY <4>1
    <3> QED BY <3>1, <3>2
  <2> QED BY <1>3, <2>1, <2>2 DEF NoRun
<1>9. ASSUME NEW s \in Server, NEW u \in Task, Save(s, u) \/ Delete(s, u)
      PROVE  tasks' = tasks /\ runs' = runs
  BY <1>9 DEF Save, Delete, Act, Outside
<1>10. CASE Tick \/ UNCHANGED vars
  BY <1>3, <1>10 DEF Tick, vars, server
<1> QED BY <1>3, <1>4, <1>5, <1>6, <1>7, <1>8, <1>9, <1>10 DEF Next

LEMMA ExpectsInit ==
  ASSUME Init
  PROVE  Same /\ Expects
BY DEF Init, Same, Expects, NoRun, NoTasks

LEMMA ExpectsArmed ==
  ASSUME Expects
  PROVE  Armed
PROOF
<1>1. ASSUME NEW s \in Server, NEW t \in Task, Sees(s, t)
      PROVE  Coming(s, t)
  BY <1>1 DEF Sees, Led, Agree, Coming
<1> QED BY <1>1 DEF Expects, Lenient, Seen, Armed

-----------------------------------------------------------------------------
(* The results.                                                            *)

\* Whatever is read from the file, shown to people, kept by a server or waiting in a
\* queue is a task or an occurrence in range, through failed writes, stale saves and
\* restarts.
THEOREM Typed == Spec => []TypeOK
PROOF
<1>1. TypeInv => TypeOK
  BY DEF TypeInv, Slots, Timers, Copies, Counts, Claims, Stored, Entry, TypeOK
<1> QED BY <1>1, Inductive, PTL

\* However many servers share the file, and whatever fails, an occurrence is claimed
\* once: canClaimOccurrence looks at lastScheduledFor alone, which is enough as long as
\* occurrences are claimed in their order and nobody puts an older copy in the file.
THEOREM RunsOnce == Spec => []ClaimedOnce
PROOF
<1>1. Init => Once
  BY InitOnce
<1>2. TypeInv /\ Once /\ [Next]_vars => Once'
  BY StepOnce
<1>3. Once => ClaimedOnce
  BY DEF Once, Last, ClaimedOnce
<1> QED BY <1>1, <1>2, <1>3, Inductive, PTL DEF Spec

\* A run that has fallen due waits only for a slot: whenever a slot becomes free, but for
\* the end of a run by hand, pumpQueue has looked at the queue, in every server.
THEOREM QueueServed == Spec => []Served
PROOF
<1>1. Init => Line
  BY LineInit
<1>2. TypeInv /\ Line /\ [Next]_vars => Line'
  BY LineStep
<1>3. Line => Served
  BY DEF Line, Waits, Busy, Served
<1> QED BY <1>1, <1>2, <1>3, Inductive, PTL DEF Spec

\* With any number of servers and tasks, a task shown as running is run by some server,
\* after one write that failed too: only the claim and the start set the mark, and what
\* they begin ends with a write that takes it back, which is tried twice.
THEOREM MarkIsTrue == Spec => []ShownRunning
PROOF
<1>1. Init => Line /\ Shown
  BY LineInit, ShownInit
<1>2. TypeInv /\ Line /\ Shown /\ [Next]_vars => (Line /\ Shown)'
  BY LineStep, ShownStep
<1>3. Shown => ShownRunning
  BY DEF Shown, Marked, Ongoing, ShownRunning
<1> QED BY <1>1, <1>2, <1>3, Inductive, PTL DEF Spec

\* An enabled task with an occurrence to come is not forgotten: whatever ends a run, is
\* dropped, fails to write or restarts, something under way leads every server to it;
\* once people have changed tasks, at least one, unless that one is down for a restart
\* or two writes have failed.
THEOREM AlwaysArmed == Spec => []Armed
PROOF
<1>1. Init => Line /\ Shown /\ Same /\ Expects
  BY LineInit, ShownInit, ExpectsInit
<1>2. TypeInv /\ Line /\ Shown /\ Same /\ Expects /\ [Next]_vars
        => (Line /\ Shown /\ Same /\ Expects)'
  BY LineStep, ShownStep, SameStep, ExpectsStep DEF Shown
<1>3. Expects => Armed
  BY ExpectsArmed
<1> QED BY <1>1, <1>2, <1>3, Inductive, PTL DEF Spec
=============================================================================
