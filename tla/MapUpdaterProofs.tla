--------------------------- MODULE MapUpdaterProofs ---------------------------
(***************************************************************************)
(* The tick barrier for any number of maps and worker threads.             *)
(*                                                                         *)
(* Barrier is not inductive: it needs that m_pending is exact (so that a   *)
(* count of zero means no worker is busy), and that the count stays zero   *)
(* while the world thread is outside the parallel part of the tick.        *)
(***************************************************************************)
EXTENDS MapUpdater, FiniteSetTheorems, SequenceTheorems, TLAPS

\* Outside the parallel part of the tick nothing is pending.
Quiet == ~InTick => pending = 0

\* The pool refuses work only once the world thread has begun to retire it.
StopLate == stop => mpc \in {"notifyAll", "join", "done"}

\* Without workers nothing is ever handed to the pool.
PoolRuns == pool = {} => pending = 0

\* Maps are left to schedule only in the loop that schedules them, and they
\* are loaded.
TodoLoaded == todo # {} => mpc \in {"schedule", "notifyOne"} /\ todo \subseteq maps

IInv ==
  /\ TypeOK
  /\ PendingExact
  /\ Quiet
  /\ StopLate
  /\ PoolRuns
  /\ TodoLoaded
  /\ NoDeletedMap

-----------------------------------------------------------------------------
\* The counting facts: the busy workers form a finite set whose size follows
\* every single worker's step.

LEMMA BusyFinite == IsFiniteSet(Busy) /\ Cardinality(Busy) \in Nat
<1>1. Busy \subseteq Worker
  BY DEF Busy
<1>2. IsFiniteSet(Busy)
  BY <1>1, WorkerAssumption, FS_Subset
<1>3. QED
  BY <1>2, FS_CardinalityType

\* A worker that pops a task makes the set of busy workers one larger.
LEMMA BusyGrows ==
  ASSUME NEW w \in Worker, ~Holding(w), Busy' = Busy \union {w}
  PROVE  Cardinality(Busy') = Cardinality(Busy) + 1
<1>1. w \notin Busy
  BY DEF Busy
<1>2. QED
  BY <1>1, BusyFinite, FS_AddElement

\* A worker that counts its task as done makes it one smaller.
LEMMA BusyShrinks ==
  ASSUME NEW w \in Worker, Holding(w), Busy' = Busy \ {w}
  PROVE  Cardinality(Busy') = Cardinality(Busy) - 1
<1>1. w \in Busy
  BY DEF Busy
<1>2. QED
  BY <1>1, BusyFinite, FS_RemoveElement

\* An action that leaves every worker's busyness alone leaves Busy alone.
LEMMA BusySame ==
  ASSUME \A w \in Worker : Holding(w)' <=> Holding(w)
  PROVE  Busy' = Busy
BY DEF Busy

-----------------------------------------------------------------------------
LEMMA TypeInit == Init => TypeOK
<1> SUFFICES ASSUME Init PROVE TypeOK
  OBVIOUS
<1>1. tasks \in Seq(Map)
  BY EmptySeq DEF Init
<1>2. wpc \in [Worker -> WorkerPC] /\ job \in [Worker -> Map \union {NoMap}] /\ ran \in [Map -> Nat]
  BY DEF Init, WorkerPC
<1>3. QED
  BY <1>1, <1>2 DEF Init, TypeOK, MainPC

\* Type correctness of the pool, its workers and the world thread.
LEMMA TypeNext == TypeOK /\ NoDeletedMap /\ PendingExact /\ [Next]_vars => TypeOK'
<1> SUFFICES ASSUME TypeOK, NoDeletedMap, PendingExact, [Next]_vars
             PROVE  TypeOK'
  OBVIOUS
<1> USE DEF TypeOK, WorkerPC, MainPC, vars, poolVars, workerVars
<1>1. CASE Initialize
  BY <1>1 DEF Initialize
<1>2. CASE CreateMap
  BY <1>2 DEF CreateMap
<1>3. CASE BeginTick
  BY <1>3 DEF BeginTick
<1>4. CASE ScheduleUpdate
  <2>1. CASE stop
    BY <1>4, <2>1 DEF ScheduleUpdate
  <2>2. CASE ~stop
    <3>1. PICK m \in todo : tasks' = Append(tasks, m)
      BY <1>4, <2>2 DEF ScheduleUpdate
    <3>2. tasks' \in Seq(Map)
      BY <3>1, AppendProperties
    <3>3. QED
      BY <1>4, <2>2, <3>2 DEF ScheduleUpdate
  <2>3. QED
    BY <2>1, <2>2
<1>5. CASE NotifyOne
  BY <1>5 DEF NotifyOne, Asleep
<1>6. CASE UpdateInline
  BY <1>6 DEF UpdateInline
<1>7. CASE EndSchedule
  BY <1>7 DEF EndSchedule
<1>8. CASE WaitTick
  BY <1>8 DEF WaitTick
<1>9. CASE UnloadIdleMaps
  BY <1>9 DEF UnloadIdleMaps
<1>10. CASE UnloadAll
  BY <1>10 DEF UnloadAll
<1>11. CASE WaitDrain
  BY <1>11 DEF WaitDrain
<1>12. CASE SetStop
  BY <1>12 DEF SetStop
<1>13. CASE NotifyAll
  BY <1>13 DEF NotifyAll
<1>14. CASE Join
  BY <1>14 DEF Join
<1>15. CASE SpuriousMain
  BY <1>15 DEF SpuriousMain
<1>16. ASSUME NEW w \in Worker, TakeTask(w) PROVE TypeOK'
  <2>1. CASE tasks # <<>>
    <3>1. Head(tasks) \in Map /\ Tail(tasks) \in Seq(Map)
      BY <2>1, HeadTailProperties
    <3>2. QED
      BY <1>16, <2>1, <3>1 DEF TakeTask
  <2>2. CASE tasks = <<>>
    BY <1>16, <2>2 DEF TakeTask
  <2>3. QED
    BY <2>1, <2>2
<1>17. ASSUME NEW w \in Worker, UpdateMap(w) PROVE TypeOK'
  BY <1>17 DEF UpdateMap, NoDeletedMap, Holding
<1>18. ASSUME NEW w \in Worker, Decrement(w) PROVE TypeOK'
  <2>1. w \in Busy
    BY <1>18 DEF Decrement, Busy, Holding
  <2>2. Cardinality(Busy) # 0
    BY <2>1, BusyFinite, FS_EmptySet
  <2>3. pending - 1 \in Nat
    BY <2>2, BusyFinite DEF PendingExact
  <2>4. QED
    BY <1>18, <2>3 DEF Decrement
<1>19. ASSUME NEW w \in Worker, NotifyDone(w) PROVE TypeOK'
  BY <1>19 DEF NotifyDone
<1>20. ASSUME NEW w \in Worker, SpuriousWorker(w) PROVE TypeOK'
  BY <1>20 DEF SpuriousWorker
<1>21. CASE UNCHANGED vars
  BY <1>21
<1>22. QED
  BY <1>1, <1>2, <1>3, <1>4, <1>5, <1>6, <1>7, <1>8, <1>9, <1>10, <1>11, <1>12,
     <1>13, <1>14, <1>15, <1>16, <1>17, <1>18, <1>19, <1>20, <1>21
     DEF Next, WorldThread, WorkerThread, Finished

-----------------------------------------------------------------------------
\* A count of zero means that nothing is queued and nobody is busy.
LEMMA ZeroIsIdle ==
  ASSUME TypeOK, PendingExact, pending = 0
  PROVE  tasks = <<>> /\ Busy = {}
<1>1. Len(tasks) \in Nat
  BY LenProperties DEF TypeOK
<1>2. Len(tasks) = 0 /\ Cardinality(Busy) = 0
  BY <1>1, BusyFinite DEF PendingExact
<1>3. QED
  BY <1>2, BusyFinite, FS_EmptySet, EmptySeq DEF TypeOK

\* m_pending stays exact.
LEMMA PendingNext == IInv /\ [Next]_vars => PendingExact'
<1> SUFFICES ASSUME IInv, [Next]_vars
             PROVE  PendingExact'
  OBVIOUS
<1> USE DEF IInv, vars, poolVars, workerVars
<1>1. ASSUME UNCHANGED <<tasks, pending>>, \A w \in Worker : Holding(w)' <=> Holding(w)
      PROVE  PendingExact'
  BY <1>1, BusySame DEF PendingExact
<1>2. CASE Initialize
  <2>1. tasks = <<>> /\ Busy = {}
    BY <1>2, ZeroIsIdle DEF Initialize, Quiet, InTick
  <2>2. \A w \in Worker : ~Holding(w) /\ ~Holding(w)'
    BY <1>2, <2>1 DEF Initialize, Busy, Holding
  <2>3. QED
    BY <1>1, <1>2, <2>2 DEF Initialize
<1>3. CASE ScheduleUpdate
  <2>1. CASE stop
    BY <1>1, <1>3, <2>1 DEF ScheduleUpdate, Holding
  <2>2. CASE ~stop
    <3>1. PICK m \in todo : tasks' = Append(tasks, m)
      BY <1>3, <2>2 DEF ScheduleUpdate
    <3>2. Len(tasks') = Len(tasks) + 1 /\ Len(tasks) \in Nat
      BY <3>1, AppendProperties, LenProperties DEF TypeOK
    <3>3. Busy' = Busy
      BY <1>3, BusySame DEF ScheduleUpdate, Holding
    <3>4. QED
      BY <1>3, <2>2, <3>2, <3>3, BusyFinite DEF ScheduleUpdate, PendingExact
  <2>3. QED
    BY <2>1, <2>2
<1>4. CASE NotifyOne
  BY <1>1, <1>4 DEF NotifyOne, Asleep, Holding, TypeOK
<1>5. CASE NotifyAll
  BY <1>1, <1>5 DEF NotifyAll, Holding
<1>6. ASSUME NEW w \in Worker, TakeTask(w) PROVE PendingExact'
  <2>1. CASE tasks = <<>>
    BY <1>1, <1>6, <2>1 DEF TakeTask, Holding, TypeOK
  <2>2. CASE tasks # <<>>
    <3>1. Len(tasks') = Len(tasks) - 1 /\ Len(tasks) \in Nat
      BY <1>6, <2>2, HeadTailProperties, LenProperties DEF TakeTask, TypeOK
    <3>2. ~Holding(w) /\ Busy' = Busy \union {w}
      BY <1>6, <2>2 DEF TakeTask, Busy, Holding, TypeOK
    <3>3. Cardinality(Busy') = Cardinality(Busy) + 1
      BY <3>2, BusyGrows
    <3>4. pending' = pending
      BY <1>6 DEF TakeTask
    <3>5. QED
      BY <3>1, <3>3, <3>4, BusyFinite DEF PendingExact
  <2>3. QED
    BY <2>1, <2>2
<1>7. ASSUME NEW w \in Worker, UpdateMap(w) PROVE PendingExact'
  BY <1>1, <1>7 DEF UpdateMap, Holding, TypeOK
<1>8. ASSUME NEW w \in Worker, Decrement(w) PROVE PendingExact'
  <2>1. Holding(w) /\ Busy' = Busy \ {w}
    BY <1>8 DEF Decrement, Busy, Holding, TypeOK
  <2>2. Len(tasks) \in Nat
    BY LenProperties DEF TypeOK
  <2>3. Cardinality(Busy') = Cardinality(Busy) - 1
    BY <2>1, BusyShrinks
  <2>4. pending' = pending - 1 /\ tasks' = tasks
    BY <1>8 DEF Decrement
  <2>5. QED
    BY <2>2, <2>3, <2>4, BusyFinite DEF PendingExact
<1>9. ASSUME NEW w \in Worker, NotifyDone(w) PROVE PendingExact'
  BY <1>1, <1>9 DEF NotifyDone, Holding, TypeOK
<1>10. ASSUME NEW w \in Worker, SpuriousWorker(w) PROVE PendingExact'
  BY <1>1, <1>10 DEF SpuriousWorker, Holding, TypeOK
<1>11. CASE \/ CreateMap \/ BeginTick \/ UpdateInline \/ EndSchedule \/ WaitTick
            \/ UnloadIdleMaps \/ UnloadAll \/ WaitDrain \/ SetStop \/ Join
            \/ SpuriousMain \/ UNCHANGED vars
  <2>1. UNCHANGED <<tasks, pending, wpc>>
    BY <1>11 DEF CreateMap, BeginTick, UpdateInline, EndSchedule, WaitTick,
       UnloadIdleMaps, UnloadAll, WaitDrain, SetStop, Join, SpuriousMain
  <2>2. QED
    BY <1>1, <2>1 DEF Holding
<1>12. QED
  BY <1>2, <1>3, <1>4, <1>5, <1>6, <1>7, <1>8, <1>9, <1>10, <1>11
     DEF Next, WorldThread, WorkerThread, Finished

\* The world thread is in step with the pool: nothing is pending outside the
\* tick, the pool stops last, and only loaded maps wait to be scheduled.
LEMMA ControlNext == IInv /\ [Next]_vars => (Quiet /\ StopLate /\ PoolRuns /\ TodoLoaded)'
<1> SUFFICES ASSUME IInv, [Next]_vars
             PROVE  (Quiet /\ StopLate /\ PoolRuns /\ TodoLoaded)'
  OBVIOUS
<1> USE DEF IInv, vars, poolVars, workerVars, InTick, Quiet, StopLate, PoolRuns, TodoLoaded
<1>1. CASE Initialize \/ CreateMap \/ BeginTick \/ UpdateInline \/ EndSchedule
  BY <1>1 DEF Initialize, CreateMap, BeginTick, UpdateInline, EndSchedule, TypeOK
<1>2. CASE ScheduleUpdate
  BY <1>2 DEF ScheduleUpdate, TypeOK
<1>3. CASE NotifyOne \/ NotifyAll \/ WaitTick \/ WaitDrain \/ SetStop \/ Join \/ SpuriousMain
  BY <1>3 DEF NotifyOne, NotifyAll, WaitTick, WaitDrain, SetStop, Join, SpuriousMain
<1>4. CASE UnloadIdleMaps \/ UnloadAll
  BY <1>4 DEF UnloadIdleMaps, UnloadAll
<1>5. ASSUME NEW w \in Worker, TakeTask(w) \/ UpdateMap(w) \/ SpuriousWorker(w)
      PROVE  (Quiet /\ StopLate /\ PoolRuns /\ TodoLoaded)'
  BY <1>5 DEF TakeTask, UpdateMap, SpuriousWorker
<1>6. ASSUME NEW w \in Worker, Decrement(w)
      PROVE  (Quiet /\ StopLate /\ PoolRuns /\ TodoLoaded)'
  <2>1. w \in Busy
    BY <1>6 DEF Decrement, Busy, Holding
  <2>2. pending # 0
    BY <2>1, ZeroIsIdle
  <2>3. QED
    BY <1>6, <2>2 DEF Decrement
<1>7. ASSUME NEW w \in Worker, NotifyDone(w)
      PROVE  (Quiet /\ StopLate /\ PoolRuns /\ TodoLoaded)'
  BY <1>7 DEF NotifyDone, TypeOK, MainPC
<1>8. CASE UNCHANGED vars
  BY <1>8
<1>9. QED
  BY <1>1, <1>2, <1>3, <1>4, <1>5, <1>6, <1>7, <1>8
     DEF Next, WorldThread, WorkerThread, Finished

\* Only loaded maps are queued or being updated.
LEMMA MapsNext == IInv /\ [Next]_vars => NoDeletedMap'
<1> SUFFICES ASSUME IInv, [Next]_vars
             PROVE  NoDeletedMap'
  OBVIOUS
<1> USE DEF IInv, vars, poolVars, workerVars, NoDeletedMap
\* Whoever changes the set of maps finds nothing queued and nobody busy.
<1>1. ASSUME pending = 0, UNCHANGED <<tasks, wpc>>
      PROVE  NoDeletedMap'
  <2>1. tasks = <<>> /\ Busy = {}
    BY <1>1, ZeroIsIdle
  <2>2. DOMAIN tasks = {} /\ \A w \in Worker : ~Holding(w)
    BY <2>1, EmptySeq, LenProperties DEF Busy
  <2>3. QED
    BY <1>1, <2>2 DEF Holding
<1>2. CASE CreateMap \/ UnloadIdleMaps \/ UnloadAll
  BY <1>1, <1>2 DEF CreateMap, UnloadIdleMaps, UnloadAll, Quiet, InTick
<1>3. CASE Initialize
  BY <1>3 DEF Initialize, Holding
<1>4. CASE ScheduleUpdate
  <2>1. CASE stop
    BY <1>4, <2>1 DEF ScheduleUpdate, Holding
  <2>2. CASE ~stop
    <3>1. PICK m \in todo : tasks' = Append(tasks, m)
      BY <1>4, <2>2 DEF ScheduleUpdate
    <3>2. m \in maps
      BY <3>1 DEF TodoLoaded
    <3>3. \A i \in DOMAIN tasks' : tasks'[i] \in maps
      BY <3>1, <3>2, AppendProperties, LenProperties DEF TypeOK
    <3>4. QED
      BY <1>4, <3>3 DEF ScheduleUpdate, Holding
  <2>3. QED
    BY <2>1, <2>2
<1>5. ASSUME NEW w \in Worker, TakeTask(w) PROVE NoDeletedMap'
  <2>1. CASE tasks = <<>>
    BY <1>5, <2>1 DEF TakeTask, Holding, TypeOK
  <2>2. CASE tasks # <<>>
    <3>1. Head(tasks) \in maps
      BY <2>2, HeadTailProperties, LenProperties, EmptySeq DEF TypeOK
    <3>2. \A i \in DOMAIN Tail(tasks) : Tail(tasks)[i] \in maps
      BY <2>2, HeadTailProperties, LenProperties DEF TypeOK
    <3>3. QED
      BY <1>5, <2>2, <3>1, <3>2 DEF TakeTask, Holding, TypeOK
  <2>3. QED
    BY <2>1, <2>2
<1>6. ASSUME NEW w \in Worker, UpdateMap(w) \/ Decrement(w) \/ NotifyDone(w) \/ SpuriousWorker(w)
      PROVE  NoDeletedMap'
  BY <1>6 DEF UpdateMap, Decrement, NotifyDone, SpuriousWorker, Holding, TypeOK
<1>7. CASE NotifyOne \/ NotifyAll
  BY <1>7 DEF NotifyOne, NotifyAll, Asleep, Holding, TypeOK
<1>8. CASE \/ BeginTick \/ UpdateInline \/ EndSchedule \/ WaitTick \/ WaitDrain
           \/ SetStop \/ Join \/ SpuriousMain \/ UNCHANGED vars
  BY <1>8 DEF BeginTick, UpdateInline, EndSchedule, WaitTick, WaitDrain, SetStop,
     Join, SpuriousMain, Holding
<1>9. QED
  BY <1>2, <1>3, <1>4, <1>5, <1>6, <1>7, <1>8
     DEF Next, WorldThread, WorkerThread, Finished

-----------------------------------------------------------------------------
\* The invariant holds initially ...
LEMMA InvInit == Init => IInv
<1> SUFFICES ASSUME Init
             PROVE  IInv
  OBVIOUS
<1>1. Busy = {} /\ DOMAIN tasks = {} /\ Len(tasks) = 0
  BY EmptySeq, LenProperties DEF Init, Busy, Holding
<1>2. PendingExact
  BY <1>1, FS_EmptySet DEF Init, PendingExact
<1>3. NoDeletedMap
  BY <1>1 DEF NoDeletedMap, Busy
<1>4. QED
  BY <1>2, <1>3, TypeInit DEF Init, IInv, Quiet, StopLate, PoolRuns, TodoLoaded

\* ... and forever.
LEMMA Invariance == Spec => []IInv
<1>1. IInv /\ [Next]_vars => IInv'
  BY TypeNext, PendingNext, ControlNext, MapsNext DEF IInv
<1>2. QED
  BY InvInit, <1>1, PTL DEF Spec

\* The pool, its workers and the world thread keep to their types; above all
\* m_pending, an unsigned counter, is never decremented below zero.
THEOREM TypeCorrect == Spec => []TypeOK
BY Invariance, PTL DEF IInv

\* m_pending is the number of unfinished updates, in every interleaving.
THEOREM PendingIsExact == Spec => []PendingExact
BY Invariance, PTL DEF IInv

\* The world thread never gets past wait() with an update queued or running.
THEOREM BarrierHolds == Spec => []Barrier
<1>1. IInv => Barrier
  BY ZeroIsIdle DEF IInv, Quiet, Barrier
<1>2. QED
  BY Invariance, <1>1, PTL

\* No worker is ever handed a map that has been deleted.
THEOREM NoDeletedMapHolds == Spec => []NoDeletedMap
BY Invariance, PTL DEF IInv

-----------------------------------------------------------------------------
(* Each map once per tick, and the abstract tick.                          *)

\* The maps this tick still owes an update.
Owed == todo \union {tasks[i] : i \in DOMAIN tasks} \union {job[w] : w \in Updating}

\* A map is owed in one place only, and not any more once it was updated.
OwedOnce ==
  /\ \A i, j \in DOMAIN tasks : i # j => tasks[i] # tasks[j]
  /\ \A i \in DOMAIN tasks : tasks[i] \notin todo /\ \A w \in Updating : job[w] # tasks[i]
  /\ \A v, w \in Updating : v # w => job[v] # job[w]
  /\ \A w \in Updating : job[w] \notin todo
  /\ \A m \in Map : ran[m] <= 1
  /\ \A m \in Owed : ran[m] = 0

\* The elements of a queue before and after an operation.
LEMMA AppendElements ==
  ASSUME NEW S, NEW s \in Seq(S), NEW e \in S
  PROVE  /\ Len(s) + 1 \notin DOMAIN s
         /\ DOMAIN Append(s, e) = DOMAIN s \union {Len(s) + 1}
         /\ Append(s, e)[Len(s) + 1] = e
         /\ \A i \in DOMAIN s : Append(s, e)[i] = s[i]
<1>1. Len(s) \in Nat /\ DOMAIN s = 1 .. Len(s)
  BY LenProperties
<1>2. /\ Append(s, e) \in Seq(S) /\ Len(Append(s, e)) = Len(s) + 1
      /\ \A i \in 1 .. Len(s) : Append(s, e)[i] = s[i]
      /\ Append(s, e)[Len(s) + 1] = e
  BY AppendProperties
<1>3. DOMAIN Append(s, e) = 1 .. Len(s) + 1
  BY <1>2, LenProperties
<1>4. QED
  BY <1>1, <1>2, <1>3

LEMMA TailElements ==
  ASSUME NEW S, NEW s \in Seq(S), s # <<>>
  PROVE  /\ 1 \in DOMAIN s /\ Head(s) = s[1]
         /\ \A i \in DOMAIN Tail(s) : i + 1 \in DOMAIN s /\ i + 1 # 1 /\ Tail(s)[i] = s[i + 1]
         /\ \A i, j \in DOMAIN Tail(s) : i # j => i + 1 # j + 1
         /\ \A i \in DOMAIN s : i = 1 \/ (i - 1 \in DOMAIN Tail(s) /\ Tail(s)[i - 1] = s[i])
<1>1. Len(s) \in Nat \ {0} /\ DOMAIN s = 1 .. Len(s)
  BY LenProperties, EmptySeq
<1>2. /\ Tail(s) \in Seq(S) /\ Len(Tail(s)) = Len(s) - 1
      /\ \A i \in 1 .. Len(Tail(s)) : Tail(s)[i] = s[i + 1]
  BY HeadTailProperties
<1>3. DOMAIN Tail(s) = 1 .. Len(s) - 1
  BY <1>2, LenProperties
<1>4. \A i \in DOMAIN Tail(s) : i \in Int /\ i + 1 \in DOMAIN s /\ i + 1 # 1 /\ Tail(s)[i] = s[i + 1]
  BY <1>1, <1>2, <1>3
<1>5. ASSUME NEW i \in DOMAIN s, i # 1 PROVE i - 1 \in DOMAIN Tail(s) /\ Tail(s)[i - 1] = s[i]
  <2>1. i \in Int /\ i - 1 \in 1 .. Len(s) - 1 /\ (i - 1) + 1 = i
    BY <1>1, <1>5
  <2>2. QED
    BY <1>2, <1>3, <2>1
<1>6. 1 \in DOMAIN s /\ Head(s) = s[1]
  BY <1>1
<1>7. QED
  BY <1>4, <1>5, <1>6

\* With nothing pending only what is not scheduled yet is owed.
LEMMA OwedAtZero ==
  ASSUME TypeOK, PendingExact, pending = 0
  PROVE  Owed = todo /\ DOMAIN tasks = {} /\ Updating = {} /\ Busy = {}
<1>1. tasks = <<>> /\ Busy = {}
  BY ZeroIsIdle
<1>2. DOMAIN tasks = {}
  BY <1>1, EmptySeq, LenProperties
<1>3. Updating = {}
  BY <1>1 DEF Updating, Busy, Holding
<1>4. QED
  BY <1>1, <1>2, <1>3 DEF Owed

\* What a step that schedules a map, hands it to a worker or leaves it alone does.
LEMMA OwedStays ==
  ASSUME IInv, [Next]_vars, OwedOnce, InTick, InTick', UNCHANGED ran
  PROVE  OwedOnce' /\ Owed' = Owed
<1> USE DEF IInv, vars, poolVars, workerVars, InTick
<1>1. ASSUME UNCHANGED <<todo, tasks>>, Updating' = Updating, \A w \in Updating : job'[w] = job[w]
      PROVE  OwedOnce' /\ Owed' = Owed
  BY <1>1 DEF OwedOnce, Owed
<1>2. CASE ScheduleUpdate
  <2>1. ~stop
    BY <1>2 DEF ScheduleUpdate, StopLate
  <2>2. PICK m \in todo : tasks' = Append(tasks, m) /\ todo' = todo \ {m}
    BY <1>2, <2>1 DEF ScheduleUpdate
  <2>3. m \in Map
    BY DEF TypeOK
  <2>4. /\ Len(tasks) + 1 \notin DOMAIN tasks
        /\ DOMAIN tasks' = DOMAIN tasks \union {Len(tasks) + 1}
        /\ tasks'[Len(tasks) + 1] = m
        /\ \A i \in DOMAIN tasks : tasks'[i] = tasks[i]
    BY <2>2, <2>3, AppendElements DEF TypeOK
  <2>6. Updating' = Updating /\ job' = job
    BY <1>2 DEF ScheduleUpdate, Updating
  <2>7. Owed' = Owed
    BY <2>2, <2>4, <2>6 DEF Owed
  <2>8. QED
    BY <2>2, <2>4, <2>6, <2>7 DEF OwedOnce
<1>3. CASE NotifyOne
  BY <1>1, <1>3 DEF NotifyOne, Asleep, Updating, TypeOK
<1>4. ASSUME NEW w \in Worker, TakeTask(w) PROVE OwedOnce' /\ Owed' = Owed
  <2>1. CASE tasks = <<>>
    BY <1>1, <1>4, <2>1 DEF TakeTask, Updating, TypeOK
  <2>2. CASE tasks # <<>>
    <3>1. /\ 1 \in DOMAIN tasks /\ Head(tasks) = tasks[1] /\ tasks' = Tail(tasks)
          /\ \A i \in DOMAIN tasks' : i + 1 \in DOMAIN tasks /\ i + 1 # 1 /\ tasks'[i] = tasks[i + 1]
          /\ \A i, j \in DOMAIN tasks' : i # j => i + 1 # j + 1
          /\ \A i \in DOMAIN tasks : i = 1 \/ (i - 1 \in DOMAIN tasks' /\ tasks'[i - 1] = tasks[i])
      BY <1>4, <2>2, TailElements DEF TakeTask, TypeOK
    <3>3. /\ w \notin Updating /\ Updating' = Updating \union {w}
          /\ job'[w] = tasks[1] /\ \A v \in Updating : job'[v] = job[v]
          /\ todo' = todo
      BY <1>4, <2>2, <3>1 DEF TakeTask, Updating, TypeOK
    <3>4. {tasks[i] : i \in DOMAIN tasks} = {tasks[1]} \union {tasks'[i] : i \in DOMAIN tasks'}
      BY <3>1
    <3>5. Owed' = Owed
      BY <3>3, <3>4 DEF Owed
    <3>6. \A i \in DOMAIN tasks' : tasks'[i] # tasks[1]
      BY <3>1 DEF OwedOnce
    <3>7. \A i, j \in DOMAIN tasks' : i # j => tasks'[i] # tasks'[j]
      BY <3>1 DEF OwedOnce
    <3>8. \A i \in DOMAIN tasks' : tasks'[i] \notin todo /\ \A v \in Updating : job[v] # tasks'[i]
      BY <3>1 DEF OwedOnce
    <3>9. tasks[1] \notin todo /\ \A v \in Updating : job[v] # tasks[1]
      BY <3>1 DEF OwedOnce
    <3>10. QED
      BY <3>3, <3>5, <3>6, <3>7, <3>8, <3>9 DEF OwedOnce
  <2>3. QED
    BY <2>1, <2>2
<1>5. ASSUME NEW w \in Worker, Decrement(w) \/ NotifyDone(w) \/ SpuriousWorker(w)
      PROVE  OwedOnce' /\ Owed' = Owed
  BY <1>1, <1>5 DEF Decrement, NotifyDone, SpuriousWorker, Updating, TypeOK
<1>6. ASSUME NEW w \in Worker, UpdateMap(w) PROVE FALSE
  BY <1>6 DEF UpdateMap, NoDeletedMap, Holding, TypeOK
<1>7. CASE UpdateInline
  BY <1>7 DEF UpdateInline, TypeOK
<1>8. CASE EndSchedule \/ WaitTick \/ SpuriousMain \/ UNCHANGED vars
  BY <1>1, <1>8 DEF EndSchedule, WaitTick, SpuriousMain, Updating
<1>9. QED
  BY <1>2, <1>3, <1>4, <1>5, <1>6, <1>7, <1>8
     DEF Next, WorldThread, WorkerThread, Finished, Initialize, CreateMap, BeginTick,
         UnloadIdleMaps, UnloadAll, WaitDrain, SetStop, NotifyAll, Join

\* Outside the parallel part of the tick nothing is owed.
LEMMA AtRest == IInv /\ ~InTick => Owed = {} /\ DOMAIN tasks = {} /\ Updating = {} /\ Busy = {}
BY OwedAtZero DEF IInv, Quiet, TodoLoaded, InTick

\* The three steps that change what is owed, and how.
LEMMA TickBegins ==
  ASSUME IInv, BeginTick
  PROVE  ~InTick /\ InTick' /\ maps' = maps /\ Owed' = maps /\ OwedOnce'
<1>1. ~InTick /\ InTick' /\ UNCHANGED <<maps, tasks, wpc, job>> /\ todo' = maps
  BY DEF BeginTick, InTick, poolVars, workerVars
<1>2. DOMAIN tasks' = {} /\ Updating' = {}
  BY <1>1, AtRest DEF Updating
<1>3. Owed' = maps
  BY <1>1, <1>2 DEF Owed
<1>4. ran' = [m \in Map |-> 0] /\ maps \subseteq Map
  BY DEF BeginTick, IInv, TypeOK
<1>5. QED
  BY <1>1, <1>2, <1>3, <1>4 DEF OwedOnce

LEMMA MapIsUpdated ==
  ASSUME IInv, OwedOnce, NEW w \in Worker, UpdateMap(w)
  PROVE  InTick /\ InTick' /\ maps' = maps /\ job[w] \in Owed /\ Owed' = Owed \ {job[w]} /\ OwedOnce'
<1>1. w \in Busy /\ w \in Updating
  BY DEF UpdateMap, Busy, Holding, Updating
<1>2. InTick
  BY <1>1, AtRest
<1>3. /\ UNCHANGED <<maps, tasks, job, mpc, todo>>
      /\ ran' = [ran EXCEPT ![job[w]] = @ + 1]
      /\ Updating' = Updating \ {w}
  BY DEF UpdateMap, poolVars, Updating, IInv, TypeOK
<1>4. job[w] \in Owed /\ Owed' = Owed \ {job[w]}
  BY <1>1, <1>3 DEF Owed, OwedOnce
<1>5. ran[job[w]] = 0 /\ ran \in [Map -> Nat]
  BY <1>4 DEF OwedOnce, IInv, TypeOK
<1>6. job[w] \in Map
  BY <1>1 DEF IInv, NoDeletedMap, TypeOK, Busy
<1>7. /\ ran'[job[w]] = 1
      /\ \A m \in Map \ {job[w]} : ran'[m] = ran[m]
  BY <1>3, <1>5, <1>6
<1>8. Owed \subseteq Map
  <2>1. todo \subseteq Map /\ \A i \in DOMAIN tasks : tasks[i] \in Map
    BY LenProperties, ElementOfSeq DEF IInv, TypeOK
  <2>2. \A v \in Updating : job[v] \in Map
    BY DEF IInv, TypeOK, NoDeletedMap, Updating, Holding
  <2>3. QED
    BY <2>1, <2>2 DEF Owed
<1>9. OwedOnce'
  BY <1>3, <1>4, <1>5, <1>7, <1>8 DEF OwedOnce
<1>10. QED
  BY <1>2, <1>3, <1>4, <1>9 DEF InTick

LEMMA MapIsUpdatedInline ==
  ASSUME IInv, OwedOnce, UpdateInline
  PROVE  /\ InTick /\ InTick' /\ maps' = maps /\ OwedOnce'
         /\ \E m \in Owed : Owed' = Owed \ {m}
<1>1. PICK m \in todo : todo' = todo \ {m} /\ ran' = [ran EXCEPT ![m] = @ + 1]
  BY DEF UpdateInline
<1>2. InTick /\ InTick' /\ UNCHANGED <<maps, tasks, wpc, job>> /\ pool = {}
  BY DEF UpdateInline, InTick, poolVars, workerVars
<1>3. Owed = todo /\ DOMAIN tasks = {} /\ Updating = {}
  BY <1>2, OwedAtZero DEF IInv, PoolRuns
<1>4. Owed' = todo' /\ DOMAIN tasks' = {} /\ Updating' = {}
  BY <1>2, <1>3 DEF Owed, Updating
<1>5. ran \in [Map -> Nat] /\ todo \subseteq Map /\ ran[m] = 0
  BY <1>1, <1>3 DEF IInv, TypeOK, OwedOnce
<1>6. OwedOnce'
  BY <1>1, <1>3, <1>4, <1>5 DEF OwedOnce
<1>7. QED
  BY <1>1, <1>2, <1>3, <1>4, <1>6

LEMMA InvNext == IInv /\ [Next]_vars => IInv'
BY TypeNext, PendingNext, ControlNext, MapsNext DEF IInv

LEMMA AtRestNext == IInv' /\ ~InTick' => Owed' = {} /\ (DOMAIN tasks)' = {} /\ Updating' = {}
<1>1. (IInv /\ ~InTick => Owed = {} /\ DOMAIN tasks = {} /\ Updating = {})'
  BY AtRest, PTL
<1>2. QED
  BY <1>1

\* No other step counts an update, and the tick starts nowhere else.
LEMMA OtherSteps ==
  ASSUME [Next]_vars
  PROVE  BeginTick \/ UpdateInline \/ (\E w \in Worker : UpdateMap(w))
           \/ (ran' = ran /\ (InTick' => InTick))
BY DEF Next, WorldThread, WorkerThread, Finished, vars, poolVars, workerVars, InTick,
   Initialize, CreateMap, ScheduleUpdate, NotifyOne, EndSchedule, WaitTick, UnloadIdleMaps,
   UnloadAll, WaitDrain, SetStop, NotifyAll, Join, SpuriousMain, TakeTask, Decrement,
   NotifyDone, SpuriousWorker

LEMMA OnceNext == IInv /\ OwedOnce /\ [Next]_vars => OwedOnce'
<1> SUFFICES ASSUME IInv, OwedOnce, [Next]_vars PROVE OwedOnce'
  OBVIOUS
<1>1. CASE ran' = ran /\ InTick' /\ InTick
  BY <1>1, OwedStays
<1>2. CASE ran' = ran /\ ~InTick'
  <2>1. Owed' = {} /\ DOMAIN tasks' = {} /\ Updating' = {}
    BY <1>2, InvNext, AtRestNext
  <2>2. QED
    BY <1>2, <2>1 DEF OwedOnce
<1>3. QED
  BY <1>1, <1>2, OtherSteps, TickBegins, MapIsUpdated, MapIsUpdatedInline

LEMMA OnceInit == Init => OwedOnce
<1> SUFFICES ASSUME Init PROVE OwedOnce
  OBVIOUS
<1>1. Owed = {} /\ DOMAIN tasks = {} /\ Updating = {}
  BY InvInit, AtRest DEF Init, InTick
<1>2. QED
  BY <1>1 DEF OwedOnce, Init

LEMMA OnceAlways == Spec => []OwedOnce
<1>1. IInv /\ OwedOnce /\ [Next]_vars => OwedOnce'
  BY OnceNext
<1>2. QED
  BY OnceInit, Invariance, <1>1, PTL DEF Spec

\* MapManager::Update and the workers between them update no map twice in a tick, and no
\* two of them update one map at the same time.
THEOREM UpdatedOnceHolds == Spec => []UpdatedOnce
<1>1. OwedOnce => UpdatedOnce
  BY DEF OwedOnce, UpdatedOnce
<1>2. QED
  BY OnceAlways, <1>1, PTL

-----------------------------------------------------------------------------
\* A step of the pool is a step of the abstract tick, or none.

LEMMA TickInit == Init => Tick!Init
BY DEF Init, InTick, Tick!Init

\* The tick ends with nothing left, and maps come and go only between ticks.
LEMMA LeavingTick ==
  ASSUME IInv, [Next]_vars, InTick, ~InTick'
  PROVE  Owed = {} /\ maps' = maps
<1> USE DEF InTick
<1>1. CASE EndSchedule
  BY <1>1, OwedAtZero DEF EndSchedule, IInv, PoolRuns
<1>2. CASE WaitTick
  BY <1>2, OwedAtZero DEF WaitTick, IInv, TodoLoaded
<1>3. QED
  BY <1>1, <1>2 DEF Next, WorldThread, WorkerThread, Finished, vars, poolVars, workerVars,
     Initialize, CreateMap, BeginTick, UpdateInline, ScheduleUpdate, NotifyOne, UnloadIdleMaps,
     UnloadAll, WaitDrain, SetStop, NotifyAll, Join, SpuriousMain, TakeTask, UpdateMap, Decrement,
     NotifyDone, SpuriousWorker

LEMMA MapsInTick ==
  ASSUME [Next]_vars, InTick
  PROVE  maps' = maps
BY DEF InTick, Next, WorldThread, WorkerThread, Finished, vars, poolVars, workerVars,
   Initialize, CreateMap, BeginTick, UpdateInline, EndSchedule, WaitTick, ScheduleUpdate, NotifyOne,
   UnloadIdleMaps, UnloadAll, WaitDrain, SetStop, NotifyAll, Join, SpuriousMain, TakeTask, UpdateMap,
   Decrement, NotifyDone, SpuriousWorker

LEMMA TickStep == IInv /\ OwedOnce /\ [Next]_vars => [Tick!Next]_(Tick!tickVars)
<1> SUFFICES ASSUME IInv, OwedOnce, [Next]_vars PROVE [Tick!Next]_(Tick!tickVars)
  OBVIOUS
<1> USE DEF Tick!Next, Tick!tickVars
<1>0. maps \in SUBSET Map /\ maps' \in SUBSET Map /\ IInv'
  BY InvNext DEF IInv, TypeOK
<1>1. CASE BeginTick
  <2>1. Tick!Begin
    BY <1>1, TickBegins DEF Tick!Begin, Owed
  <2>2. QED
    BY <2>1
<1>2. CASE (\E w \in Worker : UpdateMap(w)) \/ UpdateInline
  <2>1. /\ InTick /\ InTick' /\ maps' = maps
        /\ \E m \in Owed : Owed' = Owed \ {m}
    BY <1>2, MapIsUpdated, MapIsUpdatedInline
  <2>2. Tick!UpdateMap
    BY <2>1 DEF Tick!UpdateMap, Owed
  <2>3. QED
    BY <2>2
<1>3. CASE ran' = ran /\ InTick /\ InTick'
  <2>1. Owed' = Owed /\ maps' = maps
    BY <1>3, OwedStays, MapsInTick
  <2>2. QED
    BY <1>3, <2>1 DEF Owed
<1>4. CASE InTick /\ ~InTick'
  <2>1. Tick!End
    BY <1>4, LeavingTick DEF Tick!End, Owed
  <2>2. QED
    BY <2>1
<1>5. CASE ~InTick /\ ~InTick'
  <2>1. Tick!Reload
    BY <1>0, <1>5 DEF Tick!Reload
  <2>2. QED
    BY <2>1
<1>6. QED
  BY <1>1, <1>2, <1>3, <1>4, <1>5, OtherSteps

\* The pool implements MapTick for any number of maps and workers: maps are loaded and
\* unloaded only between ticks, and a tick ends when each map loaded at its start
\* was updated.
THEOREM PoolImplementsTick == Spec => ImplementsTick
<1>1. IInv /\ OwedOnce /\ [Next]_vars => [Tick!Next]_(Tick!tickVars)
  BY TickStep
<1>2. QED
  BY TickInit, Invariance, OnceAlways, <1>1, PTL DEF Spec, ImplementsTick, Tick!Spec

===============================================================================
