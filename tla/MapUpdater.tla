------------------------------ MODULE MapUpdater ------------------------------
(***************************************************************************)
(* The worker pool that ticks maps in parallel (game/Maps/MapUpdater) and  *)
(* the world thread's use of it (game/WorldHandlers/MapManager).           *)
(*                                                                         *)
(* Each critical section under m_mutex is one action; the notifications,   *)
(* which the code performs after unlocking, are actions of their own, so   *)
(* that everything another thread can do in between is explored.           *)
(***************************************************************************)
EXTENDS Integers, Sequences, FiniteSets

CONSTANTS Map,     \* map ids that may be loaded
          Worker,  \* threads the pool may start
          NoMap    \* the null Task of workerLoop

ASSUME NoMapAssumption == NoMap \notin Map

ASSUME WorkerAssumption == IsFiniteSet(Worker)

VARIABLES
  maps,     \* MapManager::i_maps
  pool,     \* MapUpdater::m_workers
  tasks,    \* MapUpdater::m_tasks
  pending,  \* MapUpdater::m_pending
  stop,     \* MapUpdater::m_stop
  wpc,      \* where each worker stands in workerLoop
  job,      \* the Task each worker has popped
  mpc,      \* where the world thread stands
  todo,     \* maps MapManager::Update has not scheduled yet
  ran       \* how often each map was updated in this tick

vars == <<maps, pool, tasks, pending, stop, wpc, job, mpc, todo, ran>>

poolVars   == <<pool, tasks, pending, stop>>
workerVars == <<wpc, job>>

-----------------------------------------------------------------------------
\* Control points

\* A worker is asleep on m_taskAdded in "asleep", and holds a popped task from
\* "update" until it has decremented m_pending.
WorkerPC == {"off", "check", "asleep", "update", "decrement", "notify", "retired"}

\* MapManager::Update runs from "schedule" to "after"; UnloadAll from "drain".
\* The world thread is asleep on m_taskDone in "asleepTick" and "asleepDrain".
MainPC == {"start", "idle", "schedule", "notifyOne", "wait", "asleepTick",
           "after", "drain", "asleepDrain", "setStop", "notifyAll", "join", "done"}

InTick == mpc \in {"schedule", "notifyOne", "wait", "asleepTick"}

Holding(w) == wpc[w] \in {"update", "decrement"}

Busy == {w \in Worker : Holding(w)}

Updating == {w \in Worker : wpc[w] = "update"}

Asleep == {w \in Worker : wpc[w] = "asleep"}

-----------------------------------------------------------------------------
Init ==
  /\ maps = {}
  /\ pool = {}
  /\ tasks = <<>>
  /\ pending = 0
  /\ stop = FALSE
  /\ wpc = [w \in Worker |-> "off"]
  /\ job = [w \in Worker |-> NoMap]
  /\ mpc = "start"
  /\ todo = {}
  /\ ran = [m \in Map |-> 0]

-----------------------------------------------------------------------------
\* Faulty variants of the actions below, each a bug this code could have; no
\* run of this specification takes them (the README explains their use).

\* m_pending is lowered when the task leaves the queue, not when it is done.
TakeTaskCountedDone(w) ==
  /\ wpc[w] = "check"
  /\ IF tasks # <<>>
     THEN /\ job' = [job EXCEPT ![w] = Head(tasks)]
          /\ tasks' = Tail(tasks)
          /\ pending' = pending - 1
          /\ wpc' = [wpc EXCEPT ![w] = "update"]
     ELSE /\ wpc' = [wpc EXCEPT ![w] = IF stop THEN "retired" ELSE "asleep"]
          /\ UNCHANGED <<job, tasks, pending>>
  /\ UNCHANGED <<maps, pool, stop, mpc, todo, ran>>

\* wait() tests that the queue is empty, not that every update is done.
WaitTickForQueue ==
  /\ mpc = "wait"
  /\ mpc' = IF tasks = <<>> THEN "after" ELSE "asleepTick"
  /\ UNCHANGED <<maps, poolVars, workerVars, todo, ran>>

\* The worker does not report the end of its update.
NotifyNobody(w) ==
  /\ wpc[w] = "notify"
  /\ wpc' = [wpc EXCEPT ![w] = "check"]
  /\ UNCHANGED <<maps, poolVars, job, mpc, todo, ran>>

\* deactivate wakes one worker instead of all.
NotifyOnlyOne ==
  /\ mpc = "notifyAll"
  /\ IF Asleep = {}
     THEN UNCHANGED wpc
     ELSE \E w \in Asleep : wpc' = [wpc EXCEPT ![w] = "check"]
  /\ mpc' = "join"
  /\ UNCHANGED <<maps, poolVars, job, todo, ran>>

-----------------------------------------------------------------------------
\* The world thread

\* MapManager::Initialize: start the pool, or none when MapUpdateThreads is 0.
Initialize ==
  /\ mpc = "start"
  /\ \E started \in SUBSET Worker :
       /\ pool' = started
       /\ wpc' = [w \in Worker |-> IF w \in started THEN "check" ELSE "off"]
  /\ stop' = FALSE
  /\ mpc' = "idle"
  /\ UNCHANGED <<maps, tasks, pending, job, todo, ran>>

\* MapManager::CreateMap, reached from the world thread's packet handlers and,
\* inside MapManager::Update, from transports changing map after the barrier.
CreateMap ==
  /\ mpc \in {"idle", "after"}
  /\ \E m \in Map \ maps : maps' = maps \union {m}
  /\ UNCHANGED <<poolVars, workerVars, mpc, todo, ran>>

BeginTick ==
  /\ mpc = "idle"
  /\ mpc' = "schedule"
  /\ todo' = maps
  /\ ran' = [m \in Map |-> 0]
  /\ UNCHANGED <<maps, poolVars, workerVars>>

\* schedule_update up to guard.unlock(); it refuses when the pool is stopped.
ScheduleUpdate ==
  /\ mpc = "schedule"
  /\ pool # {}
  /\ \E m \in todo :
       /\ todo' = todo \ {m}
       /\ IF stop
          THEN UNCHANGED <<tasks, pending, mpc>>
          ELSE /\ tasks' = Append(tasks, m)
               /\ pending' = pending + 1
               /\ mpc' = "notifyOne"
  /\ UNCHANGED <<maps, pool, stop, workerVars, ran>>

\* m_taskAdded.notify_one(): lost when nobody sleeps.
NotifyOne ==
  /\ mpc = "notifyOne"
  /\ mpc' = "schedule"
  /\ IF Asleep = {}
     THEN UNCHANGED wpc
     ELSE \E w \in Asleep : wpc' = [wpc EXCEPT ![w] = "check"]
  /\ UNCHANGED <<maps, poolVars, job, todo, ran>>

\* Without a pool the world thread updates the map itself.
UpdateInline ==
  /\ mpc = "schedule"
  /\ pool = {}
  /\ \E m \in todo :
       /\ todo' = todo \ {m}
       /\ ran' = [ran EXCEPT ![m] = @ + 1]
  /\ UNCHANGED <<maps, poolVars, workerVars, mpc>>

EndSchedule ==
  /\ mpc = "schedule"
  /\ todo = {}
  /\ mpc' = IF pool = {} THEN "after" ELSE "wait"
  /\ UNCHANGED <<maps, poolVars, workerVars, todo, ran>>

\* MapUpdater::wait as the tick barrier: test the predicate, or go to sleep.
WaitTick ==
  /\ mpc = "wait"
  /\ mpc' = IF pending = 0 THEN "after" ELSE "asleepTick"
  /\ UNCHANGED <<maps, poolVars, workerVars, todo, ran>>

\* The end of MapManager::Update: maps that can be unloaded are deleted.
UnloadIdleMaps ==
  /\ mpc = "after"
  /\ \E unloadable \in SUBSET maps : maps' = maps \ unloadable
  /\ mpc' = "idle"
  /\ UNCHANGED <<poolVars, workerVars, todo, ran>>

\* MapManager::UnloadAll: every map is deleted, then the pool deactivated.
UnloadAll ==
  /\ mpc = "idle"
  /\ maps' = {}
  /\ mpc' = IF pool = {} THEN "done" ELSE "drain"
  /\ UNCHANGED <<poolVars, workerVars, todo, ran>>

\* deactivate drains through wait() ...
WaitDrain ==
  /\ mpc = "drain"
  /\ mpc' = IF pending = 0 THEN "setStop" ELSE "asleepDrain"
  /\ UNCHANGED <<maps, poolVars, workerVars, todo, ran>>

\* ... raises m_stop under the lock ...
SetStop ==
  /\ mpc = "setStop"
  /\ stop' = TRUE
  /\ mpc' = "notifyAll"
  /\ UNCHANGED <<maps, pool, tasks, pending, workerVars, todo, ran>>

\* ... wakes every worker ...
NotifyAll ==
  /\ mpc = "notifyAll"
  /\ wpc' = [w \in Worker |-> IF wpc[w] = "asleep" THEN "check" ELSE wpc[w]]
  /\ mpc' = "join"
  /\ UNCHANGED <<maps, poolVars, job, todo, ran>>

\* ... and joins them all before it forgets the threads.
Join ==
  /\ mpc = "join"
  /\ \A w \in pool : wpc[w] = "retired"
  /\ pool' = {}
  /\ mpc' = "done"
  /\ UNCHANGED <<maps, tasks, pending, stop, workerVars, todo, ran>>

\* A condition variable may wake the world thread for no reason.
SpuriousMain ==
  /\ mpc \in {"asleepTick", "asleepDrain"}
  /\ mpc' = IF mpc = "asleepTick" THEN "wait" ELSE "drain"
  /\ UNCHANGED <<maps, poolVars, workerVars, todo, ran>>

-----------------------------------------------------------------------------
\* A worker

\* The critical section of workerLoop: take the oldest task; retire only when
\* there is none and the pool is stopping; otherwise sleep.
TakeTask(w) ==
  /\ wpc[w] = "check"
  /\ IF tasks # <<>>
     THEN /\ job' = [job EXCEPT ![w] = Head(tasks)]
          /\ tasks' = Tail(tasks)
          /\ wpc' = [wpc EXCEPT ![w] = "update"]
     ELSE /\ wpc' = [wpc EXCEPT ![w] = IF stop THEN "retired" ELSE "asleep"]
          /\ UNCHANGED <<job, tasks>>
  /\ UNCHANGED <<maps, pool, pending, stop, mpc, todo, ran>>

\* task.first->Update(task.second)
UpdateMap(w) ==
  /\ wpc[w] = "update"
  /\ ran' = [ran EXCEPT ![job[w]] = @ + 1]
  /\ wpc' = [wpc EXCEPT ![w] = "decrement"]
  /\ UNCHANGED <<maps, poolVars, job, mpc, todo>>

Decrement(w) ==
  /\ wpc[w] = "decrement"
  /\ pending' = pending - 1
  /\ job' = [job EXCEPT ![w] = NoMap]
  /\ wpc' = [wpc EXCEPT ![w] = "notify"]
  /\ UNCHANGED <<maps, pool, tasks, stop, mpc, todo, ran>>

\* m_taskDone.notify_all(), outside the lock.
NotifyDone(w) ==
  /\ wpc[w] = "notify"
  /\ wpc' = [wpc EXCEPT ![w] = "check"]
  /\ mpc' = CASE mpc = "asleepTick"  -> "wait"
              [] mpc = "asleepDrain" -> "drain"
              [] OTHER -> mpc
  /\ UNCHANGED <<maps, poolVars, job, todo, ran>>

SpuriousWorker(w) ==
  /\ wpc[w] = "asleep"
  /\ wpc' = [wpc EXCEPT ![w] = "check"]
  /\ UNCHANGED <<maps, poolVars, job, mpc, todo, ran>>

-----------------------------------------------------------------------------
WorldThread ==
  \/ Initialize \/ BeginTick \/ ScheduleUpdate \/ NotifyOne \/ UpdateInline
  \/ EndSchedule \/ WaitTick \/ UnloadIdleMaps
  \/ WaitDrain \/ SetStop \/ NotifyAll \/ Join

WorkerThread(w) == TakeTask(w) \/ UpdateMap(w) \/ Decrement(w) \/ NotifyDone(w)

\* After UnloadAll the pool is gone and nothing schedules again.
Finished == mpc = "done" /\ UNCHANGED vars

Next ==
  \/ WorldThread
  \/ CreateMap
  \/ UnloadAll
  \/ SpuriousMain
  \/ \E w \in Worker : WorkerThread(w) \/ SpuriousWorker(w)
  \/ Finished

\* Both threads keep running; a spurious wakeup, a map creation and the
\* decision to shut down are never owed.
Fairness == WF_vars(WorldThread) /\ \A w \in Worker : WF_vars(WorkerThread(w))

Spec == Init /\ [][Next]_vars

FairSpec == Spec /\ Fairness

-----------------------------------------------------------------------------
TypeOK ==
  /\ maps \in SUBSET Map
  /\ pool \in SUBSET Worker
  /\ tasks \in Seq(Map)
  /\ pending \in Nat
  /\ stop \in BOOLEAN
  /\ wpc \in [Worker -> WorkerPC]
  /\ job \in [Worker -> Map \union {NoMap}]
  /\ mpc \in MainPC
  /\ todo \in SUBSET Map
  /\ ran \in [Map -> Nat]

\* m_pending counts exactly the updates that are queued or held by a worker,
\* although it is incremented and decremented by different threads in critical
\* sections far apart: the barrier trusts this one number.
PendingExact == pending = Len(tasks) + Cardinality(Busy)

\* The tick barrier of MapUpdater.h ("the world thread must not advance until
\* every map queued this tick has been updated"): outside the parallel part of
\* MapManager::Update no map update is queued or running anywhere, so
\* transports, unloading and shutdown have the maps to themselves.
Barrier == ~InTick => tasks = <<>> /\ Busy = {}

\* No queued and no running update refers to a map that MapManager has
\* deleted.
NoDeletedMap ==
  /\ \A i \in DOMAIN tasks : tasks[i] \in maps
  /\ \A w \in Worker : Holding(w) => job[w] \in maps

\* During one tick no map is updated twice, let alone by two workers at once,
\* and when the barrier opens every map loaded then has had its update.
UpdatedOnce ==
  /\ \A m \in Map : ran[m] <= 1
  /\ \A v, w \in Updating : v # w => job[v] # job[w]

\* No wakeup is lost: a tick that began ends, and a shutdown joins every thread.
TickEnds == mpc = "schedule" ~> mpc = "idle"

ShutdownEnds == mpc = "drain" ~> mpc = "done"

-----------------------------------------------------------------------------
\* The abstract tick: a map is owed an update until a worker has performed it.
Tick == INSTANCE MapTick WITH
  phase <- IF InTick THEN "tick" ELSE "rest",
  left <- IF InTick
          THEN todo \union {tasks[i] : i \in DOMAIN tasks} \union {job[w] : w \in Updating}
          ELSE {}

ImplementsTick == Tick!Spec
==============================================================================
