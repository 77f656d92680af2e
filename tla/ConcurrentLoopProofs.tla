------------------------- MODULE ConcurrentLoopProofs -------------------------
(***************************************************************************)
(* What holds of the worker pool for any number of workers, clients and    *)
(* tasks: no worker sleeps on work, and the pool keeps the promise of its  *)
(* runners.                                                                *)
(***************************************************************************)
EXTENDS ConcurrentLoop, FiniteSetTheorems, SequenceTheorems, TLAPS

USE PoolAssumption

-----------------------------------------------------------------------------
(* Types *)

\* A call holds one task at most, and only until the task is queued or run.
ClosureHeld ==
    \A t \in PoolThreads :
        /\ call[t] = "locked" => Len(closure[t]) = 1
        /\ call[t] # "locked" => closure[t] = <<>>

\* The parts of PoolTypeOK.
QueuesTyped ==
    /\ tasks_ \in Seq(Closures)
    /\ thread_tasks_ \in [Workers -> Seq(ForAll)]
    /\ shutdown_ \in BOOLEAN

WorkersTyped ==
    /\ workerPc \in [Workers -> {"test", "wait", "start", "run", "left"}]
    /\ lastRound \in [Workers -> BOOLEAN]

TakenTyped ==
    /\ task \in [Workers -> Seq(Closures)]
    /\ ownTasks \in [Workers -> Seq(ForAll)]

CallsTyped ==
    /\ call \in [PoolThreads -> {"none", "locked", "queued"}]
    /\ closure \in [PoolThreads -> Seq(Closures)]
    /\ ClosureHeld

LifeTyped ==
    /\ held \in BOOLEAN
    /\ life \in {"alive", "expired", "joining", "dead", "aborted"}
    /\ destroyer \in PoolThreads

HistoryTyped ==
    /\ postedTasks \subseteq Closures \cup ForAll
    /\ ranTasks \subseteq (Closures \cup ForAll) \X PoolThreads

Typed == /\ QueuesTyped /\ WorkersTyped /\ TakenTyped /\ CallsTyped
         /\ LifeTyped /\ HistoryTyped

\* A worker holds tasks only while it is in a round.
RoundHolds ==
    \A w \in Workers :
        /\ workerPc[w] \in {"test", "wait", "left"} => task[w] = <<>> /\ ownTasks[w] = <<>>
        /\ workerPc[w] = "start" => task[w] # <<>> \/ ownTasks[w] # <<>>
        /\ Len(task[w]) <= 1

LEMMA TypedImpliesTypeOK == Typed => PoolTypeOK
BY DEF Typed, QueuesTyped, WorkersTyped, TakenTyped, CallsTyped, LifeTyped, HistoryTyped,
       PoolTypeOK

\* Each call of a thread.
LEMMA CallKeepsTyped ==
    ASSUME Typed, NEW t \in PoolThreads,
           PostStep(t) \/ DropLoop(t)
              \/ \E k \in Closures : LockLoop(t, k) \/ RunUnpooled(t, k)
    PROVE  Typed'
<1>1. ASSUME NEW k \in Closures, LockLoop(t, k) PROVE Typed'
  <2>1. UNCHANGED <<queueVars, workerVars, lifeVars, ranTasks>>
    BY <1>1 DEF LockLoop
  <2>2. CallsTyped'
    BY <1>1 DEF Typed, CallsTyped, ClosureHeld, LockLoop
  <2>3. HistoryTyped'
    BY <1>1 DEF Typed, HistoryTyped, LockLoop
  <2>. QED BY <2>1, <2>2, <2>3 DEF Typed, QueuesTyped, WorkersTyped, TakenTyped, LifeTyped,
              queueVars, workerVars, takenVars, lifeVars
<1>2. ASSUME NEW k \in Closures, RunUnpooled(t, k) PROVE Typed'
  <2>1. UNCHANGED <<queueVars, workerVars, callVars, lifeVars>>
    BY <1>2 DEF RunUnpooled
  <2>2. HistoryTyped'
    BY <1>2 DEF Typed, HistoryTyped, RunUnpooled
  <2>. QED BY <2>1, <2>2 DEF Typed, QueuesTyped, WorkersTyped, TakenTyped, CallsTyped,
              ClosureHeld, LifeTyped, queueVars, workerVars, takenVars, callVars, lifeVars
<1>3. CASE EnqueueTask(t)
  <2>1. UNCHANGED <<thread_tasks_, shutdown_, workerVars, lifeVars, postedTasks, ranTasks>>
    BY <1>3 DEF EnqueueTask
  <2>2. CallsTyped'
    BY <1>3 DEF Typed, CallsTyped, ClosureHeld, EnqueueTask
  <2>3. tasks_' \in Seq(Closures)
    BY <1>3 DEF Typed, QueuesTyped, CallsTyped, EnqueueTask
  <2>. QED BY <2>1, <2>2, <2>3 DEF Typed, QueuesTyped, WorkersTyped, TakenTyped, LifeTyped,
              HistoryTyped, workerVars, takenVars, lifeVars
<1>4. CASE RunOnShutdown(t)
  <2>1. UNCHANGED <<queueVars, workerVars, postedTasks>>
    BY <1>4 DEF RunOnShutdown
  <2>2. CallsTyped'
    BY <1>4 DEF Typed, CallsTyped, ClosureHeld, RunOnShutdown, ReleaseLoop
  <2>3. LifeTyped'
    BY <1>4 DEF Typed, LifeTyped, RunOnShutdown, ReleaseLoop, lifeVars
  <2>4. Head(closure[t]) \in Closures
    BY <1>4, HeadTailProperties DEF Typed, CallsTyped, ClosureHeld, RunOnShutdown
  <2>5. HistoryTyped'
    BY <1>4, <2>4 DEF Typed, HistoryTyped, RunOnShutdown
  <2>. QED BY <2>1, <2>2, <2>3, <2>5 DEF Typed, QueuesTyped, WorkersTyped, TakenTyped,
              queueVars, workerVars, takenVars
<1>5. CASE NotifyOne(t)
  <2>1. UNCHANGED <<queueVars, takenVars, closure, postedTasks, ranTasks>>
    BY <1>5 DEF NotifyOne
  <2>2. CallsTyped'
    BY <1>5 DEF Typed, CallsTyped, ClosureHeld, NotifyOne, ReleaseLoop
  <2>3. LifeTyped'
    BY <1>5 DEF Typed, LifeTyped, NotifyOne, ReleaseLoop, lifeVars
  <2>4. workerPc' \in [Workers -> {"test", "wait", "start", "run", "left"}]
    BY <1>5 DEF Typed, WorkersTyped, NotifyOne
  <2>. QED BY <2>1, <2>2, <2>3, <2>4 DEF Typed, QueuesTyped, WorkersTyped, TakenTyped,
              HistoryTyped, queueVars, takenVars
<1>6. CASE DropLoop(t)
  <2>1. UNCHANGED <<queueVars, workerVars, callVars, postedTasks, ranTasks>>
    BY <1>6 DEF DropLoop
  <2>2. LifeTyped'
    BY <1>6 DEF Typed, LifeTyped, DropLoop
  <2>. QED BY <2>1, <2>2 DEF Typed, QueuesTyped, WorkersTyped, TakenTyped, CallsTyped,
              ClosureHeld, HistoryTyped, queueVars, workerVars, takenVars, callVars
<1>. QED BY <1>1, <1>2, <1>3, <1>4, <1>5, <1>6 DEF PostStep

LEMMA OwnerKeepsTyped ==
    ASSUME Typed,
           \/ \E k \in ForAll : PostTaskToAllWorkers(k)
           \/ Terminate \/ BeginDestroy \/ EndDestroy
    PROVE  Typed'
<1>1. ASSUME NEW k \in ForAll, PostTaskToAllWorkers(k) PROVE Typed'
  <2>1. UNCHANGED <<tasks_, shutdown_, takenVars, callVars, lifeVars, ranTasks>>
    BY <1>1 DEF PostTaskToAllWorkers
  <2>2. thread_tasks_' \in [Workers -> Seq(ForAll)]
    BY <1>1, AppendProperties DEF Typed, QueuesTyped, PostTaskToAllWorkers
  <2>3. workerPc' \in [Workers -> {"test", "wait", "start", "run", "left"}]
    BY <1>1 DEF Typed, WorkersTyped, PostTaskToAllWorkers, NotifyAll
  <2>4. HistoryTyped'
    BY <1>1 DEF Typed, HistoryTyped, PostTaskToAllWorkers
  <2>. QED BY <2>1, <2>2, <2>3, <2>4 DEF Typed, QueuesTyped, WorkersTyped, TakenTyped,
              CallsTyped, ClosureHeld, LifeTyped, takenVars, callVars, lifeVars
<1>2. CASE Terminate \/ BeginDestroy
  <2>1. UNCHANGED <<tasks_, thread_tasks_, takenVars, callVars, held, destroyer,
                    postedTasks, ranTasks>> /\ shutdown_' = TRUE
    BY <1>2 DEF Terminate, BeginDestroy, lifeVars
  <2>2. workerPc' \in [Workers -> {"test", "wait", "start", "run", "left"}]
    BY <1>2 DEF Typed, WorkersTyped, Terminate, BeginDestroy, NotifyAll
  <2>3. life' \in {life, "aborted", "joining"}
    BY <1>2 DEF Terminate, BeginDestroy, lifeVars
  <2>. QED BY <2>1, <2>2, <2>3 DEF Typed, QueuesTyped, WorkersTyped, TakenTyped, CallsTyped,
              ClosureHeld, LifeTyped, HistoryTyped, takenVars, callVars
<1>3. CASE EndDestroy
  <2>1. UNCHANGED <<shutdown_, workerVars, callVars, held, destroyer, postedTasks, ranTasks>>
        /\ life' = "dead" /\ tasks_' = <<>>
    BY <1>3 DEF EndDestroy
  <2>2. thread_tasks_' \in [Workers -> Seq(ForAll)]
    BY <1>3 DEF EndDestroy, NoClosures
  <2>3. tasks_' \in Seq(Closures)
    BY <2>1, EmptySeq
  <2>. QED BY <2>1, <2>2, <2>3 DEF Typed, QueuesTyped, WorkersTyped, TakenTyped, CallsTyped,
              ClosureHeld, LifeTyped, HistoryTyped, workerVars, takenVars, callVars
<1>. QED BY <1>1, <1>2, <1>3

LEMMA WorkerKeepsTyped ==
    ASSUME Typed, RoundHolds, NEW w \in Workers, WorkerStep(w) \/ WakeSpuriously(w)
    PROVE  Typed'
<1>1. CASE WaitForTask(w) \/ WakeSpuriously(w) \/ FinishTask(w)
  <2>1. UNCHANGED <<queueVars, takenVars, callVars, lifeVars, postedTasks, ranTasks>>
    BY <1>1 DEF WaitForTask, WakeSpuriously, FinishTask
  <2>2. workerPc' \in [Workers -> {"test", "wait", "start", "run", "left"}]
    BY <1>1 DEF Typed, WorkersTyped, WaitForTask, WakeSpuriously, FinishTask, Proceed
  <2>. QED BY <2>1, <2>2 DEF Typed, QueuesTyped, WorkersTyped, TakenTyped, CallsTyped,
              ClosureHeld, LifeTyped, HistoryTyped, queueVars, takenVars, callVars, lifeVars
<1>2. CASE TakeTasks(w)
  <2>1. UNCHANGED <<shutdown_, callVars, lifeVars, postedTasks, ranTasks>>
    BY <1>2 DEF TakeTasks
  <2>2. FirstTask \in Seq(Closures) /\ (tasks_ # <<>> => Tail(tasks_) \in Seq(Closures))
    BY HeadTailProperties DEF Typed, QueuesTyped, FirstTask
  <2>3. QueuesTyped'
    BY <1>2, <2>1, <2>2 DEF Typed, QueuesTyped, TakeTasks
  <2>4. WorkersTyped'
    BY <1>2 DEF Typed, QueuesTyped, WorkersTyped, TakeTasks, Proceed
  <2>5. TakenTyped'
    BY <1>2, <2>2 DEF Typed, QueuesTyped, TakenTyped, TakeTasks
  <2>. QED BY <2>1, <2>3, <2>4, <2>5 DEF Typed, CallsTyped, ClosureHeld, LifeTyped,
              HistoryTyped, callVars, lifeVars
<1>3. CASE ExecuteTask(w)
  <2>1. UNCHANGED <<queueVars, lastRound, callVars, lifeVars, postedTasks>>
    BY <1>3 DEF ExecuteTask
  <2>2. workerPc' \in [Workers -> {"test", "wait", "start", "run", "left"}]
    BY <1>3 DEF Typed, WorkersTyped, ExecuteTask
  <2>3. CASE task[w] # <<>>
    <3>1. Head(task[w]) \in Closures
      BY <2>3, HeadTailProperties DEF Typed, TakenTyped
    <3>2. /\ ranTasks' = ranTasks \cup {<<Head(task[w]), w>>}
          /\ task' = [task EXCEPT ![w] = <<>>] /\ UNCHANGED ownTasks
      BY <1>3, <2>3 DEF ExecuteTask
    <3>3. TakenTyped' /\ HistoryTyped'
      BY <2>1, <3>1, <3>2 DEF Typed, TakenTyped, HistoryTyped, PoolThreads
    <3>. QED BY <2>1, <2>2, <3>3 DEF Typed, QueuesTyped, WorkersTyped, CallsTyped,
                ClosureHeld, LifeTyped, queueVars, callVars, lifeVars
  <2>4. CASE task[w] = <<>>
    <3>1. Head(ownTasks[w]) \in ForAll /\ Tail(ownTasks[w]) \in Seq(ForAll)
      BY <1>3, <2>4, HeadTailProperties DEF Typed, TakenTyped, RoundHolds, ExecuteTask
    <3>2. /\ ranTasks' = ranTasks \cup {<<Head(ownTasks[w]), w>>}
          /\ ownTasks' = [ownTasks EXCEPT ![w] = Tail(ownTasks[w])] /\ UNCHANGED task
      BY <1>3, <2>4 DEF ExecuteTask
    <3>3. TakenTyped' /\ HistoryTyped'
      BY <2>1, <3>1, <3>2 DEF Typed, TakenTyped, HistoryTyped, PoolThreads
    <3>. QED BY <2>1, <2>2, <3>3 DEF Typed, QueuesTyped, WorkersTyped, CallsTyped,
                ClosureHeld, LifeTyped, queueVars, callVars, lifeVars
  <2>. QED BY <2>3, <2>4
<1>. QED BY <1>1, <1>2, <1>3 DEF WorkerStep

\* Only worker w's own steps, and its being woken, touch its round.
LEMMA RoundHoldsStep ==
    ASSUME Typed, RoundHolds, PoolNext
    PROVE  RoundHolds'
<1>1. ASSUME NEW w \in Workers, WorkerStep(w) \/ WakeSpuriously(w) PROVE RoundHolds'
  <2>1. CASE WaitForTask(w) \/ WakeSpuriously(w) \/ FinishTask(w)
    BY <2>1 DEF Typed, WorkersTyped, RoundHolds, WaitForTask, WakeSpuriously, FinishTask,
                takenVars, Proceed
  <2>2. CASE TakeTasks(w)
    <3>1. FirstTask = <<>> \/ (FirstTask # <<>> /\ Len(FirstTask) = 1)
      BY DEF FirstTask
    <3>2. Len(FirstTask) <= 1
      BY DEF FirstTask
    <3>. QED BY <2>2, <3>2 DEF Typed, WorkersTyped, TakenTyped, RoundHolds, TakeTasks,
                Proceed
  <2>3. CASE ExecuteTask(w)
    BY <2>3 DEF Typed, WorkersTyped, TakenTyped, RoundHolds, ExecuteTask
  <2>. QED BY <1>1, <2>1, <2>2, <2>3 DEF WorkerStep
<1>2. ASSUME \A w \in Workers : ~ (WorkerStep(w) \/ WakeSpuriously(w)) PROVE RoundHolds'
  <2>1. UNCHANGED <<task, ownTasks>>
    BY <1>2 DEF PoolNext, PostStep, LockLoop, RunUnpooled, EnqueueTask, RunOnShutdown,
                NotifyOne, DropLoop, PostTaskToAllWorkers, Terminate, BeginDestroy,
                EndDestroy, workerVars, takenVars
  <2>2. \A w \in Workers : workerPc'[w] \in {workerPc[w], "test"}
                           /\ (workerPc'[w] # workerPc[w] => workerPc[w] = "wait")
    BY <1>2 DEF Typed, WorkersTyped, PoolNext, PostStep, LockLoop, RunUnpooled,
                EnqueueTask, RunOnShutdown, NotifyOne, DropLoop, PostTaskToAllWorkers,
                Terminate, BeginDestroy, EndDestroy, NotifyAll, workerVars
  <2>. QED BY <2>1, <2>2 DEF RoundHolds
<1>. QED BY <1>1, <1>2

-----------------------------------------------------------------------------
(* Sleep *)

\* A worker leaves only after it has seen the shutdown.
LastSawShutdown == \A w \in Workers : lastRound[w] => shutdown_

Asleep == \E w \in Workers : workerPc[w] = "wait"

\* The parts of NoSleepOnWork.
SleepersHaveNothing ==
    \A w \in Workers : workerPc[w] = "wait" => thread_tasks_[w] = <<>> /\ ~ shutdown_

Covered == Asleep => Len(tasks_) <= Cardinality(Awake) + Cardinality(Notifying)

SleepInv == LastSawShutdown /\ SleepersHaveNothing /\ Covered

PoolInv == Typed /\ RoundHolds /\ SleepInv

LEMMA SleepInvIsNoSleepOnWork == SleepInv => NoSleepOnWork
BY DEF SleepInv, SleepersHaveNothing, Covered, Asleep, NoSleepOnWork

LEMMA CoverIsFinite ==
    /\ IsFiniteSet(Awake) /\ Cardinality(Awake) \in Nat
    /\ IsFiniteSet(Notifying) /\ Cardinality(Notifying) \in Nat
<1>1. Awake \subseteq Workers \cup Clients /\ Notifying \subseteq Workers \cup Clients
  BY DEF Awake, Notifying, PoolThreads
<1>. QED BY <1>1, FS_Subset, FS_CardinalityType

\* A step that queues nothing and takes nobody out of those who will look at the queue
\* leaves it covered.
LEMMA MoreCover ==
    ASSUME Covered, Typed, Asleep' => Asleep,
           tasks_ \in Seq(Closures), tasks_' \in Seq(Closures), Len(tasks_') <= Len(tasks_),
           Awake \subseteq Awake', Notifying \subseteq Notifying'
    PROVE  Covered'
<1>1. IsFiniteSet(Awake') /\ IsFiniteSet(Notifying')
  <2>1. Awake' \subseteq Workers \cup Clients /\ Notifying' \subseteq Workers \cup Clients
    BY DEF Awake, Notifying, PoolThreads
  <2>. QED BY <2>1, FS_Subset
<1>2. /\ Cardinality(Awake) <= Cardinality(Awake')
      /\ Cardinality(Notifying) <= Cardinality(Notifying')
      /\ Cardinality(Awake') \in Nat /\ Cardinality(Notifying') \in Nat
  BY <1>1, FS_Subset, FS_CardinalityType
<1>. QED BY <1>2, CoverIsFinite, LenProperties DEF Covered

LEMMA ConcatOne ==
    ASSUME NEW S, NEW s \in Seq(S), NEW one \in Seq(S), Len(one) = 1
    PROVE  Len(s \o one) = Len(s) + 1 /\ Len(s) \in Nat
<1>1. Len(s \o one) = Len(s) + Len(one)
  BY ConcatProperties
<1>. QED BY <1>1, LenProperties

\* A step of a thread that leaves the workers and the queue alone.
LEMMA OthersKeepSleepInv ==
    ASSUME PoolInv, UNCHANGED <<queueVars, workerPc, lastRound>>, Notifying \subseteq Notifying'
    PROVE  SleepInv'
<1>1. LastSawShutdown' /\ SleepersHaveNothing' /\ Asleep' = Asleep /\ Awake' = Awake
  BY DEF PoolInv, SleepInv, LastSawShutdown, SleepersHaveNothing, Asleep, Awake, queueVars
<1>2. Covered'
  BY <1>1, MoreCover, LenProperties DEF PoolInv, SleepInv, Typed, QueuesTyped, queueVars
<1>. QED BY <1>1, <1>2 DEF SleepInv

LEMMA CallKeepsSleepInv ==
    ASSUME PoolInv, NEW t \in PoolThreads,
           PostStep(t) \/ DropLoop(t)
              \/ \E k \in Closures : LockLoop(t, k) \/ RunUnpooled(t, k)
    PROVE  SleepInv'
<1>1. ASSUME NEW k \in Closures, LockLoop(t, k) \/ RunUnpooled(t, k) PROVE SleepInv'
  <2>1. UNCHANGED <<queueVars, workerPc, lastRound>> /\ Notifying \subseteq Notifying'
    BY <1>1 DEF PoolInv, Typed, CallsTyped, LockLoop, RunUnpooled, MayCall, Notifying,
                workerVars, takenVars, callVars
  <2>. QED BY <2>1, OthersKeepSleepInv
<1>2. CASE DropLoop(t)
  <2>1. UNCHANGED <<queueVars, workerPc, lastRound>> /\ Notifying \subseteq Notifying'
    BY <1>2 DEF DropLoop, Notifying, workerVars, takenVars, callVars
  <2>. QED BY <2>1, OthersKeepSleepInv
<1>3. CASE RunOnShutdown(t)
  <2>1. UNCHANGED <<queueVars, workerPc, lastRound>> /\ Notifying \subseteq Notifying'
    BY <1>3 DEF PoolInv, Typed, CallsTyped, RunOnShutdown, ReleaseLoop, Notifying,
                workerVars, takenVars
  <2>. QED BY <2>1, OthersKeepSleepInv
<1>4. CASE EnqueueTask(t)
  <2>1. /\ UNCHANGED <<thread_tasks_, shutdown_, workerPc, lastRound>>
        /\ Notifying' = Notifying \cup {t} /\ t \notin Notifying
        /\ Awake' = Awake /\ Asleep' = Asleep
    BY <1>4 DEF PoolInv, Typed, CallsTyped, EnqueueTask, Notifying, Awake, Asleep,
                workerVars, takenVars
  <2>2. Len(tasks_') = Len(tasks_) + 1 /\ Len(tasks_) \in Nat
    <3>1. /\ tasks_ \in Seq(Closures) /\ closure[t] \in Seq(Closures)
          /\ Len(closure[t]) = 1 /\ tasks_' = tasks_ \o closure[t]
      BY <1>4 DEF PoolInv, Typed, QueuesTyped, CallsTyped, ClosureHeld, EnqueueTask
    <3>. QED BY <3>1, ConcatOne
  <2>3. Cardinality(Notifying') = Cardinality(Notifying) + 1
    BY <2>1, CoverIsFinite, FS_AddElement
  <2>4. Covered'
    BY <2>1, <2>2, <2>3, CoverIsFinite DEF PoolInv, SleepInv, Covered
  <2>5. LastSawShutdown' /\ SleepersHaveNothing'
    BY <2>1 DEF PoolInv, SleepInv, LastSawShutdown, SleepersHaveNothing
  <2>. QED BY <2>4, <2>5 DEF SleepInv
<1>5. CASE NotifyOne(t)
  <2>1. UNCHANGED <<queueVars, lastRound>>
    BY <1>5 DEF NotifyOne, takenVars
  <2>2. ASSUME NEW w \in Workers, workerPc[w] = "wait",
               workerPc' = [workerPc EXCEPT ![w] = "test"]
        PROVE  SleepInv'
    <3>1. Awake' = Awake \cup {w} /\ w \notin Awake /\ Asleep
      BY <2>2 DEF PoolInv, Typed, WorkersTyped, Awake, Asleep
    <3>2. Notifying = Notifying' \cup {t} /\ t \notin Notifying'
      BY <1>5 DEF PoolInv, Typed, CallsTyped, NotifyOne, ReleaseLoop, Notifying
    <3>3. IsFiniteSet(Notifying')
      BY <3>2, CoverIsFinite, FS_Subset
    <3>4. /\ Cardinality(Awake') = Cardinality(Awake) + 1
          /\ Cardinality(Notifying) = Cardinality(Notifying') + 1
          /\ Cardinality(Notifying') \in Nat
      BY <3>1, <3>2, <3>3, CoverIsFinite, FS_AddElement, FS_CardinalityType
    <3>5. Covered'
      BY <2>1, <3>1, <3>4, CoverIsFinite DEF PoolInv, SleepInv, Covered, queueVars
    <3>6. LastSawShutdown' /\ SleepersHaveNothing'
      BY <2>1, <2>2 DEF PoolInv, Typed, WorkersTyped, SleepInv, LastSawShutdown,
                        SleepersHaveNothing, queueVars
    <3>. QED BY <3>5, <3>6 DEF SleepInv
  <2>3. CASE (\A w \in Workers : workerPc[w] # "wait") /\ UNCHANGED workerPc
    BY <2>1, <2>3 DEF PoolInv, SleepInv, LastSawShutdown, SleepersHaveNothing, Covered,
                      Asleep, queueVars
  <2>. QED BY <1>5, <2>2, <2>3 DEF NotifyOne
<1>. QED BY <1>1, <1>2, <1>3, <1>4, <1>5 DEF PostStep

\* The owner's steps wake everybody, and the pool is destroyed without a worker.
LEMMA OwnerKeepsSleepInv ==
    ASSUME PoolInv,
           \/ \E k \in ForAll : PostTaskToAllWorkers(k)
           \/ Terminate \/ BeginDestroy \/ EndDestroy
    PROVE  SleepInv'
<1>1. \A w \in Workers : workerPc'[w] # "wait"
  BY DEF PoolInv, Typed, WorkersTyped, PostTaskToAllWorkers, Terminate, BeginDestroy,
         EndDestroy, NotifyAll, workerVars
<1>2. lastRound' = lastRound /\ (shutdown_ => shutdown_')
  BY DEF PostTaskToAllWorkers, Terminate, BeginDestroy, EndDestroy, workerVars, takenVars
<1>. QED BY <1>1, <1>2 DEF PoolInv, SleepInv, LastSawShutdown, SleepersHaveNothing,
            Covered, Asleep

LEMMA WorkerKeepsSleepInv ==
    ASSUME PoolInv, NEW w \in Workers, WorkerStep(w) \/ WakeSpuriously(w)
    PROVE  SleepInv'
<1>1. CASE WaitForTask(w)
  <2>1. UNCHANGED <<queueVars, lastRound>> /\ tasks_ = <<>>
    BY <1>1 DEF WaitForTask, HasWork, takenVars
  <2>2. LastSawShutdown' /\ SleepersHaveNothing'
    BY <1>1, <2>1 DEF PoolInv, Typed, WorkersTyped, SleepInv, LastSawShutdown,
                      SleepersHaveNothing, WaitForTask, HasWork, queueVars
  <2>3. IsFiniteSet(Awake') /\ IsFiniteSet(Notifying')
    <3>1. Awake' \subseteq Workers \cup Clients /\ Notifying' \subseteq Workers \cup Clients
      BY DEF Awake, Notifying, PoolThreads
    <3>. QED BY <3>1, FS_Subset
  <2>4. Covered'
    BY <2>1, <2>3, FS_CardinalityType DEF Covered, queueVars
  <2>. QED BY <2>2, <2>4 DEF SleepInv
<1>2. CASE WakeSpuriously(w)
  <2>1. UNCHANGED <<queueVars, lastRound>>
    BY <1>2 DEF WakeSpuriously, takenVars
  <2>2. LastSawShutdown' /\ SleepersHaveNothing'
    BY <1>2, <2>1 DEF PoolInv, Typed, WorkersTyped, SleepInv, LastSawShutdown,
                      SleepersHaveNothing, WakeSpuriously, queueVars
  <2>3. Awake \subseteq Awake' /\ Notifying' = Notifying /\ (Asleep' => Asleep)
    BY <1>2 DEF PoolInv, Typed, WorkersTyped, Awake, Notifying, Asleep, WakeSpuriously,
                callVars
  <2>4. Covered'
    BY <2>1, <2>3, MoreCover, LenProperties DEF PoolInv, SleepInv, Typed, QueuesTyped, queueVars
  <2>. QED BY <2>2, <2>4 DEF SleepInv
<1>3. CASE TakeTasks(w)
  <2>1. LastSawShutdown'
    BY <1>3 DEF PoolInv, Typed, WorkersTyped, SleepInv, LastSawShutdown, TakeTasks
  <2>2. SleepersHaveNothing'
    BY <1>3 DEF PoolInv, Typed, QueuesTyped, WorkersTyped, SleepInv, SleepersHaveNothing,
                TakeTasks, Proceed
  <2>3. CASE shutdown_
    <3>1. ~ Asleep'
      BY <1>3, <2>3 DEF PoolInv, Typed, WorkersTyped, SleepInv, SleepersHaveNothing,
                        TakeTasks, Proceed, Asleep
    <3>. QED BY <2>1, <2>2, <3>1 DEF SleepInv, Covered
  <2>4. CASE ~ shutdown_
    <3>1. Awake \subseteq Awake' /\ Notifying' = Notifying /\ (Asleep' => Asleep)
      BY <1>3, <2>4 DEF PoolInv, Typed, WorkersTyped, Awake, Notifying, Asleep, TakeTasks,
                        Proceed, callVars
    <3>2. tasks_' \in Seq(Closures) /\ tasks_ \in Seq(Closures) /\ Len(tasks_') <= Len(tasks_)
      BY <1>3, HeadTailProperties, LenProperties DEF PoolInv, Typed, QueuesTyped, TakeTasks
    <3>3. Covered'
      BY <3>1, <3>2, MoreCover DEF PoolInv, SleepInv
    <3>. QED BY <2>1, <2>2, <3>3 DEF SleepInv
  <2>. QED BY <2>3, <2>4
<1>4. CASE ExecuteTask(w) \/ FinishTask(w)
  <2>1. UNCHANGED <<queueVars, lastRound>>
    BY <1>4 DEF ExecuteTask, FinishTask, takenVars
  <2>2. LastSawShutdown' /\ SleepersHaveNothing'
    BY <1>4, <2>1 DEF PoolInv, Typed, WorkersTyped, SleepInv, LastSawShutdown,
                      SleepersHaveNothing, ExecuteTask, FinishTask, Proceed, queueVars
  <2>3. CASE shutdown_
    <3>1. ~ Asleep'
      BY <2>1, <2>2, <2>3 DEF SleepersHaveNothing, Asleep, queueVars
    <3>. QED BY <2>2, <3>1 DEF SleepInv, Covered
  <2>4. CASE ~ shutdown_
    <3>1. Awake \subseteq Awake' /\ Notifying' = Notifying /\ (Asleep' => Asleep)
      BY <1>4, <2>4 DEF PoolInv, Typed, WorkersTyped, SleepInv, LastSawShutdown, Awake,
                        Notifying, Asleep, ExecuteTask, FinishTask, Proceed, callVars
    <3>2. Covered'
      BY <2>1, <3>1, MoreCover, LenProperties DEF PoolInv, SleepInv, Typed, QueuesTyped,
                                                  queueVars
    <3>. QED BY <2>2, <3>2 DEF SleepInv
  <2>. QED BY <2>3, <2>4
<1>. QED BY <1>1, <1>2, <1>3, <1>4 DEF WorkerStep

LEMMA PoolInvInit == PoolInit => PoolInv
<1>. SUFFICES ASSUME PoolInit PROVE PoolInv
  OBVIOUS
<1>1. Typed
  <2>1. QueuesTyped /\ TakenTyped
    BY EmptySeq DEF PoolInit, QueuesTyped, TakenTyped, NoClosures
  <2>2. WorkersTyped /\ HistoryTyped
    BY DEF PoolInit, WorkersTyped, HistoryTyped
  <2>3. CallsTyped
    BY EmptySeq DEF PoolInit, CallsTyped, ClosureHeld
  <2>4. LifeTyped
    BY DEF PoolInit, LifeTyped, PoolThreads
  <2>. QED BY <2>1, <2>2, <2>3, <2>4 DEF Typed
<1>2. RoundHolds
  BY DEF PoolInit, RoundHolds, NoClosures
<1>3. LastSawShutdown /\ SleepersHaveNothing /\ Covered
  BY DEF PoolInit, LastSawShutdown, SleepersHaveNothing, Covered, Asleep
<1>. QED BY <1>1, <1>2, <1>3 DEF PoolInv, SleepInv

LEMMA PoolInvStep == PoolInv /\ [PoolNext]_poolVars => PoolInv'
<1>. SUFFICES ASSUME PoolInv, [PoolNext]_poolVars PROVE PoolInv'
  OBVIOUS
<1>1. CASE UNCHANGED poolVars
  <2>1. Typed' /\ RoundHolds'
    BY <1>1 DEF PoolInv, Typed, QueuesTyped, WorkersTyped, TakenTyped, CallsTyped,
           ClosureHeld, LifeTyped, HistoryTyped, RoundHolds, poolVars, queueVars,
           workerVars, takenVars, callVars, lifeVars
  <2>2. UNCHANGED <<queueVars, workerPc, lastRound>> /\ Notifying' = Notifying
    BY <1>1 DEF Notifying, poolVars, workerVars, takenVars, callVars
  <2>. QED BY <2>1, <2>2, OthersKeepSleepInv DEF PoolInv
<1>2. CASE PoolNext
  <2>1. Typed'
    BY <1>2, CallKeepsTyped, OwnerKeepsTyped, WorkerKeepsTyped DEF PoolInv, PoolNext
  <2>2. RoundHolds'
    BY <1>2, RoundHoldsStep DEF PoolInv
  <2>3. SleepInv'
    BY <1>2, CallKeepsSleepInv, OwnerKeepsSleepInv, WorkerKeepsSleepInv DEF PoolNext
  <2>. QED BY <2>1, <2>2, <2>3 DEF PoolInv
<1>. QED BY <1>1, <1>2

\* Every list of tasks, every worker's step and every call in the pool stays in its
\* domain (PoolTypeOK), whatever the threads that post, run and destroy it do.
THEOREM PoolTypeCorrect == PoolSpec => []PoolTypeOK
<1>1. PoolInv => PoolTypeOK
  BY TypedImpliesTypeOK DEF PoolInv
<1>. QED BY <1>1, PoolInvInit, PoolInvStep, PTL DEF PoolSpec

\* No worker sleeps on work: whatever the number of workers and of threads that post,
\* and wherever each of them is, the shared tasks are covered by workers that will look
\* and by calls that are about to wake one (concurrent_message_loop.cc:45-113).
THEOREM NeverSleepsOnWork == PoolSpec => []NoSleepOnWork
<1>1. PoolInv => NoSleepOnWork
  BY SleepInvIsNoSleepOnWork DEF PoolInv
<1>. QED BY <1>1, PoolInvInit, PoolInvStep, PTL DEF PoolSpec

-----------------------------------------------------------------------------
(* Elements of sequences *)

Injective(s) == \A i, j \in 1 .. Len(s) : s[i] = s[j] => i = j

LEMMA ElementsOfEmpty == Elements(<<>>) = {} /\ Injective(<<>>)
BY DEF Elements, Injective

LEMMA ElementsOfOne ==
    ASSUME NEW k PROVE Elements(<<k>>) = {k}
BY DEF Elements

LEMMA OneIsHead ==
    ASSUME NEW S, NEW s \in Seq(S), Len(s) = 1
    PROVE  s = <<Head(s)>> /\ Head(s) \in S /\ s # <<>>
<1>1. s # <<>> /\ Head(s) = s[1]
  OBVIOUS
<1>2. Head(s) \in S
  BY <1>1, HeadTailProperties
<1>3. <<Head(s)>> \in Seq(S) /\ Len(<<Head(s)>>) = 1 /\ <<Head(s)>>[1] = s[1]
  BY <1>1, <1>2
<1>4. s = <<Head(s)>>
  BY <1>3, SeqEqual
<1>. QED BY <1>1, <1>2, <1>4

LEMMA ShortIsOne ==
    ASSUME NEW S, NEW s \in Seq(S), s # <<>>, Len(s) <= 1
    PROVE  Len(s) = 1
<1>1. Len(s) \in Nat /\ Len(s) # 0
  BY LenProperties, EmptySeq
<1>2. \A n \in Nat : n # 0 /\ n <= 1 => n = 1
  OBVIOUS
<1>. QED BY <1>1, <1>2, Zenon

LEMMA AppendToSecond ==
    ASSUME NEW S, NEW s \in Seq(S), NEW t \in Seq(S), NEW k \in S
    PROVE  s \o Append(t, k) = Append(s \o t, k)
<1>1. <<k>> \in Seq(S) /\ s \o t \in Seq(S)
  BY ConcatProperties
<1>2. (s \o t) \o <<k>> = s \o (t \o <<k>>)
  BY <1>1, ConcatAssociative
<1>3. Append(t, k) = t \o <<k>> /\ Append(s \o t, k) = (s \o t) \o <<k>>
  BY <1>1, AppendIsConcat
<1>. QED BY <1>2, <1>3

LEMMA ElementsOfAppend ==
    ASSUME NEW S, NEW s \in Seq(S), NEW k \in S
    PROVE  /\ Elements(s \o <<k>>) = Elements(s) \cup {k}
           /\ Injective(s) /\ k \notin Elements(s) => Injective(s \o <<k>>)
<1>1. s \o <<k>> = Append(s, k)
  BY AppendIsConcat
<1>2. /\ DOMAIN Append(s, k) = 1 .. Len(s) + 1 /\ DOMAIN s = 1 .. Len(s)
      /\ Len(s) \in Nat
      /\ Len(Append(s, k)) = Len(s) + 1
      /\ \A i \in 1 .. Len(s) : Append(s, k)[i] = s[i]
      /\ Append(s, k)[Len(s) + 1] = k
  BY AppendProperties, LenProperties
<1>3. Elements(Append(s, k)) = Elements(s) \cup {k}
  BY <1>2 DEF Elements
<1>4. Injective(s) /\ k \notin Elements(s) => Injective(Append(s, k))
  BY <1>2 DEF Elements, Injective
<1>. QED BY <1>1, <1>3, <1>4

LEMMA ElementsOfTail ==
    ASSUME NEW S, NEW s \in Seq(S), s # <<>>
    PROVE  /\ Elements(s) = Elements(Tail(s)) \cup {Head(s)}
           /\ Injective(s) => Injective(Tail(s)) /\ Head(s) \notin Elements(Tail(s))
<1>1. /\ Len(s) \in Nat /\ DOMAIN s = 1 .. Len(s) /\ DOMAIN Tail(s) = 1 .. Len(s) - 1
      /\ Len(Tail(s)) = Len(s) - 1 /\ Head(s) = s[1] /\ 1 \in 1 .. Len(s)
      /\ \A i \in 1 .. Len(s) - 1 : Tail(s)[i] = s[i + 1]
  BY HeadTailProperties, LenProperties
<1>2. \A i \in 2 .. Len(s) : s[i] = Tail(s)[i - 1] /\ i - 1 \in 1 .. Len(s) - 1
  BY <1>1
<1>3. Elements(s) = Elements(Tail(s)) \cup {Head(s)}
  <2>1. ASSUME NEW i \in 1 .. Len(s) PROVE s[i] \in Elements(Tail(s)) \cup {Head(s)}
    <3>1. CASE i = 1
      BY <1>1, <3>1
    <3>2. CASE i # 1
      <4>1. i \in 2 .. Len(s)
        BY <1>1, <3>2
      <4>2. s[i] = Tail(s)[i - 1] /\ i - 1 \in DOMAIN Tail(s)
        BY <1>1, <1>2, <4>1
      <4>. QED BY <4>2 DEF Elements
    <3>. QED BY <3>1, <3>2
  <2>2. ASSUME NEW i \in 1 .. Len(s) - 1 PROVE Tail(s)[i] \in Elements(s)
    <3>1. i + 1 \in 1 .. Len(s)
      BY <1>1
    <3>. QED BY <1>1, <3>1 DEF Elements
  <2>3. Head(s) \in Elements(s)
    BY <1>1 DEF Elements
  <2>4. Elements(s) \subseteq Elements(Tail(s)) \cup {Head(s)}
    BY <1>1, <2>1 DEF Elements
  <2>5. Elements(Tail(s)) \subseteq Elements(s)
    BY <1>1, <2>2 DEF Elements
  <2>. QED BY <2>3, <2>4, <2>5
<1>4. Injective(s) => Injective(Tail(s)) /\ Head(s) \notin Elements(Tail(s))
  BY <1>1 DEF Elements, Injective
<1>. QED BY <1>3, <1>4

LEMMA HeadTailOfConcat ==
    ASSUME NEW S, NEW s \in Seq(S), s # <<>>, NEW t \in Seq(S)
    PROVE  s \o t # <<>> /\ Head(s \o t) = Head(s) /\ Tail(s \o t) = Tail(s) \o t
<1>1. /\ Len(s) \in Nat /\ Len(s) > 0 /\ Head(s) = s[1] /\ Len(t) \in Nat
      /\ Tail(s) \in Seq(S) /\ Len(Tail(s)) = Len(s) - 1
      /\ \A i \in 1 .. Len(s) - 1 : Tail(s)[i] = s[i + 1]
  BY HeadTailProperties, LenProperties, EmptySeq
<1>2. /\ s \o t \in Seq(S) /\ Len(s \o t) = Len(s) + Len(t)
      /\ \A i \in 1 .. Len(s) + Len(t) : (s \o t)[i] = IF i <= Len(s) THEN s[i] ELSE t[i - Len(s)]
  BY ConcatProperties
<1>3. s \o t # <<>> /\ Head(s \o t) = Head(s)
  BY <1>1, <1>2
<1>4. /\ Tail(s \o t) \in Seq(S) /\ Len(Tail(s \o t)) = Len(s) + Len(t) - 1
      /\ \A i \in 1 .. Len(s) + Len(t) - 1 : Tail(s \o t)[i] = (s \o t)[i + 1]
  BY <1>2, <1>3, HeadTailProperties
<1>5. /\ Tail(s) \o t \in Seq(S) /\ Len(Tail(s) \o t) = Len(s) - 1 + Len(t)
      /\ \A i \in 1 .. Len(s) - 1 + Len(t) :
            (Tail(s) \o t)[i] = IF i <= Len(s) - 1 THEN Tail(s)[i] ELSE t[i - (Len(s) - 1)]
  BY <1>1, ConcatProperties
<1>6. ASSUME NEW i \in 1 .. Len(s) + Len(t) - 1
      PROVE  Tail(s \o t)[i] = (Tail(s) \o t)[i]
  <2>1. CASE i <= Len(s) - 1
    BY <1>1, <1>2, <1>4, <1>5, <2>1
  <2>2. CASE ~ (i <= Len(s) - 1)
    <3>1. i + 1 - Len(s) = i - (Len(s) - 1) /\ ~ (i + 1 <= Len(s))
      BY <1>1, <2>2
    <3>. QED BY <1>1, <1>2, <1>4, <1>5, <2>2, <3>1
  <2>. QED BY <2>1, <2>2
<1>7. Tail(s \o t) = Tail(s) \o t
  BY <1>1, <1>4, <1>5, <1>6, SeqEqual
<1>. QED BY <1>3, <1>7

-----------------------------------------------------------------------------
(* The promise *)

\* A posted task is in one place: in a call, in the queue, or with a worker.
OnePlace ==
    /\ Injective(tasks_)
    /\ \A w \in Workers : Elements(task[w]) \cap Elements(tasks_) = {}
    /\ \A w, v \in Workers : w # v => Elements(task[w]) \cap Elements(task[v]) = {}
    /\ PassedTasks \cap AcceptedTasks = {}
    /\ \A t, u \in PoolThreads : t # u => Elements(closure[t]) \cap Elements(closure[u]) = {}
    /\ PassedTasks \cup AcceptedTasks \subseteq postedTasks

PromiseInv == PoolInv /\ OnePlace

Closed == shutdown_ \/ life # "alive"

PromiseStep == [Promise!TaskPoolNext]_(Promise!pool)

\* Steps that only lead to the end of the pool, or to nothing.
LEMMA QuietStep ==
    ASSUME OnePlace, Closed => Closed',
           UNCHANGED <<tasks_, thread_tasks_, task, ownTasks, closure, postedTasks, ranTasks>>
    PROVE  OnePlace' /\ PromiseStep
<1>1. UNCHANGED <<AcceptedTasks, OwnTasks, PassedTasks>> /\ OnePlace'
  BY DEF OnePlace, AcceptedTasks, OwnTasks, PassedTasks
<1>2. CASE Closed = Closed'
  BY <1>1, <1>2 DEF PromiseStep, Promise!pool, Closed
<1>3. CASE ~ Closed /\ Closed'
  <2>1. Promise!Close
    BY <1>1, <1>3 DEF Promise!Close, Closed
  <2>. QED BY <1>1, <2>1 DEF PromiseStep, Promise!TaskPoolNext
<1>. QED BY <1>2, <1>3 DEF Closed

\* The call takes a task on which nobody has seen before.
LEMMA LockIsQuiet ==
    ASSUME PromiseInv, NEW t \in PoolThreads, NEW k \in Closures, LockLoop(t, k)
    PROVE  OnePlace' /\ PromiseStep
<1>1. /\ closure[t] = <<>> /\ k \notin postedTasks
      /\ closure' = [closure EXCEPT ![t] = <<k>>]
      /\ postedTasks' = postedTasks \cup {k}
      /\ UNCHANGED <<tasks_, thread_tasks_, task, ownTasks, ranTasks, shutdown_, life>>
  BY DEF PromiseInv, PoolInv, Typed, CallsTyped, ClosureHeld, LockLoop, MayCall, queueVars,
         workerVars, takenVars, lifeVars
<1>2. /\ Elements(closure[t]) = {} /\ Elements(closure'[t]) = {k}
      /\ \A u \in PoolThreads : u # t => closure'[u] = closure[u]
  BY <1>1, ElementsOfEmpty, ElementsOfOne DEF PromiseInv, PoolInv, Typed, CallsTyped
<1>3. PassedTasks' = PassedTasks \cup {k}
  BY <1>2 DEF PassedTasks
<1>4. AcceptedTasks' = AcceptedTasks /\ OwnTasks' = OwnTasks
  BY <1>1 DEF AcceptedTasks, OwnTasks
<1>5. \A u \in PoolThreads : Elements(closure[u]) \subseteq PassedTasks
  BY DEF PassedTasks
<1>6. k \notin PassedTasks /\ k \notin AcceptedTasks
  BY <1>1 DEF PromiseInv, OnePlace
<1>7. \A u, v \in PoolThreads : u # v => Elements(closure'[u]) \cap Elements(closure'[v]) = {}
  BY <1>2, <1>5, <1>6 DEF PromiseInv, OnePlace
<1>8. OnePlace'
  BY <1>1, <1>3, <1>4, <1>6, <1>7 DEF PromiseInv, OnePlace
<1>9. (postedTasks \ PassedTasks)' = postedTasks \ PassedTasks
  BY <1>1, <1>3
<1>. QED BY <1>1, <1>4, <1>8, <1>9 DEF PromiseStep, Promise!pool

\* The pool accepts a task as it queues it.
LEMMA EnqueueAccepts ==
    ASSUME PromiseInv, NEW t \in PoolThreads, EnqueueTask(t)
    PROVE  OnePlace' /\ PromiseStep
<1>. DEFINE k == Head(closure[t])
<1>1. /\ closure[t] = <<k>> /\ k \in Closures
      /\ tasks_' = tasks_ \o <<k>>
      /\ closure' = [closure EXCEPT ![t] = <<>>]
      /\ UNCHANGED <<thread_tasks_, task, ownTasks, postedTasks, ranTasks, shutdown_, life>>
  BY OneIsHead DEF PromiseInv, PoolInv, Typed, CallsTyped, ClosureHeld, EnqueueTask,
                   workerVars, takenVars, lifeVars
<1>. HIDE DEF k
<1>2. /\ Elements(closure[t]) = {k} /\ Elements(closure'[t]) = {}
      /\ \A u \in PoolThreads : u # t => closure'[u] = closure[u]
  BY <1>1, ElementsOfEmpty, ElementsOfOne DEF PromiseInv, PoolInv, Typed, CallsTyped
<1>3. k \in PassedTasks /\ \A u \in PoolThreads : u # t => k \notin Elements(closure[u])
  BY <1>2 DEF PassedTasks, PromiseInv, OnePlace
<1>4. PassedTasks' = PassedTasks \ {k}
  BY <1>2, <1>3 DEF PassedTasks
<1>5. k \notin AcceptedTasks
  BY <1>3 DEF PromiseInv, OnePlace
<1>6. Elements(tasks_') = Elements(tasks_) \cup {k} /\ Injective(tasks_')
  BY <1>1, <1>5, ElementsOfAppend
     DEF PromiseInv, PoolInv, Typed, QueuesTyped, OnePlace, AcceptedTasks
<1>7. AcceptedTasks' = AcceptedTasks \cup {k} /\ OwnTasks' = OwnTasks
  BY <1>1, <1>6 DEF AcceptedTasks, OwnTasks
<1>8. \A w \in Workers : k \notin Elements(task[w])
  BY <1>5 DEF AcceptedTasks
<1>9. OnePlace'
  <2>1. \A u, v \in PoolThreads : u # v => Elements(closure'[u]) \cap Elements(closure'[v]) = {}
    BY <1>2 DEF PromiseInv, OnePlace
  <2>2. \A w \in Workers : Elements(task'[w]) \cap Elements(tasks_') = {}
    BY <1>1, <1>6, <1>8 DEF PromiseInv, OnePlace
  <2>. QED BY <1>1, <1>3, <1>4, <1>5, <1>6, <1>7, <2>1, <2>2 DEF PromiseInv, OnePlace
<1>10. Promise!Accept(k)
  <2>1. k \in postedTasks /\ (postedTasks \ PassedTasks)' = (postedTasks \ PassedTasks) \cup {k}
    BY <1>1, <1>3, <1>4 DEF PromiseInv, OnePlace
  <2>. QED BY <1>1, <1>3, <1>7, <2>1 DEF Promise!Accept
<1>. QED BY <1>1, <1>9, <1>10 DEF PromiseStep, Promise!TaskPoolNext

\* A caller runs its task only once the pool is closed.
LEMMA CallerRuns ==
    ASSUME PromiseInv, NEW t \in PoolThreads,
           RunOnShutdown(t) \/ \E k \in Closures : RunUnpooled(t, k)
    PROVE  OnePlace' /\ PromiseStep
<1>1. ASSUME NEW k \in Closures, RunUnpooled(t, k) PROVE OnePlace' /\ PromiseStep
  <2>1. /\ k \notin postedTasks /\ postedTasks' = postedTasks \cup {k}
        /\ ranTasks' = ranTasks \cup {<<k, t>>} /\ Closed /\ Closed'
        /\ UNCHANGED <<tasks_, thread_tasks_, task, ownTasks, closure, shutdown_, life>>
    BY <1>1 DEF RunUnpooled, Closed, queueVars, workerVars, takenVars, callVars, lifeVars
  <2>2. UNCHANGED <<AcceptedTasks, OwnTasks, PassedTasks>> /\ OnePlace'
    BY <2>1 DEF PromiseInv, OnePlace, AcceptedTasks, OwnTasks, PassedTasks
  <2>3. k \notin PassedTasks
    BY <2>1 DEF PromiseInv, OnePlace
  <2>4. Promise!RunOnCaller(k, t)
    BY <2>1, <2>2, <2>3 DEF Promise!RunOnCaller, Closed
  <2>. QED BY <2>2, <2>4 DEF PromiseStep, Promise!TaskPoolNext
<1>2. CASE RunOnShutdown(t)
  <2>. DEFINE k == Head(closure[t])
  <2>1. /\ closure[t] = <<k>> /\ k \in Closures
        /\ ranTasks' = ranTasks \cup {<<k, t>>}
        /\ closure' = [closure EXCEPT ![t] = <<>>]
        /\ shutdown_ /\ shutdown_'
        /\ UNCHANGED <<tasks_, thread_tasks_, task, ownTasks, postedTasks>>
    BY <1>2, OneIsHead DEF PromiseInv, PoolInv, Typed, CallsTyped, ClosureHeld,
                           RunOnShutdown, queueVars, workerVars, takenVars
  <2>. HIDE DEF k
  <2>2. /\ Elements(closure[t]) = {k} /\ Elements(closure'[t]) = {}
        /\ \A u \in PoolThreads : u # t => closure'[u] = closure[u]
    BY <2>1, ElementsOfEmpty, ElementsOfOne DEF PromiseInv, PoolInv, Typed, CallsTyped
  <2>3. k \in PassedTasks /\ \A u \in PoolThreads : u # t => k \notin Elements(closure[u])
    BY <2>2 DEF PassedTasks, PromiseInv, OnePlace
  <2>4. PassedTasks' = PassedTasks \ {k}
    BY <2>2, <2>3 DEF PassedTasks
  <2>5. UNCHANGED <<AcceptedTasks, OwnTasks>>
    BY <2>1 DEF AcceptedTasks, OwnTasks
  <2>6. OnePlace'
    <3>1. \A u, v \in PoolThreads :
              u # v => Elements(closure'[u]) \cap Elements(closure'[v]) = {}
      BY <2>2 DEF PromiseInv, OnePlace
    <3>. QED BY <2>1, <2>4, <2>5, <3>1 DEF PromiseInv, OnePlace
  <2>7. k \in postedTasks /\ (postedTasks \ PassedTasks)' = (postedTasks \ PassedTasks) \cup {k}
    BY <2>1, <2>3, <2>4 DEF PromiseInv, OnePlace
  <2>8. Promise!RunOnCaller(k, t)
    BY <2>1, <2>3, <2>5, <2>7 DEF Promise!RunOnCaller
  <2>. QED BY <2>1, <2>6, <2>8 DEF PromiseStep, Promise!TaskPoolNext
<1>. QED BY <1>1, <1>2

\* A task for all workers joins the end of every worker's tasks.
LEMMA PostToAllAccepts ==
    ASSUME PromiseInv, NEW k \in ForAll, PostTaskToAllWorkers(k)
    PROVE  OnePlace' /\ PromiseStep
<1>1. /\ k \notin postedTasks /\ postedTasks' = postedTasks \cup {k}
      /\ thread_tasks_' = [w \in Workers |-> Append(thread_tasks_[w], k)]
      /\ UNCHANGED <<tasks_, task, ownTasks, closure, ranTasks, shutdown_, life>>
  BY DEF PostTaskToAllWorkers, takenVars, callVars, lifeVars
<1>2. UNCHANGED <<AcceptedTasks, PassedTasks>> /\ k \notin PassedTasks /\ OnePlace'
  <2>1. UNCHANGED <<AcceptedTasks, PassedTasks>>
    BY <1>1 DEF AcceptedTasks, PassedTasks
  <2>2. k \notin PassedTasks
    BY <1>1 DEF PromiseInv, OnePlace
  <2>3. OnePlace'
    BY <1>1, <2>1 DEF PromiseInv, OnePlace
  <2>. QED BY <2>1, <2>2, <2>3
<1>3. ASSUME NEW w \in Workers PROVE OwnTasks'[w] = Append(OwnTasks[w], k)
  <2>1. ownTasks[w] \in Seq(ForAll) /\ thread_tasks_[w] \in Seq(ForAll)
    BY DEF PromiseInv, PoolInv, Typed, TakenTyped, QueuesTyped
  <2>2. OwnTasks'[w] = ownTasks[w] \o Append(thread_tasks_[w], k)
    BY <1>1 DEF OwnTasks
  <2>3. ownTasks[w] \o Append(thread_tasks_[w], k) = Append(ownTasks[w] \o thread_tasks_[w], k)
    <3>1. \A s, t \in Seq(ForAll) : s \o Append(t, k) = Append(s \o t, k)
      BY AppendToSecond
    <3>. QED BY <2>1, <3>1, Zenon
  <2>. QED BY <2>2, <2>3 DEF OwnTasks
<1>4. OwnTasks' = [w \in Workers |-> Append(OwnTasks[w], k)]
  BY <1>3 DEF OwnTasks
<1>5. (postedTasks \ PassedTasks)' = (postedTasks \ PassedTasks) \cup {k}
  BY <1>1, <1>2
<1>6. Promise!AcceptForAll(k)
  BY <1>1, <1>2, <1>4, <1>5 DEF Promise!AcceptForAll
<1>. QED BY <1>2, <1>6 DEF PromiseStep, Promise!TaskPoolNext

\* A worker takes its tasks over from the queues.
LEMMA TakeIsQuiet ==
    ASSUME PromiseInv, NEW w \in Workers, TakeTasks(w)
    PROVE  OnePlace' /\ PromiseStep
<1>1. /\ task[w] = <<>> /\ ownTasks[w] = <<>>
      /\ task' = [task EXCEPT ![w] = FirstTask]
      /\ ownTasks' = [ownTasks EXCEPT ![w] = thread_tasks_[w]]
      /\ thread_tasks_' = [thread_tasks_ EXCEPT ![w] = <<>>]
      /\ tasks_' = IF tasks_ = <<>> THEN <<>> ELSE Tail(tasks_)
      /\ UNCHANGED <<closure, postedTasks, ranTasks, shutdown_, life>>
  BY DEF PromiseInv, PoolInv, RoundHolds, TakeTasks, callVars, lifeVars
<1>2. /\ Elements(tasks_) = Elements(tasks_') \cup Elements(FirstTask)
      /\ Elements(tasks_') \cap Elements(FirstTask) = {}
      /\ Injective(tasks_')
  <2>1. CASE tasks_ = <<>>
    BY <1>1, <2>1, ElementsOfEmpty DEF FirstTask
  <2>2. CASE tasks_ # <<>>
    BY <1>1, <2>2, ElementsOfTail, ElementsOfOne
       DEF FirstTask, PromiseInv, OnePlace, PoolInv, Typed, QueuesTyped
  <2>. QED BY <2>1, <2>2
<1>3. /\ task'[w] = FirstTask /\ Elements(task[w]) = {}
      /\ \A v \in Workers : v # w => task'[v] = task[v]
  BY <1>1, ElementsOfEmpty DEF PromiseInv, PoolInv, Typed, TakenTyped
<1>4. AcceptedTasks' = AcceptedTasks
  <2>1. ASSUME NEW x PROVE x \in AcceptedTasks' <=> x \in AcceptedTasks
    BY <1>2, <1>3 DEF AcceptedTasks
  <2>. QED BY <2>1
<1>5. PassedTasks' = PassedTasks
  BY <1>1 DEF PassedTasks
<1>6. OwnTasks' = OwnTasks
  <2>1. ASSUME NEW v \in Workers
        PROVE  ownTasks'[v] \o thread_tasks_'[v] = ownTasks[v] \o thread_tasks_[v]
    <3>1. thread_tasks_[w] \o <<>> = thread_tasks_[w] /\ <<>> \o thread_tasks_[w] = thread_tasks_[w]
      BY ConcatEmptySeq DEF PromiseInv, PoolInv, Typed, QueuesTyped
    <3>. QED BY <1>1, <3>1 DEF PromiseInv, PoolInv, Typed, TakenTyped, QueuesTyped
  <2>. QED BY <2>1 DEF OwnTasks
<1>7. OnePlace'
  <2>1. \A v \in Workers : v # w => Elements(task[v]) \cap Elements(FirstTask) = {}
    BY <1>2 DEF PromiseInv, OnePlace
  <2>2. \A v \in Workers : Elements(task'[v]) \cap Elements(tasks_') = {}
    BY <1>2, <1>3 DEF PromiseInv, OnePlace
  <2>3. \A u, v \in Workers : u # v => Elements(task'[u]) \cap Elements(task'[v]) = {}
    BY <1>3, <2>1 DEF PromiseInv, OnePlace
  <2>. QED BY <1>1, <1>2, <1>4, <1>5, <2>2, <2>3 DEF PromiseInv, OnePlace
<1>. QED BY <1>1, <1>4, <1>5, <1>6, <1>7 DEF PromiseStep, Promise!pool

\* A worker starts the task it took, or the first of its own.
LEMMA ExecuteRuns ==
    ASSUME PromiseInv, NEW w \in Workers, ExecuteTask(w)
    PROVE  OnePlace' /\ PromiseStep
<1>1. UNCHANGED <<tasks_, thread_tasks_, closure, postedTasks, shutdown_, life, PassedTasks>>
  BY DEF ExecuteTask, queueVars, callVars, lifeVars, PassedTasks
<1>2. CASE task[w] # <<>>
  <2>. DEFINE k == Head(task[w])
  <2>1. task[w] \in Seq(Closures) /\ Len(task[w]) = 1
    <3>1. task[w] \in Seq(Closures) /\ Len(task[w]) <= 1
      BY DEF PromiseInv, PoolInv, Typed, TakenTyped, RoundHolds
    <3>. QED BY <1>2, <3>1, ShortIsOne
  <2>2. task[w] = <<k>> /\ k \in Closures
    BY <2>1, OneIsHead
  <2>3. /\ task' = [task EXCEPT ![w] = <<>>] /\ UNCHANGED ownTasks
        /\ ranTasks' = ranTasks \cup {<<k, w>>}
    BY <1>2 DEF ExecuteTask
  <2>. HIDE DEF k
  <2>4. /\ Elements(task[w]) = {k} /\ Elements(task'[w]) = {}
        /\ \A v \in Workers : v # w => task'[v] = task[v]
    BY <2>2, <2>3, ElementsOfEmpty, ElementsOfOne DEF PromiseInv, PoolInv, Typed, TakenTyped
  <2>5. k \notin Elements(tasks_) /\ \A v \in Workers : v # w => k \notin Elements(task[v])
    BY <2>4 DEF PromiseInv, OnePlace
  <2>6. k \in AcceptedTasks /\ AcceptedTasks' = AcceptedTasks \ {k}
    <3>1. ASSUME NEW x PROVE x \in AcceptedTasks' <=> x \in AcceptedTasks /\ x # k
      BY <1>1, <2>4, <2>5 DEF AcceptedTasks
    <3>2. k \in AcceptedTasks
      BY <2>4 DEF AcceptedTasks
    <3>. QED BY <3>1, <3>2
  <2>7. OwnTasks' = OwnTasks
    BY <1>1, <2>3 DEF OwnTasks
  <2>8. OnePlace'
    <3>1. \A v \in Workers : Elements(task'[v]) \cap Elements(tasks_') = {}
      BY <1>1, <2>4 DEF PromiseInv, OnePlace
    <3>2. \A u, v \in Workers : u # v => Elements(task'[u]) \cap Elements(task'[v]) = {}
      BY <2>4 DEF PromiseInv, OnePlace
    <3>. QED BY <1>1, <2>6, <3>1, <3>2 DEF PromiseInv, OnePlace
  <2>9. Promise!RunAccepted(k, w)
    BY <1>1, <2>3, <2>6, <2>7 DEF Promise!RunAccepted
  <2>. QED BY <2>2, <2>8, <2>9 DEF PromiseStep, Promise!TaskPoolNext
<1>3. CASE task[w] = <<>>
  <2>1. /\ ownTasks[w] # <<>> /\ ownTasks[w] \in Seq(ForAll) /\ thread_tasks_[w] \in Seq(ForAll)
    BY <1>3 DEF PromiseInv, PoolInv, Typed, TakenTyped, QueuesTyped, RoundHolds, ExecuteTask
  <2>2. /\ ownTasks' = [ownTasks EXCEPT ![w] = Tail(ownTasks[w])] /\ UNCHANGED task
        /\ ranTasks' = ranTasks \cup {<<Head(ownTasks[w]), w>>}
    BY <1>3 DEF ExecuteTask
  <2>3. /\ OwnTasks[w] # <<>> /\ Head(OwnTasks[w]) = Head(ownTasks[w])
        /\ Tail(OwnTasks[w]) = Tail(ownTasks[w]) \o thread_tasks_[w]
    BY <2>1, HeadTailOfConcat DEF OwnTasks
  <2>4. OwnTasks' = [OwnTasks EXCEPT ![w] = Tail(OwnTasks[w])]
    BY <1>1, <2>2, <2>3 DEF OwnTasks, PromiseInv, PoolInv, Typed, TakenTyped, QueuesTyped
  <2>5. AcceptedTasks' = AcceptedTasks /\ OnePlace'
    BY <1>1, <2>2 DEF AcceptedTasks, PromiseInv, OnePlace
  <2>6. Promise!RunOwn(w)
    BY <1>1, <2>2, <2>3, <2>4, <2>5 DEF Promise!RunOwn
  <2>. QED BY <2>5, <2>6 DEF PromiseStep, Promise!TaskPoolNext
<1>. QED BY <1>2, <1>3

\* Only the end of the destructor, when all workers have left, drops tasks.
LEMMA DestroyForgets ==
    ASSUME PromiseInv, EndDestroy
    PROVE  OnePlace' /\ PromiseStep
<1>1. /\ life = "joining" /\ life' = "dead" /\ tasks_' = <<>> /\ thread_tasks_' = NoClosures
      /\ \A w \in Workers : task[w] = <<>> /\ ownTasks[w] = <<>>
      /\ UNCHANGED <<task, ownTasks, closure, postedTasks, ranTasks, shutdown_>>
  BY DEF PromiseInv, PoolInv, RoundHolds, EndDestroy, workerVars, takenVars, callVars
<1>2. AcceptedTasks' = {}
  BY <1>1, ElementsOfEmpty DEF AcceptedTasks
<1>3. OwnTasks' = [w \in Workers |-> <<>>]
  <2>1. <<>> \o <<>> = <<>>
    BY ConcatEmptySeq, EmptySeq
  <2>. QED BY <1>1, <2>1 DEF OwnTasks, NoClosures
<1>4. PassedTasks' = PassedTasks
  BY <1>1 DEF PassedTasks
<1>5. OnePlace'
  BY <1>1, <1>2, <1>4, ElementsOfEmpty DEF PromiseInv, OnePlace
<1>6. Promise!Forget
  BY <1>1, <1>2, <1>3, <1>4 DEF Promise!Forget
<1>. QED BY <1>5, <1>6 DEF PromiseStep, Promise!TaskPoolNext

LEMMA PromiseKept == PromiseInv /\ [PoolNext]_poolVars => OnePlace' /\ PromiseStep
<1>. SUFFICES ASSUME PromiseInv, [PoolNext]_poolVars PROVE OnePlace' /\ PromiseStep
  OBVIOUS
<1>1. ASSUME NEW t \in PoolThreads, NotifyOne(t) \/ DropLoop(t)
      PROVE  OnePlace' /\ PromiseStep
  <2>1. UNCHANGED <<tasks_, thread_tasks_, task, ownTasks, closure, postedTasks, ranTasks>>
        /\ (Closed => Closed')
    BY <1>1 DEF NotifyOne, DropLoop, ReleaseLoop, Closed, queueVars, workerVars, takenVars,
                callVars, lifeVars
  <2>. QED BY <2>1, QuietStep DEF PromiseInv
<1>2. ASSUME NEW w \in Workers, WaitForTask(w) \/ WakeSpuriously(w) \/ FinishTask(w)
      PROVE  OnePlace' /\ PromiseStep
  <2>1. UNCHANGED <<tasks_, thread_tasks_, task, ownTasks, closure, postedTasks, ranTasks>>
        /\ (Closed => Closed')
    BY <1>2 DEF WaitForTask, WakeSpuriously, FinishTask, Closed, queueVars, takenVars,
                callVars, lifeVars
  <2>. QED BY <2>1, QuietStep DEF PromiseInv
<1>3. CASE Terminate \/ BeginDestroy \/ UNCHANGED poolVars
  <2>1. UNCHANGED <<tasks_, thread_tasks_, task, ownTasks, closure, postedTasks, ranTasks>>
        /\ (Closed => Closed')
    BY <1>3 DEF Terminate, BeginDestroy, Closed, poolVars, queueVars, workerVars, takenVars,
                callVars, lifeVars
  <2>. QED BY <2>1, QuietStep DEF PromiseInv
<1>. QED BY <1>1, <1>2, <1>3, LockIsQuiet, EnqueueAccepts, CallerRuns, PostToAllAccepts,
            TakeIsQuiet, ExecuteRuns, DestroyForgets DEF PoolNext, PostStep, WorkerStep

\* The pool implements the promise of its runners for any number of workers, clients
\* and tasks: an accepted task is run at most once and by a worker, the tasks for all
\* workers in the order of their posts, and none is forgotten but by a pool that is
\* closed (concurrent_message_loop.cc:45-135).
THEOREM PoolImplementsPromise == PoolSpec => ImplementsTaskPool
<1>1. PoolInit => OnePlace /\ Promise!TaskPoolInit
  <2>. SUFFICES ASSUME PoolInit PROVE OnePlace /\ Promise!TaskPoolInit
    OBVIOUS
  <2>1. /\ Elements(tasks_) = {} /\ Injective(tasks_)
        /\ \A w \in Workers : Elements(task[w]) = {}
        /\ \A t \in PoolThreads : Elements(closure[t]) = {}
    BY ElementsOfEmpty DEF PoolInit, NoClosures
  <2>2. AcceptedTasks = {} /\ PassedTasks = {}
    BY <2>1 DEF AcceptedTasks, PassedTasks
  <2>3. OnePlace
    BY <2>1, <2>2 DEF OnePlace
  <2>4. OwnTasks = [w \in Workers |-> <<>>]
    <3>1. <<>> \o <<>> = <<>>
      BY ConcatEmptySeq, EmptySeq
    <3>. QED BY <3>1 DEF PoolInit, OwnTasks, NoClosures
  <2>5. Promise!TaskPoolInit
    BY <2>2, <2>4 DEF PoolInit, Promise!TaskPoolInit
  <2>. QED BY <2>3, <2>5
<1>2. PoolInv /\ OnePlace /\ [PoolNext]_poolVars
        => OnePlace' /\ [Promise!TaskPoolNext]_(Promise!pool)
  BY PromiseKept DEF PromiseInv, PromiseStep
<1>. QED BY <1>1, <1>2, PoolInvInit, PoolInvStep, PTL
         DEF PoolSpec, ImplementsTaskPool, Promise!TaskPoolSpec

=============================================================================
