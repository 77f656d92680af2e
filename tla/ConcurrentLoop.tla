--------------------------- MODULE ConcurrentLoop ---------------------------
(***************************************************************************)
(* fml::ConcurrentMessageLoop: a pool of worker threads with one shared    *)
(* queue, a queue for each worker, one mutex and one condition variable.   *)
(*                                                                         *)
(* Tasks are posted through runners that hold a weak reference to the      *)
(* pool and lock it for the call, so the last reference may go away on any *)
(* thread that posts, and the destructor, which joins the workers, runs    *)
(* there.  A critical section of the mutex is one action; what a thread    *)
(* does between two of them is another.                                    *)
(***************************************************************************)
EXTENDS Naturals, Sequences, FiniteSets

CONSTANTS
    Workers,    \* the threads of the pool
    Clients,    \* the other threads that post
    Closures,   \* the tasks for any worker; each is posted once
    ForAll      \* the tasks for all workers

ASSUME PoolAssumption ==
    /\ Workers \cap Clients = {} /\ IsFiniteSet(Workers \cup Clients)
    /\ Workers # {}
    /\ Closures \cap ForAll = {}

VARIABLES
    tasks_,         \* the shared queue
    thread_tasks_,  \* thread_tasks_[w]: tasks for worker w, which it alone runs
    shutdown_,      \* Terminate was called
    workerPc,       \* workerPc[w]: "test" the predicate, "wait", "start" the next
                    \* task of the batch, "run" it, "left" WorkerMain
    task,           \* task[w]: the shared task w took, <<>> or <<k>>
    ownTasks,       \* ownTasks[w]: the thread tasks w took
    lastRound,      \* lastRound[w]: the shutdown_now of w's round
    call,           \* call[t]: "none", or where thread t is in a call of PostTask
    closure,        \* closure[t]: the task of that call, until it is queued
    held,           \* the owner's reference to the pool
    life,           \* "alive", "expired" (no reference is left), "joining", "dead"
                    \* or "aborted" (a worker has tried to join itself)
    destroyer,      \* the thread that runs the destructor
    postedTasks,    \* history: the tasks that were posted
    ranTasks        \* history: <<k, t>>, task k has been run by thread t

queueVars == <<tasks_, thread_tasks_, shutdown_>>
takenVars == <<task, ownTasks, lastRound>>
workerVars == <<workerPc, takenVars>>
callVars == <<call, closure>>
lifeVars == <<held, life, destroyer>>
poolVars == <<queueVars, workerVars, callVars, lifeVars, postedTasks, ranTasks>>

PoolThreads == Workers \cup Clients

NoClosures == [w \in Workers |-> <<>>]

PoolTypeOK ==
    /\ tasks_ \in Seq(Closures)
    /\ thread_tasks_ \in [Workers -> Seq(ForAll)]
    /\ shutdown_ \in BOOLEAN
    /\ workerPc \in [Workers -> {"test", "wait", "start", "run", "left"}]
    /\ task \in [Workers -> Seq(Closures)]
    /\ ownTasks \in [Workers -> Seq(ForAll)]
    /\ lastRound \in [Workers -> BOOLEAN]
    /\ call \in [PoolThreads -> {"none", "locked", "queued"}]
    /\ closure \in [PoolThreads -> Seq(Closures)]
    /\ held \in BOOLEAN
    /\ life \in {"alive", "expired", "joining", "dead", "aborted"}
    /\ destroyer \in PoolThreads
    /\ postedTasks \subseteq Closures \cup ForAll
    /\ ranTasks \subseteq (Closures \cup ForAll) \X PoolThreads

PoolInit ==
    /\ tasks_ = <<>>
    /\ thread_tasks_ = NoClosures
    /\ shutdown_ = FALSE
    /\ workerPc = [w \in Workers |-> "test"]
    /\ task = NoClosures
    /\ ownTasks = NoClosures
    /\ lastRound = [w \in Workers |-> FALSE]
    /\ call = [t \in PoolThreads |-> "none"]
    /\ closure = [t \in PoolThreads |-> <<>>]
    /\ held = TRUE
    /\ life = "alive"
    /\ destroyer \in {CHOOSE t \in PoolThreads : TRUE}
    /\ postedTasks = {}
    /\ ranTasks = {}

-----------------------------------------------------------------------------
(* Posting *)

\* A client is free to post; a worker posts from the task it is running.
MayCall(t) ==
    /\ call[t] = "none"
    /\ life # "aborted"
    /\ life \in {"expired", "joining"} => t # destroyer
    /\ t \in Clients \/ (t \in Workers /\ workerPc[t] = "run")

\* ConcurrentTaskRunner::PostTask locks its weak reference.
LockLoop(t, k) ==
    /\ MayCall(t)
    /\ life = "alive"
    /\ k \notin postedTasks
    /\ call' = [call EXCEPT ![t] = "locked"]
    /\ closure' = [closure EXCEPT ![t] = <<k>>]
    /\ postedTasks' = postedTasks \cup {k}
    /\ UNCHANGED <<queueVars, workerVars, lifeVars, ranTasks>>

\* The pool is gone: the caller runs the task.
RunUnpooled(t, k) ==
    /\ MayCall(t)
    /\ life # "alive"
    /\ k \notin postedTasks
    /\ postedTasks' = postedTasks \cup {k}
    /\ ranTasks' = ranTasks \cup {<<k, t>>}
    /\ UNCHANGED <<queueVars, workerVars, callVars, lifeVars>>

\* Thread t returns from its call; if it held the last reference, it goes on
\* with the destructor.
ReleaseLoop(t) ==
    /\ call' = [call EXCEPT ![t] = "none"]
    /\ IF held \/ \E u \in PoolThreads \ {t} : call[u] # "none"
       THEN UNCHANGED lifeVars
       ELSE life' = "expired" /\ destroyer' = t /\ UNCHANGED held

\* ConcurrentMessageLoop::PostTask, up to where it unlocks the mutex.
EnqueueTask(t) ==
    /\ call[t] = "locked"
    /\ ~ shutdown_
    /\ tasks_' = tasks_ \o closure[t]
    /\ call' = [call EXCEPT ![t] = "queued"]
    /\ closure' = [closure EXCEPT ![t] = <<>>]
    /\ UNCHANGED <<thread_tasks_, shutdown_, workerVars, lifeVars, postedTasks, ranTasks>>

\* The same after a shutdown: the caller runs the task.
RunOnShutdown(t) ==
    /\ call[t] = "locked"
    /\ shutdown_
    /\ ranTasks' = ranTasks \cup {<<Head(closure[t]), t>>}
    /\ closure' = [closure EXCEPT ![t] = <<>>]
    /\ ReleaseLoop(t)
    /\ UNCHANGED <<queueVars, workerVars, postedTasks>>

\* Mutant: the condition is notified only for the first task of the queue.
NotifyOne_Mutation(t) ==
    /\ call[t] = "queued"
    /\ \/ /\ Len(tasks_) = 1
          /\ \E w \in Workers :
                workerPc[w] = "wait" /\ workerPc' = [workerPc EXCEPT ![w] = "test"]
       \/ /\ Len(tasks_) # 1 \/ \A w \in Workers : workerPc[w] # "wait"
          /\ UNCHANGED workerPc
    /\ ReleaseLoop(t)
    /\ UNCHANGED <<queueVars, takenVars, closure, postedTasks, ranTasks>>

\* The rest of PostTask: notify_one wakes some waiting worker.
NotifyOne(t) ==
    /\ call[t] = "queued"
    /\ \/ \E w \in Workers :
             workerPc[w] = "wait" /\ workerPc' = [workerPc EXCEPT ![w] = "test"]
       \/ (\A w \in Workers : workerPc[w] # "wait") /\ UNCHANGED workerPc
    /\ ReleaseLoop(t)
    /\ UNCHANGED <<queueVars, takenVars, closure, postedTasks, ranTasks>>

NotifyAll ==
    workerPc' = [w \in Workers |-> IF workerPc[w] = "wait" THEN "test" ELSE workerPc[w]]

\* The owner's thread posts a task to every worker, also after a shutdown.
PostTaskToAllWorkers(k) ==
    /\ held
    /\ k \notin postedTasks
    /\ thread_tasks_' = [w \in Workers |-> Append(thread_tasks_[w], k)]
    /\ NotifyAll
    /\ postedTasks' = postedTasks \cup {k}
    /\ UNCHANGED <<tasks_, shutdown_, takenVars, callVars, lifeVars, ranTasks>>

-----------------------------------------------------------------------------
(* WorkerMain *)

HasWork(w) == tasks_ # <<>> \/ shutdown_ \/ thread_tasks_[w] # <<>>

\* The predicate fails and the worker waits.
WaitForTask(w) ==
    /\ workerPc[w] = "test"
    /\ ~ HasWork(w)
    /\ workerPc' = [workerPc EXCEPT ![w] = "wait"]
    /\ UNCHANGED <<queueVars, takenVars, callVars, lifeVars, postedTasks, ranTasks>>

\* A condition variable may wake a thread for no reason.
WakeSpuriously(w) ==
    /\ workerPc[w] = "wait"
    /\ life # "aborted"
    /\ workerPc' = [workerPc EXCEPT ![w] = "test"]
    /\ UNCHANGED <<queueVars, takenVars, callVars, lifeVars, postedTasks, ranTasks>>

FirstTask == IF tasks_ = <<>> THEN <<>> ELSE <<Head(tasks_)>>

\* Where a worker goes when first and then own are left to run in a round.
Proceed(first, own, last) ==
    IF first # <<>> \/ own # <<>> THEN "start" ELSE IF last THEN "left" ELSE "test"

\* Mutant: the worker copies the tasks of its own instead of taking them.
TakeTasks_Mutation(w) ==
    /\ workerPc[w] = "test"
    /\ life # "aborted"
    /\ HasWork(w)
    /\ task' = [task EXCEPT ![w] = FirstTask]
    /\ ownTasks' = [ownTasks EXCEPT ![w] = thread_tasks_[w]]
    /\ lastRound' = [lastRound EXCEPT ![w] = shutdown_]
    /\ tasks_' = IF tasks_ = <<>> THEN <<>> ELSE Tail(tasks_)
    /\ workerPc' = [workerPc EXCEPT ![w] = Proceed(FirstTask, thread_tasks_[w], shutdown_)]
    /\ UNCHANGED <<thread_tasks_, shutdown_, callVars, lifeVars, postedTasks, ranTasks>>

\* Under the mutex the worker takes one shared task and all of its own, and reads
\* shutdown_.
TakeTasks(w) ==
    /\ workerPc[w] = "test"
    /\ life # "aborted"
    /\ HasWork(w)
    /\ task' = [task EXCEPT ![w] = FirstTask]
    /\ ownTasks' = [ownTasks EXCEPT ![w] = thread_tasks_[w]]
    /\ lastRound' = [lastRound EXCEPT ![w] = shutdown_]
    /\ tasks_' = IF tasks_ = <<>> THEN <<>> ELSE Tail(tasks_)
    /\ thread_tasks_' = [thread_tasks_ EXCEPT ![w] = <<>>]
    /\ workerPc' = [workerPc EXCEPT ![w] = Proceed(FirstTask, thread_tasks_[w], shutdown_)]
    /\ UNCHANGED <<shutdown_, callVars, lifeVars, postedTasks, ranTasks>>

\* ExecuteTask starts the next task, the shared one first.
ExecuteTask(w) ==
    /\ workerPc[w] = "start"
    /\ life # "aborted"
    /\ IF task[w] # <<>>
       THEN /\ ranTasks' = ranTasks \cup {<<Head(task[w]), w>>}
            /\ task' = [task EXCEPT ![w] = <<>>]
            /\ UNCHANGED ownTasks
       ELSE /\ ranTasks' = ranTasks \cup {<<Head(ownTasks[w]), w>>}
            /\ ownTasks' = [ownTasks EXCEPT ![w] = Tail(ownTasks[w])]
            /\ UNCHANGED task
    /\ workerPc' = [workerPc EXCEPT ![w] = "run"]
    /\ UNCHANGED <<queueVars, lastRound, callVars, lifeVars, postedTasks>>

\* The task returns; after the last one of a round that saw the shutdown, the
\* worker leaves.
FinishTask(w) ==
    /\ workerPc[w] = "run"
    /\ call[w] = "none"
    /\ ~ (life \in {"expired", "joining"} /\ destroyer = w)
    /\ life # "aborted"
    /\ workerPc' = [workerPc EXCEPT ![w] = Proceed(task[w], ownTasks[w], lastRound[w])]
    /\ UNCHANGED <<queueVars, takenVars, callVars, lifeVars, postedTasks, ranTasks>>

-----------------------------------------------------------------------------
(* Shutdown *)

\* ContextVK::Shutdown terminates the pool before it drops it.
Terminate ==
    /\ held
    /\ shutdown_' = TRUE
    /\ NotifyAll
    /\ UNCHANGED <<tasks_, thread_tasks_, takenVars, callVars, lifeVars,
                   postedTasks, ranTasks>>

\* The owner, a client, drops its reference.
DropLoop(t) ==
    /\ held
    /\ t \in Clients
    /\ call[t] = "none"
    /\ held' = FALSE
    /\ IF \E u \in PoolThreads : call[u] # "none"
       THEN UNCHANGED <<life, destroyer>>
       ELSE life' = "expired" /\ destroyer' = t
    /\ UNCHANGED <<queueVars, workerVars, callVars, postedTasks, ranTasks>>

\* Mutant: the flag is set and nobody is told.
BeginDestroy_Mutation ==
    /\ life = "expired"
    /\ shutdown_' = TRUE
    /\ UNCHANGED workerPc
    /\ life' = IF destroyer \in Workers THEN "aborted" ELSE "joining"
    /\ UNCHANGED <<tasks_, thread_tasks_, takenVars, callVars, held, destroyer,
                   postedTasks, ranTasks>>

\* ~ConcurrentMessageLoop calls Terminate and joins; a worker that joins itself
\* ends the process.
BeginDestroy ==
    /\ life = "expired"
    /\ shutdown_' = TRUE
    /\ NotifyAll
    /\ life' = IF destroyer \in Workers THEN "aborted" ELSE "joining"
    /\ UNCHANGED <<tasks_, thread_tasks_, takenVars, callVars, held, destroyer,
                   postedTasks, ranTasks>>

\* All workers are joined, and what is left in the queues is dropped.
EndDestroy ==
    /\ life = "joining"
    /\ \A w \in Workers : workerPc[w] = "left"
    /\ life' = "dead"
    /\ tasks_' = <<>>
    /\ thread_tasks_' = NoClosures
    /\ UNCHANGED <<shutdown_, workerVars, callVars, held, destroyer, postedTasks, ranTasks>>

-----------------------------------------------------------------------------
PostStep(t) == EnqueueTask(t) \/ RunOnShutdown(t) \/ NotifyOne(t)

WorkerStep(w) == WaitForTask(w) \/ TakeTasks(w) \/ ExecuteTask(w) \/ FinishTask(w)

PoolNext ==
    \/ \E t \in PoolThreads, k \in Closures : LockLoop(t, k) \/ RunUnpooled(t, k)
    \/ \E t \in PoolThreads : PostStep(t) \/ DropLoop(t)
    \/ \E k \in ForAll : PostTaskToAllWorkers(k)
    \/ \E w \in Workers : WorkerStep(w) \/ WakeSpuriously(w)
    \/ Terminate
    \/ BeginDestroy
    \/ EndDestroy

\* Threads are scheduled, and tasks return.
PoolFairness ==
    /\ \A t \in PoolThreads : WF_poolVars(PostStep(t))
    /\ \A w \in Workers : WF_poolVars(WorkerStep(w))
    /\ WF_poolVars(BeginDestroy \/ EndDestroy)

PoolSpec == PoolInit /\ [][PoolNext]_poolVars

-----------------------------------------------------------------------------
(* Properties *)

\* The workers that will test the predicate without being woken, and the calls that
\* have yet to wake one.
Awake == {w \in Workers : workerPc[w] \notin {"wait", "left"}}
Notifying == {t \in PoolThreads : call[t] = "queued"}

\* No worker sleeps on work: a waiting worker has no task of its own and no shutdown
\* to see, and while it waits there is a worker awake, or a call about to wake one,
\* for each task of the shared queue, whatever was posted while the workers were
\* falling asleep (concurrent_message_loop.cc:62-79).
NoSleepOnWork ==
    \A w \in Workers : workerPc[w] = "wait" =>
        /\ thread_tasks_[w] = <<>>
        /\ ~ shutdown_
        /\ Len(tasks_) <= Cardinality(Awake) + Cardinality(Notifying)

\* A destructor that runs outside of the pool ends: each worker sees the shutdown,
\* wherever it is, and is joined (concurrent_message_loop.cc:29-35).
DestructorEnds == (life = "expired" /\ destroyer \in Clients) ~> (life = "dead")

Elements(s) == {s[i] : i \in DOMAIN s}

\* What a pool has accepted and not yet started, and what has been posted to it, a call
\* that has not yet queued its task aside.
AcceptedTasks == Elements(tasks_) \cup UNION {Elements(task[w]) : w \in Workers}
OwnTasks == [w \in Workers |-> ownTasks[w] \o thread_tasks_[w]]
PassedTasks == UNION {Elements(closure[t]) : t \in PoolThreads}

\* The pool implements the promise of its runners: whatever the threads interleave
\* to, no task is run twice or by the wrong thread, the tasks for all workers are run
\* in order, callers run a task only after the shutdown, and only a destroyed pool
\* forgets any (concurrent_message_loop.cc:45-135).
Promise == INSTANCE TaskPool WITH
    Threads <- PoolThreads,
    accepted <- AcceptedTasks,
    own <- OwnTasks,
    posted <- postedTasks \ PassedTasks,
    ran <- ranTasks,
    closed <- (shutdown_ \/ life # "alive")

ImplementsTaskPool == Promise!TaskPoolSpec
=============================================================================
