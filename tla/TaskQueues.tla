----------------------------- MODULE TaskQueues -----------------------------
(***************************************************************************)
(* fml::MessageLoopTaskQueues: the process-wide table of task queues that  *)
(* every message loop of the Flutter engine shares.  Each public method of *)
(* the class takes queue_mutex_ for its whole body, so each is one action. *)
(*                                                                         *)
(* A task source keeps two heaps ordered by (target_time, order): primary  *)
(* for platform work and secondary for the Dart event loop.  Orders are    *)
(* unique, so a heap is the set of its tasks.  The timer that a queue's    *)
(* Wakeable sets is the variable wake.                                     *)
(***************************************************************************)
EXTENDS Naturals

CONSTANTS
    Queues,       \* every TaskQueueId that is ever created
    kUnmerged,    \* the id that stands for "not subsumed"
    Closures,     \* what a task does when it is invoked
    Keys,         \* keys of task observers
    MaxTasks,     \* bound: tasks ever registered (order_)
    MaxTime,      \* bound: the last instant of the clock
    MaxPauses     \* bound: nested pauses of one secondary source

ASSUME kUnmergedAssumption == kUnmerged \notin Queues
ASSUME BoundsAssumption == MaxTasks \in Nat /\ MaxTime \in Nat /\ MaxPauses \in Nat

VARIABLES
    entry,        \* entry[q]: "none", "live" or "erased", the key of queue_entries_
    order_,       \* the order of the next task
    primary,      \* primary[q]: primary_task_queue_ of q's source
    secondary,    \* secondary[q]: secondary_task_queue_ of q's source
    pauses,       \* pauses[q]: secondary_pause_requests_ of q's source
    observers,    \* observers[q]: the keys of task_observers
    owner_of,     \* owner_of[q]: the queues that q subsumes
    subsumed_by,  \* subsumed_by[q]: the queue that subsumes q, or kUnmerged
    wake          \* wake[q]: when q's loop wakes up next, or Disarmed

qvars == <<entry, order_, primary, secondary, pauses, observers, owner_of,
           subsumed_by, wake>>

Time == 0 .. MaxTime
Disarmed == MaxTime + 1

Grades == {"kUserInteraction", "kUnspecified", "kDartEventLoop"}
Tasks == [order : Nat, closure : Closures, time : Time, grade : Grades]

TypeOK ==
    /\ entry \in [Queues -> {"none", "live", "erased"}]
    /\ order_ \in Nat
    /\ primary \in [Queues -> SUBSET Tasks]
    /\ secondary \in [Queues -> SUBSET Tasks]
    /\ pauses \in [Queues -> Nat]
    /\ observers \in [Queues -> SUBSET Keys]
    /\ owner_of \in [Queues -> SUBSET Queues]
    /\ subsumed_by \in [Queues -> Queues \cup {kUnmerged}]
    /\ wake \in [Queues -> Time \cup {Disarmed}]

live == {q \in Queues : entry[q] = "live"}

-----------------------------------------------------------------------------
(* What a queue has to do *)

\* DelayedTask::operator>, the other way round.
Before(a, b) == a.time < b.time \/ (a.time = b.time /\ a.order < b.order)

\* The task at the top of a heap that holds the tasks S.
Earliest(S) == CHOOSE t \in S : \A u \in S : u = t \/ Before(t, u)

\* Mutant: the pause is forgotten.
Visible_Unpaused(q) == primary[q] \cup secondary[q]

\* The tasks of q's source that count while its secondary heap is paused or not.
Visible(q) == IF pauses[q] = 0 THEN primary[q] \cup secondary[q] ELSE primary[q]

Top(q) == Earliest(Visible(q))

\* Mutant: a subsumed loop goes on with its own source.
Serviced_Subsumed(q) == {q} \cup owner_of[q]

\* The sources that q's loop looks at: none once q is subsumed.
Serviced(q) == IF subsumed_by[q] # kUnmerged THEN {} ELSE {q} \cup owner_of[q]

HasPendingTasks(q) == \E r \in Serviced(q) : Visible(r) # {}

PeekNextTask(q) == Earliest({Top(r) : r \in {s \in Serviced(q) : Visible(s) # {}}})

NextWakeTime(q) == PeekNextTask(q).time

\* WakeUpUnlocked on each queue of Q that has pending tasks after the step.
WakeIfPending(Q) ==
    wake' = [q \in Queues |-> IF q \in Q /\ HasPendingTasks(q)'
                              THEN NextWakeTime(q)' ELSE wake[q]]

-----------------------------------------------------------------------------
(* Queues *)

InitWith(Q) ==
    /\ entry = [q \in Queues |-> IF q \in Q THEN "live" ELSE "none"]
    /\ order_ = 0
    /\ primary = [q \in Queues |-> {}]
    /\ secondary = [q \in Queues |-> {}]
    /\ pauses = [q \in Queues |-> 0]
    /\ observers = [q \in Queues |-> {}]
    /\ owner_of = [q \in Queues |-> {}]
    /\ subsumed_by = [q \in Queues |-> kUnmerged]
    /\ wake = [q \in Queues |-> Disarmed]

\* Ids come from a counter and are never used again.
CreateTaskQueue(q) ==
    /\ entry[q] = "none"
    /\ entry' = [entry EXCEPT ![q] = "live"]
    /\ UNCHANGED <<order_, primary, secondary, pauses, observers, owner_of,
                   subsumed_by, wake>>

\* Mutant: the entries that q subsumes stay.
Dispose_Alone(q) ==
    /\ entry[q] = "live"
    /\ subsumed_by[q] = kUnmerged
    /\ entry' = [entry EXCEPT ![q] = "erased"]
    /\ primary' = [primary EXCEPT ![q] = {}]
    /\ secondary' = [secondary EXCEPT ![q] = {}]
    /\ pauses' = [pauses EXCEPT ![q] = 0]
    /\ observers' = [observers EXCEPT ![q] = {}]
    /\ owner_of' = [owner_of EXCEPT ![q] = {}]
    /\ wake' = [wake EXCEPT ![q] = Disarmed]
    /\ UNCHANGED <<order_, subsumed_by>>

\* Erasing an entry erases its source and its observers; the entries that q
\* subsumes are erased with it.  The caller keeps FML_DCHECK's precondition.
Dispose(q) ==
    LET erased == {q} \cup owner_of[q]
        Reset(f, v) == [r \in Queues |-> IF r \in erased THEN v ELSE f[r]]
    IN  /\ entry[q] = "live"
        /\ subsumed_by[q] = kUnmerged
        /\ entry' = Reset(entry, "erased")
        /\ primary' = Reset(primary, {})
        /\ secondary' = Reset(secondary, {})
        /\ pauses' = Reset(pauses, 0)
        /\ observers' = Reset(observers, {})
        /\ owner_of' = Reset(owner_of, {})
        /\ subsumed_by' = Reset(subsumed_by, kUnmerged)
        /\ wake' = Reset(wake, Disarmed)
        /\ UNCHANGED order_

\* ShutDown of the sources of q and of the queues it subsumes.
DisposeTasks(q) ==
    LET shut == {q} \cup owner_of[q]
        Empty(f) == [r \in Queues |-> IF r \in shut THEN {} ELSE f[r]]
    IN  /\ entry[q] = "live"
        /\ subsumed_by[q] = kUnmerged
        /\ primary' = Empty(primary)
        /\ secondary' = Empty(secondary)
        /\ UNCHANGED <<entry, order_, pauses, observers, owner_of, subsumed_by,
                       wake>>

-----------------------------------------------------------------------------
(* Tasks *)

RegisterTask(q, c, t, g) ==
    LET task == [order |-> order_, closure |-> c, time |-> t, grade |-> g]
        loop_to_wake == IF subsumed_by[q] # kUnmerged THEN subsumed_by[q] ELSE q
    IN  /\ entry[q] = "live"
        /\ order_ < MaxTasks
        /\ order_' = order_ + 1
        /\ IF g = "kDartEventLoop"
           THEN /\ secondary' = [secondary EXCEPT ![q] = @ \cup {task}]
                /\ UNCHANGED primary
           ELSE /\ primary' = [primary EXCEPT ![q] = @ \cup {task}]
                /\ UNCHANGED secondary
        /\ UNCHANGED <<entry, pauses, observers, owner_of, subsumed_by>>
        /\ WakeIfPending({loop_to_wake})

\* GetNextTaskToRun has three outcomes.  Nothing is pending:
NothingToRun(q) ==
    /\ entry[q] = "live"
    /\ ~ HasPendingTasks(q)
    /\ UNCHANGED qvars

\* ... or the next task is not due at the time the caller has read, and the
\* timer is set to it:
NotDueYet(q, from_time) ==
    /\ entry[q] = "live"
    /\ HasPendingTasks(q)
    /\ NextWakeTime(q) > from_time
    /\ wake' = [wake EXCEPT ![q] = NextWakeTime(q)]
    /\ UNCHANGED <<entry, order_, primary, secondary, pauses, observers, owner_of,
                   subsumed_by>>

\* ... or the task is popped from the source r it was found in.  The timer is
\* set before the pop, to the time of this very task.
TakeTask(q, from_time, r, task) ==
    /\ entry[q] = "live"
    /\ HasPendingTasks(q)
    /\ task = PeekNextTask(q)
    /\ r \in Serviced(q)
    /\ task \in Visible(r)
    /\ task.time <= from_time
    /\ wake' = [wake EXCEPT ![q] = NextWakeTime(q)]
    /\ IF task.grade = "kDartEventLoop"
       THEN /\ secondary' = [secondary EXCEPT ![r] = @ \ {task}]
            /\ UNCHANGED primary
       ELSE /\ primary' = [primary EXCEPT ![r] = @ \ {task}]
            /\ UNCHANGED secondary
    /\ UNCHANGED <<entry, order_, pauses, observers, owner_of, subsumed_by>>

\* The loop's timer has expired and the loop drains it: it fires once.
DrainTimer(q, now) ==
    /\ entry[q] = "live"
    /\ wake[q] <= now
    /\ wake' = [wake EXCEPT ![q] = Disarmed]
    /\ UNCHANGED <<entry, order_, primary, secondary, pauses, observers, owner_of,
                   subsumed_by>>

-----------------------------------------------------------------------------
(* Observers and the secondary source *)

AddTaskObserver(q, k) ==
    /\ entry[q] = "live"
    /\ observers' = [observers EXCEPT ![q] = @ \cup {k}]
    /\ UNCHANGED <<entry, order_, primary, secondary, pauses, owner_of,
                   subsumed_by, wake>>

RemoveTaskObserver(q, k) ==
    /\ entry[q] = "live"
    /\ observers' = [observers EXCEPT ![q] = @ \ {k}]
    /\ UNCHANGED <<entry, order_, primary, secondary, pauses, owner_of,
                   subsumed_by, wake>>

PauseSecondarySource(q) ==
    /\ entry[q] = "live"
    /\ pauses[q] < MaxPauses
    /\ pauses' = [pauses EXCEPT ![q] = @ + 1]
    /\ UNCHANGED <<entry, order_, primary, secondary, observers, owner_of,
                   subsumed_by, wake>>

\* Mutant: no check that the pauses are balanced.
ResumeSecondarySource_Unchecked(q) ==
    /\ entry[q] = "live"
    /\ pauses' = [pauses EXCEPT ![q] = @ - 1]
    /\ UNCHANGED <<entry, order_, primary, secondary, observers, owner_of,
                   subsumed_by>>
    /\ WakeIfPending({q})

\* A subsumed queue has no pending tasks of its own, so resuming one wakes
\* nobody.  That pauses[q] > 0 the code only asserts (task_source.cc line 100,
\* an FML_DCHECK): it is for the callers to keep, and PausesBalanced says that
\* the frame callbacks do, who resume what they have paused.
ResumeSecondarySource(q) ==
    /\ entry[q] = "live"
    /\ pauses[q] > 0
    /\ pauses' = [pauses EXCEPT ![q] = @ - 1]
    /\ UNCHANGED <<entry, order_, primary, secondary, observers, owner_of,
                   subsumed_by>>
    /\ WakeIfPending({q})

-----------------------------------------------------------------------------
(* Merging *)

\* Mutants: a check is missing.
MergeSucceeds_SubsumedOwner(owner, subsumed) ==
    /\ owner_of[subsumed] = {}
    /\ subsumed_by[subsumed] = kUnmerged

MergeSucceeds_Twice(owner, subsumed) ==
    /\ subsumed_by[owner] = kUnmerged
    /\ owner_of[subsumed] = {}

\* The checks of Merge, in their order; a failed one returns false.
MergeSucceeds(owner, subsumed) ==
    /\ subsumed_by[owner] = kUnmerged
    /\ owner_of[subsumed] = {}
    /\ subsumed_by[subsumed] = kUnmerged

\* Mutant: the owner is not woken for the tasks it has gained.
Merge_NoWake(owner, subsumed) ==
    /\ owner # subsumed
    /\ {owner, subsumed} \subseteq live
    /\ subsumed \notin owner_of[owner]
    /\ MergeSucceeds(owner, subsumed)
    /\ owner_of' = [owner_of EXCEPT ![owner] = @ \cup {subsumed}]
    /\ subsumed_by' = [subsumed_by EXCEPT ![subsumed] = owner]
    /\ UNCHANGED <<entry, order_, primary, secondary, pauses, observers, wake>>

\* owner = subsumed and an existing merge return true and change nothing; so
\* does a failed merge.
Merge(owner, subsumed) ==
    /\ owner # subsumed
    /\ {owner, subsumed} \subseteq live
    /\ subsumed \notin owner_of[owner]
    /\ MergeSucceeds(owner, subsumed)
    /\ owner_of' = [owner_of EXCEPT ![owner] = @ \cup {subsumed}]
    /\ subsumed_by' = [subsumed_by EXCEPT ![subsumed] = owner]
    /\ UNCHANGED <<entry, order_, primary, secondary, pauses, observers>>
    /\ WakeIfPending({owner})

UnmergeSucceeds(owner, subsumed) ==
    /\ owner_of[owner] # {}
    /\ subsumed_by[owner] = kUnmerged
    /\ subsumed_by[subsumed] # kUnmerged
    /\ subsumed \in owner_of[owner]

\* Mutants: only the owner is woken; the owner keeps its record of the merge.
Unmerge_WakesOwner(owner, subsumed) ==
    /\ {owner, subsumed} \subseteq live
    /\ UnmergeSucceeds(owner, subsumed)
    /\ subsumed_by' = [subsumed_by EXCEPT ![subsumed] = kUnmerged]
    /\ owner_of' = [owner_of EXCEPT ![owner] = @ \ {subsumed}]
    /\ UNCHANGED <<entry, order_, primary, secondary, pauses, observers>>
    /\ WakeIfPending({owner})

Unmerge_KeepsOwner(owner, subsumed) ==
    /\ {owner, subsumed} \subseteq live
    /\ UnmergeSucceeds(owner, subsumed)
    /\ subsumed_by' = [subsumed_by EXCEPT ![subsumed] = kUnmerged]
    /\ UNCHANGED <<entry, order_, primary, secondary, pauses, observers, owner_of>>
    /\ WakeIfPending({owner, subsumed})

Unmerge(owner, subsumed) ==
    /\ {owner, subsumed} \subseteq live
    /\ UnmergeSucceeds(owner, subsumed)
    /\ subsumed_by' = [subsumed_by EXCEPT ![subsumed] = kUnmerged]
    /\ owner_of' = [owner_of EXCEPT ![owner] = @ \ {subsumed}]
    /\ UNCHANGED <<entry, order_, primary, secondary, pauses, observers>>
    /\ WakeIfPending({owner, subsumed})

Owns(owner, subsumed) == subsumed \in owner_of[owner]

-----------------------------------------------------------------------------
(* The table on its own: any thread may call any method at any time. *)

TQInit == InitWith({})

Lifecycle == \E q \in Queues : CreateTaskQueue(q) \/ Dispose(q) \/ DisposeTasks(q)

Tasking ==
    \E q \in Queues :
        \/ \E c \in Closures, t \in Time, g \in Grades : RegisterTask(q, c, t, g)
        \/ \E from_time \in Time :
              \/ NotDueYet(q, from_time)
              \/ \E r \in Serviced(q) : \E task \in Visible(r) :
                    TakeTask(q, from_time, r, task)
              \/ DrainTimer(q, from_time)

Observing ==
    \E q \in Queues, k \in Keys : AddTaskObserver(q, k) \/ RemoveTaskObserver(q, k)

Pausing == \E q \in Queues : PauseSecondarySource(q) \/ ResumeSecondarySource(q)

Merging == \E o, s \in Queues : Merge(o, s) \/ Unmerge(o, s)

TQNext == Lifecycle \/ Tasking \/ Observing \/ Pausing \/ Merging

TQSpec == TQInit /\ [][TQNext]_qvars

-----------------------------------------------------------------------------
(* Properties *)

\* subsumed_by and owner_of are two records of one relation: every queue is
\* subsumed by exactly the queue that owns it (message_loop_task_queues.cc
\* lines 247-249 and 290-291 write both).
MergeRecordsAgree ==
    \A o, s \in Queues : s \in owner_of[o] <=> subsumed_by[s] = o

\* An owner is never subsumed: message_loop_task_queues.h lines 105-111 list
\* the only three states a queue may be in.
OwnerNeverSubsumed ==
    \A q \in Queues : owner_of[q] # {} => subsumed_by[q] = kUnmerged

\* A queue that takes part in a merge has an entry, so at() never throws when
\* the code follows owner_of or subsumed_by, whatever has been disposed of.
MergedQueuesLive ==
    \A q \in Queues :
        /\ owner_of[q] \subseteq live
        /\ subsumed_by[q] \in live \cup {kUnmerged}
        /\ q \notin live => owner_of[q] = {} /\ subsumed_by[q] = kUnmerged

\* Every live queue is looked at by exactly one loop: no task waits in a queue
\* nobody services, and no two loops service one queue.
OneServicer ==
    \A r \in live : \E q \in live : {o \in Queues : r \in Serviced(o)} = {q}

=============================================================================
