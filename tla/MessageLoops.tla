---------------------------- MODULE MessageLoops ----------------------------
(***************************************************************************)
(* The engine's threads: one fml::MessageLoop per task queue, each blocked *)
(* on its timer, flushing the expired tasks of the queues it services when *)
(* the timer fires (MessageLoopImpl::FlushTasks and, for the timer, the    *)
(* Linux and Android loops).  Tasks run concurrently with the other loops, *)
(* with threads that post, and with the vsync source that pauses the       *)
(* secondary tasks of a queue.                                             *)
(*                                                                         *)
(* A running task may post, merge its own queue into another loop, undo a  *)
(* merge of the loop it runs on, and add an observer.  These are the       *)
(* callers the engine has: RasterThreadMerger and Engine::Run merge from a *)
(* task of the queue to be subsumed, and un-merge on the owner's thread.   *)
(***************************************************************************)
EXTENDS TaskQueues, FiniteSets

CONSTANT Pausable   \* queues whose secondary source the vsync waiter pauses

ASSUME PausableAssumption == Pausable \subseteq Queues
ASSUME ClosuresAssumption == Closures = {"work", "resume", "quit"}

VARIABLES
    now,          \* fml::TimePoint::Now()
    pc,           \* pc[l]: where loop l is
    flushNow,     \* flushNow[l]: the time FlushTasks read when it started
    current,      \* current[l]: the task l is running, with its queue, or {}
    switched,     \* switched[l]: queues merged or un-merged by l's current task
    running_,     \* running_[l]: the loop has not been told to stop
    terminated_,  \* terminated_[l]: PostTask drops what it is given
    posting,      \* posting[q]: what threads inside PostTask, past the check, post
    pausing,      \* pausing[q]: FireCallback has paused q, and not yet posted
    joined        \* joined[q]: Thread::Join was called

lvars == <<now, pc, flushNow, current, switched, running_, terminated_, posting,
           pausing, joined>>
vars == <<qvars, lvars>>

\* A loop waits ("wait": blocked in epoll_wait), has read its timer ("drained"), is about
\* to ask for a task ("next"), runs one ("run"), has returned from Run ("leaving"), makes
\* its final flush ("last", "lastRun"), and ends DoRun ("dispose", "exited", "gone").

Init ==
    /\ InitWith(Queues)
    /\ now = 0
    /\ pc = [l \in Queues |-> "wait"]
    /\ flushNow = [l \in Queues |-> 0]
    /\ current = [l \in Queues |-> {}]
    /\ switched = [l \in Queues |-> {}]
    /\ running_ = [l \in Queues |-> TRUE]
    /\ terminated_ = [l \in Queues |-> FALSE]
    /\ posting = [q \in Queues |-> {}]
    /\ pausing = [q \in Queues |-> FALSE]
    /\ joined = [q \in Queues |-> FALSE]

Tick ==
    /\ now < MaxTime
    /\ now' = now + 1
    /\ UNCHANGED <<qvars, pc, flushNow, current, switched, running_, terminated_,
                   posting, pausing, joined>>

-----------------------------------------------------------------------------
(* Posting, from any thread *)

\* The bound on tasks leaves room for the resume task of every paused queue.
Room ==
    order_ + Cardinality({q \in Queues : pausing[q] \/ "resume" \in posting[q]})
        < MaxTasks

\* PostTask drops the task of a terminated loop.  The check is not under the
\* queue mutex: the loop may terminate before the task is registered.
BeginPost(q, c) ==
    /\ ~ terminated_[q]
    /\ c \notin posting[q]
    /\ posting' = [posting EXCEPT ![q] = @ \cup {c}]

EndPost(q, c, t) ==
    /\ c \in posting[q]
    /\ c = "resume" \/ Room
    /\ RegisterTask(q, c, t, "kUnspecified")
    /\ posting' = [posting EXCEPT ![q] = @ \ {c}]
    /\ UNCHANGED <<now, pc, flushNow, current, switched, running_, terminated_,
                   pausing, joined>>

PostTask(q) ==
    /\ BeginPost(q, "work")
    /\ UNCHANGED <<qvars, now, pc, flushNow, current, switched, running_,
                   terminated_, pausing, joined>>

\* The isolate's message handler registers without asking the loop.  The
\* isolate is gone before the thread is joined.
PostDartTask(q) ==
    /\ q \in Pausable
    /\ ~ joined[q]
    /\ Room
    /\ RegisterTask(q, "work", now, "kDartEventLoop")
    /\ UNCHANGED lvars

\* Mutant: the pause is skipped, the resume is not.
BeginFireCallback_NoPause(q) ==
    /\ q \in Pausable
    /\ ~ pausing[q]
    /\ "resume" \notin posting[q]
    /\ Room
    /\ pausing' = [pausing EXCEPT ![q] = TRUE]
    /\ UNCHANGED <<qvars, now, pc, flushNow, current, switched, running_,
                   terminated_, posting, joined>>

\* VsyncWaiter::FireCallback pauses the UI queue's secondary tasks and posts
\* the frame callback, which resumes them when it is done.
BeginFireCallback(q) ==
    /\ q \in Pausable
    /\ ~ pausing[q]
    /\ "resume" \notin posting[q]
    /\ Room
    /\ PauseSecondarySource(q)
    /\ pausing' = [pausing EXCEPT ![q] = TRUE]
    /\ UNCHANGED <<now, pc, flushNow, current, switched, running_, terminated_,
                   posting, joined>>

\* Mutant: the pause is made also if there is no callback to post.
PostFrameCallback_NoCallback(q) ==
    /\ pausing[q]
    /\ pausing' = [pausing EXCEPT ![q] = FALSE]
    /\ \/ BeginPost(q, "resume")
       \/ UNCHANGED posting
    /\ UNCHANGED <<qvars, now, pc, flushNow, current, switched, running_,
                   terminated_, joined>>

PostFrameCallback(q) ==
    /\ pausing[q]
    /\ pausing' = [pausing EXCEPT ![q] = FALSE]
    /\ \/ BeginPost(q, "resume")
       \/ terminated_[q] /\ UNCHANGED posting
    /\ UNCHANGED <<qvars, now, pc, flushNow, current, switched, running_,
                   terminated_, joined>>

\* Thread::Join posts the task that terminates the loop.  Its callers first
\* undo the merges of the queue, and merge it no more.
Join(q) ==
    /\ ~ joined[q]
    /\ subsumed_by[q] = kUnmerged
    /\ owner_of[q] = {}
    /\ joined' = [joined EXCEPT ![q] = TRUE]
    /\ BeginPost(q, "quit")
    /\ UNCHANGED <<qvars, now, pc, flushNow, current, switched, running_,
                   terminated_, pausing>>

-----------------------------------------------------------------------------
(* A loop *)

\* OnEventFired reads the expired timer ...
OnEventFired(l) ==
    /\ pc[l] = "wait"
    /\ DrainTimer(l, now)
    /\ pc' = [pc EXCEPT ![l] = "drained"]
    /\ UNCHANGED <<now, flushNow, current, switched, running_, terminated_,
                   posting, pausing, joined>>

\* ... and FlushTasks reads the clock once, in a flush and in the last one.
BeginFlush(l) ==
    /\ pc[l] \in {"drained", "leaving"}
    /\ pc' = [pc EXCEPT ![l] = IF @ = "drained" THEN "next" ELSE "last"]
    /\ flushNow' = [flushNow EXCEPT ![l] = now]
    /\ UNCHANGED <<qvars, now, current, switched, running_, terminated_, posting,
                   pausing, joined>>

BeginTask(l) ==
    /\ pc[l] \in {"next", "last"}
    /\ \E r \in Serviced(l) : \E task \in Visible(r) :
          /\ TakeTask(l, flushNow[l], r, task)
          /\ current' = [current EXCEPT ![l] = {[queue |-> r, task |-> task]}]
    /\ pc' = [pc EXCEPT ![l] = IF @ = "next" THEN "run" ELSE "lastRun"]
    /\ UNCHANGED <<now, flushNow, switched, running_, terminated_, posting,
                   pausing, joined>>

\* No task is left: back to the wait, out of Run, or on to DisposeTasks.  Run
\* looks at running_, and DoRun sets terminated_ when Run has returned.
EndFlush(l) ==
    /\ pc[l] \in {"next", "last"}
    /\ NothingToRun(l) \/ NotDueYet(l, flushNow[l])
    /\ pc' = [pc EXCEPT ![l] = IF @ = "last" THEN "dispose"
                               ELSE IF running_[l] THEN "wait" ELSE "leaving"]
    /\ terminated_' = [terminated_ EXCEPT ![l] = @ \/ ~ running_[l]]
    /\ UNCHANGED <<now, flushNow, current, switched, running_, posting, pausing,
                   joined>>

\* The closure returns and the loop asks for the next task.  The frame callback
\* resumes its queue; Join's task terminates the loop that runs it, and wakes
\* it up at once.
EndTask(l) ==
    /\ pc[l] \in {"run", "lastRun"}
    /\ \E c \in current[l] :
          \/ /\ c.task.closure = "work"
             /\ UNCHANGED <<qvars, running_, terminated_>>
          \/ /\ c.task.closure = "resume"
             /\ ResumeSecondarySource(c.queue)
             /\ UNCHANGED <<running_, terminated_>>
          \/ /\ c.task.closure = "quit"
             /\ terminated_' = [terminated_ EXCEPT ![l] = TRUE]
             /\ running_' = [running_ EXCEPT ![l] = FALSE]
             /\ wake' = [wake EXCEPT ![l] = now]
             /\ UNCHANGED <<entry, order_, primary, secondary, pauses, observers,
                            owner_of, subsumed_by>>
    /\ pc' = [pc EXCEPT ![l] = IF @ = "run" THEN "next" ELSE "last"]
    /\ current' = [current EXCEPT ![l] = {}]
    /\ switched' = [switched EXCEPT ![l] = {}]
    /\ UNCHANGED <<now, flushNow, posting, pausing, joined>>

DropTasks(l) ==
    /\ pc[l] = "dispose"
    /\ DisposeTasks(l)
    /\ pc' = [pc EXCEPT ![l] = "exited"]
    /\ UNCHANGED <<now, flushNow, current, switched, running_, terminated_,
                   posting, pausing, joined>>

\* The last reference to the loop goes, which no thread in PostTask holds.
DestroyLoop(l) ==
    /\ pc[l] = "exited"
    /\ posting[l] = {} /\ ~ pausing[l]
    /\ Dispose(l)
    /\ pc' = [pc EXCEPT ![l] = "gone"]
    /\ UNCHANGED <<now, flushNow, current, switched, running_, terminated_,
                   posting, pausing, joined>>

-----------------------------------------------------------------------------
(* What a running task may do to the table *)

\* A task merges its queue once, and does not merge back what it un-merged: the
\* lease it takes is longer than the one frame it draws.
MergeOwnQueue(l, owner) ==
    /\ ~ joined[owner]
    /\ \E c \in current[l] :
          /\ c.task.closure = "work"
          /\ ~ joined[c.queue]
          /\ c.queue \notin switched[l]
          /\ Merge(owner, c.queue)
          /\ switched' = [switched EXCEPT ![l] = @ \cup {c.queue}]
    /\ UNCHANGED <<now, pc, flushNow, current, running_, terminated_, posting,
                   pausing, joined>>

UnmergeFromOwn(l, subsumed) ==
    /\ \E c \in current[l] : c.task.closure = "work"
    /\ Unmerge(l, subsumed)
    /\ switched' = [switched EXCEPT ![l] = @ \cup {subsumed}]
    /\ UNCHANGED <<now, pc, flushNow, current, running_, terminated_, posting,
                   pausing, joined>>

\* task_observer_add adds to the queue of the current thread.
ObserveOwnLoop(l, k) ==
    /\ \E c \in current[l] : c.task.closure = "work"
    /\ k \notin observers[l]
    /\ AddTaskObserver(l, k)
    /\ UNCHANGED lvars

StopObserving(l, k) ==
    /\ \E c \in current[l] : c.task.closure = "work"
    /\ k \in observers[l]
    /\ RemoveTaskObserver(l, k)
    /\ UNCHANGED lvars

\* TaskRunner::RunsTasksOnCurrentThread of q's runner, asked on loop l's thread.
RunsTasksOnCurrentThread(l, q) == l = q \/ Owns(l, q) \/ Owns(q, l)

-----------------------------------------------------------------------------

Posting ==
    \E q \in Queues :
        \/ PostTask(q)
        \/ PostDartTask(q)
        \/ BeginFireCallback(q)
        \/ PostFrameCallback(q)
        \/ Join(q)
        \/ \E c \in Closures, t \in Time : EndPost(q, c, t)

Switching ==
    \E l, q \in Queues : MergeOwnQueue(l, q) \/ UnmergeFromOwn(l, q)

TaskObserving ==
    \E l \in Queues, k \in Keys : ObserveOwnLoop(l, k) \/ StopObserving(l, k)

LoopStep(l) ==
    \/ OnEventFired(l)
    \/ BeginFlush(l)
    \/ BeginTask(l)
    \/ EndFlush(l)
    \/ EndTask(l)
    \/ DropTasks(l)

Next ==
    \/ Tick
    \/ Posting
    \/ Switching
    \/ TaskObserving
    \/ \E l \in Queues : LoopStep(l) \/ DestroyLoop(l)

Spec == Init /\ [][Next]_vars

\* The clock advances, a running thread takes its next step, and FireCallback
\* completes once it has begun; nobody has to post, and the engine may keep a
\* loop for ever.
Fairness ==
    /\ WF_vars(Tick)
    /\ \A l \in Queues : WF_vars(LoopStep(l))
    /\ \A q \in Queues : WF_vars(PostFrameCallback(q))
    /\ \A q \in Queues : WF_vars(\E t \in Time : EndPost(q, "resume", t))

FairSpec == Spec /\ Fairness

-----------------------------------------------------------------------------
(* Properties *)

\* A blocked loop never sleeps past work: its timer is set to, or before, the
\* target time of the next task it services, or has already expired.  Every
\* RegisterTask, Merge, Unmerge, resume and GetNextTaskToRun keeps the timer
\* so, whichever thread calls it (WakeUpUnlocked's callers in
\* message_loop_task_queues.cc).
NoLostWakeup ==
    \A l \in Queues :
        pc[l] = "wait" /\ entry[l] = "live" /\ HasPendingTasks(l)
            => wake[l] <= now \/ wake[l] <= NextWakeTime(l)

Servicer(q) == IF subsumed_by[q] = kUnmerged THEN q ELSE subsumed_by[q]

\* Tasks of one queue run on the loop that services it.  The one exception is
\* the task that has itself merged or un-merged the queue: it goes on where it
\* started, and may overlap with the queue's next task.
RunsOnServicer ==
    \A l \in Queues : \A c \in current[l] :
        c.queue \in switched[l] \/ Servicer(c.queue) = l

\* While a queue's secondary source is paused, no Dart event is started: the
\* frame callback is not overtaken (vsync_waiter.cc lines 154-160).
PausedStartsNoDartTask ==
    [][\A l \in Queues : \A c \in current'[l] \ current[l] :
            c.task.grade = "kDartEventLoop" => pauses[c.queue] = 0]_vars

\* Every pause is owed exactly one resume, by FireCallback, by a task that is
\* posted, waiting or running, unless the loop was terminated meanwhile.
ResumesOwed(q) ==
    Cardinality({t \in primary[q] : t.closure = "resume"})
    + Cardinality({l \in Queues : \E c \in current[l] :
                      c.queue = q /\ c.task.closure = "resume"})
    + (IF pausing[q] THEN 1 ELSE 0)
    + (IF "resume" \in posting[q] THEN 1 ELSE 0)

PausesBalanced ==
    \A q \in Queues :
        /\ ResumesOwed(q) <= pauses[q]
        /\ ~ terminated_[q] => ResumesOwed(q) = pauses[q]

\* A Dart event that waits is run, or dropped with its loop, unless frame
\* callbacks go on for ever: each pause ends with the callback it was made for
\* (vsync_waiter.cc lines 107-140), and the loop, asleep or flushing when the
\* event came, gets to it by then.
DartEventsRun ==
    \A q \in Pausable :
        \/ []<>(secondary[q] = {} \/ terminated_[q])
        \/ []<><<BeginFireCallback(q)>>_vars

\* What the loops do is what task runners promise.
Execution == INSTANCE TaskExecution WITH
    accepted <- order_,
    pending <- {p \in [queue : Queues, task : UNION {primary[q] \cup secondary[q] : q \in Queues}] :
                    p.task \in primary[p.queue] \cup secondary[p.queue]},
    closed <- {q \in Queues : terminated_[q]}

ImplementsTaskExecution == Execution!Spec

=============================================================================
