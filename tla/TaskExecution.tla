---------------------------- MODULE TaskExecution ----------------------------
(***************************************************************************)
(* What task runners promise to those who post: an accepted task is run    *)
(* at most once, not before its target time, after every earlier task of   *)
(* the same heap, and eventually, unless the queue it was posted to is     *)
(* closed.  Threads, merges, timers and pauses do not appear here.         *)
(***************************************************************************)
EXTENDS Naturals

CONSTANTS Queues, Closures, Grades, MaxTime, MaxTasks

VARIABLES
    now,       \* the clock
    accepted,  \* how many tasks were ever accepted: the next task's order
    pending,   \* the accepted tasks that were neither run nor discarded
    closed     \* queues whose pending tasks may be discarded

vars == <<now, accepted, pending, closed>>

Before(a, b) == a.time < b.time \/ (a.time = b.time /\ a.order < b.order)

SameHeap(p, r) ==
    /\ p.queue = r.queue
    /\ (p.task.grade = "kDartEventLoop") <=> (r.task.grade = "kDartEventLoop")

Due(p) ==
    /\ p.task.time <= now
    /\ \A r \in pending : SameHeap(p, r) => ~ Before(r.task, p.task)

Init == now = 0 /\ accepted = 0 /\ pending = {} /\ closed = {}

Tick ==
    /\ now < MaxTime
    /\ now' = now + 1
    /\ UNCHANGED <<accepted, pending, closed>>

Accept(q, c, t, g) ==
    LET task == [order |-> accepted, closure |-> c, time |-> t, grade |-> g]
    IN  /\ accepted < MaxTasks
        /\ accepted' = accepted + 1
        /\ pending' = pending \cup {[queue |-> q, task |-> task]}
        /\ UNCHANGED <<now, closed>>

Execute(p) ==
    /\ p \in pending
    /\ Due(p)
    /\ pending' = pending \ {p}
    /\ UNCHANGED <<now, accepted, closed>>

Close(q) ==
    /\ closed' = closed \cup {q}
    /\ UNCHANGED <<now, accepted, pending>>

Discard(q) ==
    /\ q \in closed
    /\ pending' = {p \in pending : p.queue # q}
    /\ UNCHANGED <<now, accepted, closed>>

\* A due task of an open queue's primary heap; a secondary one may be paused
\* over and over.
ExecuteOpen(q) ==
    /\ q \notin closed
    /\ \E p \in pending : p.queue = q /\ p.task.grade # "kDartEventLoop" /\ Execute(p)

Next ==
    \/ Tick
    \/ \E q \in Queues :
          \/ \E c \in Closures, t \in 0 .. MaxTime, g \in Grades : Accept(q, c, t, g)
          \/ Close(q)
          \/ Discard(q)
    \/ \E p \in pending : Execute(p)

Safety == Init /\ [][Next]_vars

Spec == Safety /\ \A q \in Queues : WF_vars(ExecuteOpen(q))

=============================================================================
