------------------------- MODULE MessageLoopsProofs -------------------------
(***************************************************************************)
(* What holds of the message loops for any number of queues, tasks and     *)
(* observers, however posts, merges, pauses and joins interleave.          *)
(*                                                                         *)
(* What the loops do to the table of queues are steps of TaskQueues, so    *)
(* its invariants carry over.  On top of them: a task runs on the loop     *)
(* that services its queue unless it moved the queue itself; a loop that   *)
(* waits has set its timer early enough; every pause is owed a resume.     *)
(***************************************************************************)
EXTENDS MessageLoops, TaskQueuesProofs, FiniteSetTheorems

-----------------------------------------------------------------------------
(* The inductive invariant *)

\* Where a loop is when it is inside a task, and once Join's task has stopped it.
InTask == {"run", "lastRun"}
Stopped == {"leaving", "last", "lastRun", "dispose", "exited", "gone"}
Steps == {"wait", "drained", "next", "run"} \cup Stopped

Runs == [queue : Queues, task : Tasks]

LoopsTypeOK ==
    /\ now \in Time
    /\ pc \in [Queues -> Steps]
    /\ flushNow \in [Queues -> Time]
    /\ current \in [Queues -> SUBSET Runs]
    /\ switched \in [Queues -> SUBSET Queues]
    /\ running_ \in [Queues -> BOOLEAN]
    /\ terminated_ \in [Queues -> BOOLEAN]
    /\ posting \in [Queues -> SUBSET Closures]
    /\ pausing \in [Queues -> BOOLEAN]
    /\ joined \in [Queues -> BOOLEAN]

\* A loop has one task at most, and only while it is inside it.
OneTask ==
    \A l \in Queues :
        /\ pc[l] \notin InTask => current[l] = {} /\ switched[l] = {}
        /\ \A c, d \in current[l] : c = d

\* Only an ordinary task moves queues.
OnlyWorkSwitches ==
    \A l \in Queues : \A c \in current[l] : c.task.closure # "work" => switched[l] = {}

TableInv == Inv /\ MergeInv

PlaceInv == TableInv /\ LoopsTypeOK /\ OneTask /\ OnlyWorkSwitches /\ RunsOnServicer

\* The timer of l is set for each task that it services, or has expired.
OnTime(l) ==
    \A r \in Serviced(l) : \A t \in Visible(r) : wake[l] <= now \/ wake[l] <= t.time

\* NoLostWakeup, task by task.
NoOversleep == \A l \in Queues : pc[l] = "wait" /\ entry[l] = "live" => OnTime(l)

\* What quits was sent by Join; what resumes or quits is a platform task.
QuitsAreJoined ==
    \A q \in Queues :
        /\ "quit" \in posting[q] => joined[q]
        /\ \A t \in primary[q] : t.closure = "quit" => joined[q]
        /\ \A t \in secondary[q] : t.closure = "work"
        /\ \A l \in Queues : \A c \in current[l] :
              c.queue = q /\ c.task.closure = "quit" => joined[q]

\* A queue that is joined takes part in no merge any more, and only such a queue's
\* loop stops.
JoinedIsAlone ==
    \A q \in Queues :
        /\ joined[q] => owner_of[q] = {} /\ subsumed_by[q] = kUnmerged
        /\ pc[q] \in Stopped => joined[q] /\ terminated_[q]
        /\ ~ running_[q] => joined[q]

\* The resumes of q that wait, and the loops that run one.
ResumeTasks(q) == {t \in primary[q] : t.closure = "resume"}
ResumingLoops(q) ==
    {l \in Queues : \E c \in current[l] : c.queue = q /\ c.task.closure = "resume"}

Flag(b) == IF b THEN 1 ELSE 0

Owed(q) ==
    Cardinality(ResumeTasks(q)) + Cardinality(ResumingLoops(q))
    + Flag(pausing[q]) + Flag("resume" \in posting[q])

\* PausesBalanced for one queue, with what makes its numbers numbers.
Balanced(q) ==
    /\ IsFiniteSet(ResumeTasks(q)) /\ IsFiniteSet(ResumingLoops(q))
    /\ Owed(q) <= pauses[q]
    /\ ~ terminated_[q] => Owed(q) = pauses[q]

AllBalanced == \A q \in Queues : Balanced(q)

-----------------------------------------------------------------------------
(* The loops and the table *)

\* Join's task sets the timer of its own loop, which is no step of the table.
SetsTimer ==
    /\ wake' \in [Queues -> Time \cup {Disarmed}]
    /\ UNCHANGED <<entry, order_, primary, secondary, pauses, observers, owner_of,
                   subsumed_by>>

\* Whatever the threads do, the table takes one of its own steps, or none.
LEMMA LoopsUseTable ==
    ASSUME TypeOK, LoopsTypeOK, [Next]_vars
    PROVE  TQNext \/ UNCHANGED qvars \/ SetsTimer
<1>1. CASE Tick \/ UNCHANGED vars
  BY <1>1 DEF Tick, vars
<1>2. CASE Posting
  <2>1. PICK q \in Queues :
            \/ PostTask(q) \/ PostDartTask(q) \/ BeginFireCallback(q)
            \/ PostFrameCallback(q) \/ Join(q)
            \/ \E c \in Closures, t \in Time : EndPost(q, c, t)
    BY <1>2 DEF Posting
  <2>2. CASE PostTask(q) \/ PostFrameCallback(q) \/ Join(q)
    BY <2>2 DEF PostTask, PostFrameCallback, Join
  <2>3. CASE PostDartTask(q)
    <3>1. RegisterTask(q, "work", now, "kDartEventLoop") /\ now \in Time
      BY <2>3 DEF PostDartTask, LoopsTypeOK
    <3>. QED BY <3>1, ClosuresAssumption DEF TQNext, Tasking, Grades
  <2>4. CASE BeginFireCallback(q)
    BY <2>4 DEF BeginFireCallback, TQNext, Pausing
  <2>5. CASE \E c \in Closures, t \in Time : EndPost(q, c, t)
    BY <2>5 DEF EndPost, TQNext, Tasking, Grades
  <2>. QED BY <2>1, <2>2, <2>3, <2>4, <2>5
<1>3. CASE Switching
  <2>1. PICK l \in Queues, q \in Queues : MergeOwnQueue(l, q) \/ UnmergeFromOwn(l, q)
    BY <1>3 DEF Switching
  <2>2. CASE MergeOwnQueue(l, q)
    BY <2>2 DEF MergeOwnQueue, TQNext, Merging, LoopsTypeOK, Runs
  <2>3. CASE UnmergeFromOwn(l, q)
    BY <2>3 DEF UnmergeFromOwn, TQNext, Merging
  <2>. QED BY <2>1, <2>2, <2>3
<1>4. CASE TaskObserving
  BY <1>4 DEF TaskObserving, ObserveOwnLoop, StopObserving, TQNext, Observing
<1>5. ASSUME NEW l \in Queues, LoopStep(l) \/ DestroyLoop(l)
      PROVE  TQNext \/ UNCHANGED qvars \/ SetsTimer
  <2>1. CASE OnEventFired(l)
    BY <2>1 DEF OnEventFired, TQNext, Tasking, LoopsTypeOK
  <2>2. CASE BeginFlush(l)
    BY <2>2 DEF BeginFlush
  <2>3. CASE BeginTask(l)
    <3>1. PICK r \in Serviced(l) : \E task \in Visible(r) : TakeTask(l, flushNow[l], r, task)
      BY <2>3 DEF BeginTask
    <3>2. flushNow[l] \in Time
      BY DEF LoopsTypeOK
    <3>. QED BY <3>1, <3>2 DEF TQNext, Tasking
  <2>4. CASE EndFlush(l)
    <3>1. flushNow[l] \in Time
      BY DEF LoopsTypeOK
    <3>. QED BY <2>4, <3>1 DEF EndFlush, NothingToRun, TQNext, Tasking
  <2>5. CASE EndTask(l)
    <3>1. PICK c \in current[l] :
              \/ UNCHANGED qvars
              \/ ResumeSecondarySource(c.queue)
              \/ /\ wake' = [wake EXCEPT ![l] = now]
                 /\ UNCHANGED <<entry, order_, primary, secondary, pauses, observers,
                                owner_of, subsumed_by>>
      BY <2>5 DEF EndTask
    <3>2. c.queue \in Queues
      BY DEF LoopsTypeOK, Runs
    <3>3. CASE ResumeSecondarySource(c.queue)
      BY <3>2, <3>3 DEF TQNext, Pausing
    <3>4. CASE /\ wake' = [wake EXCEPT ![l] = now]
               /\ UNCHANGED <<entry, order_, primary, secondary, pauses, observers,
                              owner_of, subsumed_by>>
      BY <3>4 DEF SetsTimer, TypeOK, LoopsTypeOK
    <3>. QED BY <3>1, <3>3, <3>4
  <2>6. CASE DropTasks(l)
    BY <2>6 DEF DropTasks, TQNext, Lifecycle
  <2>7. CASE DestroyLoop(l)
    BY <2>7 DEF DestroyLoop, TQNext, Lifecycle
  <2>. QED BY <1>5, <2>1, <2>2, <2>3, <2>4, <2>5, <2>6, <2>7 DEF LoopStep
<1>. QED BY <1>1, <1>2, <1>3, <1>4, <1>5 DEF Next

\* Hence the table's invariants hold beside the loops.
LEMMA LoopsKeepTableInv ==
    ASSUME TableInv, LoopsTypeOK, [Next]_vars
    PROVE  TableInv'
<1>1. TypeOK
  BY DEF TableInv, Inv
<1>2. CASE TQNext \/ UNCHANGED qvars
  BY <1>2, StepInv, StepMergeInv DEF TableInv
<1>3. CASE SetsTimer
  <2>1. TypeOK'
    BY <1>1, <1>3 DEF TypeOK, SetsTimer
  <2>2. TasksDistinct'
    BY <1>3, RemovalKeepsDistinct DEF SetsTimer, TableInv, Inv
  <2>3. MergeInv'
    BY <1>3, UnrelatedKeepsMergeInv DEF SetsTimer, TableInv
  <2>. QED BY <2>1, <2>2, <2>3 DEF TableInv, Inv
<1>. QED BY <1>1, <1>2, <1>3, LoopsUseTable

-----------------------------------------------------------------------------
(* Where tasks run *)

LEMMA LoopsInit == Init => PlaceInv
<1>. SUFFICES ASSUME Init PROVE PlaceInv
  OBVIOUS
<1>1. Inv
  BY DEF Init, InitWith, Inv, TypeOK, TasksDistinct, Held, Time, Disarmed
<1>2. MergeInv
  BY kUnmergedAssumption
     DEF Init, InitWith, MergeInv, MergeRecordsAgree, OwnerNeverSubsumed,
         MergedQueuesLive, live
<1>3. LoopsTypeOK
  BY BoundsAssumption DEF Init, LoopsTypeOK, Steps, Time
<1>4. OneTask /\ OnlyWorkSwitches /\ RunsOnServicer
  BY DEF Init, OneTask, OnlyWorkSwitches, RunsOnServicer
<1>. QED BY <1>1, <1>2, <1>3, <1>4 DEF PlaceInv, TableInv

\* A task that a loop takes, and the queue it was found in.
LEMMA TakenTyped ==
    ASSUME TypeOK, NEW l \in Queues, NEW r \in Serviced(l), NEW task \in Visible(r)
    PROVE  r \in Queues /\ task \in Tasks
BY DEF TypeOK, Serviced, Visible

\* The steps of threads that post leave the loops where they are.
LEMMA PostingTyped ==
    ASSUME LoopsTypeOK, Posting
    PROVE  /\ LoopsTypeOK'
           /\ UNCHANGED <<now, pc, flushNow, current, switched, running_, terminated_>>
<1>1. PICK q \in Queues :
          \/ PostTask(q) \/ PostDartTask(q) \/ BeginFireCallback(q)
          \/ PostFrameCallback(q) \/ Join(q)
          \/ \E c \in Closures, t \in Time : EndPost(q, c, t)
  BY DEF Posting
<1>2. UNCHANGED <<now, pc, flushNow, current, switched, running_, terminated_>>
  BY <1>1 DEF PostTask, PostDartTask, BeginFireCallback, PostFrameCallback, Join, EndPost, lvars
<1>3. posting' \in [Queues -> SUBSET Closures]
  <2>1. \/ posting' = posting
        \/ \E c \in Closures : posting' = [posting EXCEPT ![q] = @ \cup {c}]
        \/ \E c : posting' = [posting EXCEPT ![q] = @ \ {c}]
    BY <1>1, ClosuresAssumption
       DEF PostTask, PostDartTask, BeginFireCallback, PostFrameCallback, Join, EndPost,
           BeginPost, lvars
  <2>. QED BY <2>1 DEF LoopsTypeOK
<1>4. pausing' \in [Queues -> BOOLEAN]
  BY <1>1 DEF LoopsTypeOK, PostTask, PostDartTask, BeginFireCallback, PostFrameCallback, Join,
              EndPost, lvars
<1>5. joined' \in [Queues -> BOOLEAN]
  BY <1>1 DEF LoopsTypeOK, PostTask, PostDartTask, BeginFireCallback, PostFrameCallback, Join,
              EndPost, lvars
<1>. QED BY <1>2, <1>3, <1>4, <1>5 DEF LoopsTypeOK

LEMMA LoopStepTyped ==
    ASSUME TypeOK, LoopsTypeOK, NEW l \in Queues, LoopStep(l) \/ DestroyLoop(l)
    PROVE  LoopsTypeOK'
<1>. USE DEF LoopsTypeOK, Steps, Stopped
<1>1. CASE OnEventFired(l)
  BY <1>1 DEF OnEventFired
<1>2. CASE BeginFlush(l)
  BY <1>2 DEF BeginFlush
<1>3. CASE BeginTask(l)
  <2>1. PICK r \in Serviced(l) : \E task \in Visible(r) :
            current' = [current EXCEPT ![l] = {[queue |-> r, task |-> task]}]
    BY <1>3 DEF BeginTask
  <2>2. current' \in [Queues -> SUBSET Runs]
    BY <2>1, TakenTyped DEF Runs
  <2>. QED BY <1>3, <2>2 DEF BeginTask
<1>4. CASE EndFlush(l)
  BY <1>4 DEF EndFlush
<1>5. CASE EndTask(l)
  <2>1. running_' \in [Queues -> BOOLEAN] /\ terminated_' \in [Queues -> BOOLEAN]
    BY <1>5 DEF EndTask
  <2>. QED BY <1>5, <2>1 DEF EndTask
<1>6. CASE DropTasks(l)
  BY <1>6 DEF DropTasks
<1>7. CASE DestroyLoop(l)
  BY <1>7 DEF DestroyLoop
<1>. QED BY <1>1, <1>2, <1>3, <1>4, <1>5, <1>6, <1>7 DEF LoopStep

LEMMA LoopsTyped ==
    ASSUME TypeOK, LoopsTypeOK, [Next]_vars
    PROVE  LoopsTypeOK'
<1>1. CASE Tick
  BY <1>1, BoundsAssumption DEF Tick, LoopsTypeOK, Time
<1>2. CASE Switching
  <2>1. /\ UNCHANGED <<now, pc, flushNow, current, running_, terminated_, posting,
                       pausing, joined>>
        /\ switched' \in [Queues -> SUBSET Queues]
    BY <1>2 DEF Switching, MergeOwnQueue, UnmergeFromOwn, LoopsTypeOK, Runs
  <2>. QED BY <2>1 DEF LoopsTypeOK
<1>3. CASE TaskObserving
  <2>1. UNCHANGED lvars
    BY <1>3 DEF TaskObserving, ObserveOwnLoop, StopObserving
  <2>. QED BY <2>1 DEF LoopsTypeOK, lvars
<1>4. CASE UNCHANGED vars
  BY <1>4 DEF LoopsTypeOK, vars, lvars
<1>. QED BY <1>1, <1>2, <1>3, <1>4, PostingTyped, LoopStepTyped DEF Next

\* A queue's servicer is the one loop that looks at it.
LEMMA ServicedIffServicer ==
    ASSUME TypeOK, MergeInv, NEW l \in Queues, NEW r \in Queues
    PROVE  r \in Serviced(l) <=> Servicer(r) = l
BY kUnmergedAssumption
   DEF TypeOK, MergeInv, MergeRecordsAgree, OwnerNeverSubsumed, Serviced, Servicer

\* Tasks stay where they run while queues, loops and tasks stay as they are.
LEMMA RestingKeepsPlace ==
    ASSUME OneTask, OnlyWorkSwitches, RunsOnServicer,
           UNCHANGED <<current, switched, subsumed_by>>,
           \A l \in Queues : pc[l] \in InTask <=> pc'[l] \in InTask
    PROVE  OneTask' /\ OnlyWorkSwitches' /\ RunsOnServicer'
BY DEF OneTask, OnlyWorkSwitches, RunsOnServicer, Servicer

\* A task that merges its queue is the only one of it: the queue was its own loop's.
LEMMA MergeKeepsPlace ==
    ASSUME PlaceInv, NEW l \in Queues, NEW owner \in Queues, MergeOwnQueue(l, owner)
    PROVE  OneTask' /\ OnlyWorkSwitches' /\ RunsOnServicer'
<1>. USE DEF PlaceInv, LoopsTypeOK, OneTask, OnlyWorkSwitches, RunsOnServicer
<1>1. PICK c \in current[l] :
          /\ c.task.closure = "work" /\ c.queue \notin switched[l]
          /\ subsumed_by[c.queue] = kUnmerged
          /\ subsumed_by' = [subsumed_by EXCEPT ![c.queue] = owner]
          /\ switched' = [switched EXCEPT ![l] = @ \cup {c.queue}]
          /\ UNCHANGED <<pc, current>>
  BY DEF MergeOwnQueue, Merge, MergeSucceeds
<1>2. c.queue \in Queues /\ c.queue = l
  BY <1>1 DEF Runs, Servicer
<1>3. OneTask' /\ OnlyWorkSwitches'
  BY <1>1
<1>4. ASSUME NEW m \in Queues, NEW d \in current[m]
      PROVE  d.queue \in switched'[m] \/ Servicer(d.queue)' = m
  <2>1. CASE m = l
    BY <1>1, <1>2, <2>1
  <2>2. CASE m # l
    <3>1. d.queue \in Queues
      BY DEF Runs
    <3>2. d.queue # l \/ d.queue \in switched[m]
      BY <1>1, <1>2, <2>2 DEF Servicer
    <3>. QED BY <1>1, <1>2, <2>2, <3>1, <3>2 DEF Servicer, TableInv, Inv, TypeOK
  <2>. QED BY <2>1, <2>2
<1>. QED BY <1>1, <1>3, <1>4

\* So is one that undoes a merge, if it is of the queue that goes back.
LEMMA UnmergeKeepsPlace ==
    ASSUME PlaceInv, NEW l \in Queues, NEW subsumed \in Queues, UnmergeFromOwn(l, subsumed)
    PROVE  OneTask' /\ OnlyWorkSwitches' /\ RunsOnServicer'
<1>. USE DEF PlaceInv, LoopsTypeOK, OneTask, OnlyWorkSwitches, RunsOnServicer
<1>1. /\ \E c \in current[l] : c.task.closure = "work"
      /\ subsumed \in owner_of[l]
      /\ subsumed_by' = [subsumed_by EXCEPT ![subsumed] = kUnmerged]
      /\ switched' = [switched EXCEPT ![l] = @ \cup {subsumed}]
      /\ UNCHANGED <<pc, current>>
  BY DEF UnmergeFromOwn, Unmerge, UnmergeSucceeds
<1>2. subsumed_by[subsumed] = l
  BY <1>1 DEF TableInv, MergeInv, MergeRecordsAgree
<1>3. OneTask' /\ OnlyWorkSwitches'
  BY <1>1
<1>4. ASSUME NEW m \in Queues, NEW d \in current[m]
      PROVE  d.queue \in switched'[m] \/ Servicer(d.queue)' = m
  <2>1. d.queue \in Queues
    BY DEF Runs
  <2>2. CASE d.queue = subsumed
    BY <1>1, <1>2, <2>2, kUnmergedAssumption DEF Servicer
  <2>3. CASE d.queue # subsumed
    BY <1>1, <2>1, <2>3 DEF Servicer, TableInv, Inv, TypeOK
  <2>. QED BY <2>2, <2>3
<1>. QED BY <1>1, <1>3, <1>4

\* A loop takes tasks of the queues it services.
LEMMA TaskKeepsPlace ==
    ASSUME PlaceInv, NEW l \in Queues, BeginTask(l) \/ EndTask(l)
    PROVE  OneTask' /\ OnlyWorkSwitches' /\ RunsOnServicer'
<1>. USE DEF PlaceInv, LoopsTypeOK, OneTask, OnlyWorkSwitches, RunsOnServicer, InTask
<1>1. CASE BeginTask(l)
  <2>1. PICK r \in Serviced(l) : \E task \in Visible(r) :
            /\ current' = [current EXCEPT ![l] = {[queue |-> r, task |-> task]}]
            /\ UNCHANGED <<switched, subsumed_by>>
            /\ pc[l] \in {"next", "last"}
            /\ pc' = [pc EXCEPT ![l] = IF @ = "next" THEN "run" ELSE "lastRun"]
    BY <1>1 DEF BeginTask, TakeTask
  <2>2. r \in Queues /\ Servicer(r) = l
    BY <2>1, TakenTyped, ServicedIffServicer DEF TableInv, Inv
  <2>3. switched[l] = {}
    BY <2>1
  <2>4. OneTask'
    BY <2>1
  <2>5. OnlyWorkSwitches'
    BY <2>1, <2>3
  <2>6. RunsOnServicer'
    BY <2>1, <2>2 DEF Servicer
  <2>. QED BY <2>4, <2>5, <2>6
<1>2. CASE EndTask(l)
  <2>1. /\ UNCHANGED subsumed_by
        /\ pc' = [pc EXCEPT ![l] = IF @ = "run" THEN "next" ELSE "last"]
        /\ pc[l] \in InTask
        /\ current' = [current EXCEPT ![l] = {}]
        /\ switched' = [switched EXCEPT ![l] = {}]
    BY <1>2 DEF EndTask, ResumeSecondarySource, qvars
  <2>2. OneTask' /\ OnlyWorkSwitches'
    BY <2>1
  <2>3. RunsOnServicer'
    BY <2>1 DEF Servicer
  <2>. QED BY <2>2, <2>3
<1>. QED BY <1>1, <1>2

\* A loop that is destroyed was in no task, and nor was another in one of its queues.
LEMMA DestroyKeepsPlace ==
    ASSUME PlaceInv, NEW l \in Queues, DestroyLoop(l)
    PROVE  OneTask' /\ OnlyWorkSwitches' /\ RunsOnServicer'
<1>. USE DEF PlaceInv, LoopsTypeOK, OneTask, OnlyWorkSwitches, RunsOnServicer, InTask
<1>1. /\ pc[l] = "exited" /\ pc' = [pc EXCEPT ![l] = "gone"]
      /\ subsumed_by[l] = kUnmerged
      /\ subsumed_by' = [r \in Queues |-> IF r \in {l} \cup owner_of[l] THEN kUnmerged
                                          ELSE subsumed_by[r]]
      /\ UNCHANGED <<current, switched>>
  BY DEF DestroyLoop, Dispose
<1>2. OneTask' /\ OnlyWorkSwitches'
  BY <1>1
<1>3. \A r \in {l} \cup owner_of[l] : Servicer(r) = l
  BY <1>1, kUnmergedAssumption
     DEF Servicer, TableInv, Inv, TypeOK, MergeInv, MergeRecordsAgree
<1>4. ASSUME NEW m \in Queues, NEW d \in current[m]
      PROVE  d.queue \in switched[m] \/ Servicer(d.queue)' = m
  <2>1. d.queue \in Queues
    BY DEF Runs
  <2>2. m # l
    BY <1>1
  <2>. QED BY <1>1, <1>3, <2>1, <2>2 DEF Servicer
<1>. QED BY <1>1, <1>2, <1>4

LEMMA PlaceStep == PlaceInv /\ [Next]_vars => PlaceInv'
<1>. SUFFICES ASSUME PlaceInv, [Next]_vars PROVE PlaceInv'
  OBVIOUS
<1>1. TypeOK /\ LoopsTypeOK /\ TableInv /\ OneTask /\ OnlyWorkSwitches /\ RunsOnServicer
  BY DEF PlaceInv, TableInv, Inv
<1>2. TableInv' /\ LoopsTypeOK'
  BY <1>1, LoopsKeepTableInv, LoopsTyped
<1>3. OneTask' /\ OnlyWorkSwitches' /\ RunsOnServicer'
  <2>1. CASE Tick \/ UNCHANGED vars
    BY <1>1, <2>1, RestingKeepsPlace DEF Tick, vars, qvars, lvars
  <2>2. CASE Posting
    <3>1. UNCHANGED <<pc, current, switched>>
      BY <1>1, <2>2, PostingTyped
    <3>2. UNCHANGED subsumed_by
      BY <2>2 DEF Posting, PostTask, PostDartTask, BeginFireCallback, PostFrameCallback, Join,
                  EndPost, RegisterTask, PauseSecondarySource, qvars
    <3>. QED BY <1>1, <3>1, <3>2, RestingKeepsPlace
  <2>3. CASE TaskObserving
    BY <1>1, <2>3, RestingKeepsPlace
       DEF TaskObserving, ObserveOwnLoop, StopObserving, AddTaskObserver, RemoveTaskObserver, lvars
  <2>4. CASE Switching
    BY <2>4, MergeKeepsPlace, UnmergeKeepsPlace DEF Switching
  <2>5. ASSUME NEW l \in Queues, LoopStep(l) \/ DestroyLoop(l)
        PROVE  OneTask' /\ OnlyWorkSwitches' /\ RunsOnServicer'
    <3>1. CASE OnEventFired(l) \/ BeginFlush(l) \/ EndFlush(l) \/ DropTasks(l)
      <4>1. /\ UNCHANGED <<current, switched, subsumed_by>>
            /\ pc[l] \notin InTask
        BY <3>1 DEF OnEventFired, BeginFlush, EndFlush, DropTasks, DrainTimer, NothingToRun,
                    NotDueYet, DisposeTasks, qvars, InTask
      <4>2. \E s \in Steps \ InTask : pc' = [pc EXCEPT ![l] = s]
        BY <3>1 DEF OnEventFired, BeginFlush, EndFlush, DropTasks, InTask, Steps, Stopped
      <4>. QED BY <1>1, <4>1, <4>2, RestingKeepsPlace DEF LoopsTypeOK
    <3>. QED BY <2>5, <3>1, TaskKeepsPlace, DestroyKeepsPlace DEF LoopStep
  <2>. QED BY <2>1, <2>2, <2>3, <2>4, <2>5 DEF Next
<1>. QED BY <1>2, <1>3 DEF PlaceInv

LEMMA PlaceAlways == Spec => []PlaceInv
BY LoopsInit, PlaceStep, PTL DEF Spec

\* The loops keep the types of the table they share, whatever they do to it, so the
\* table's own guarantees hold beside them.
THEOREM TableTypedAlways == Spec => []TypeOK
<1>1. PlaceInv => TypeOK
  BY DEF PlaceInv, TableInv, Inv
<1>. QED BY <1>1, PlaceAlways, PTL

\* Tasks of a queue run on the loop that services it, except those that have moved the
\* queue themselves, for any number of loops (message_loop_impl.cc:127-152,
\* message_loop_task_queues.cc:124-139).
THEOREM TasksRunOnServicer == Spec => []RunsOnServicer
<1>1. PlaceInv => RunsOnServicer
  BY DEF PlaceInv
<1>. QED BY <1>1, PlaceAlways, PTL

-----------------------------------------------------------------------------
(* Dart tasks and pauses *)

\* Only BeginTask puts a task on a loop.
LEMMA OnlyBeginTaskStarts ==
    ASSUME PlaceInv, [Next]_vars, ~ \E l \in Queues : BeginTask(l)
    PROVE  \A l \in Queues : current'[l] \subseteq current[l]
<1>1. CASE Tick \/ Posting \/ Switching \/ TaskObserving \/ UNCHANGED vars
  <2>1. CASE Posting
    BY <2>1, PostingTyped DEF PlaceInv
  <2>. QED BY <1>1, <2>1
           DEF Tick, Switching, MergeOwnQueue, UnmergeFromOwn, TaskObserving, ObserveOwnLoop,
               StopObserving, vars, lvars
<1>2. ASSUME NEW l \in Queues, LoopStep(l) \/ DestroyLoop(l)
      PROVE  \A m \in Queues : current'[m] \subseteq current[m]
  <2>1. CASE EndTask(l)
    BY <2>1 DEF EndTask, PlaceInv, LoopsTypeOK
  <2>2. CASE OnEventFired(l) \/ BeginFlush(l) \/ EndFlush(l) \/ DropTasks(l) \/ DestroyLoop(l)
    BY <2>2 DEF OnEventFired, BeginFlush, EndFlush, DropTasks, DestroyLoop
  <2>. QED BY <1>2, <2>1, <2>2 DEF LoopStep
<1>. QED BY <1>1, <1>2 DEF Next

\* While a queue's secondary source is paused, no loop starts a Dart event of it: the
\* frame callback is not overtaken, whichever loop services the queue
\* (vsync_waiter.cc:154-160, message_loop_task_queues.cc:306-327).
THEOREM PausedNeverStartsDartTask == Spec => PausedStartsNoDartTask
<1>1. ASSUME PlaceInv, [Next]_vars, NEW l \in Queues, NEW c \in current'[l] \ current[l],
             c.task.grade = "kDartEventLoop"
      PROVE  pauses[c.queue] = 0
  <2>1. PICK m \in Queues : BeginTask(m)
    BY <1>1, OnlyBeginTaskStarts
  <2>2. PICK r \in Serviced(m) : \E task \in Visible(r) :
            current' = [current EXCEPT ![m] = {[queue |-> r, task |-> task]}]
    BY <2>1 DEF BeginTask
  <2>3. c.queue = r /\ c.task \in Visible(r)
    BY <1>1, <2>2 DEF PlaceInv, LoopsTypeOK
  <2>4. r \in Queues
    BY <1>1 DEF Serviced, PlaceInv, TableInv, Inv, TypeOK
  <2>5. c.task \notin primary[r]
    BY <1>1, <2>4 DEF PlaceInv, TableInv, Inv, TasksDistinct
  <2>. QED BY <2>3, <2>5 DEF Visible
<1>2. PlaceInv /\ [Next]_vars =>
        [\A l \in Queues : \A c \in current'[l] \ current[l] :
            c.task.grade = "kDartEventLoop" => pauses[c.queue] = 0]_vars
  BY <1>1
<1>. QED BY <1>2, PlaceAlways, PTL DEF Spec, PausedStartsNoDartTask

-----------------------------------------------------------------------------
(* Wakeups *)

\* The task GetNextTaskToRun looks at is no later than any other.
NextIsLeast ==
    \A l \in Queues : \A r \in Serviced(l) : \A t \in Visible(r) :
        HasPendingTasks(l) /\ NextWakeTime(l) <= t.time

LEMMA PeekFindsLeast == TableOK /\ TasksDistinct => NextIsLeast
<1>. SUFFICES ASSUME TableOK, TasksDistinct, NEW l \in Queues, NEW r \in Serviced(l),
                     NEW t \in Visible(r)
              PROVE  HasPendingTasks(l) /\ NextWakeTime(l) <= t.time
  BY DEF NextIsLeast
<1>1. HasPendingTasks(l)
  BY DEF HasPendingTasks
<1>2. t = PeekNextTask(l) \/ Before(PeekNextTask(l), t)
  BY <1>1, PeekFindsEarliest
<1>3. PeekNextTask(l) \in Tasks /\ t \in Tasks
  BY <1>1, PeekFindsEarliest DEF TableOK, Serviced, Visible
<1>4. \A u \in Tasks : u.time \in Nat
  BY BoundsAssumption DEF Tasks, Time
<1>. QED BY <1>1, <1>2, <1>3, <1>4 DEF NextWakeTime, Before

\* A loop that was woken is on time ...
LEMMA WokenIsOnTime ==
    ASSUME TableInv', NEW Q, WakeIfPending(Q), NEW l \in Queues, l \in Q
    PROVE  OnTime(l)'
<1>1. (TableOK /\ TasksDistinct => NextIsLeast)'
  BY PeekFindsLeast, PTL
<1>2. TableOK' /\ TasksDistinct'
  BY DEF TableInv, Inv, TypeOK, TableOK
<1>3. HasPendingTasks(l)' => wake'[l] = NextWakeTime(l)'
  BY DEF WakeIfPending
<1>. QED BY <1>1, <1>2, <1>3 DEF OnTime, NextIsLeast

\* ... and one that services no more than before stays so.
LEMMA RestingIsOnTime ==
    ASSUME PlaceInv, NEW l \in Queues, OnTime(l), wake'[l] = wake[l],
           now' = now \/ now' = now + 1,
           Serviced(l)' \subseteq Serviced(l),
           \A r \in Serviced(l)' : Visible(r)' \subseteq Visible(r)
    PROVE  OnTime(l)'
<1>1. wake[l] \in Nat /\ now \in Nat
  BY BoundsAssumption DEF PlaceInv, TableInv, Inv, TypeOK, LoopsTypeOK, Time, Disarmed
<1>. QED BY <1>1 DEF OnTime

LEMMA RegisterIsOnTime ==
    ASSUME PlaceInv, TableInv', NEW q \in Queues, NEW c, NEW t, NEW g, RegisterTask(q, c, t, g),
           now' = now, NEW l \in Queues, OnTime(l)
    PROVE  OnTime(l)'
<1>1. /\ WakeIfPending({Servicer(q)})
      /\ \A r \in Queues : r # q => primary'[r] = primary[r] /\ secondary'[r] = secondary[r]
      /\ UNCHANGED <<pauses, owner_of, subsumed_by>>
  BY DEF RegisterTask, Servicer, PlaceInv, TableInv, Inv, TypeOK
<1>2. CASE l = Servicer(q)
  BY <1>1, <1>2, WokenIsOnTime
<1>3. CASE l # Servicer(q)
  <2>1. q \notin Serviced(l)
    BY <1>3, ServicedIffServicer DEF PlaceInv, TableInv, Inv
  <2>2. Serviced(l)' = Serviced(l) /\ Serviced(l) \subseteq Queues
    BY <1>1 DEF Serviced, PlaceInv, TableInv, Inv, TypeOK
  <2>3. wake'[l] = wake[l]
    BY <1>1, <1>3 DEF WakeIfPending
  <2>4. \A r \in Serviced(l)' : Visible(r)' = Visible(r)
    BY <1>1, <2>1, <2>2 DEF Visible
  <2>. QED BY <2>2, <2>3, <2>4, RestingIsOnTime
<1>. QED BY <1>2, <1>3

\* Posts and pauses, from any thread.
LEMMA PostingKeepsNoOversleep ==
    ASSUME PlaceInv, TableInv', NoOversleep, Posting
    PROVE  NoOversleep'
<1>1. UNCHANGED <<now, pc>>
  BY PostingTyped DEF PlaceInv
<1>2. UNCHANGED entry
  BY DEF Posting, PostTask, PostDartTask, BeginFireCallback, PostFrameCallback, Join, EndPost,
         RegisterTask, PauseSecondarySource, qvars
<1>. SUFFICES ASSUME NEW l \in Queues, OnTime(l) PROVE OnTime(l)'
  BY <1>1, <1>2 DEF NoOversleep
<1>3. PICK q \in Queues :
          \/ PostTask(q) \/ PostDartTask(q) \/ BeginFireCallback(q)
          \/ PostFrameCallback(q) \/ Join(q)
          \/ \E c \in Closures, t \in Time : EndPost(q, c, t)
  BY DEF Posting
<1>4. CASE UNCHANGED qvars
  BY <1>1, <1>4, RestingIsOnTime DEF qvars, Serviced, Visible
<1>5. CASE \E c, t, g : RegisterTask(q, c, t, g)
  BY <1>1, <1>5, RegisterIsOnTime
<1>6. CASE PauseSecondarySource(q)
  <2>1. Serviced(l)' = Serviced(l) /\ wake'[l] = wake[l]
    BY <1>6 DEF PauseSecondarySource, Serviced
  <2>2. \A r : Visible(r)' \subseteq Visible(r) \/ r \notin Queues
    BY <1>6 DEF PauseSecondarySource, Visible, PlaceInv, TableInv, Inv, TypeOK
  <2>3. Serviced(l) \subseteq Queues
    BY DEF Serviced, PlaceInv, TableInv, Inv, TypeOK
  <2>. QED BY <1>1, <2>1, <2>2, <2>3, RestingIsOnTime
<1>. QED BY <1>3, <1>4, <1>5, <1>6
         DEF PostTask, PostDartTask, BeginFireCallback, PostFrameCallback, Join, EndPost

\* A merge wakes the loop that has gained the queue, the undoing of one both loops.
LEMMA SwitchingKeepsNoOversleep ==
    ASSUME PlaceInv, TableInv', NoOversleep, Switching
    PROVE  NoOversleep'
<1>1. UNCHANGED <<now, pc, entry, primary, secondary, pauses>>
  BY DEF Switching, MergeOwnQueue, UnmergeFromOwn, Merge, Unmerge
<1>. SUFFICES ASSUME NEW l \in Queues, OnTime(l) PROVE OnTime(l)'
  BY <1>1 DEF NoOversleep
<1>2. \A r : Visible(r)' = Visible(r)
  BY <1>1 DEF Visible
<1>3. PICK o \in Queues, s \in Queues : Merge(o, s) \/ Unmerge(o, s)
  BY DEF Switching, MergeOwnQueue, UnmergeFromOwn, PlaceInv, LoopsTypeOK, Runs
<1>4. CASE Merge(o, s)
  <2>1. /\ WakeIfPending({o}) /\ o # s
        /\ owner_of' = [owner_of EXCEPT ![o] = @ \cup {s}]
        /\ subsumed_by' = [subsumed_by EXCEPT ![s] = o]
    BY <1>4 DEF Merge
  <2>2. l # o => wake'[l] = wake[l]
    BY <2>1 DEF WakeIfPending
  <2>3. l # o => Serviced(l)' \subseteq Serviced(l)
    BY <2>1, kUnmergedAssumption DEF Serviced, PlaceInv, TableInv, Inv, TypeOK
  <2>. QED BY <1>1, <1>2, <2>1, <2>2, <2>3, WokenIsOnTime, RestingIsOnTime
<1>5. CASE Unmerge(o, s)
  <2>1. /\ WakeIfPending({o, s})
        /\ owner_of' = [owner_of EXCEPT ![o] = @ \ {s}]
        /\ subsumed_by' = [subsumed_by EXCEPT ![s] = kUnmerged]
    BY <1>5 DEF Unmerge
  <2>2. l \notin {o, s} => wake'[l] = wake[l]
    BY <2>1 DEF WakeIfPending
  <2>3. l \notin {o, s} => Serviced(l)' = Serviced(l)
    BY <2>1 DEF Serviced, PlaceInv, TableInv, Inv, TypeOK
  <2>. QED BY <1>1, <1>2, <2>1, <2>2, <2>3, WokenIsOnTime, RestingIsOnTime
<1>. QED BY <1>3, <1>4, <1>5

\* The steps of loop l0 concern the timers of no other loop.
LEMMA OthersStayOnTime ==
    ASSUME PlaceInv, NEW l \in Queues, OnTime(l), wake'[l] = wake[l], now' = now,
           UNCHANGED <<owner_of, subsumed_by, pauses>>,
           \A r \in Queues : primary'[r] \subseteq primary[r] /\ secondary'[r] \subseteq secondary[r]
    PROVE  OnTime(l)'
<1>1. Serviced(l)' = Serviced(l) /\ Serviced(l) \subseteq Queues
  BY DEF Serviced, PlaceInv, TableInv, Inv, TypeOK
<1>2. \A r \in Serviced(l) : Visible(r)' \subseteq Visible(r)
  BY <1>1 DEF Visible
<1>. QED BY <1>1, <1>2, RestingIsOnTime

\* A loop waits again only when nothing is left, or with its timer set.
LEMMA FlushKeepsNoOversleep ==
    ASSUME PlaceInv, NoOversleep, NEW k \in Queues,
           OnEventFired(k) \/ BeginFlush(k) \/ BeginTask(k) \/ EndFlush(k) \/ DropTasks(k)
    PROVE  NoOversleep'
<1>1. /\ UNCHANGED <<now, entry, owner_of, subsumed_by, pauses>>
      /\ \A r \in Queues : primary'[r] \subseteq primary[r] /\ secondary'[r] \subseteq secondary[r]
      /\ \A l \in Queues \ {k} : wake'[l] = wake[l] /\ pc'[l] = pc[l]
  <2>1. CASE OnEventFired(k) \/ BeginFlush(k)
    BY <2>1 DEF OnEventFired, BeginFlush, DrainTimer, PlaceInv, TableInv, Inv, TypeOK,
                LoopsTypeOK, qvars
  <2>2. CASE BeginTask(k)
    <3>1. PICK r \in Serviced(k) : \E task \in Visible(r) : TakeTask(k, flushNow[k], r, task)
      BY <2>2 DEF BeginTask
    <3>2. /\ UNCHANGED <<entry, owner_of, subsumed_by, pauses>>
          /\ \A l \in Queues \ {k} : wake'[l] = wake[l]
          /\ \A s \in Queues : primary'[s] \subseteq primary[s] /\ secondary'[s] \subseteq secondary[s]
      BY <3>1 DEF TakeTask, PlaceInv, TableInv, Inv, TypeOK
    <3>. QED BY <2>2, <3>2 DEF BeginTask, PlaceInv, LoopsTypeOK
  <2>3. CASE EndFlush(k)
    BY <2>3 DEF EndFlush, NothingToRun, NotDueYet, PlaceInv, TableInv, Inv, TypeOK,
                LoopsTypeOK, qvars
  <2>4. CASE DropTasks(k)
    BY <2>4 DEF DropTasks, DisposeTasks, PlaceInv, TableInv, Inv, TypeOK, LoopsTypeOK
  <2>. QED BY <2>1, <2>2, <2>3, <2>4
<1>2. ASSUME NEW l \in Queues \ {k}, pc'[l] = "wait", entry'[l] = "live" PROVE OnTime(l)'
  <2>1. OnTime(l)
    BY <1>1, <1>2 DEF NoOversleep
  <2>. QED BY <1>1, <2>1, OthersStayOnTime
<1>3. ASSUME pc'[k] = "wait" PROVE OnTime(k)'
  <2>1. EndFlush(k)
    BY <1>3 DEF OnEventFired, BeginFlush, BeginTask, EndFlush, DropTasks, PlaceInv, LoopsTypeOK
  <2>2. /\ \A r \in Serviced(k)' : r \in Serviced(k) /\ Visible(r)' \subseteq Visible(r)
        /\ Serviced(k)' = Serviced(k)
    BY <1>1 DEF Serviced, Visible, PlaceInv, TableInv, Inv, TypeOK
  <2>3. CASE NothingToRun(k)
    BY <2>2, <2>3 DEF NothingToRun, HasPendingTasks, OnTime
  <2>4. CASE NotDueYet(k, flushNow[k])
    <3>1. wake'[k] = NextWakeTime(k)
      BY <2>4 DEF NotDueYet, PlaceInv, TableInv, Inv, TypeOK
    <3>2. NextIsLeast
      BY PeekFindsLeast DEF PlaceInv, TableInv, Inv, TypeOK, TableOK
    <3>. QED BY <2>2, <3>1, <3>2 DEF OnTime, NextIsLeast
  <2>. QED BY <2>1, <2>3, <2>4 DEF EndFlush
<1>. QED BY <1>2, <1>3 DEF NoOversleep

\* A resume may give a loop more to do: the loop that runs it, which does not wait.
LEMMA EndTaskKeepsNoOversleep ==
    ASSUME PlaceInv, NoOversleep, NEW k \in Queues, EndTask(k)
    PROVE  NoOversleep'
<1>1. /\ pc' = [pc EXCEPT ![k] = IF @ = "run" THEN "next" ELSE "last"]
      /\ UNCHANGED <<now, entry, primary, secondary, owner_of, subsumed_by>>
  BY DEF EndTask, ResumeSecondarySource, qvars
<1>. SUFFICES ASSUME NEW l \in Queues, l # k, OnTime(l) PROVE OnTime(l)'
  BY <1>1 DEF NoOversleep, PlaceInv, LoopsTypeOK
<1>2. PICK c \in current[k] :
          \/ UNCHANGED qvars
          \/ c.task.closure = "resume" /\ ResumeSecondarySource(c.queue)
          \/ wake' = [wake EXCEPT ![k] = now] /\ UNCHANGED pauses
  BY DEF EndTask
<1>3. CASE UNCHANGED qvars \/ (wake' = [wake EXCEPT ![k] = now] /\ UNCHANGED pauses)
  <2>1. wake'[l] = wake[l] /\ UNCHANGED pauses
    BY <1>3 DEF qvars, PlaceInv, TableInv, Inv, TypeOK
  <2>. QED BY <1>1, <2>1, OthersStayOnTime
<1>4. CASE c.task.closure = "resume" /\ ResumeSecondarySource(c.queue)
  <2>1. c.queue \in Queues
    BY DEF PlaceInv, LoopsTypeOK, Runs
  <2>2. Servicer(c.queue) = k
    BY <1>4 DEF PlaceInv, OnlyWorkSwitches, RunsOnServicer
  <2>3. c.queue \notin Serviced(l)
    BY <2>1, <2>2, ServicedIffServicer DEF PlaceInv, TableInv, Inv
  <2>4. Serviced(l)' = Serviced(l) /\ Serviced(l) \subseteq Queues
    BY <1>1 DEF Serviced, PlaceInv, TableInv, Inv, TypeOK
  <2>5. \A r \in Queues : r # c.queue => pauses'[r] = pauses[r]
    BY <1>4 DEF ResumeSecondarySource, PlaceInv, TableInv, Inv, TypeOK
  <2>6. \A r \in Serviced(l)' : Visible(r)' = Visible(r)
    BY <1>1, <2>3, <2>4, <2>5 DEF Visible
  <2>7. CASE l # c.queue
    <3>1. wake'[l] = wake[l]
      BY <1>4, <2>7 DEF ResumeSecondarySource, WakeIfPending
    <3>. QED BY <1>1, <2>4, <2>6, <3>1, RestingIsOnTime
  <2>8. CASE l = c.queue
    \* The queue is subsumed, and its own loop services nothing.
    BY <2>2, <2>4, <2>8 DEF Servicer, Serviced, OnTime
  <2>. QED BY <2>7, <2>8
<1>. QED BY <1>2, <1>3, <1>4

\* The queues of a loop that is destroyed have no tasks any more.
LEMMA DestroyKeepsNoOversleep ==
    ASSUME PlaceInv, NoOversleep, NEW k \in Queues, DestroyLoop(k)
    PROVE  NoOversleep'
<1>. DEFINE erased == {k} \cup owner_of[k]
<1>1. /\ entry' = [r \in Queues |-> IF r \in erased THEN "erased" ELSE entry[r]]
      /\ primary' = [r \in Queues |-> IF r \in erased THEN {} ELSE primary[r]]
      /\ secondary' = [r \in Queues |-> IF r \in erased THEN {} ELSE secondary[r]]
      /\ pauses' = [r \in Queues |-> IF r \in erased THEN 0 ELSE pauses[r]]
      /\ owner_of' = [r \in Queues |-> IF r \in erased THEN {} ELSE owner_of[r]]
      /\ subsumed_by' = [r \in Queues |-> IF r \in erased THEN kUnmerged ELSE subsumed_by[r]]
      /\ wake' = [r \in Queues |-> IF r \in erased THEN Disarmed ELSE wake[r]]
      /\ pc' = [pc EXCEPT ![k] = "gone"]
      /\ UNCHANGED now
  BY DEF DestroyLoop, Dispose
<1>. HIDE DEF erased
<1>. SUFFICES ASSUME NEW l \in Queues, pc'[l] = "wait", entry'[l] = "live" PROVE OnTime(l)'
  BY DEF NoOversleep
<1>2. l \notin erased
  BY <1>1
<1>3. l # k /\ entry[l] = "live" /\ pc[l] = "wait"
  BY <1>1, <1>2 DEF PlaceInv, LoopsTypeOK, erased
<1>4. OnTime(l)
  BY <1>3 DEF NoOversleep
<1>5. Serviced(l)' = Serviced(l) /\ Serviced(l) \subseteq Queues /\ wake'[l] = wake[l]
  BY <1>1, <1>2 DEF Serviced, PlaceInv, TableInv, Inv, TypeOK
<1>6. \A r \in Queues : Visible(r)' \subseteq Visible(r)
  BY <1>1 DEF Visible
<1>. QED BY <1>1, <1>4, <1>5, <1>6, RestingIsOnTime

LEMMA WakeupStep == PlaceInv /\ NoOversleep /\ [Next]_vars => NoOversleep'
<1>. SUFFICES ASSUME PlaceInv, NoOversleep, [Next]_vars PROVE NoOversleep'
  OBVIOUS
<1>1. PlaceInv' /\ TableInv'
  BY PlaceStep DEF PlaceInv
<1>2. CASE Tick \/ TaskObserving \/ UNCHANGED vars
  <2>1. /\ UNCHANGED <<pc, entry, primary, secondary, pauses, owner_of, subsumed_by, wake>>
        /\ now' = now \/ now' = now + 1
    BY <1>2 DEF Tick, TaskObserving, ObserveOwnLoop, StopObserving, AddTaskObserver,
                RemoveTaskObserver, vars, qvars, lvars
  <2>2. \A l : Serviced(l)' = Serviced(l) /\ Visible(l)' = Visible(l)
    BY <2>1 DEF Serviced, Visible
  <2>. QED BY <2>1, <2>2, RestingIsOnTime DEF NoOversleep
<1>3. CASE Posting
  BY <1>1, <1>3, PostingKeepsNoOversleep
<1>4. CASE Switching
  BY <1>1, <1>4, SwitchingKeepsNoOversleep
<1>5. ASSUME NEW l \in Queues, LoopStep(l) \/ DestroyLoop(l) PROVE NoOversleep'
  BY <1>5, FlushKeepsNoOversleep, EndTaskKeepsNoOversleep, DestroyKeepsNoOversleep DEF LoopStep
<1>. QED BY <1>2, <1>3, <1>4, <1>5 DEF Next

\* A loop that waits never sleeps past the next task it services, whichever thread
\* posts, merges, un-merges, pauses or resumes, for any number of loops: each of these
\* wakes the one loop that has gained something to do
\* (message_loop_task_queues.cc:72-85, 160-177, 238-300, 306-327).
THEOREM NoWakeupLost == Spec => []NoLostWakeup
<1>1. Init => NoOversleep
  BY DEF Init, InitWith, NoOversleep, OnTime, Serviced, Visible
<1>2. PlaceInv /\ NoOversleep => NoLostWakeup
  <2>. SUFFICES ASSUME PlaceInv, NoOversleep, NEW l \in Queues, pc[l] = "wait",
                       entry[l] = "live", HasPendingTasks(l)
                PROVE  wake[l] <= now \/ wake[l] <= NextWakeTime(l)
    BY DEF NoLostWakeup
  <2>1. PICK r \in Serviced(l) : PeekNextTask(l) \in Visible(r)
    BY PeekFindsEarliest DEF PlaceInv, TableInv, Inv, TypeOK, TableOK
  <2>. QED BY <2>1 DEF NoOversleep, OnTime, NextWakeTime
<1>. QED BY <1>1, <1>2, PlaceAlways, WakeupStep, PTL DEF Spec

-----------------------------------------------------------------------------
(* Joining and stopping *)

JoinInv == PlaceInv /\ QuitsAreJoined /\ JoinedIsAlone

LEMMA PostingKeepsJoinInv ==
    ASSUME JoinInv, Posting
    PROVE  QuitsAreJoined' /\ JoinedIsAlone'
<1>. USE DEF JoinInv, PlaceInv, QuitsAreJoined, JoinedIsAlone
<1>1. UNCHANGED <<pc, current, running_, terminated_>>
  BY PostingTyped
<1>2. UNCHANGED <<owner_of, subsumed_by>>
  BY DEF Posting, PostTask, PostDartTask, BeginFireCallback, PostFrameCallback, Join, EndPost,
         RegisterTask, PauseSecondarySource, qvars
<1>3. PICK q \in Queues :
          \/ PostTask(q) \/ PostDartTask(q) \/ BeginFireCallback(q)
          \/ PostFrameCallback(q) \/ Join(q)
          \/ \E c \in Closures, t \in Time : EndPost(q, c, t)
  BY DEF Posting
<1>4. CASE PostTask(q) \/ PostFrameCallback(q)
  <2>1. /\ UNCHANGED <<primary, secondary, joined>>
        /\ \A p \in Queues : "quit" \in posting'[p] => "quit" \in posting[p]
    BY <1>4 DEF PostTask, PostFrameCallback, BeginPost, LoopsTypeOK, qvars
  <2>. QED BY <1>1, <1>2, <2>1
<1>5. CASE PostDartTask(q)
  <2>1. /\ UNCHANGED <<primary, posting, joined>>
        /\ \A p \in Queues : \A t \in secondary'[p] : t \in secondary[p] \/ t.closure = "work"
    BY <1>5 DEF PostDartTask, RegisterTask, lvars, TableInv, Inv, TypeOK
  <2>. QED BY <1>1, <1>2, <2>1
<1>6. CASE BeginFireCallback(q)
  <2>1. UNCHANGED <<primary, secondary, posting, joined>>
    BY <1>6 DEF BeginFireCallback, PauseSecondarySource
  <2>. QED BY <1>1, <1>2, <2>1
<1>7. CASE Join(q)
  <2>1. /\ owner_of[q] = {} /\ subsumed_by[q] = kUnmerged
        /\ joined' = [joined EXCEPT ![q] = TRUE]
        /\ \A p \in Queues : p # q => posting'[p] = posting[p]
        /\ UNCHANGED <<primary, secondary>>
    BY <1>7 DEF Join, BeginPost, LoopsTypeOK, qvars
  <2>2. /\ \A p \in Queues : joined'[p] <=> joined[p] \/ p = q
        /\ joined'[q]
    BY <2>1 DEF LoopsTypeOK
  <2>3. QuitsAreJoined'
    BY <1>1, <2>1, <2>2
  <2>4. JoinedIsAlone'
    BY <1>1, <1>2, <2>1, <2>2
  <2>. QED BY <2>3, <2>4
<1>8. ASSUME NEW c \in Closures, NEW t \in Time, EndPost(q, c, t)
      PROVE  QuitsAreJoined' /\ JoinedIsAlone'
  <2>1. /\ c \in posting[q]
        /\ \A p \in Queues : posting'[p] \subseteq posting[p]
        /\ UNCHANGED <<secondary, joined>>
        /\ \A p \in Queues : \A u \in primary'[p] :
              u \in primary[p] \/ (p = q /\ u.closure = c)
    BY <1>8 DEF EndPost, RegisterTask, LoopsTypeOK, TableInv, Inv, TypeOK
  <2>. QED BY <1>1, <1>2, <2>1
<1>. QED BY <1>3, <1>4, <1>5, <1>6, <1>7, <1>8

\* No queue that is joined is merged.
LEMMA SwitchingKeepsJoinInv ==
    ASSUME JoinInv, Switching
    PROVE  QuitsAreJoined' /\ JoinedIsAlone'
<1>. USE DEF JoinInv, PlaceInv, QuitsAreJoined, JoinedIsAlone
<1>1. UNCHANGED <<pc, current, running_, terminated_, posting, joined, primary, secondary>>
  BY DEF Switching, MergeOwnQueue, UnmergeFromOwn, Merge, Unmerge
<1>2. ASSUME NEW q \in Queues, joined[q]
      PROVE  owner_of'[q] = {} /\ subsumed_by'[q] = kUnmerged
  <2>1. CASE \E o, s \in Queues : Unmerge(o, s)
    BY <1>2, <2>1 DEF Unmerge, TableInv, Inv, TypeOK
  <2>2. ASSUME NEW l \in Queues, NEW o \in Queues, MergeOwnQueue(l, o)
        PROVE  owner_of'[q] = {} /\ subsumed_by'[q] = kUnmerged
    <3>1. PICK c \in current[l] :
              /\ ~ joined[o] /\ ~ joined[c.queue]
              /\ owner_of' = [owner_of EXCEPT ![o] = @ \cup {c.queue}]
              /\ subsumed_by' = [subsumed_by EXCEPT ![c.queue] = o]
      BY <2>2 DEF MergeOwnQueue, Merge
    <3>. QED BY <1>2, <3>1 DEF TableInv, Inv, TypeOK
  <2>. QED BY <2>1, <2>2 DEF Switching, UnmergeFromOwn
<1>. QED BY <1>1, <1>2

\* Join's task stops the loop of the queue that is joined.
LEMMA EndTaskKeepsJoinInv ==
    ASSUME JoinInv, NEW l \in Queues, EndTask(l)
    PROVE  QuitsAreJoined' /\ JoinedIsAlone'
<1>. USE DEF JoinInv, PlaceInv, QuitsAreJoined, JoinedIsAlone
<1>1. /\ UNCHANGED <<primary, secondary, owner_of, subsumed_by, posting, joined>>
      /\ current' = [current EXCEPT ![l] = {}]
      /\ pc[l] \in {"run", "lastRun"}
      /\ pc' = [pc EXCEPT ![l] = IF @ = "run" THEN "next" ELSE "last"]
  BY DEF EndTask, ResumeSecondarySource, qvars
<1>2. \/ UNCHANGED <<running_, terminated_>>
      \/ /\ joined[l]
         /\ running_' = [running_ EXCEPT ![l] = FALSE]
         /\ terminated_' = [terminated_ EXCEPT ![l] = TRUE]
  <2>1. PICK c \in current[l] :
            \/ UNCHANGED <<running_, terminated_>>
            \/ /\ c.task.closure = "quit"
               /\ terminated_' = [terminated_ EXCEPT ![l] = TRUE]
               /\ running_' = [running_ EXCEPT ![l] = FALSE]
    BY DEF EndTask
  <2>2. c.queue \in Queues
    BY DEF LoopsTypeOK, Runs
  <2>3. c.task.closure = "quit" => joined[c.queue] /\ Servicer(c.queue) = l
    BY <2>2 DEF OnlyWorkSwitches, RunsOnServicer
  <2>4. c.task.closure = "quit" => joined[l]
    BY <2>2, <2>3 DEF Servicer
  <2>. QED BY <2>1, <2>4
<1>3. QuitsAreJoined'
  BY <1>1 DEF LoopsTypeOK
<1>4. JoinedIsAlone'
  BY <1>1, <1>2 DEF LoopsTypeOK, Stopped
<1>. QED BY <1>3, <1>4

LEMMA LoopsKeepJoinInv ==
    ASSUME JoinInv, NEW l \in Queues,
           OnEventFired(l) \/ BeginFlush(l) \/ BeginTask(l) \/ EndFlush(l) \/ DropTasks(l)
           \/ DestroyLoop(l)
    PROVE  QuitsAreJoined' /\ JoinedIsAlone'
<1>. USE DEF JoinInv, PlaceInv, QuitsAreJoined, JoinedIsAlone
<1>1. UNCHANGED <<running_, posting, joined>>
  BY DEF OnEventFired, BeginFlush, BeginTask, EndFlush, DropTasks, DestroyLoop
<1>2. /\ \A q \in Queues : primary'[q] \subseteq primary[q] /\ secondary'[q] \subseteq secondary[q]
      /\ \A q \in Queues : owner_of'[q] = owner_of[q] \/ owner_of'[q] = {}
      /\ \A q \in Queues : subsumed_by'[q] = subsumed_by[q] \/ subsumed_by'[q] = kUnmerged
  <2>. USE DEF TableInv, Inv, TypeOK
  <2>1. CASE BeginTask(l)
    BY <2>1 DEF BeginTask, TakeTask
  <2>2. CASE DropTasks(l)
    BY <2>2 DEF DropTasks, DisposeTasks
  <2>3. CASE DestroyLoop(l)
    BY <2>3 DEF DestroyLoop, Dispose
  <2>4. CASE OnEventFired(l) \/ BeginFlush(l) \/ EndFlush(l)
    BY <2>4 DEF OnEventFired, BeginFlush, EndFlush, DrainTimer, NothingToRun, NotDueYet, qvars
  <2>. QED BY <2>1, <2>2, <2>3, <2>4
<1>3. \A q, m \in Queues : \A c \in current'[m] :
          c.queue = q /\ c.task.closure = "quit" => joined[q]
  <2>1. CASE BeginTask(l)
    <3>1. PICK r \in Serviced(l) : \E task \in Visible(r) :
              current' = [current EXCEPT ![l] = {[queue |-> r, task |-> task]}]
      BY <2>1 DEF BeginTask
    <3>2. PICK task \in Visible(r) :
              current' = [current EXCEPT ![l] = {[queue |-> r, task |-> task]}]
      BY <3>1
    <3>3. task.closure = "quit" => joined[r]
      BY TakenTyped DEF Visible, TableInv, Inv
    <3>. QED BY <3>2, <3>3 DEF LoopsTypeOK
  <2>2. CASE ~ BeginTask(l)
    BY <2>2 DEF OnEventFired, BeginFlush, EndFlush, DropTasks, DestroyLoop
  <2>. QED BY <2>1, <2>2
<1>4. \A q \in Queues : /\ pc'[q] \in Stopped => joined[q] /\ terminated_'[q]
                        /\ terminated_[q] => terminated_'[q]
  <2>. USE DEF LoopsTypeOK, Stopped
  <2>1. CASE EndFlush(l)
    BY <2>1 DEF EndFlush
  <2>2. CASE ~ EndFlush(l)
    BY <2>2 DEF OnEventFired, BeginFlush, BeginTask, DropTasks, DestroyLoop
  <2>. QED BY <2>1, <2>2
<1>. QED BY <1>1, <1>2, <1>3, <1>4

LEMMA JoinStep == JoinInv /\ [Next]_vars => JoinInv'
<1>. SUFFICES ASSUME JoinInv, [Next]_vars PROVE QuitsAreJoined' /\ JoinedIsAlone'
  BY PlaceStep DEF JoinInv
<1>1. CASE Tick \/ TaskObserving \/ UNCHANGED vars
  BY <1>1 DEF Tick, TaskObserving, ObserveOwnLoop, StopObserving, AddTaskObserver,
              RemoveTaskObserver, vars, qvars, lvars, JoinInv, QuitsAreJoined, JoinedIsAlone
<1>2. ASSUME NEW l \in Queues, LoopStep(l) \/ DestroyLoop(l)
      PROVE  QuitsAreJoined' /\ JoinedIsAlone'
  BY <1>2, LoopsKeepJoinInv, EndTaskKeepsJoinInv DEF LoopStep
<1>. QED BY <1>1, <1>2, PostingKeepsJoinInv, SwitchingKeepsJoinInv DEF Next

-----------------------------------------------------------------------------
(* Pauses and resumes *)

\* The four numbers that a queue's resumes are counted in.
LEMMA OwedTyped ==
    ASSUME NEW q \in Queues, Balanced(q), PlaceInv
    PROVE  /\ Cardinality(ResumeTasks(q)) \in Nat
           /\ Cardinality(ResumingLoops(q)) \in Nat
           /\ pauses[q] \in Nat
BY FS_CardinalityType DEF Balanced, PlaceInv, TableInv, Inv, TypeOK

\* Nothing that counts has changed.
LEMMA RestingIsBalanced ==
    ASSUME NEW q \in Queues, Balanced(q),
           ResumeTasks(q)' = ResumeTasks(q), ResumingLoops(q)' = ResumingLoops(q),
           pausing'[q] = pausing[q], "resume" \in posting'[q] <=> "resume" \in posting[q],
           pauses'[q] = pauses[q], terminated_[q] => terminated_'[q]
    PROVE  Balanced(q)'
BY DEF Balanced, Owed, Flag

\* The tasks of q wait, and run, as before.
LEMMA SameTasks ==
    ASSUME NEW q \in Queues, primary'[q] = primary[q], current' = current
    PROVE  ResumeTasks(q)' = ResumeTasks(q) /\ ResumingLoops(q)' = ResumingLoops(q)
BY DEF ResumeTasks, ResumingLoops

\* A resume that is sent is posted; others do not count.
LEMMA EndPostIsBalanced ==
    ASSUME JoinInv, NEW p \in Queues, Balanced(p), NEW q \in Queues, NEW c \in Closures,
           NEW t \in Time, EndPost(q, c, t)
    PROVE  Balanced(p)'
<1>. DEFINE task == [order |-> order_, closure |-> c, time |-> t, grade |-> "kUnspecified"]
<1>1. /\ primary' = [primary EXCEPT ![q] = @ \cup {task}]
      /\ posting' = [posting EXCEPT ![q] = @ \ {c}]
      /\ c \in posting[q]
      /\ UNCHANGED <<pauses, pausing, terminated_, current>>
  BY DEF EndPost, RegisterTask
<1>2. task.closure = c /\ task.order = order_
  OBVIOUS
<1>. HIDE DEF task
<1>3. primary \in [Queues -> SUBSET Tasks] /\ posting \in [Queues -> SUBSET Closures]
  BY DEF JoinInv, PlaceInv, TableInv, Inv, TypeOK, LoopsTypeOK
<1>4. ResumingLoops(p)' = ResumingLoops(p)
  BY <1>1 DEF ResumingLoops
<1>5. CASE p = q /\ c = "resume"
  <2>1. ResumeTasks(p)' = ResumeTasks(p) \cup {task}
    BY <1>1, <1>2, <1>3, <1>5 DEF ResumeTasks
  <2>2. task \notin ResumeTasks(p)
    <3>1. order_ \in Nat /\ \A u \in primary[p] : u.order < order_
      BY DEF JoinInv, PlaceInv, TableInv, Inv, TypeOK, TasksDistinct, Held
    <3>. QED BY <1>2, <3>1 DEF ResumeTasks
  <2>3. /\ IsFiniteSet(ResumeTasks(p)')
        /\ Cardinality(ResumeTasks(p)') = Cardinality(ResumeTasks(p)) + 1
    BY <2>1, <2>2, FS_AddElement DEF Balanced
  <2>4. "resume" \in posting[p] /\ "resume" \notin posting'[p]
    BY <1>1, <1>3, <1>5
  <2>5. Owed(p)' = Owed(p)
    BY <1>1, <1>4, <2>3, <2>4, OwedTyped DEF Owed, Flag, JoinInv
  <2>. QED BY <1>1, <1>4, <2>3, <2>5 DEF Balanced
<1>6. CASE p # q \/ c # "resume"
  <2>1. ResumeTasks(p)' = ResumeTasks(p)
    BY <1>1, <1>2, <1>3, <1>6 DEF ResumeTasks
  <2>2. "resume" \in posting'[p] <=> "resume" \in posting[p]
    BY <1>1, <1>3, <1>6
  <2>. QED BY <1>1, <1>4, <2>1, <2>2, RestingIsBalanced
<1>. QED BY <1>5, <1>6

\* A pause is followed by its resume.
LEMMA FireCallbackIsBalanced ==
    ASSUME JoinInv, NEW p \in Queues, Balanced(p), NEW q \in Queues,
           BeginFireCallback(q) \/ PostFrameCallback(q)
    PROVE  Balanced(p)'
<1>1. UNCHANGED <<primary, current, terminated_>>
  BY DEF BeginFireCallback, PostFrameCallback, PauseSecondarySource, qvars
<1>2. ResumeTasks(p)' = ResumeTasks(p) /\ ResumingLoops(p)' = ResumingLoops(p)
  BY <1>1, SameTasks
<1>3. /\ pauses \in [Queues -> Nat] /\ posting \in [Queues -> SUBSET Closures]
      /\ pausing \in [Queues -> BOOLEAN]
  BY DEF JoinInv, PlaceInv, TableInv, Inv, TypeOK, LoopsTypeOK
<1>4. CASE p # q
  <2>1. pauses'[p] = pauses[p] /\ pausing'[p] = pausing[p] /\ posting'[p] = posting[p]
    BY <1>3, <1>4 DEF BeginFireCallback, PostFrameCallback, PauseSecondarySource, BeginPost, qvars
  <2>. QED BY <1>1, <1>2, <2>1, RestingIsBalanced
<1>5. CASE p = q /\ BeginFireCallback(q)
  <2>1. /\ ~ pausing[p] /\ pausing'[p] /\ pauses'[p] = pauses[p] + 1
        /\ UNCHANGED posting
    BY <1>3, <1>5 DEF BeginFireCallback, PauseSecondarySource
  <2>2. Owed(p)' = Owed(p) + 1 /\ Owed(p) \in Nat
    BY <1>2, <2>1, OwedTyped DEF Owed, Flag, JoinInv
  <2>. QED BY <1>1, <1>2, <1>3, <2>1, <2>2 DEF Balanced
<1>6. CASE p = q /\ PostFrameCallback(q)
  <2>1. /\ pausing[p] /\ ~ pausing'[p]
        /\ UNCHANGED pauses
        /\ \/ "resume" \notin posting[p] /\ "resume" \in posting'[p]
           \/ terminated_[p] /\ UNCHANGED posting
    BY <1>3, <1>6 DEF PostFrameCallback, BeginPost, qvars
  <2>2. \/ Owed(p)' = Owed(p)
        \/ terminated_[p] /\ Owed(p)' = Owed(p) - 1
    BY <1>2, <2>1, OwedTyped DEF Owed, Flag, JoinInv
  <2>3. Owed(p) \in Nat
    BY OwedTyped DEF Owed, Flag, JoinInv
  <2>. QED BY <1>1, <1>2, <1>3, <2>1, <2>2, <2>3 DEF Balanced
<1>. QED BY <1>4, <1>5, <1>6

\* A resume that is taken runs.
LEMMA BeginTaskIsBalanced ==
    ASSUME JoinInv, NEW p \in Queues, Balanced(p), NEW l \in Queues, BeginTask(l)
    PROVE  Balanced(p)'
<1>1. PICK r \in Serviced(l) : \E task \in Visible(r) :
          /\ TakeTask(l, flushNow[l], r, task)
          /\ current' = [current EXCEPT ![l] = {[queue |-> r, task |-> task]}]
  BY DEF BeginTask
<1>2. PICK task \in Visible(r) :
          /\ TakeTask(l, flushNow[l], r, task)
          /\ current' = [current EXCEPT ![l] = {[queue |-> r, task |-> task]}]
  BY <1>1
<1>3. r \in Queues
  BY <1>2, TakenTyped DEF JoinInv, PlaceInv, TableInv, Inv
<1>4. /\ primary \in [Queues -> SUBSET Tasks]
      /\ current \in [Queues -> SUBSET Runs]
      /\ current[l] = {}
  BY DEF BeginTask, JoinInv, PlaceInv, TableInv, Inv, TypeOK, LoopsTypeOK, OneTask, InTask
<1>5. UNCHANGED <<pauses, pausing, posting, terminated_>>
  BY <1>2 DEF BeginTask, TakeTask
<1>6. CASE p = r /\ task.closure = "resume"
  <2>1. task \in primary[r] /\ task.grade # "kDartEventLoop"
    BY <1>2, <1>3, <1>6
       DEF Visible, JoinInv, QuitsAreJoined, PlaceInv, TableInv, Inv, TasksDistinct
  <2>2. ResumeTasks(p)' = ResumeTasks(p) \ {task} /\ task \in ResumeTasks(p)
    BY <1>2, <1>3, <1>4, <1>6, <2>1 DEF TakeTask, ResumeTasks
  <2>3. ResumingLoops(p)' = ResumingLoops(p) \cup {l} /\ l \notin ResumingLoops(p)
    BY <1>2, <1>3, <1>4, <1>6 DEF ResumingLoops
  <2>4. /\ IsFiniteSet(ResumeTasks(p)')
        /\ Cardinality(ResumeTasks(p)') = Cardinality(ResumeTasks(p)) - 1
    BY <2>2, FS_RemoveElement DEF Balanced
  <2>5. /\ IsFiniteSet(ResumingLoops(p)')
        /\ Cardinality(ResumingLoops(p)') = Cardinality(ResumingLoops(p)) + 1
    BY <2>3, FS_AddElement DEF Balanced
  <2>6. Owed(p)' = Owed(p)
    BY <1>5, <2>4, <2>5, OwedTyped DEF Owed, Flag, JoinInv
  <2>. QED BY <1>5, <2>4, <2>5, <2>6 DEF Balanced
<1>7. CASE p # r \/ task.closure # "resume"
  <2>1. ResumeTasks(p)' = ResumeTasks(p)
    BY <1>2, <1>3, <1>4, <1>7 DEF TakeTask, ResumeTasks
  <2>2. ResumingLoops(p)' = ResumingLoops(p)
    BY <1>2, <1>3, <1>4, <1>7 DEF ResumingLoops
  <2>. QED BY <1>5, <2>1, <2>2, RestingIsBalanced
<1>. QED BY <1>6, <1>7

\* A resume that has run is no longer owed.
LEMMA EndTaskIsBalanced ==
    ASSUME JoinInv, NEW p \in Queues, Balanced(p), NEW l \in Queues, EndTask(l)
    PROVE  Balanced(p)'
<1>1. /\ UNCHANGED <<primary, posting, pausing>>
      /\ current' = [current EXCEPT ![l] = {}]
  BY DEF EndTask, ResumeSecondarySource, qvars
<1>2. /\ current \in [Queues -> SUBSET Runs]
      /\ pauses \in [Queues -> Nat]
      /\ terminated_ \in [Queues -> BOOLEAN]
      /\ \A c, d \in current[l] : c = d
  BY DEF JoinInv, PlaceInv, TableInv, Inv, TypeOK, LoopsTypeOK, OneTask
<1>3. ResumeTasks(p)' = ResumeTasks(p)
  BY <1>1 DEF ResumeTasks
<1>4. PICK c \in current[l] :
          \/ /\ c.task.closure # "resume"
             /\ UNCHANGED pauses
             /\ terminated_' = terminated_ \/ terminated_' = [terminated_ EXCEPT ![l] = TRUE]
          \/ /\ c.task.closure = "resume"
             /\ pauses[c.queue] > 0
             /\ pauses' = [pauses EXCEPT ![c.queue] = @ - 1]
             /\ UNCHANGED terminated_
  BY DEF EndTask, ResumeSecondarySource, qvars
<1>5. CASE c.task.closure = "resume" /\ c.queue = p
  <2>1. ResumingLoops(p)' = ResumingLoops(p) \ {l} /\ l \in ResumingLoops(p)
    BY <1>1, <1>2, <1>5 DEF ResumingLoops
  <2>2. /\ IsFiniteSet(ResumingLoops(p)')
        /\ Cardinality(ResumingLoops(p)') = Cardinality(ResumingLoops(p)) - 1
    BY <2>1, FS_RemoveElement DEF Balanced
  <2>3. pauses'[p] = pauses[p] - 1 /\ UNCHANGED terminated_
    BY <1>2, <1>4, <1>5
  <2>4. Owed(p)' = Owed(p) - 1 /\ Owed(p) \in Nat
    BY <1>1, <1>3, <2>2, OwedTyped DEF Owed, Flag, JoinInv
  <2>. QED BY <1>2, <1>3, <2>2, <2>3, <2>4 DEF Balanced
<1>6. CASE c.task.closure # "resume" \/ c.queue # p
  <2>1. ResumingLoops(p)' = ResumingLoops(p)
    BY <1>1, <1>2, <1>6 DEF ResumingLoops
  <2>2. pauses'[p] = pauses[p] /\ (terminated_[p] => terminated_'[p])
    BY <1>2, <1>4, <1>6
  <2>. QED BY <1>1, <1>3, <2>1, <2>2, RestingIsBalanced
<1>. QED BY <1>5, <1>6

\* The resumes of a terminated loop may be dropped.
LEMMA DropTasksIsBalanced ==
    ASSUME JoinInv, NEW p \in Queues, Balanced(p), NEW l \in Queues, DropTasks(l)
    PROVE  Balanced(p)'
<1>1. terminated_[l] /\ owner_of[l] = {}
  BY DEF DropTasks, JoinInv, JoinedIsAlone, Stopped
<1>2. /\ primary' = [r \in Queues |-> IF r = l THEN {} ELSE primary[r]]
      /\ UNCHANGED <<pauses, pausing, posting, terminated_, current>>
  BY <1>1 DEF DropTasks, DisposeTasks
<1>3. ResumingLoops(p)' = ResumingLoops(p)
  BY <1>2 DEF ResumingLoops
<1>4. CASE p # l
  <2>1. ResumeTasks(p)' = ResumeTasks(p)
    BY <1>2, <1>4 DEF ResumeTasks
  <2>. QED BY <1>2, <1>3, <2>1, RestingIsBalanced
<1>5. CASE p = l
  <2>1. ResumeTasks(p)' = {}
    BY <1>2, <1>5 DEF ResumeTasks
  <2>2. IsFiniteSet(ResumeTasks(p)') /\ Cardinality(ResumeTasks(p)') = 0
    BY <2>1, FS_EmptySet
  <2>3. Owed(p)' <= Owed(p) /\ Owed(p)' \in Nat /\ Owed(p) \in Nat
    BY <1>2, <1>3, <2>2, OwedTyped DEF Owed, Flag, JoinInv
  <2>. QED BY <1>1, <1>2, <1>3, <1>5, <2>2, <2>3, OwedTyped DEF Balanced, JoinInv
<1>. QED BY <1>4, <1>5

\* Nobody owes a resume to a loop that is destroyed.
LEMMA DestroyIsBalanced ==
    ASSUME JoinInv, NEW p \in Queues, Balanced(p), NEW l \in Queues, DestroyLoop(l)
    PROVE  Balanced(p)'
<1>1. pc[l] = "exited" /\ owner_of[l] = {} /\ subsumed_by[l] = kUnmerged
  BY DEF DestroyLoop, JoinInv, JoinedIsAlone, Stopped
<1>2. /\ primary' = [r \in Queues |-> IF r = l THEN {} ELSE primary[r]]
      /\ pauses' = [r \in Queues |-> IF r = l THEN 0 ELSE pauses[r]]
      /\ posting[l] = {} /\ ~ pausing[l]
      /\ UNCHANGED <<pausing, posting, terminated_, current>>
  BY <1>1 DEF DestroyLoop, Dispose
<1>3. ResumingLoops(p)' = ResumingLoops(p)
  BY <1>2 DEF ResumingLoops
<1>4. CASE p # l
  <2>1. ResumeTasks(p)' = ResumeTasks(p)
    BY <1>2, <1>4 DEF ResumeTasks
  <2>. QED BY <1>2, <1>3, <1>4, <2>1, RestingIsBalanced
<1>5. CASE p = l
  <2>1. ResumeTasks(p)' = {}
    BY <1>2, <1>5 DEF ResumeTasks
  <2>2. ResumingLoops(p) = {}
    <3>1. SUFFICES ASSUME NEW m \in Queues, NEW c \in current[m], c.queue = l,
                          c.task.closure = "resume"
                   PROVE  FALSE
      BY <1>5 DEF ResumingLoops
    <3>2. Servicer(l) = m
      BY <3>1 DEF JoinInv, PlaceInv, OnlyWorkSwitches, RunsOnServicer
    <3>3. current[l] = {}
      BY <1>1 DEF JoinInv, PlaceInv, OneTask, InTask
    <3>. QED BY <1>1, <3>2, <3>3 DEF Servicer
  <2>3. /\ IsFiniteSet(ResumeTasks(p)') /\ Cardinality(ResumeTasks(p)') = 0
        /\ IsFiniteSet(ResumingLoops(p)') /\ Cardinality(ResumingLoops(p)') = 0
    BY <1>3, <2>1, <2>2, FS_EmptySet
  <2>4. Owed(p)' = 0
    BY <1>2, <1>5, <2>3 DEF Owed, Flag
  <2>5. pauses'[p] = 0
    BY <1>2, <1>5
  <2>. QED BY <2>3, <2>4, <2>5 DEF Balanced
<1>. QED BY <1>4, <1>5

LEMMA BalanceStep == JoinInv /\ AllBalanced /\ [Next]_vars => AllBalanced'
<1>. SUFFICES ASSUME JoinInv, [Next]_vars, NEW p \in Queues, Balanced(p)
              PROVE  Balanced(p)'
  BY DEF AllBalanced
<1>1. CASE UNCHANGED <<primary, current, pausing, posting, pauses, terminated_>>
  BY <1>1, SameTasks, RestingIsBalanced
<1>2. CASE Tick \/ TaskObserving \/ Switching \/ UNCHANGED vars
  BY <1>1, <1>2 DEF Tick, TaskObserving, ObserveOwnLoop, StopObserving, AddTaskObserver,
                    RemoveTaskObserver, Switching, MergeOwnQueue, UnmergeFromOwn, Merge,
                    Unmerge, vars, qvars, lvars
<1>3. ASSUME NEW q \in Queues, PostTask(q) \/ Join(q) PROVE Balanced(p)'
  <2>1. "resume" \in posting'[p] <=> "resume" \in posting[p]
    BY <1>3 DEF PostTask, Join, BeginPost, JoinInv, PlaceInv, LoopsTypeOK
  <2>2. UNCHANGED <<primary, current, pausing, pauses, terminated_>>
    BY <1>3 DEF PostTask, Join, qvars
  <2>. QED BY <2>1, <2>2, SameTasks, RestingIsBalanced
<1>4. ASSUME NEW q \in Queues, PostDartTask(q) PROVE Balanced(p)'
  BY <1>1, <1>4 DEF PostDartTask, RegisterTask, lvars
<1>5. CASE Posting
  BY <1>3, <1>4, <1>5, EndPostIsBalanced, FireCallbackIsBalanced DEF Posting
<1>6. ASSUME NEW l \in Queues, OnEventFired(l) \/ BeginFlush(l) PROVE Balanced(p)'
  BY <1>1, <1>6 DEF OnEventFired, BeginFlush, DrainTimer, qvars
<1>7. ASSUME NEW l \in Queues, EndFlush(l) PROVE Balanced(p)'
  <2>1. UNCHANGED <<primary, current, pausing, posting, pauses>>
    BY <1>7 DEF EndFlush, NothingToRun, NotDueYet, qvars
  <2>2. terminated_[p] => terminated_'[p]
    BY <1>7 DEF EndFlush, JoinInv, PlaceInv, LoopsTypeOK
  <2>. QED BY <2>1, <2>2, SameTasks, RestingIsBalanced
<1>. QED BY <1>2, <1>5, <1>6, <1>7, BeginTaskIsBalanced, EndTaskIsBalanced,
            DropTasksIsBalanced, DestroyIsBalanced DEF Next, LoopStep

LEMMA BalanceInit == Init => JoinInv /\ AllBalanced
<1>. SUFFICES ASSUME Init PROVE JoinInv /\ AllBalanced
  OBVIOUS
<1>1. QuitsAreJoined /\ JoinedIsAlone
  BY DEF Init, InitWith, QuitsAreJoined, JoinedIsAlone, Stopped
<1>2. ASSUME NEW q \in Queues PROVE Balanced(q)
  <2>1. ResumeTasks(q) = {} /\ ResumingLoops(q) = {}
    BY DEF Init, InitWith, ResumeTasks, ResumingLoops
  <2>2. pauses[q] = 0 /\ ~ pausing[q] /\ "resume" \notin posting[q]
    BY DEF Init, InitWith
  <2>. QED BY <2>1, <2>2, FS_EmptySet DEF Balanced, Owed, Flag
<1>. QED BY <1>1, <1>2, LoopsInit DEF JoinInv, AllBalanced

LEMMA JoinAlways == Spec => [](JoinInv /\ AllBalanced)
BY BalanceInit, JoinStep, BalanceStep, PTL DEF Spec

\* Every pause of a secondary source is owed exactly one resume until its loop is
\* terminated, and never more than one: no pause is forgotten, and no resume comes
\* twice, however vsyncs, merges and joins interleave (vsync_waiter.cc:149-181,
\* message_loop_task_queues.cc:306-327).
THEOREM PausesAlwaysBalanced == Spec => []PausesBalanced
<1>1. AllBalanced => PausesBalanced
  <2>1. \A q : ResumesOwed(q) = Owed(q)
    BY DEF ResumesOwed, Owed, ResumeTasks, ResumingLoops, Flag
  <2>. QED BY <2>1 DEF AllBalanced, Balanced, PausesBalanced
<1>. QED BY <1>1, JoinAlways, PTL

-----------------------------------------------------------------------------
(* What the loops do is what task runners promise *)

\* The tasks that wait, with their queues.
Pending == {p \in [queue : Queues, task : Tasks] : p.task \in Held(p.queue)}

\* A flush looks for tasks that are due at a time that has come.
FlushTimesPassed == \A l \in Queues : flushNow[l] <= now

ExecutionInv == JoinInv /\ FlushTimesPassed

Mapped == {p \in [queue : Queues, task : UNION {primary[q] \cup secondary[q] : q \in Queues}] :
              p.task \in primary[p.queue] \cup secondary[p.queue]}

\* The tasks of TaskExecution are those that wait.
LEMMA MappedIsPending == TypeOK => Mapped = Pending
BY DEF Mapped, Pending, Held, TypeOK

LEMMA FlushTimesStep == JoinInv /\ FlushTimesPassed /\ [Next]_vars => FlushTimesPassed'
<1>. SUFFICES ASSUME JoinInv, FlushTimesPassed, [Next]_vars PROVE FlushTimesPassed'
  OBVIOUS
<1>1. flushNow \in [Queues -> Nat] /\ now \in Nat
  BY BoundsAssumption DEF JoinInv, PlaceInv, LoopsTypeOK, Time
<1>2. CASE Tick
  BY <1>1, <1>2 DEF Tick, FlushTimesPassed
<1>3. CASE Posting
  BY <1>3, PostingTyped DEF FlushTimesPassed, JoinInv, PlaceInv
<1>4. CASE Switching \/ TaskObserving \/ UNCHANGED vars
  BY <1>4 DEF Switching, MergeOwnQueue, UnmergeFromOwn, TaskObserving, ObserveOwnLoop,
              StopObserving, vars, lvars, FlushTimesPassed
<1>5. ASSUME NEW l \in Queues, LoopStep(l) \/ DestroyLoop(l) PROVE FlushTimesPassed'
  BY <1>1, <1>5 DEF LoopStep, OnEventFired, BeginFlush, BeginTask, EndFlush, EndTask, DropTasks,
                    DestroyLoop, FlushTimesPassed
<1>. QED BY <1>2, <1>3, <1>4, <1>5 DEF Next

LEMMA ExecutionInvAlways == Spec => []ExecutionInv
<1>1. Init => FlushTimesPassed
  <2>1. Init => \A l \in Queues : flushNow[l] = 0 /\ now = 0
    BY DEF Init
  <2>2. 0 <= 0
    OBVIOUS
  <2>. QED BY <2>1, <2>2, Zenon DEF FlushTimesPassed
<1>. QED BY <1>1, BalanceInit, JoinStep, FlushTimesStep, PTL DEF Spec, ExecutionInv

\* RegisterTask accepts a task.
LEMMA RegisterAccepts ==
    ASSUME TypeOK, NEW q \in Queues, NEW c \in Closures, NEW t \in Time, NEW g \in Grades,
           RegisterTask(q, c, t, g)
    PROVE  Pending' = Pending \cup
               {[queue |-> q,
                 task |-> [order |-> order_, closure |-> c, time |-> t, grade |-> g]]}
<1>. DEFINE task == [order |-> order_, closure |-> c, time |-> t, grade |-> g]
<1>1. task \in Tasks
  BY DEF Tasks, TypeOK
<1>2. \A r \in Queues : Held(r)' = IF r = q THEN Held(r) \cup {task} ELSE Held(r)
  BY DEF RegisterTask, Held, TypeOK
<1>. HIDE DEF task
<1>3. Pending' = Pending \cup {[queue |-> q, task |-> task]}
  BY <1>1, <1>2 DEF Pending
<1>. QED BY <1>3 DEF task

\* A task that is taken was due: none of its heap was before it.
LEMMA TakeIsDue ==
    ASSUME ExecutionInv, NEW l \in Queues, NEW r \in Serviced(l), NEW task \in Visible(r),
           TakeTask(l, flushNow[l], r, task)
    PROVE  /\ r \in Queues /\ task \in Held(r) /\ task \in Tasks
           /\ task.time <= now
           /\ \A u \in Held(r) :
                 (u.grade = "kDartEventLoop" <=> task.grade = "kDartEventLoop")
                     => ~ Before(u, task)
           /\ Pending' = Pending \ {[queue |-> r, task |-> task]}
<1>1. TypeOK /\ TasksDistinct /\ TableOK
  BY DEF ExecutionInv, JoinInv, PlaceInv, TableInv, Inv, TypeOK, TableOK
<1>2. r \in Queues /\ task \in Tasks
  BY <1>1, TakenTyped
<1>3. task \in Held(r)
  BY DEF Visible, Held
<1>4. \A u \in Tasks : u.time \in Nat /\ u.order \in Nat
  BY BoundsAssumption DEF Tasks, Time
<1>5. task.time <= now
  <2>1. task.time <= flushNow[l] /\ flushNow[l] <= now
    BY DEF TakeTask, ExecutionInv, FlushTimesPassed
  <2>2. flushNow[l] \in Nat /\ now \in Nat
    BY BoundsAssumption DEF ExecutionInv, JoinInv, PlaceInv, LoopsTypeOK, Time
  <2>. QED BY <1>2, <1>4, <2>1, <2>2
<1>6. ASSUME NEW u \in Held(r), u.grade = "kDartEventLoop" <=> task.grade = "kDartEventLoop"
      PROVE  ~ Before(u, task)
  <2>1. u \in Visible(r) /\ u \in Tasks
    BY <1>1, <1>2, <1>6 DEF Visible, Held, TasksDistinct, TypeOK
  <2>2. u = task \/ Before(task, u)
    BY <1>1, <2>1, PeekFindsEarliest DEF TakeTask
  <2>. QED BY <1>2, <1>4, <2>1, <2>2 DEF Before
<1>7. \A q \in Queues : Held(q)' = IF q = r THEN Held(q) \ {task} ELSE Held(q)
  BY <1>1, <1>2, <1>3 DEF TakeTask, Held, TypeOK, TasksDistinct
<1>8. Pending' = Pending \ {[queue |-> r, task |-> task]}
  BY <1>2, <1>7 DEF Pending
<1>. QED BY <1>2, <1>3, <1>5, <1>6, <1>8

\* The primed form of MappedIsPending, for a step between well-typed states.
LEMMA MappedAfterStep == (TypeOK => Mapped = Pending)'
BY MappedIsPending, PTL

LEMMA StutterMaps ==
    ASSUME TypeOK, TypeOK', UNCHANGED <<now, order_, primary, secondary, terminated_>>
    PROVE  UNCHANGED Execution!vars
<1>1. Mapped' = Mapped
  BY DEF Mapped
<1>. QED BY <1>1 DEF Execution!vars, Mapped

LEMMA AcceptMaps ==
    ASSUME TypeOK, TypeOK', NEW q \in Queues, NEW c \in Closures, NEW t \in Time, NEW g \in Grades,
           RegisterTask(q, c, t, g), UNCHANGED <<now, terminated_>>
    PROVE  Execution!Next
<1>1. Mapped' = Mapped \cup
          {[queue |-> q, task |-> [order |-> order_, closure |-> c, time |-> t, grade |-> g]]}
  BY RegisterAccepts, MappedIsPending, MappedAfterStep
<1>2. Execution!Accept(q, c, t, g)
  BY <1>1 DEF Execution!Accept, Mapped, RegisterTask
<1>. QED BY <1>2 DEF Execution!Next, Time

LEMMA ExecuteMaps ==
    ASSUME ExecutionInv, TypeOK', NEW l \in Queues, BeginTask(l)
    PROVE  Execution!Next
<1>1. PICK r \in Serviced(l) : \E task \in Visible(r) : TakeTask(l, flushNow[l], r, task)
  BY DEF BeginTask
<1>2. PICK task \in Visible(r) : TakeTask(l, flushNow[l], r, task)
  BY <1>1
<1>. DEFINE p == [queue |-> r, task |-> task]
<1>3. TypeOK
  BY DEF ExecutionInv, JoinInv, PlaceInv, TableInv, Inv, TypeOK
<1>4. /\ p \in Mapped
      /\ Mapped' = Mapped \ {p}
      /\ p.task.time <= now
  BY <1>2, <1>3, TakeIsDue, MappedIsPending, MappedAfterStep DEF Pending
<1>5. \A u \in Mapped : Execution!SameHeap(p, u) => ~ Execution!Before(u.task, p.task)
  <2>1. SUFFICES ASSUME NEW u \in Pending, Execution!SameHeap(p, u)
                 PROVE  ~ Before(u.task, task)
    BY <1>3, MappedIsPending DEF Execution!Before, Before
  <2>2. /\ u.queue = r /\ u.task \in Held(r)
        /\ u.task.grade = "kDartEventLoop" <=> task.grade = "kDartEventLoop"
    BY <2>1 DEF Execution!SameHeap, Pending
  <2>. QED BY <1>2, <2>2, TakeIsDue
<1>6. UNCHANGED <<now, order_, terminated_>>
  BY <1>2 DEF BeginTask, TakeTask
<1>. HIDE DEF p
<1>7. Execution!Execute(p)
  BY <1>4, <1>5, <1>6 DEF Execution!Execute, Execution!Due, Mapped
<1>. QED BY <1>4, <1>7 DEF Execution!Next, Mapped

\* A loop that ends its last flush, or has run the task of Join, closes its queue.
LEMMA CloseMaps ==
    ASSUME TypeOK, TypeOK', terminated_ \in [Queues -> BOOLEAN], NEW l \in Queues,
           terminated_' = [terminated_ EXCEPT ![l] = TRUE],
           UNCHANGED <<now, order_, primary, secondary>>
    PROVE  Execution!Next
<1>1. Mapped' = Mapped
  BY DEF Mapped
<1>2. {q \in Queues : terminated_'[q]} = {q \in Queues : terminated_[q]} \cup {l}
  OBVIOUS
<1>3. Execution!Close(l)
  BY <1>1, <1>2 DEF Execution!Close, Mapped
<1>. QED BY <1>3 DEF Execution!Next

\* A terminated loop, which owns no queue, empties its own source.
LEMMA DiscardMaps ==
    ASSUME TypeOK, TypeOK', NEW l \in Queues, terminated_[l],
           primary' = [r \in Queues |-> IF r = l THEN {} ELSE primary[r]],
           secondary' = [r \in Queues |-> IF r = l THEN {} ELSE secondary[r]],
           UNCHANGED <<now, order_, terminated_>>
    PROVE  Execution!Next
<1>1. \A q \in Queues : Held(q)' = IF q = l THEN {} ELSE Held(q)
  BY DEF Held
<1>2. Pending' = {p \in Pending : p.queue # l}
  BY <1>1 DEF Pending
<1>3. Mapped' = {p \in Mapped : p.queue # l}
  BY <1>2, MappedIsPending, MappedAfterStep
<1>4. Execution!Discard(l)
  BY <1>3 DEF Execution!Discard, Mapped
<1>. QED BY <1>4 DEF Execution!Next

LEMMA PostingMaps ==
    ASSUME TypeOK, TypeOK', now \in Time, Posting
    PROVE  Execution!Next \/ UNCHANGED Execution!vars
<1>1. ASSUME NEW q \in Queues, PostTask(q) \/ PostFrameCallback(q) \/ Join(q)
      PROVE  UNCHANGED Execution!vars
  BY <1>1, StutterMaps DEF PostTask, PostFrameCallback, Join, qvars
<1>2. ASSUME NEW q \in Queues, BeginFireCallback(q) PROVE UNCHANGED Execution!vars
  BY <1>2, StutterMaps DEF BeginFireCallback, PauseSecondarySource
<1>3. ASSUME NEW q \in Queues, PostDartTask(q) PROVE Execution!Next
  <2>1. "work" \in Closures /\ now \in Time /\ "kDartEventLoop" \in Grades
    BY <1>3, ClosuresAssumption DEF PostDartTask, Grades
  <2>. QED BY <1>3, <2>1, AcceptMaps DEF PostDartTask, lvars
<1>4. ASSUME NEW q \in Queues, NEW c \in Closures, NEW t \in Time, EndPost(q, c, t)
      PROVE  Execution!Next
  BY <1>4, AcceptMaps DEF EndPost, Grades
<1>. QED BY <1>1, <1>2, <1>3, <1>4 DEF Posting

LEMMA LoopStepMaps ==
    ASSUME ExecutionInv, ExecutionInv', NEW l \in Queues, LoopStep(l) \/ DestroyLoop(l)
    PROVE  Execution!Next \/ UNCHANGED Execution!vars
<1>1. /\ TypeOK /\ TypeOK' /\ terminated_ \in [Queues -> BOOLEAN]
  BY DEF ExecutionInv, JoinInv, PlaceInv, TableInv, Inv, TypeOK, LoopsTypeOK
<1>2. CASE OnEventFired(l) \/ BeginFlush(l)
  BY <1>1, <1>2, StutterMaps DEF OnEventFired, BeginFlush, DrainTimer, qvars
<1>3. CASE BeginTask(l)
  BY <1>1, <1>3, ExecuteMaps
<1>4. CASE EndFlush(l) \/ EndTask(l)
  <2>1. UNCHANGED <<now, order_, primary, secondary>>
    BY <1>4 DEF EndFlush, NothingToRun, NotDueYet, EndTask, ResumeSecondarySource, qvars
  <2>2. terminated_' = terminated_ \/ terminated_' = [terminated_ EXCEPT ![l] = TRUE]
    <3>1. CASE EndFlush(l)
      BY <1>1, <3>1 DEF EndFlush
    <3>2. CASE EndTask(l)
      BY <3>2 DEF EndTask
    <3>. QED BY <1>4, <3>1, <3>2
  <2>. QED BY <1>1, <2>1, <2>2, StutterMaps, CloseMaps
<1>5. CASE DropTasks(l) \/ DestroyLoop(l)
  <2>1. terminated_[l] /\ owner_of[l] = {}
    BY <1>5 DEF DropTasks, DestroyLoop, ExecutionInv, JoinInv, JoinedIsAlone, Stopped
  <2>2. /\ primary' = [r \in Queues |-> IF r = l THEN {} ELSE primary[r]]
        /\ secondary' = [r \in Queues |-> IF r = l THEN {} ELSE secondary[r]]
        /\ UNCHANGED <<now, order_, terminated_>>
    BY <1>5, <2>1 DEF DropTasks, DestroyLoop, DisposeTasks, Dispose
  <2>. QED BY <1>1, <2>1, <2>2, DiscardMaps
<1>. QED BY <1>2, <1>3, <1>4, <1>5 DEF LoopStep

LEMMA StepMaps ==
    ExecutionInv /\ ExecutionInv' /\ [Next]_vars => [Execution!Next]_Execution!vars
<1>. SUFFICES ASSUME ExecutionInv, ExecutionInv', [Next]_vars
              PROVE  Execution!Next \/ UNCHANGED Execution!vars
  OBVIOUS
<1>1. TypeOK /\ TypeOK' /\ now \in Time
  BY DEF ExecutionInv, JoinInv, PlaceInv, TableInv, Inv, TypeOK, LoopsTypeOK
<1>2. CASE Tick
  <2>1. Mapped' = Mapped
    BY <1>2 DEF Tick, Mapped, qvars
  <2>2. Execution!Tick
    BY <1>2, <2>1 DEF Tick, Execution!Tick, Mapped, qvars
  <2>. QED BY <2>2 DEF Execution!Next
<1>3. CASE Switching \/ TaskObserving \/ UNCHANGED vars
  BY <1>1, <1>3, StutterMaps
     DEF Switching, MergeOwnQueue, UnmergeFromOwn, Merge, Unmerge, TaskObserving,
         ObserveOwnLoop, StopObserving, AddTaskObserver, RemoveTaskObserver, vars, lvars, qvars
<1>. QED BY <1>1, <1>2, <1>3, PostingMaps, LoopStepMaps DEF Next

\* Whatever the loops, the merges and the pauses do, they keep what task runners
\* promise: an accepted task is run at most once, not before its target time and
\* after every earlier task of its heap, and it is dropped only once its loop has
\* terminated (MessageLoopImpl::FlushTasks, GetNextTaskToRun).
THEOREM LoopsImplementExecution == Spec => Execution!Safety
<1>1. Init => Execution!Init
  <2>. SUFFICES ASSUME Init PROVE Execution!Init
    OBVIOUS
  <2>1. Mapped = {}
    BY DEF Init, InitWith, Mapped
  <2>2. now = 0 /\ order_ = 0 /\ {q \in Queues : terminated_[q]} = {}
    BY DEF Init, InitWith
  <2>. QED BY <2>1, <2>2 DEF Execution!Init, Mapped
<1>. QED BY <1>1, StepMaps, ExecutionInvAlways, PTL DEF Spec, Execution!Safety

=============================================================================
