-------------------------- MODULE TaskQueuesProofs --------------------------
(***************************************************************************)
(* What holds of the task queue table for any number of queues, tasks,     *)
(* observers and callers.  The argument has two halves: every task has an  *)
(* order of its own and sits in exactly one heap, so a set of pending      *)
(* tasks has an earliest one; and the two records of a merge agree, an     *)
(* owner is never subsumed, and only live queues take part in a merge.     *)
(***************************************************************************)
EXTENDS TaskQueues, WellFoundedInduction, NaturalsInduction, TLAPS

\* All the tasks in q's source, visible or not.
Held(q) == primary[q] \cup secondary[q]

\* An order names one task of one queue, in the heap of the task's grade
\* (RegisterTask takes the next order_ under the mutex).
TasksDistinct ==
    /\ \A q \in Queues : \A t \in Held(q) : t.order < order_
    /\ \A q, r \in Queues : \A t \in Held(q), u \in Held(r) :
          t.order = u.order => q = r /\ t = u
    /\ \A q \in Queues : \A t \in primary[q] : t.grade # "kDartEventLoop"
    /\ \A q \in Queues : \A t \in secondary[q] : t.grade = "kDartEventLoop"

\* TypeOK without the timers.
TableOK ==
    /\ entry \in [Queues -> {"none", "live", "erased"}]
    /\ order_ \in Nat
    /\ primary \in [Queues -> SUBSET Tasks]
    /\ secondary \in [Queues -> SUBSET Tasks]
    /\ pauses \in [Queues -> Nat]
    /\ observers \in [Queues -> SUBSET Keys]
    /\ owner_of \in [Queues -> SUBSET Queues]
    /\ subsumed_by \in [Queues -> Queues \cup {kUnmerged}]

Inv ==
    /\ TypeOK
    /\ TasksDistinct

MergeInv ==
    /\ MergeRecordsAgree
    /\ OwnerNeverSubsumed
    /\ MergedQueuesLive

-----------------------------------------------------------------------------
(* The earliest task *)

\* A nonempty set of natural numbers has a least element.
LEMMA LeastNat ==
    ASSUME NEW S, S \subseteq Nat, S # {}
    PROVE  \E m \in S : \A n \in S : m <= n
<1>. DEFINE R == {ss \in Nat \X Nat : ss[1] < ss[2]}
<1>1. IsWellFoundedOn(R, Nat)
  BY NatLessThanWellFounded DEF OpToRel
<1>2. PICK m \in S : \A n \in S : ~ (<<n, m>> \in R)
  BY <1>1, WFMin
<1>3. ASSUME NEW n \in S PROVE m <= n
  <2>1. n \in Nat /\ m \in Nat
    OBVIOUS
  <2>2. ~ (<<n, m>> \in R)
    BY <1>2
  <2>3. ~ (n < m)
    BY <2>1, <2>2
  <2>. QED BY <2>1, <2>3
<1>. QED BY <1>3

\* A nonempty set of tasks with orders of their own has an earliest one.
LEMMA EarliestExists ==
    ASSUME NEW S, S \subseteq Tasks, S # {},
           \A t, u \in S : t.order = u.order => t = u
    PROVE  /\ Earliest(S) \in S
           /\ \A u \in S : u = Earliest(S) \/ Before(Earliest(S), u)
<1>1. \A t \in S : t.time \in Nat /\ t.order \in Nat
  BY BoundsAssumption DEF Tasks, Time
<1>2. PICK m \in {t.time : t \in S} : \A n \in {t.time : t \in S} : m <= n
  <2>1. {t.time : t \in S} \subseteq Nat /\ {t.time : t \in S} # {}
    BY <1>1
  <2>. QED BY <2>1, LeastNat
<1>. DEFINE F == {t \in S : t.time = m}
<1>3. PICK o \in {t.order : t \in F} : \A n \in {t.order : t \in F} : o <= n
  <2>1. {t.order : t \in F} \subseteq Nat /\ {t.order : t \in F} # {}
    BY <1>1, <1>2
  <2>. QED BY <2>1, LeastNat
<1>4. PICK e \in F : e.order = o
  BY <1>3
<1>5. ASSUME NEW u \in S PROVE u = e \/ Before(e, u)
  <2>1. u.time \in Nat /\ u.order \in Nat /\ e.time \in Nat /\ e.order \in Nat
    BY <1>1
  <2>2. e.time <= u.time
    BY <1>2
  <2>3. CASE u.time = e.time
    <3>1. e.order <= u.order
      BY <1>3, <1>4, <2>3
    <3>. QED BY <3>1, <2>1, <2>3 DEF Before
  <2>4. CASE u.time # e.time
    BY <2>1, <2>2, <2>4 DEF Before
  <2>. QED BY <2>3, <2>4
<1>6. \E t \in S : \A u \in S : u = t \/ Before(t, u)
  BY <1>5
<1>. QED BY <1>6 DEF Earliest

\* PeekNextTask finds a visible task of a serviced source, and none of those is
\* before it.
LEMMA PeekFindsEarliest ==
    TableOK /\ TasksDistinct =>
        \A q \in Queues : HasPendingTasks(q) =>
            /\ PeekNextTask(q) \in Tasks
            /\ \E r \in Serviced(q) : PeekNextTask(q) \in Visible(r)
            /\ \A r \in Serviced(q) : \A u \in Visible(r) :
                  u = PeekNextTask(q) \/ Before(PeekNextTask(q), u)
<1>. SUFFICES ASSUME TableOK, TasksDistinct, NEW q \in Queues, HasPendingTasks(q)
              PROVE  /\ PeekNextTask(q) \in Tasks
                     /\ \E r \in Serviced(q) : PeekNextTask(q) \in Visible(r)
                     /\ \A r \in Serviced(q) : \A u \in Visible(r) :
                           u = PeekNextTask(q) \/ Before(PeekNextTask(q), u)
  OBVIOUS
<1>1. Serviced(q) \subseteq Queues
  BY DEF Serviced, TableOK
<1>2. \A r \in Queues : Visible(r) \subseteq Held(r) /\ Held(r) \subseteq Tasks
  BY DEF Visible, Held, TableOK
<1>3. \A r \in Queues : Visible(r) # {} =>
         /\ Top(r) \in Visible(r)
         /\ \A u \in Visible(r) : u = Top(r) \/ Before(Top(r), u)
  <2>1. SUFFICES ASSUME NEW r \in Queues, Visible(r) # {}
                 PROVE  /\ Top(r) \in Visible(r)
                        /\ \A u \in Visible(r) : u = Top(r) \/ Before(Top(r), u)
    OBVIOUS
  <2>2. Visible(r) \subseteq Tasks
    BY <1>2
  <2>3. \A t, u \in Visible(r) : t.order = u.order => t = u
    BY <1>2 DEF TasksDistinct
  <2>. QED BY <2>1, <2>2, <2>3, EarliestExists DEF Top
<1>. DEFINE T == {Top(r) : r \in {s \in Serviced(q) : Visible(s) # {}}}
<1>4. T # {} /\ T \subseteq Tasks
  BY <1>1, <1>2, <1>3 DEF HasPendingTasks
<1>5. \A t, u \in T : t.order = u.order => t = u
  <2>1. SUFFICES ASSUME NEW t \in T, NEW u \in T, t.order = u.order PROVE t = u
    OBVIOUS
  <2>2. PICK r \in Queues : t \in Held(r)
    BY <1>1, <1>2, <1>3
  <2>3. PICK s \in Queues : u \in Held(s)
    BY <1>1, <1>2, <1>3
  <2>. QED BY <2>1, <2>2, <2>3 DEF TasksDistinct
<1>. HIDE DEF T
<1>6. /\ Earliest(T) \in T
      /\ \A u \in T : u = Earliest(T) \/ Before(Earliest(T), u)
  BY <1>4, <1>5, EarliestExists
<1>7. PeekNextTask(q) = Earliest(T)
  BY DEF PeekNextTask, T
<1>8. \E r \in Serviced(q) : Earliest(T) \in Visible(r)
  BY <1>1, <1>3, <1>6 DEF T
<1>9. ASSUME NEW r \in Serviced(q), NEW u \in Visible(r)
      PROVE  u = Earliest(T) \/ Before(Earliest(T), u)
  <2>1. Top(r) \in T /\ Top(r) \in Tasks /\ u \in Tasks /\ Earliest(T) \in Tasks
    BY <1>1, <1>2, <1>3, <1>4, <1>6 DEF T
  <2>2. u = Top(r) \/ Before(Top(r), u)
    BY <1>1, <1>3
  <2>3. Top(r) = Earliest(T) \/ Before(Earliest(T), Top(r))
    BY <1>6, <2>1
  <2>4. \A a \in Tasks : a.time \in Nat /\ a.order \in Nat
    BY BoundsAssumption DEF Tasks, Time
  <2>5. \A a, b, c \in Tasks : Before(a, b) /\ Before(b, c) => Before(a, c)
    BY <2>4 DEF Before
  <2>. QED BY <2>1, <2>2, <2>3, <2>5
<1>. QED BY <1>4, <1>6, <1>7, <1>8, <1>9

-----------------------------------------------------------------------------
(* Types, and tasks that are never duplicated *)

\* What NextWakeTime returns is an instant.
LEMMA NextWakeTimeTyped ==
    TableOK /\ TasksDistinct =>
        \A q \in Queues : HasPendingTasks(q) => NextWakeTime(q) \in Time
BY PeekFindsEarliest DEF NextWakeTime, Tasks

\* Whatever a step does to the table, its new timers are times of tasks.
LEMMA TimersTyped ==
    ASSUME wake \in [Queues -> Time \cup {Disarmed}],
           TableOK', TasksDistinct', NEW Q, WakeIfPending(Q)
    PROVE  wake' \in [Queues -> Time \cup {Disarmed}]
<1>1. (TableOK /\ TasksDistinct =>
          \A q \in Queues : HasPendingTasks(q) => NextWakeTime(q) \in Time)'
  BY NextWakeTimeTyped, PTL
<1>. QED BY <1>1 DEF WakeIfPending

LEMMA InitInv == TQInit => Inv
BY DEF TQInit, InitWith, Inv, TypeOK, TasksDistinct, Held, Time, Disarmed

\* A step that only removes tasks, or leaves them alone, keeps them distinct.
LEMMA RemovalKeepsDistinct ==
    ASSUME TasksDistinct, order_' = order_,
           \A q \in Queues : primary'[q] \subseteq primary[q] /\
                             secondary'[q] \subseteq secondary[q]
    PROVE  TasksDistinct'
BY DEF TasksDistinct, Held

LEMMA RegisterKeepsInv ==
    ASSUME Inv, NEW q \in Queues, NEW c \in Closures, NEW t \in Time, NEW g \in Grades,
           RegisterTask(q, c, t, g)
    PROVE  Inv'
<1>. DEFINE task == [order |-> order_, closure |-> c, time |-> t, grade |-> g]
<1>1. TypeOK /\ TasksDistinct
  BY DEF Inv
<1>2. task \in Tasks /\ task.order = order_
  BY <1>1 DEF Tasks, TypeOK
<1>3. TableOK'
  BY <1>1, <1>2 DEF TypeOK, TableOK, RegisterTask
<1>4. /\ order_' = order_ + 1
      /\ \A r \in Queues : r # q => primary'[r] = primary[r] /\ secondary'[r] = secondary[r]
      /\ \/ /\ g = "kDartEventLoop" /\ primary'[q] = primary[q]
            /\ secondary'[q] = secondary[q] \cup {task}
         \/ /\ g # "kDartEventLoop" /\ primary'[q] = primary[q] \cup {task}
            /\ secondary'[q] = secondary[q]
  BY <1>1 DEF RegisterTask, TypeOK
<1>5. \A r \in Queues : Held(r)' = IF r = q THEN Held(r) \cup {task} ELSE Held(r)
  BY <1>4 DEF Held
<1>6. \A r \in Queues : \A u \in Held(r) : u.order < order_ /\ u.order \in Nat
  <2>1. \A r \in Queues : Held(r) \subseteq Tasks
    BY <1>1 DEF TypeOK, Held
  <2>. QED BY <2>1, <1>1 DEF TasksDistinct, Tasks
<1>7. TasksDistinct'
  <2>1. \A r \in Queues : \A u \in Held(r)' : u.order < order_'
    BY <1>1, <1>2, <1>4, <1>5, <1>6 DEF TypeOK
  <2>2. ASSUME NEW r \in Queues, NEW s \in Queues, NEW u \in Held(r)', NEW v \in Held(s)',
               u.order = v.order
        PROVE  r = s /\ u = v
    <3>1. CASE u \in Held(r) /\ v \in Held(s)
      BY <1>1, <2>2, <3>1 DEF TasksDistinct
    <3>2. CASE u = task /\ r = q /\ v = task /\ s = q
      BY <3>2
    <3>3. CASE u = task /\ r = q /\ v \in Held(s)
      BY <1>2, <1>6, <2>2, <3>3
    <3>4. CASE u \in Held(r) /\ v = task /\ s = q
      BY <1>2, <1>6, <2>2, <3>4
    <3>. QED BY <1>5, <2>2, <3>1, <3>2, <3>3, <3>4
  <2>3. task.grade = g
    OBVIOUS
  <2>4. /\ \A r \in Queues : \A u \in primary'[r] : u.grade # "kDartEventLoop"
        /\ \A r \in Queues : \A u \in secondary'[r] : u.grade = "kDartEventLoop"
    BY <1>1, <1>4, <2>3 DEF TasksDistinct
  <2>. QED BY <2>1, <2>2, <2>4 DEF TasksDistinct
<1>8. wake' \in [Queues -> Time \cup {Disarmed}]
  <2>1. \E Q : WakeIfPending(Q)
    BY DEF RegisterTask
  <2>. QED BY <1>1, <1>3, <1>7, <2>1, TimersTyped DEF TypeOK
<1>. QED BY <1>3, <1>7, <1>8 DEF Inv, TypeOK, TableOK

\* Every step keeps the types, and keeps every task in one heap.
LEMMA StepInv == Inv /\ [TQNext]_qvars => Inv'
<1>. SUFFICES ASSUME Inv, [TQNext]_qvars PROVE Inv'
  OBVIOUS
<1>1. TypeOK /\ TasksDistinct
  BY DEF Inv
<1>2. TableOK
  BY <1>1 DEF TypeOK, TableOK
<1>3. \A q \in Queues : HasPendingTasks(q) => NextWakeTime(q) \in Time
  BY <1>1, <1>2, NextWakeTimeTyped
<1>4. CASE Lifecycle
  <2>1. PICK q \in Queues : CreateTaskQueue(q) \/ Dispose(q) \/ DisposeTasks(q)
    BY <1>4 DEF Lifecycle
  <2>2. CASE CreateTaskQueue(q)
    <3>1. TypeOK'
      BY <1>1, <2>2 DEF CreateTaskQueue, TypeOK
    <3>. QED BY <1>1, <2>2, <3>1, RemovalKeepsDistinct DEF CreateTaskQueue, Inv
  <2>3. CASE Dispose(q)
    <3>1. TypeOK'
      BY <1>1, <2>3 DEF Dispose, TypeOK
    <3>2. \A r \in Queues : primary'[r] \subseteq primary[r] /\
                            secondary'[r] \subseteq secondary[r]
      BY <1>1, <2>3 DEF Dispose, TypeOK
    <3>. QED BY <1>1, <2>3, <3>1, <3>2, RemovalKeepsDistinct DEF Dispose, Inv
  <2>4. CASE DisposeTasks(q)
    <3>1. TypeOK'
      BY <1>1, <2>4 DEF DisposeTasks, TypeOK
    <3>2. \A r \in Queues : primary'[r] \subseteq primary[r] /\
                            secondary'[r] \subseteq secondary[r]
      BY <1>1, <2>4 DEF DisposeTasks, TypeOK
    <3>. QED BY <1>1, <2>4, <3>1, <3>2, RemovalKeepsDistinct DEF DisposeTasks, Inv
  <2>. QED BY <2>1, <2>2, <2>3, <2>4
<1>5. CASE Tasking
  <2>1. PICK q \in Queues :
           \/ \E c \in Closures, t \in Time, g \in Grades : RegisterTask(q, c, t, g)
           \/ \E from_time \in Time :
                 \/ NotDueYet(q, from_time)
                 \/ \E r \in Serviced(q) : \E task \in Visible(r) :
                       TakeTask(q, from_time, r, task)
                 \/ DrainTimer(q, from_time)
    BY <1>5 DEF Tasking
  <2>2. ASSUME NEW c \in Closures, NEW t \in Time, NEW g \in Grades,
               RegisterTask(q, c, t, g)
        PROVE  Inv'
    BY <2>2, RegisterKeepsInv
  <2>3. ASSUME NEW from_time \in Time, NotDueYet(q, from_time) PROVE Inv'
    <3>1. TypeOK'
      BY <1>1, <1>3, <2>3 DEF NotDueYet, TypeOK
    <3>. QED BY <1>1, <2>3, <3>1, RemovalKeepsDistinct DEF NotDueYet, Inv
  <2>4. ASSUME NEW from_time \in Time, NEW r \in Serviced(q), NEW task \in Visible(r),
               TakeTask(q, from_time, r, task)
        PROVE  Inv'
    <3>1. r \in Queues
      BY <1>2 DEF Serviced, TableOK
    <3>2. TypeOK'
      BY <1>1, <1>3, <2>4, <3>1 DEF TakeTask, TypeOK
    <3>3. \A s \in Queues : primary'[s] \subseteq primary[s] /\
                            secondary'[s] \subseteq secondary[s]
      BY <1>1, <2>4, <3>1 DEF TakeTask, TypeOK
    <3>. QED BY <1>1, <2>4, <3>2, <3>3, RemovalKeepsDistinct DEF TakeTask, Inv
  <2>5. ASSUME NEW from_time \in Time, DrainTimer(q, from_time) PROVE Inv'
    <3>1. TypeOK'
      BY <1>1, <2>5 DEF DrainTimer, TypeOK
    <3>. QED BY <1>1, <2>5, <3>1, RemovalKeepsDistinct DEF DrainTimer, Inv
  <2>. QED BY <2>1, <2>2, <2>3, <2>4, <2>5
<1>6. CASE Observing
  <2>1. TypeOK'
    BY <1>1, <1>6 DEF Observing, AddTaskObserver, RemoveTaskObserver, TypeOK
  <2>. QED BY <1>1, <1>6, <2>1, RemovalKeepsDistinct
           DEF Observing, AddTaskObserver, RemoveTaskObserver, Inv
<1>7. CASE Pausing
  <2>1. PICK q \in Queues : PauseSecondarySource(q) \/ ResumeSecondarySource(q)
    BY <1>7 DEF Pausing
  <2>2. CASE PauseSecondarySource(q)
    <3>1. TypeOK'
      BY <1>1, <2>2 DEF PauseSecondarySource, TypeOK
    <3>. QED BY <1>1, <2>2, <3>1, RemovalKeepsDistinct DEF PauseSecondarySource, Inv
  <2>3. CASE ResumeSecondarySource(q)
    <3>1. TableOK'
      BY <1>2, <2>3 DEF ResumeSecondarySource, TableOK
    <3>2. TasksDistinct'
      BY <1>1, <2>3, RemovalKeepsDistinct DEF ResumeSecondarySource
    <3>3. wake' \in [Queues -> Time \cup {Disarmed}]
      BY <1>1, <2>3, <3>1, <3>2, TimersTyped DEF ResumeSecondarySource, TypeOK
    <3>. QED BY <3>1, <3>2, <3>3 DEF Inv, TypeOK, TableOK
  <2>. QED BY <2>1, <2>2, <2>3
<1>8. CASE Merging
  <2>1. PICK o \in Queues, s \in Queues : Merge(o, s) \/ Unmerge(o, s)
    BY <1>8 DEF Merging
  <2>2. CASE Merge(o, s)
    <3>1. TableOK'
      BY <1>2, <2>2 DEF Merge, TableOK
    <3>2. TasksDistinct'
      BY <1>1, <2>2, RemovalKeepsDistinct DEF Merge
    <3>3. wake' \in [Queues -> Time \cup {Disarmed}]
      BY <1>1, <2>2, <3>1, <3>2, TimersTyped DEF Merge, TypeOK
    <3>. QED BY <3>1, <3>2, <3>3 DEF Inv, TypeOK, TableOK
  <2>3. CASE Unmerge(o, s)
    <3>1. TableOK'
      BY <1>2, <2>3 DEF Unmerge, TableOK
    <3>2. TasksDistinct'
      BY <1>1, <2>3, RemovalKeepsDistinct DEF Unmerge
    <3>3. wake' \in [Queues -> Time \cup {Disarmed}]
      BY <1>1, <2>3, <3>1, <3>2, TimersTyped DEF Unmerge, TypeOK
    <3>. QED BY <3>1, <3>2, <3>3 DEF Inv, TypeOK, TableOK
  <2>. QED BY <2>1, <2>2, <2>3
<1>9. CASE UNCHANGED qvars
  <2>1. TypeOK'
    BY <1>1, <1>9 DEF qvars, TypeOK
  <2>. QED BY <1>1, <1>9, <2>1, RemovalKeepsDistinct DEF qvars, Inv
<1>. QED BY <1>4, <1>5, <1>6, <1>7, <1>8, <1>9 DEF TQNext

\* The table keeps its types, and each registered task sits in at most one heap
\* of one queue under an order of its own, whoever calls the methods and when.
THEOREM TypeCorrect == TQSpec => []TypeOK
<1>1. Inv => TypeOK
  BY DEF Inv
<1>. QED BY InitInv, StepInv, <1>1, PTL DEF TQSpec

THEOREM TasksNeverDuplicated == TQSpec => []TasksDistinct
<1>1. Inv => TasksDistinct
  BY DEF Inv
<1>. QED BY InitInv, StepInv, <1>1, PTL DEF TQSpec

-----------------------------------------------------------------------------
(* Merging *)

LEMMA InitMergeInv == TQInit => MergeInv
BY kUnmergedAssumption
   DEF TQInit, InitWith, MergeInv, MergeRecordsAgree, OwnerNeverSubsumed,
       MergedQueuesLive, live

\* A step that leaves entries and merges alone.
LEMMA UnrelatedKeepsMergeInv ==
    ASSUME MergeInv, UNCHANGED <<entry, owner_of, subsumed_by>>
    PROVE  MergeInv'
BY DEF MergeInv, MergeRecordsAgree, OwnerNeverSubsumed, MergedQueuesLive, live

\* Every step keeps the three facts about merges; none is inductive alone.
LEMMA StepMergeInv == Inv /\ MergeInv /\ [TQNext]_qvars => MergeInv'
<1>. SUFFICES ASSUME Inv, MergeInv, [TQNext]_qvars PROVE MergeInv'
  OBVIOUS
<1>. USE DEF MergeRecordsAgree, OwnerNeverSubsumed, MergedQueuesLive, live
<1>1. /\ entry \in [Queues -> {"none", "live", "erased"}]
      /\ owner_of \in [Queues -> SUBSET Queues]
      /\ subsumed_by \in [Queues -> Queues \cup {kUnmerged}]
  BY DEF Inv, TypeOK
<1>2. ASSUME NEW q \in Queues, CreateTaskQueue(q) PROVE MergeInv'
  BY <1>1, <1>2 DEF CreateTaskQueue, MergeInv
<1>3. ASSUME NEW q \in Queues, Dispose(q) PROVE MergeInv'
  <2>. DEFINE erased == {q} \cup owner_of[q]
  <2>1. /\ entry' = [r \in Queues |-> IF r \in erased THEN "erased" ELSE entry[r]]
        /\ owner_of' = [r \in Queues |-> IF r \in erased THEN {} ELSE owner_of[r]]
        /\ subsumed_by' = [r \in Queues |-> IF r \in erased THEN kUnmerged
                                                            ELSE subsumed_by[r]]
        /\ subsumed_by[q] = kUnmerged
    BY <1>3 DEF Dispose
  <2>2. \A r \in Queues \ erased :
           subsumed_by[r] \notin erased /\ owner_of[r] \cap erased = {}
    <3>1. ASSUME NEW r \in Queues \ erased PROVE subsumed_by[r] \notin erased
      <4>1. subsumed_by[r] # q
        BY <1>1 DEF MergeInv
      <4>2. ASSUME subsumed_by[r] \in owner_of[q] PROVE FALSE
        <5>1. subsumed_by[r] \in Queues /\ r \in owner_of[subsumed_by[r]]
          BY <1>1, <4>2 DEF MergeInv
        <5>2. subsumed_by[subsumed_by[r]] = q
          BY <1>1, <4>2, <5>1 DEF MergeInv
        <5>. QED BY <5>1, <5>2, kUnmergedAssumption DEF MergeInv
      <4>. QED BY <4>1, <4>2
    <3>2. ASSUME NEW r \in Queues \ erased, NEW s \in owner_of[r] PROVE s \notin erased
      <4>1. s \in Queues /\ subsumed_by[s] = r
        BY <1>1, <3>2 DEF MergeInv
      <4>2. s # q
        BY <2>1, <4>1, kUnmergedAssumption
      <4>3. s \notin owner_of[q]
        BY <1>1, <4>1 DEF MergeInv
      <4>. QED BY <4>2, <4>3
    <3>. QED BY <3>1, <3>2
  <2>3. MergeRecordsAgree'
    <3>1. SUFFICES ASSUME NEW o \in Queues, NEW s \in Queues
                   PROVE  s \in owner_of'[o] <=> subsumed_by'[s] = o
      OBVIOUS
    <3>2. CASE o \in erased
      BY <2>1, <2>2, <3>2, kUnmergedAssumption
    <3>3. CASE o \notin erased
      BY <1>1, <2>1, <2>2, <3>3, kUnmergedAssumption DEF MergeInv
    <3>. QED BY <3>2, <3>3
  <2>4. OwnerNeverSubsumed'
    BY <2>1 DEF MergeInv
  <2>5. MergedQueuesLive'
    BY <1>1, <2>1, <2>2 DEF MergeInv
  <2>. QED BY <2>3, <2>4, <2>5 DEF MergeInv
<1>4. ASSUME NEW o \in Queues, NEW s \in Queues, Merge(o, s) PROVE MergeInv'
  <2>1. /\ o # s /\ {o, s} \subseteq live
        /\ subsumed_by[o] = kUnmerged /\ subsumed_by[s] = kUnmerged
        /\ owner_of[s] = {}
        /\ owner_of' = [owner_of EXCEPT ![o] = @ \cup {s}]
        /\ subsumed_by' = [subsumed_by EXCEPT ![s] = o]
        /\ entry' = entry
    BY <1>4 DEF Merge, MergeSucceeds
  <2>. QED BY <1>1, <2>1, kUnmergedAssumption DEF MergeInv
<1>5. ASSUME NEW o \in Queues, NEW s \in Queues, Unmerge(o, s) PROVE MergeInv'
  <2>1. /\ s \in owner_of[o]
        /\ owner_of' = [owner_of EXCEPT ![o] = @ \ {s}]
        /\ subsumed_by' = [subsumed_by EXCEPT ![s] = kUnmerged]
        /\ entry' = entry
    BY <1>5 DEF Unmerge, UnmergeSucceeds
  <2>. QED BY <1>1, <2>1, kUnmergedAssumption DEF MergeInv
<1>6. ASSUME UNCHANGED <<entry, owner_of, subsumed_by>> PROVE MergeInv'
  BY <1>6, UnrelatedKeepsMergeInv
<1>7. CASE Lifecycle
  <2>1. ASSUME NEW q \in Queues, DisposeTasks(q)
        PROVE  UNCHANGED <<entry, owner_of, subsumed_by>>
    BY <2>1 DEF DisposeTasks
  <2>. QED BY <1>2, <1>3, <1>6, <1>7, <2>1 DEF Lifecycle
<1>8. CASE Tasking
  <2>1. UNCHANGED <<entry, owner_of, subsumed_by>>
    BY <1>8 DEF Tasking, RegisterTask, NotDueYet, TakeTask, DrainTimer
  <2>. QED BY <1>6, <2>1
<1>9. CASE Observing
  BY <1>6, <1>9 DEF Observing, AddTaskObserver, RemoveTaskObserver
<1>10. CASE Pausing
  BY <1>6, <1>10 DEF Pausing, PauseSecondarySource, ResumeSecondarySource
<1>11. CASE Merging
  BY <1>4, <1>5, <1>11 DEF Merging
<1>12. CASE UNCHANGED qvars
  BY <1>6, <1>12 DEF qvars
<1>. QED BY <1>7, <1>8, <1>9, <1>10, <1>11, <1>12 DEF TQNext

LEMMA MergeInvAlways == TQSpec => [](Inv /\ MergeInv)
BY InitInv, StepInv, InitMergeInv, StepMergeInv, PTL DEF TQSpec

\* subsumed_by and owner_of agree in every reachable state.
THEOREM MergeRecordsAlwaysAgree == TQSpec => []MergeRecordsAgree
<1>1. MergeInv => MergeRecordsAgree
  BY DEF MergeInv
<1>. QED BY MergeInvAlways, <1>1, PTL

\* A queue is an owner, or subsumed, or neither (message_loop_task_queues.h
\* lines 105-111), for any number of queues.
THEOREM OwnersAreNeverSubsumed == TQSpec => []OwnerNeverSubsumed
<1>1. MergeInv => OwnerNeverSubsumed
  BY DEF MergeInv
<1>. QED BY MergeInvAlways, <1>1, PTL

\* Disposing of queues never leaves a merge with an erased queue behind.
THEOREM MergesAreOfLiveQueues == TQSpec => []MergedQueuesLive
<1>1. MergeInv => MergedQueuesLive
  BY DEF MergeInv
<1>. QED BY MergeInvAlways, <1>1, PTL

\* Each live queue is serviced by exactly one loop.
THEOREM ExactlyOneServicer == TQSpec => []OneServicer
<1>1. Inv /\ MergeInv => OneServicer
  <2>. SUFFICES ASSUME Inv, MergeInv, NEW r \in live
                PROVE  \E q \in live : {o \in Queues : r \in Serviced(o)} = {q}
    BY DEF OneServicer
  <2>1. /\ owner_of \in [Queues -> SUBSET Queues]
        /\ subsumed_by \in [Queues -> Queues \cup {kUnmerged}]
        /\ r \in Queues
    BY DEF Inv, TypeOK, live
  <2>2. CASE subsumed_by[r] = kUnmerged
    <3>1. \A o \in Queues : r \in Serviced(o) <=> o = r
      BY <2>1, <2>2, kUnmergedAssumption DEF Serviced, MergeInv, MergeRecordsAgree
    <3>. QED BY <2>1, <3>1
  <2>3. CASE subsumed_by[r] # kUnmerged
    <3>. DEFINE p == subsumed_by[r]
    <3>1. p \in Queues /\ p \in live
      BY <2>1, <2>3 DEF MergeInv, MergedQueuesLive, live
    <3>2. r \in owner_of[p] /\ subsumed_by[p] = kUnmerged
      BY <2>1, <3>1 DEF MergeInv, MergeRecordsAgree, OwnerNeverSubsumed
    <3>3. \A o \in Queues : r \in Serviced(o) <=> o = p
      BY <2>1, <2>3, <3>1, <3>2 DEF Serviced, MergeInv, MergeRecordsAgree
    <3>. QED BY <3>1, <3>3
  <2>. QED BY <2>2, <2>3
<1>. QED BY MergeInvAlways, <1>1, PTL

=============================================================================
