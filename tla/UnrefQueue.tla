----------------------------- MODULE UnrefQueue -----------------------------
(***************************************************************************)
(* flutter::UnrefQueue: Skia objects that any thread gives up are released *)
(* on the IO thread, in batches, some time later.                          *)
(*                                                                         *)
(* With Impeller, drain_immediate_ bypasses the queue altogether.          *)
(*                                                                         *)
(* The queue is counted by reference: its owners are the IO manager, every *)
(* SkiaGPUObject that has not been reset, and every posted drain.  The     *)
(* last one of them runs the destructor, on whatever thread it is.  The IO *)
(* loop may end, as in MessageLoops: what it holds is then destroyed on    *)
(* the IO thread, and what is posted later on the thread that posts.       *)
(***************************************************************************)
EXTENDS Naturals, FiniteSets

CONSTANTS GpuObjects    \* the Skia objects

VARIABLES
    object,         \* object[o]: "live", "resetting" (given up, its SkiaGPUObject
                    \* still refers to the queue) or "reset"
    objects_,       \* the objects in the queue
    drain_pending_,
    ioManager,      \* the IO manager exists
    drains,         \* how many posted drains wait in the IO loop
    ioLoop,         \* the IO loop: "open", or "closed" after its end
    ioStep,         \* the IO thread: "idle", "drain" in a posted drain, "managerDrain"
    taken,          \* the objects that a drain has swapped out
    context,        \* context_: "held", "posted" by the destructor, "released", or
                    \* "leaked" with a task that the closed loop refuses
    orphans,        \* the objects that the destructor hands to its task
    unrefs          \* unrefs[o]: how often o was released by the queue

unrefVars == <<object, objects_, drain_pending_, ioManager, drains, ioLoop, ioStep,
               taken, context, orphans, unrefs>>

UnrefTypeOK ==
    /\ object \in [GpuObjects -> {"live", "resetting", "reset"}]
    /\ objects_ \subseteq GpuObjects
    /\ drain_pending_ \in BOOLEAN
    /\ ioManager \in BOOLEAN
    /\ drains \in Nat
    /\ ioLoop \in {"open", "closed"}
    /\ ioStep \in {"idle", "drain", "managerDrain"}
    /\ taken \subseteq GpuObjects
    /\ context \in {"held", "posted", "released", "leaked"}
    /\ orphans \subseteq GpuObjects
    /\ unrefs \in [GpuObjects -> Nat]

UnrefInit ==
    /\ object = [o \in GpuObjects |-> "live"]
    /\ objects_ = {}
    /\ drain_pending_ = FALSE
    /\ ioManager = TRUE
    /\ drains = 0
    /\ ioLoop = "open"
    /\ ioStep = "idle"
    /\ taken = {}
    /\ context = "held"
    /\ orphans = {}
    /\ unrefs = [o \in GpuObjects |-> 0]

-----------------------------------------------------------------------------
(* Any thread *)

\* Under mutex_ the object is queued and a drain posted, unless one is pending; a
\* loop that has ended destroys the drain, and the flag stays.
Unref(o) ==
    /\ object[o] = "live"
    /\ object' = [object EXCEPT ![o] = "resetting"]
    /\ objects_' = objects_ \cup {o}
    /\ drain_pending_' = TRUE
    /\ drains' = IF drain_pending_ \/ ioLoop = "closed" THEN drains ELSE drains + 1
    /\ UNCHANGED <<ioManager, ioLoop, ioStep, taken, context, orphans, unrefs>>

\* References to the queue besides the one that is being dropped.
Owned(objs, manager, n) ==
    manager \/ n > 0 \/ \E o \in GpuObjects : objs[o] # "reset"

\* ~UnrefQueue on another thread posts the rest of the queue and the context.
DestroyElsewhere ==
    /\ orphans' = objects_
    /\ objects_' = {}
    /\ context' = IF ioLoop = "open" THEN "posted" ELSE "leaked"

\* The SkiaGPUObject lets go of the queue.
DropQueue(o) ==
    /\ object[o] = "resetting"
    /\ object' = [object EXCEPT ![o] = "reset"]
    /\ IF Owned(object', ioManager, drains) \/ ioStep # "idle"
       THEN UNCHANGED <<objects_, context, orphans>>
       ELSE DestroyElsewhere
    /\ UNCHANGED <<drain_pending_, ioManager, drains, ioLoop, ioStep, taken, unrefs>>

-----------------------------------------------------------------------------
(* The IO thread *)

IoIdle == ioLoop = "open" /\ ioStep = "idle"

Released(S) == unrefs' = [o \in GpuObjects |-> IF o \in S THEN unrefs[o] + 1 ELSE unrefs[o]]

\* Mutant: the queue is copied, not swapped.
SwapOut_Mutation(step) ==
    /\ taken' = objects_
    /\ UNCHANGED objects_
    /\ drain_pending_' = FALSE
    /\ ioStep' = step

\* Mutant: the flag is not reset.
SwapOut_Mutation2(step) ==
    /\ taken' = objects_
    /\ objects_' = {}
    /\ UNCHANGED drain_pending_
    /\ ioStep' = step

\* Drain swaps the queue out under mutex_.
SwapOut(step) ==
    /\ taken' = objects_
    /\ objects_' = {}
    /\ drain_pending_' = FALSE
    /\ ioStep' = step

\* A posted drain; its closure, and the reference it holds, live until it ends.
BeginDrain ==
    /\ IoIdle
    /\ drains > 0
    /\ SwapOut("drain")
    /\ drains' = drains - 1
    /\ UNCHANGED <<object, ioManager, ioLoop, context, orphans, unrefs>>

\* A drain that the shell asks for: as the GPU is made unavailable, as the platform
\* view is destroyed, and in the destructor of the IO manager.
BeginManagerDrain ==
    /\ IoIdle
    /\ ioManager
    /\ SwapOut("managerDrain")
    /\ UNCHANGED <<object, ioManager, drains, ioLoop, context, orphans, unrefs>>

\* A drain releases what it took.  The closure of a posted drain then goes away,
\* with the queue if nobody else refers to it.
EndDrain ==
    /\ ioStep # "idle"
    /\ taken' = {}
    /\ ioStep' = "idle"
    /\ IF ioStep = "managerDrain" \/ Owned(object, ioManager, drains)
       THEN Released(taken) /\ UNCHANGED <<objects_, context>>
       ELSE /\ Released(taken \cup objects_)
            /\ objects_' = {}
            /\ context' = "released"
    /\ UNCHANGED <<object, drain_pending_, ioManager, drains, ioLoop, orphans>>

\* The IO manager goes, in a task of the shell's destructor.
DropManager ==
    /\ IoIdle
    /\ ioManager
    /\ ioManager' = FALSE
    /\ IF Owned(object, FALSE, drains)
       THEN UNCHANGED <<objects_, context, unrefs>>
       ELSE Released(objects_) /\ objects_' = {} /\ context' = "released"
    /\ UNCHANGED <<object, drain_pending_, drains, ioLoop, ioStep, taken, orphans>>

\* The task of the destructor.
ReleaseContext ==
    /\ IoIdle
    /\ context = "posted"
    /\ Released(orphans)
    /\ orphans' = {}
    /\ context' = "released"
    /\ UNCHANGED <<object, objects_, drain_pending_, ioManager, drains, ioLoop, ioStep, taken>>

\* The IO loop ends, after the IO manager has gone, and destroys its tasks: the drains
\* let go of the queue, on the IO thread.  The task of a destructor is lost.
EndLoop ==
    /\ IoIdle
    /\ ~ ioManager
    /\ ioLoop' = "closed"
    /\ drains' = 0
    /\ IF drains > 0 /\ ~ Owned(object, FALSE, 0)
       THEN Released(objects_) /\ objects_' = {} /\ context' = "released"
       ELSE /\ context' = IF context = "posted" THEN "leaked" ELSE context
            /\ UNCHANGED <<objects_, unrefs>>
    /\ UNCHANGED <<object, drain_pending_, ioManager, ioStep, taken, orphans>>

IoStep == BeginDrain \/ EndDrain \/ ReleaseContext

UnrefNext ==
    \/ \E o \in GpuObjects : Unref(o) \/ DropQueue(o)
    \/ IoStep
    \/ BeginManagerDrain
    \/ DropManager
    \/ EndLoop

\* The IO loop runs its tasks, and a thread that gives an object up goes on.
UnrefFairness ==
    /\ WF_unrefVars(IoStep)
    /\ \A o \in GpuObjects : WF_unrefVars(DropQueue(o))

UnrefSpec == UnrefInit /\ [][UnrefNext]_unrefVars

-----------------------------------------------------------------------------
(* Properties *)

\* Wherever a drain is between its post and its swap, and whoever drains meanwhile,
\* the queue is not left without one: as long as the loop is open, objects wait only
\* while a posted drain will find them (skia_gpu_object.h:36-41, 70-73).
QueuedHasDrain == objects_ # {} /\ ioLoop = "open" => drain_pending_ /\ drains > 0

\* An object is released once, by the drain that took it or by the destructor, and
\* never while somebody holds it or it still waits (skia_gpu_object.h:63-80, 110-139).
ReleasedOnce ==
    \A o \in GpuObjects :
        /\ unrefs[o] <= 1
        /\ unrefs[o] = 1 => object[o] # "live" /\ o \notin objects_ \cup taken \cup orphans
=============================================================================
