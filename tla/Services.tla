------------------------------ MODULE Services ------------------------------
(***************************************************************************)
(* The sum of the components that do not share state: every behaviour is   *)
(* one of a single component, chosen at the start, and the others rest.    *)
(* It lets TLC check all of them at once; what it checks of each is what   *)
(* the component's own specification allows.                               *)
(***************************************************************************)
EXTENDS ConcurrentLoop, FenceWaiter, GestureArena, GpuAccess, PointerDispatch, Shell,
        UnrefQueue, WindowResize

VARIABLE service    \* the component that moves

vars == <<poolVars, fenceVars, arenaVars, gpuVars, pointerVars, shellVars, unrefVars,
          resizeVars, service>>

butPool == <<fenceVars, arenaVars, gpuVars, pointerVars, shellVars, unrefVars, resizeVars, service>>
butFence == <<poolVars, arenaVars, gpuVars, pointerVars, shellVars, unrefVars, resizeVars, service>>
butArena == <<poolVars, fenceVars, gpuVars, pointerVars, shellVars, unrefVars, resizeVars, service>>
butGpu == <<poolVars, fenceVars, arenaVars, pointerVars, shellVars, unrefVars, resizeVars, service>>
butPointer == <<poolVars, fenceVars, arenaVars, gpuVars, shellVars, unrefVars, resizeVars, service>>
butShell == <<poolVars, fenceVars, arenaVars, gpuVars, pointerVars, unrefVars, resizeVars, service>>
butUnref == <<poolVars, fenceVars, arenaVars, gpuVars, pointerVars, shellVars, resizeVars, service>>
butResize == <<poolVars, fenceVars, arenaVars, gpuVars, pointerVars, shellVars, unrefVars, service>>

\* A component that may start in several states does so when it is the one that moves.
Init ==
    /\ service \in {"pool", "fence", "arena", "gpu", "pointer", "shell", "unref", "resize"}
    /\ PoolInit
    /\ FenceInit
    /\ ArenaInit
    /\ GpuInit /\ (service # "gpu" => ~ value_)
    /\ PointerInit
    /\ ShellInit /\ (service # "shell" => thread = Separate /\ ~ mergeLaunch)
    /\ UnrefInit
    /\ ResizeInit
    /\ service # "resize" =>
           window = (CHOOSE s \in Sizes : ~ IsZero(s)) /\ surface_ = window

Next ==
    \/ service = "pool" /\ PoolNext /\ UNCHANGED butPool
    \/ service = "fence" /\ FenceNext /\ UNCHANGED butFence
    \/ service = "arena" /\ ArenaNext /\ UNCHANGED butArena
    \/ service = "gpu" /\ GpuNext /\ UNCHANGED butGpu
    \/ service = "pointer" /\ PointerNext /\ UNCHANGED butPointer
    \/ service = "shell" /\ ShellNext /\ UNCHANGED butShell
    \/ service = "unref" /\ UnrefNext /\ UNCHANGED butUnref
    \/ service = "resize" /\ ResizeNext /\ UNCHANGED butResize

Spec == Init /\ [][Next]_vars

\* The fairness of the component that moves, for those with a liveness property.
Fairness ==
    /\ \A t \in PoolThreads : WF_poolVars(service = "pool" /\ PostStep(t))
    /\ \A w \in Workers : WF_poolVars(service = "pool" /\ WorkerStep(w))
    /\ WF_poolVars(service = "pool" /\ (BeginDestroy \/ EndDestroy))
    /\ WF_fenceVars(service = "fence" /\ WaiterStep)
    /\ WF_fenceVars(service = "fence" /\ ManagerStep)
    /\ \A k \in Submissions : WF_fenceVars(service = "fence" /\ SubmitterStep(k))
    /\ WF_pointerVars(service = "pointer" /\ UiTask)
    /\ WF_pointerVars(service = "pointer" /\ FireSecondaryCallback)
    /\ \A t \in Runners : WF_shellVars(service = "shell" /\ ThreadStep(t))

FairSpec == Spec /\ Fairness
=============================================================================
