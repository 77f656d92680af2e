----------------------------- MODULE FenceWaiter -----------------------------
(***************************************************************************)
(* The clean-up after GPU work in Impeller's Vulkan backend.  CommandQueue *)
(* submits command buffers with a fence; the FenceWaiterVK thread waits    *)
(* for the fences and then destroys what the buffers refer to, which the   *)
(* ResourceManagerVK thread does in the end.  ContextVK::Shutdown ends     *)
(* both threads.                                                           *)
(*                                                                         *)
(* A submission stands for its fence, its callback and its tracked         *)
(* resource.  A device may be lost; the waiter's thread then leaves.       *)
(***************************************************************************)

CONSTANTS Submissions       \* the submissions, each of a thread of its own

VARIABLES
    submission,     \* submission[k]: "new", "submitted" to the GPU, "accepted" by the
                    \* waiter, "refused" by it, "reclaiming" on the submitter's
                    \* thread, or "over" there
    signalled,      \* the submissions whose fence has been signalled
    deviceLost,
    wait_set_, terminate_,
    waiterStep,     \* FenceWaiterVK's thread: "test", "sleep", "wait", "poll", "erase"
                    \* or "left"
    draining,       \* it is in WaitUntilEmpty
    waitSet,        \* its snapshot of wait_set_
    erased_entries, \* the entries it is about to destroy
    reclaimables_, should_exit_,
    managerStep,    \* ResourceManagerVK's thread: "test", "sleep", "collect" or "left"
    exiting,        \* the should_exit_ that it has read
    resources_to_collect,
    manager,        \* the manager: "alive", "exiting" in its destructor, or "dead"
    shutdown,       \* ContextVK::Shutdown: "none", "terminated" the waiter, "reset" the
                    \* manager, or "done"
    reclaimed       \* the submissions whose resource has been destroyed

waiterVars == <<wait_set_, terminate_, waiterStep, draining, waitSet, erased_entries>>
managerVars == <<reclaimables_, should_exit_, managerStep, exiting, resources_to_collect,
                 manager>>
gpuWorkVars == <<signalled, deviceLost>>
fenceVars == <<submission, gpuWorkVars, waiterVars, managerVars, shutdown, reclaimed>>

FenceInit ==
    /\ submission = [k \in Submissions |-> "new"]
    /\ signalled = {} /\ deviceLost = FALSE
    /\ wait_set_ = {} /\ terminate_ = FALSE
    /\ waiterStep = "test" /\ draining = FALSE
    /\ waitSet = {} /\ erased_entries = {}
    /\ reclaimables_ = {} /\ should_exit_ = FALSE
    /\ managerStep = "test" /\ exiting = FALSE
    /\ resources_to_collect = {}
    /\ manager = "alive"
    /\ shutdown = "none"
    /\ reclaimed = {}

SubmissionGoes(k, to) == submission' = [submission EXCEPT ![k] = to]

Woken(step) == IF step = "sleep" THEN "test" ELSE step

-----------------------------------------------------------------------------
(* CommandQueueVK::Submit, and the GPU *)

Submit(k) ==
    /\ submission[k] = "new"
    /\ ~ deviceLost
    /\ SubmissionGoes(k, "submitted")
    /\ UNCHANGED <<gpuWorkVars, waiterVars, managerVars, shutdown, reclaimed>>

\* The GPU has done the work.
SignalFence(k) ==
    /\ submission[k] # "new" /\ k \notin signalled
    /\ ~ deviceLost
    /\ signalled' = signalled \cup {k}
    /\ UNCHANGED <<submission, deviceLost, waiterVars, managerVars, shutdown, reclaimed>>

LoseDevice ==
    /\ ~ deviceLost
    /\ deviceLost' = TRUE
    /\ UNCHANGED <<submission, signalled, waiterVars, managerVars, shutdown, reclaimed>>

\* Mutant: the waiter is not woken.
AddFence_Mutation(k) ==
    /\ submission[k] = "submitted"
    /\ SubmissionGoes(k, IF terminate_ THEN "refused" ELSE "accepted")
    /\ wait_set_' = IF terminate_ THEN wait_set_ ELSE wait_set_ \cup {k}
    /\ UNCHANGED <<terminate_, waiterStep, draining, waitSet, erased_entries, gpuWorkVars,
                   managerVars, shutdown, reclaimed>>

\* A waiter that was terminated refuses the fence.
AddFence(k) ==
    /\ submission[k] = "submitted"
    /\ IF terminate_
       THEN SubmissionGoes(k, "refused") /\ UNCHANGED waiterVars
       ELSE /\ SubmissionGoes(k, "accepted")
            /\ wait_set_' = wait_set_ \cup {k}
            /\ waiterStep' = Woken(waiterStep)
            /\ UNCHANGED <<terminate_, draining, waitSet, erased_entries>>
    /\ UNCHANGED <<gpuWorkVars, managerVars, shutdown, reclaimed>>

-----------------------------------------------------------------------------
(* FenceWaiterVK *)

\* Main waits for a fence, or for its termination.
TestWaitSet ==
    /\ waiterStep = "test"
    /\ waiterStep' = IF terminate_ \/ wait_set_ # {} THEN "wait" ELSE "sleep"
    /\ draining' = terminate_
    /\ UNCHANGED <<submission, gpuWorkVars, wait_set_, terminate_, waitSet, erased_entries,
                   managerVars, shutdown, reclaimed>>

\* Wait copies the set; WaitUntilEmpty ends with an empty one.
SnapshotWaitSet ==
    /\ waiterStep = "wait"
    /\ waitSet' = wait_set_
    /\ waiterStep' = IF wait_set_ # {} THEN "poll" ELSE IF draining THEN "left" ELSE "test"
    /\ UNCHANGED <<submission, gpuWorkVars, wait_set_, terminate_, draining, erased_entries,
                   managerVars, shutdown, reclaimed>>

\* Mutant: all fences of the snapshot count as signalled.
PollFences_Mutation ==
    /\ waiterStep = "poll"
    /\ erased_entries' = IF deviceLost THEN {} ELSE waitSet
    /\ wait_set_' = wait_set_ \ erased_entries'
    /\ waitSet' = {}
    /\ waiterStep' = IF deviceLost THEN "left" ELSE "erase"
    /\ UNCHANGED <<submission, gpuWorkVars, terminate_, draining, managerVars, shutdown,
                   reclaimed>>

\* waitForFences returns for a fence, by its timeout or with an error; the entries
\* whose fence is signalled are taken out of the set.
PollFences ==
    /\ waiterStep = "poll"
    /\ erased_entries' = IF deviceLost THEN {} ELSE waitSet \cap signalled
    /\ wait_set_' = wait_set_ \ erased_entries'
    /\ waitSet' = {}
    /\ waiterStep' = IF deviceLost THEN "left" ELSE "erase"
    /\ UNCHANGED <<submission, gpuWorkVars, terminate_, draining, managerVars, shutdown,
                   reclaimed>>

\* The resources of S go to the manager, as long as there is one, or are destroyed.
Reclaim(S) ==
    IF manager = "alive"
    THEN /\ reclaimables_' = reclaimables_ \cup S
         /\ managerStep' = Woken(managerStep)
         /\ UNCHANGED reclaimed
    ELSE reclaimed' = reclaimed \cup S /\ UNCHANGED <<reclaimables_, managerStep>>

\* The entries' callbacks are called, on this thread, and let go of the resources.
ClearErasedEntries ==
    /\ waiterStep = "erase"
    /\ Reclaim(erased_entries)
    /\ erased_entries' = {}
    /\ waiterStep' = IF draining THEN "wait" ELSE "test"
    /\ UNCHANGED <<submission, gpuWorkVars, wait_set_, terminate_, draining, waitSet,
                   should_exit_, exiting, resources_to_collect, manager, shutdown>>

-----------------------------------------------------------------------------
(* ResourceManagerVK *)

\* Start takes what there is, and reads should_exit_, under the mutex.
CollectReclaimables ==
    /\ managerStep = "test"
    /\ IF reclaimables_ = {} /\ ~ should_exit_
       THEN managerStep' = "sleep" /\ UNCHANGED <<resources_to_collect, reclaimables_, exiting>>
       ELSE /\ resources_to_collect' = reclaimables_
            /\ reclaimables_' = {}
            /\ exiting' = should_exit_
            /\ managerStep' = "collect"
    /\ UNCHANGED <<submission, gpuWorkVars, waiterVars, should_exit_, manager, shutdown, reclaimed>>

ClearResources ==
    /\ managerStep = "collect"
    /\ reclaimed' = reclaimed \cup resources_to_collect
    /\ resources_to_collect' = {}
    /\ managerStep' = IF exiting THEN "left" ELSE "test"
    /\ UNCHANGED <<submission, gpuWorkVars, waiterVars, reclaimables_, should_exit_, exiting,
                   manager, shutdown>>

\* The destructor, with nobody left who refers to the manager, joins its thread.
BeginExit ==
    /\ manager = "alive"
    /\ shutdown = "reset"
    /\ \A k \in Submissions : submission[k] # "reclaiming"
    /\ manager' = "exiting"
    /\ should_exit_' = TRUE
    /\ managerStep' = Woken(managerStep)
    /\ UNCHANGED <<submission, gpuWorkVars, waiterVars, reclaimables_, exiting,
                   resources_to_collect, shutdown, reclaimed>>

JoinManager ==
    /\ manager = "exiting"
    /\ managerStep = "left"
    /\ manager' = "dead"
    /\ UNCHANGED <<submission, gpuWorkVars, waiterVars, reclaimables_, should_exit_, managerStep,
                   exiting, resources_to_collect, shutdown, reclaimed>>

-----------------------------------------------------------------------------
(* Submitters that were refused, and the shutdown *)

\* The callback goes away on the submitter's thread, which locks the manager, unless
\* nobody refers to it any more.
LockManager(k) ==
    /\ submission[k] = "refused"
    /\ IF manager = "alive"
       THEN SubmissionGoes(k, "reclaiming") /\ UNCHANGED reclaimed
       ELSE SubmissionGoes(k, "over") /\ reclaimed' = reclaimed \cup {k}
    /\ UNCHANGED <<gpuWorkVars, waiterVars, managerVars, shutdown>>

ReclaimRefused(k) ==
    /\ submission[k] = "reclaiming"
    /\ Reclaim({k})
    /\ SubmissionGoes(k, "over")
    /\ UNCHANGED <<gpuWorkVars, waiterVars, should_exit_, exiting, resources_to_collect,
                   manager, shutdown>>

\* ContextVK::Shutdown calls FenceWaiterVK::Terminate.
TerminateWaiter ==
    /\ shutdown = "none"
    /\ shutdown' = "terminated"
    /\ terminate_' = TRUE
    /\ waiterStep' = Woken(waiterStep)
    /\ UNCHANGED <<submission, gpuWorkVars, wait_set_, draining, waitSet, erased_entries,
                   managerVars, reclaimed>>

\* The waiter is joined, and the manager dropped.
ResetManager ==
    /\ shutdown = "terminated"
    /\ waiterStep = "left"
    /\ shutdown' = "reset"
    /\ UNCHANGED <<submission, gpuWorkVars, waiterVars, managerVars, reclaimed>>

\* ~FenceWaiterVK destroys the entries that a thread which left early has forgotten.
DestroyWaiter ==
    /\ shutdown = "reset"
    /\ manager = "dead"
    /\ shutdown' = "done"
    /\ wait_set_' = {}
    /\ reclaimed' = reclaimed \cup wait_set_
    /\ UNCHANGED <<submission, gpuWorkVars, terminate_, waiterStep, draining, waitSet,
                   erased_entries, managerVars>>

WaiterStep == TestWaitSet \/ SnapshotWaitSet \/ PollFences \/ ClearErasedEntries

ManagerStep == CollectReclaimables \/ ClearResources

SubmitterStep(k) == AddFence(k) \/ LockManager(k) \/ ReclaimRefused(k)

FenceNext ==
    \/ \E k \in Submissions : Submit(k) \/ SignalFence(k) \/ SubmitterStep(k)
    \/ LoseDevice
    \/ WaiterStep
    \/ ManagerStep
    \/ TerminateWaiter \/ ResetManager \/ BeginExit \/ JoinManager \/ DestroyWaiter

\* The threads are scheduled.
FenceFairness ==
    /\ WF_fenceVars(WaiterStep) /\ WF_fenceVars(ManagerStep)
    /\ \A k \in Submissions : WF_fenceVars(SubmitterStep(k))

FenceSpec == FenceInit /\ [][FenceNext]_fenceVars

-----------------------------------------------------------------------------
(* Properties *)

\* The GPU is not robbed of a resource: what a submission refers to is destroyed after
\* its fence, whichever thread does it (fence_waiter_vk.cc:132-204).  There are two
\* exceptions: a lost device signals nothing more, and a fence that comes after
\* Terminate is refused, whereupon its submitter destroys the resource, or hands it to
\* the manager, without regard to the GPU (command_queue_vk.cc:65-85).
ReclaimedAfterFence ==
    \A k \in reclaimed :
        k \in signalled \/ deviceLost \/ (terminate_ /\ submission[k] = "over")

\* What is submitted is cleaned up once the GPU is done with it, also while both
\* threads are being ended; only a lost device ends the waiter before that
\* (fence_waiter_vk.cc:91-130, resource_manager_vk.cc:41-85).
SubmittedIsReclaimed ==
    \A k \in Submissions :
        (k \in signalled /\ submission[k] # "new") ~> (k \in reclaimed \/ deviceLost)
=============================================================================
