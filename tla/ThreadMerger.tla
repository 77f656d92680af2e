----------------------------- MODULE ThreadMerger -----------------------------
(***************************************************************************)
(* fml::RasterThreadMerger and fml::SharedThreadMerger: the engines of a   *)
(* group share a platform and a raster thread, and merge the raster queue  *)
(* into the platform's while any of them shows platform views.  Each       *)
(* engine's merger takes leases on the merge, counted in frames.           *)
(*                                                                         *)
(* A merger has a mutex of its own, which is held over the calls to the    *)
(* shared one; the shared merger has another, which is not held when it is *)
(* only asked whether the queues are merged.  A call is therefore up to    *)
(* three actions: the checks, and the two writes of the shared merger, to  *)
(* the map of leases and to the queues, which others can see apart.        *)
(*                                                                         *)
(* The callers are those of the engine on Android: the view embedder and   *)
(* Rasterizer::DoDraw in a raster task, and the platform thread when it    *)
(* gains or loses its view.  Dynamic merging has one view per engine.      *)
(***************************************************************************)
EXTENDS Naturals, FiniteSets

CONSTANTS
    Engines,      \* the engines that share the two threads
    LeaseTerm,    \* kDefaultMergedLeaseDuration
    MaxOverlap    \* bound: frames begun on the platform thread while the raster
                  \* thread is still in the frame that has merged the threads

ASSUME EnginesAssumption == Engines # {}
ASSUME LeaseAssumption == LeaseTerm \in Nat \ {0} /\ MaxOverlap \in Nat

Threads == {"platform", "raster"}
nobody == "nobody"

VARIABLES
    lease_term_by_caller_,  \* the engines that are recorded, and their terms
    enabled_,               \* SharedThreadMerger::enabled_
    merged,                 \* the task queues are merged
    surface_,               \* the engines whose rasterizer has a surface
    mergers,                \* the engines that have a raster_thread_merger_
    platformView,           \* the engines whose platform view exists
    posted,                 \* raster_task of an engine, waiting in the raster queue
    pc,                     \* pc[t]: where thread t is
    engine,                 \* engine[t]: the engine it works for
    job,                    \* job[t]: and what it does for it
    mergedBy,               \* the thread whose current frame merged the threads
    overlap                 \* frames begun since by the other thread

leaseVars == <<lease_term_by_caller_, enabled_, merged>>
viewVars == <<surface_, mergers, platformView, posted>>
threadVars == <<pc, engine, job, mergedBy, overlap>>
vars == <<leaseVars, viewVars, threadVars>>

\* The steps between the two writes of the shared merger, which hold its mutex.
BetweenWrites == {"recordLease", "decremented", "erased"}

\* The steps that hold the mutex of the engine's merger.
Locked == {"mergeShared", "extendShared", "decrementShared", "unmergeShared"} \cup BetweenWrites

Init ==
    /\ lease_term_by_caller_ = [e \in {} |-> 0]
    /\ enabled_ = TRUE
    /\ merged = FALSE
    /\ surface_ = {}
    /\ mergers = {}
    /\ platformView = {}
    /\ posted = {}
    /\ pc = [t \in Threads |-> "idle"]
    /\ engine \in [Threads -> {CHOOSE e \in Engines : TRUE}]
    /\ job = [t \in Threads |-> "none"]
    /\ mergedBy = nobody
    /\ overlap = 0

-----------------------------------------------------------------------------
(* The shared merger *)

AllZero(leases) == \A e \in DOMAIN leases : leases[e] = 0

IsMerged == ~ AllZero(lease_term_by_caller_)

\* std::map::operator[] and erase.
WithLease(e, term) ==
    [f \in DOMAIN lease_term_by_caller_ \cup {e} |->
        IF f = e THEN term ELSE lease_term_by_caller_[f]]

WithoutLease(e) ==
    [f \in DOMAIN lease_term_by_caller_ \ {e} |-> lease_term_by_caller_[f]]

\* The steps of a frame before it is drawn, or is to be submitted again.
Undecided == {"preroll", "merge", "mergeShared", "recordLease", "extend", "extendShared"}

\* Nobody holds the mutex of engine e's merger, or of the shared one.
Unlocked(e) == \A t \in Threads : ~ (engine[t] = e /\ pc[t] \in Locked)

SharedUnlocked == \A t \in Threads : pc[t] \notin BetweenWrites

Goto(t, step) == pc' = [pc EXCEPT ![t] = step]

\* Thread t has finished what it was doing.
EndTask(t) ==
    /\ pc' = [s \in Threads |->
                 IF s = t \/ (pc[s] = "wait" /\ job[t] = "destroy") THEN "idle" ELSE pc[s]]
    /\ job' = [s \in Threads |->
                 IF s = t \/ (pc[s] = "wait" /\ job[t] = "destroy") THEN "none" ELSE job[s]]
    /\ mergedBy' = IF mergedBy = t THEN nobody ELSE mergedBy
    /\ overlap' = IF mergedBy = t THEN 0 ELSE overlap
    /\ UNCHANGED engine

Stay == UNCHANGED <<engine, job, mergedBy, overlap>>

\* The shared merger has written its leases; if none is left, the queues are next.
UnMergeIfAllZero(t, leases, step) ==
    /\ lease_term_by_caller_' = leases
    /\ IF AllZero(leases) THEN Goto(t, step) /\ Stay ELSE EndTask(t)
    /\ UNCHANGED <<enabled_, merged, viewVars>>

\* FML_CHECK aborts if the queues are not merged.
UnMergeNowUnSafe(t, step) ==
    /\ pc[t] = step
    /\ merged
    /\ merged' = FALSE
    /\ EndTask(t)
    /\ UNCHANGED <<lease_term_by_caller_, enabled_, viewVars>>

-----------------------------------------------------------------------------
(* A frame *)

\* The thread that services the raster queue.
RunsRasterTasks(t) == pc[t] = "idle" /\ (t = "platform") = merged

BeginDraw(t, e) ==
    /\ RunsRasterTasks(t)
    /\ e \in mergers
    /\ pc' = [pc EXCEPT ![t] = "draw"]
    /\ engine' = [engine EXCEPT ![t] = e]
    /\ job' = [job EXCEPT ![t] = "draw"]
    /\ \/ mergedBy = nobody /\ UNCHANGED overlap
       \/ mergedBy # nobody /\ overlap < MaxOverlap /\ overlap' = overlap + 1
    /\ UNCHANGED <<leaseVars, viewVars, mergedBy>>

\* Mutant: a frame is drawn on the thread that runs it.
Draw_AnyThread(t) ==
    /\ pc[t] = "draw"
    /\ Unlocked(engine[t])
    /\ IF engine[t] \in surface_ THEN Goto(t, "preroll") /\ Stay ELSE EndTask(t)
    /\ UNCHANGED <<leaseVars, viewVars>>

\* Rasterizer::Draw yields if IsOnRasterizingThread denies it, and ends without
\* a surface.
Draw(t) ==
    /\ pc[t] = "draw"
    /\ Unlocked(engine[t])
    /\ IF (t = "platform") = IsMerged /\ engine[t] \in surface_
       THEN Goto(t, "preroll") /\ Stay
       ELSE EndTask(t)
    /\ UNCHANGED <<leaseVars, viewVars>>

\* PostPrerollAction, if the frame has platform layers, sees whether the
\* threads are merged.
Preroll(t) ==
    /\ pc[t] = "preroll"
    /\ \/ Goto(t, "drawn")
       \/ Unlocked(engine[t]) /\ Goto(t, IF IsMerged THEN "extend" ELSE "merge")
    /\ Stay
    /\ UNCHANGED <<leaseVars, viewVars>>

\* The GPU is disabled: DoDraw returns before the lease is counted.
GpuUnavailable(t) ==
    /\ pc[t] = "preroll"
    /\ EndTask(t)
    /\ UNCHANGED <<leaseVars, viewVars>>

\* MergeWithLease does nothing while disabled, or if another engine was first.
MergeWithLease(t) ==
    /\ pc[t] = "merge"
    /\ Unlocked(engine[t])
    /\ Goto(t, IF enabled_ /\ ~ IsMerged THEN "mergeShared" ELSE "drawn")
    /\ Stay
    /\ UNCHANGED <<leaseVars, viewVars>>

MergeWithLeaseShared(t) ==
    /\ pc[t] = "mergeShared"
    /\ SharedUnlocked
    /\ IF IsMerged
       THEN Goto(t, "drawn") /\ UNCHANGED <<merged, mergedBy, overlap>>
       ELSE /\ Goto(t, "recordLease")
            /\ merged' = TRUE
            /\ mergedBy' = t
            /\ overlap' = 0
    /\ UNCHANGED <<lease_term_by_caller_, enabled_, engine, job, viewVars>>

\* Mutant: the lease is not recorded.
RecordLease_Forgotten(t) ==
    /\ pc[t] = "recordLease"
    /\ Goto(t, "drawn")
    /\ Stay
    /\ UNCHANGED <<leaseVars, viewVars>>

\* The queues are merged already when the lease is recorded.
RecordLease(t) ==
    /\ pc[t] = "recordLease"
    /\ Goto(t, "drawn")
    /\ lease_term_by_caller_' = WithLease(engine[t], LeaseTerm)
    /\ Stay
    /\ UNCHANGED <<enabled_, merged, viewVars>>

ExtendLeaseTo(t) ==
    /\ pc[t] = "extend"
    /\ Unlocked(engine[t])
    /\ Goto(t, IF enabled_ THEN "extendShared" ELSE "drawn")
    /\ Stay
    /\ UNCHANGED <<leaseVars, viewVars>>

ExtendLeaseToShared(t) ==
    /\ pc[t] = "extendShared"
    /\ SharedUnlocked
    /\ Goto(t, "drawn")
    /\ lease_term_by_caller_' = WithLease(engine[t], LeaseTerm)
    /\ Stay
    /\ UNCHANGED <<enabled_, merged, viewVars>>

\* DoDraw gives one frame of the lease back.
DecrementLease(t) ==
    /\ pc[t] = "drawn"
    /\ Unlocked(engine[t])
    /\ IF IsMerged /\ enabled_
       THEN Goto(t, "decrementShared") /\ Stay
       ELSE EndTask(t)
    /\ UNCHANGED <<leaseVars, viewVars>>

\* An engine that is not recorded has nothing to give back.  FML_CHECK aborts if
\* the recorded term is zero.
DecrementLeaseShared(t) ==
    /\ pc[t] = "decrementShared"
    /\ SharedUnlocked
    /\ LET e == engine[t]
       IN  IF e \in DOMAIN lease_term_by_caller_
           THEN /\ lease_term_by_caller_[e] > 0
                /\ UnMergeIfAllZero(t, WithLease(e, lease_term_by_caller_[e] - 1), "decremented")
           ELSE UnMergeIfAllZero(t, lease_term_by_caller_, "decremented")

-----------------------------------------------------------------------------
(* The platform view comes and goes *)

\* OnPlatformViewCreated and OnPlatformViewDestroyed, on the platform thread.
BeginViewChange(e) ==
    /\ pc["platform"] = "idle"
    /\ pc' = [pc EXCEPT !["platform"] = "disable"]
    /\ engine' = [engine EXCEPT !["platform"] = e]
    /\ job' = [job EXCEPT !["platform"] = IF e \in platformView THEN "destroy" ELSE "create"]
    /\ platformView' = (platformView \ {e}) \cup ({e} \ platformView)
    /\ UNCHANGED <<leaseVars, surface_, mergers, posted, mergedBy, overlap>>

\* DisableThreadMergerIfNeeded: there is no merger before the first surface.
Disable ==
    /\ pc["platform"] = "disable"
    /\ Unlocked(engine["platform"])
    /\ enabled_' = (enabled_ /\ engine["platform"] \notin mergers)
    /\ Goto("platform", "choose")
    /\ Stay
    /\ UNCHANGED <<lease_term_by_caller_, merged, viewVars>>

\* raster_task runs at once if the platform thread is the raster thread, and is
\* posted otherwise.  Only the loss of a view waits for it.
ChooseThread ==
    /\ pc["platform"] = "choose"
    /\ \/ /\ merged
          /\ Goto("platform", "enable")
          /\ Stay
          /\ UNCHANGED posted
       \/ /\ ~ merged
          /\ posted' = posted \cup {<<engine["platform"], job["platform"]>>}
          /\ \/ job["platform"] = "destroy" /\ Goto("platform", "wait") /\ Stay
             \/ job["platform"] = "create" /\ EndTask("platform")
    /\ UNCHANGED <<leaseVars, surface_, mergers, platformView>>

\* A posted raster_task starts; those of one engine are in order.
BeginRasterTask(t, e, kind) ==
    /\ RunsRasterTasks(t)
    /\ <<e, kind>> \in posted
    /\ kind = "destroy" => <<e, "create">> \notin posted
    /\ posted' = posted \ {<<e, kind>>}
    /\ pc' = [pc EXCEPT ![t] = "enable"]
    /\ engine' = [engine EXCEPT ![t] = e]
    /\ job' = [job EXCEPT ![t] = kind]
    /\ UNCHANGED <<leaseVars, surface_, mergers, platformView, mergedBy, overlap>>

\* Mutant: the merger is enabled only when a view is created.
Enable_ForCreate(t) ==
    /\ pc[t] = "enable"
    /\ Unlocked(engine[t])
    /\ IF job[t] = "create"
       THEN /\ enabled_' = TRUE
            /\ surface_' = surface_ \cup {engine[t]}
            /\ mergers' = mergers \cup {engine[t]}
            /\ EndTask(t)
       ELSE /\ surface_' = surface_ \ {engine[t]}
            /\ Goto(t, "teardown")
            /\ Stay
            /\ UNCHANGED <<enabled_, mergers>>
    /\ UNCHANGED <<lease_term_by_caller_, merged, platformView, posted>>

\* EnableThreadMergerIfNeeded, and Setup or the first part of Teardown.
Enable(t) ==
    /\ pc[t] = "enable"
    /\ Unlocked(engine[t])
    /\ enabled_' = (enabled_ \/ engine[t] \in mergers)
    /\ IF job[t] = "create"
       THEN /\ surface_' = surface_ \cup {engine[t]}
            /\ mergers' = mergers \cup {engine[t]}
            /\ EndTask(t)
       ELSE /\ surface_' = surface_ \ {engine[t]}
            /\ Goto(t, "teardown")
            /\ Stay
            /\ UNCHANGED mergers
    /\ UNCHANGED <<lease_term_by_caller_, merged, platformView, posted>>

\* Teardown un-merges only if the threads are merged.
Teardown(t) ==
    /\ pc[t] = "teardown"
    /\ Unlocked(engine[t])
    /\ IF engine[t] \in mergers /\ IsMerged
       THEN Goto(t, "unmerge") /\ Stay
       ELSE EndTask(t)
    /\ UNCHANGED <<leaseVars, viewVars>>

UnMergeNowIfLastOne(t) ==
    /\ pc[t] = "unmerge"
    /\ Unlocked(engine[t])
    /\ IF enabled_ THEN Goto(t, "unmergeShared") /\ Stay ELSE EndTask(t)
    /\ UNCHANGED <<leaseVars, viewVars>>

\* Mutant: the engine's record stays.
UnMergeNowIfLastOneShared_NoErase(t) ==
    /\ pc[t] = "unmergeShared"
    /\ SharedUnlocked
    /\ UnMergeIfAllZero(t, lease_term_by_caller_, "erased")

UnMergeNowIfLastOneShared(t) ==
    /\ pc[t] = "unmergeShared"
    /\ SharedUnlocked
    /\ UnMergeIfAllZero(t, WithoutLease(engine[t]), "erased")

-----------------------------------------------------------------------------

Drawing(t) ==
    \/ \E e \in Engines : BeginDraw(t, e)
    \/ Draw(t)
    \/ Preroll(t)
    \/ GpuUnavailable(t)
    \/ MergeWithLease(t)
    \/ MergeWithLeaseShared(t)
    \/ RecordLease(t)
    \/ ExtendLeaseTo(t)
    \/ ExtendLeaseToShared(t)
    \/ DecrementLease(t)
    \/ DecrementLeaseShared(t)
    \/ UnMergeNowUnSafe(t, "decremented")

ViewChanging(t) ==
    \/ \E e \in Engines, kind \in {"create", "destroy"} : BeginRasterTask(t, e, kind)
    \/ Enable(t)
    \/ Teardown(t)
    \/ UnMergeNowIfLastOne(t)
    \/ UnMergeNowIfLastOneShared(t)
    \/ UnMergeNowUnSafe(t, "erased")

Next ==
    \/ \E t \in Threads : Drawing(t) \/ ViewChanging(t)
    \/ \E e \in Engines : BeginViewChange(e)
    \/ Disable
    \/ ChooseThread

Spec == Init /\ [][Next]_vars

-----------------------------------------------------------------------------
(* Properties *)

\* The map of leases and the table of task queues agree: no lease is to be seen
\* while the queues are apart, and merged queues have a lease, except between the
\* two writes of a call.  IsOnRasterizingThread trusts the map, the message loops
\* obey the table; where they went on to differ every frame would yield for ever
\* (shared_thread_merger.cc lines 28-31, 69-71; raster_thread_merger.cc lines
\* 96-104).  It takes MaxOverlap + 1 < LeaseTerm, see README.
LeasesMatchMerge ==
    /\ IsMerged => merged
    /\ merged /\ SharedUnlocked => IsMerged

\* Of two threads that are in tasks of the raster queue, one has drawn its frame:
\* a frame that starts on merged queues yields as long as the lease of the frame
\* that is merging them is not recorded (rasterizer.cc lines 247-251).
OneThreadDraws ==
    \A s, t \in Threads :
        pc[s] \in Undecided /\ pc[t] \in Undecided => s = t

\* However the views of the engines come and go, the merger they share is not
\* left disabled: the last raster_task enables it (shell.cc lines 970, 1062).
NeverLeftDisabled ==
    (\A t \in Threads : job[t] \in {"none", "draw"}) /\ posted = {} => enabled_

\* An engine without a surface holds no lease: nobody would ever give it back,
\* and the threads would stay merged (rasterizer.cc lines 137-142).
TornDownHoldsNoLease ==
    \A e \in DOMAIN lease_term_by_caller_ :
        lease_term_by_caller_[e] > 0
            => e \in surface_ \/ \E t \in Threads : engine[t] = e /\ job[t] = "destroy"

\* shared_thread_merger.cc lines 59-61 check that the "lease_term should always
\* be positive when merged".
DecrementFindsLease ==
    \A t \in Threads :
        pc[t] = "decrementShared" /\ engine[t] \in DOMAIN lease_term_by_caller_
            => lease_term_by_caller_[engine[t]] > 0

=============================================================================
