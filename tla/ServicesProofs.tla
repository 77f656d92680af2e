---------------------------- MODULE ServicesProofs ----------------------------
(***************************************************************************)
(* What holds of the small components that do not share state: the resize  *)
(* of a window, the waiter for GPU fences, the unref queue, the            *)
(* dispatcher of pointer packets and the work that waits for the GPU.      *)
(* Each section has the inductive invariant of one component, its steps    *)
(* and its theorems.                                                       *)
(***************************************************************************)
EXTENDS WindowResize, FenceWaiter, UnrefQueue, PointerDispatch, GpuAccess,
        SequenceTheorems, TLAPS

-----------------------------------------------------------------------------
(* WindowResize: however the platform thread's timeouts and the raster     *)
(* thread's frames interleave, for windows of any sizes.                   *)

\* The platform thread has set the target of the window's size.
TargetSet == resizeStep \in {"announce", "wait"} => resize_target_ = window

\* A frame generated for the resize is being presented, or it was lost.
GeneratedIsPresented ==
    resize_status_ = "kFrameGenerated" /\ rasterStep # "presenting" => lost

InResize == resizeStep \in {"announce", "wait"} /\ resize_status_ = "kFrameGenerated"

\* A surface generated for the resize stays until the resize ends.
SurfaceFits == InResize => surface_ \in {window, Turned(window)}

\* The frame being presented while the platform thread is in a resize is the one the
\* surface was made for.
PresentedFits ==
    InResize /\ rasterStep = "presenting" /\ ~ lost
        => IF frame.empty THEN surface_ = Turned(window)
                          ELSE surface_ = window /\ frame.size = window

ResizeInv == TargetSet /\ GeneratedIsPresented /\ SurfaceFits /\ PresentedFits

USE DEF TargetSet, GeneratedIsPresented, InResize, SurfaceFits, PresentedFits

\* The platform thread's steps do not touch a frame that is being presented, but a
\* new resize disowns it.
LEMMA PlatformKeepsResizeInv ==
    ASSUME ResizeInv,
           (\E s \in Sizes : OnWindowSizeChanged(s)) \/ StartResize \/ SendWindowMetrics \/ EndWait
    PROVE  ResizeInv'
<1>1. CASE \E s \in Sizes : OnWindowSizeChanged(s)
  BY <1>1 DEF ResizeInv, OnWindowSizeChanged, stateVars, rasterVars
<1>2. CASE StartResize
  BY <1>2 DEF ResizeInv, StartResize
<1>3. CASE SendWindowMetrics
  BY <1>3 DEF ResizeInv, SendWindowMetrics, stateVars, rasterVars
<1>4. CASE EndWait
  BY <1>4 DEF ResizeInv, EndWait, stateVars, rasterVars
<1>. QED BY <1>1, <1>2, <1>3, <1>4

\* The raster thread resizes the surface only for a frame of the target's size.
LEMMA RasterKeepsResizeInv ==
    ASSUME ResizeInv,
           \/ \E empty \in BOOLEAN : DrawViewFrame(empty)
           \/ OnFrameGenerated \/ OnEmptyFrameGenerated
           \/ OnFramePresented \/ PresentFails
    PROVE  ResizeInv'
<1>1. CASE \E empty \in BOOLEAN : DrawViewFrame(empty)
  BY <1>1 DEF ResizeInv, DrawViewFrame, stateVars, platformVars
<1>2. CASE OnFrameGenerated
  <2>1. UNCHANGED <<platformVars, frame, lost>> /\ rasterStep = "drawn" /\ ~ frame.empty
    BY <1>2 DEF OnFrameGenerated
  <2>2. CASE Refuse
    BY <2>1, <2>2 DEF ResizeInv, Refuse, stateVars, platformVars
  <2>3. CASE resize_status_ # "kResizeStarted" /\ Accept
    BY <2>1, <2>3 DEF ResizeInv, Accept, stateVars, platformVars
  <2>4. CASE /\ resize_status_ = "kResizeStarted" /\ resize_target_ = frame.size
             /\ ResizeRenderSurface(resize_target_)
    BY <2>1, <2>4 DEF ResizeInv, ResizeRenderSurface, platformVars
  <2>. QED BY <1>2, <2>2, <2>3, <2>4 DEF OnFrameGenerated
<1>3. CASE OnEmptyFrameGenerated
  <2>1. UNCHANGED <<platformVars, frame, lost>> /\ rasterStep = "drawn" /\ frame.empty
    BY <1>3 DEF OnEmptyFrameGenerated
  <2>2. CASE Refuse
    BY <2>1, <2>2 DEF ResizeInv, Refuse, stateVars, platformVars
  <2>3. CASE Accept
    BY <2>1, <2>3 DEF ResizeInv, Accept, stateVars, platformVars
  <2>4. CASE /\ resize_status_ = "kResizeStarted"
             /\ ResizeRenderSurface(Turned(resize_target_))
    BY <2>1, <2>4 DEF ResizeInv, ResizeRenderSurface, platformVars
  <2>. QED BY <1>3, <2>2, <2>3, <2>4 DEF OnEmptyFrameGenerated
<1>4. CASE OnFramePresented
  BY <1>4 DEF ResizeInv, OnFramePresented, platformVars
<1>5. CASE PresentFails
  BY <1>5 DEF ResizeInv, PresentFails, stateVars, platformVars
<1>. QED BY <1>1, <1>2, <1>3, <1>4, <1>5

LEMMA ResizeInvStep == ResizeInv /\ [ResizeNext]_resizeVars => ResizeInv'
<1>. SUFFICES ASSUME ResizeInv, [ResizeNext]_resizeVars PROVE ResizeInv'
  OBVIOUS
<1>1. CASE UNCHANGED resizeVars
  BY <1>1 DEF ResizeInv, resizeVars
<1>. QED BY <1>1, PlatformKeepsResizeInv, RasterKeepsResizeInv DEF ResizeNext

\* Only a frame that was presented ends a resize.
LEMMA EndsOnlyWhenPresented ==
    ASSUME ResizeNext, resize_status_ # "kDone", resize_status_' = "kDone"
    PROVE  /\ resize_status_ = "kFrameGenerated" /\ rasterStep = "presenting"
           /\ OnFramePresented
<1>1. CASE OnFramePresented
  BY <1>1 DEF OnFramePresented
<1>2. CASE ~ OnFramePresented
  BY <1>2 DEF ResizeNext, OnWindowSizeChanged, StartResize, SendWindowMetrics, EndWait,
              DrawViewFrame, OnFrameGenerated, OnEmptyFrameGenerated, PresentFails, Refuse,
              Accept, ResizeRenderSurface, stateVars
<1>. QED BY <1>1, <1>2

\* When the resize that the platform thread waits for ends, the surface was made for
\* it, for windows of any sizes; unless a frame was lost, it ends with the frame the
\* surface was made for, which has the window's size if it has content
\* (flutter_windows_view.cc:145-200, 750-760).
THEOREM ResizeEndsRight == ResizeSpec => ResizeEndsWithItsFrame
<1>1. ResizeInit => ResizeInv
  BY DEF ResizeInit, ResizeInv
<1>2. ResizeInv /\ [ResizeNext]_resizeVars =>
        [resize_status_ # "kDone" /\ resize_status_' = "kDone" /\ resizeStep = "wait"
            => /\ surface_ \in {window, Turned(window)}
               /\ ~ lost => IF frame.empty
                            THEN surface_ = Turned(window)
                            ELSE surface_ = window /\ frame.size = window]_resizeVars
  BY EndsOnlyWhenPresented DEF ResizeInv, resizeVars
<1>. QED BY <1>1, <1>2, ResizeInvStep, PTL DEF ResizeSpec, ResizeEndsWithItsFrame

HIDE DEF TargetSet, GeneratedIsPresented, InResize, SurfaceFits, PresentedFits

-----------------------------------------------------------------------------
(* FenceWaiter: what was accepted is destroyed after its fence, for any    *)
(* number of submissions.                                                  *)

States == {"new", "submitted", "accepted", "refused", "reclaiming", "over"}

\* A fence is waited for only once it was accepted.
WaitedIsAccepted ==
    wait_set_ \cup waitSet \subseteq {k \in Submissions : submission[k] = "accepted"}

\* The GPU is done with k, or will never say so, or nobody waits for it any more.
Harmless(k) == k \in signalled \/ deviceLost \/ (terminate_ /\ submission[k] = "over")

\* Fences are refused only by a waiter that was terminated.
RefusedAtTheEnd ==
    \A k \in Submissions :
        submission[k] \in {"refused", "reclaiming", "over"} => terminate_

\* What is destroyed, or on its way there: in the waiter, the queue of the manager, or
\* its thread.
OnTheWay == erased_entries \cup reclaimables_ \cup resources_to_collect \cup reclaimed

\* None of them can be accepted only later.
OnTheWayIsHarmless ==
    \A k \in OnTheWay :
        k \in Submissions /\ Harmless(k) /\ submission[k] \notin {"new", "submitted"}

\* The waiter ends with fences in its set only if the device is lost; no fence is
\* added after that.
LeavesNothing == waiterStep = "left" => deviceLost \/ (terminate_ /\ wait_set_ = {})

DrainsAtTheEnd == draining => terminate_

JoinedBeforeReset == shutdown \in {"reset", "done"} => waiterStep = "left"

FenceInv ==
    /\ submission \in [Submissions -> States]
    /\ WaitedIsAccepted
    /\ RefusedAtTheEnd
    /\ OnTheWayIsHarmless
    /\ LeavesNothing
    /\ DrainsAtTheEnd
    /\ JoinedBeforeReset

USE DEF States, WaitedIsAccepted, Harmless, RefusedAtTheEnd, OnTheWay,
        OnTheWayIsHarmless, LeavesNothing, DrainsAtTheEnd, JoinedBeforeReset, waiterVars, managerVars, gpuWorkVars, Woken,
        SubmissionGoes

LEMMA GpuKeepsFenceInv ==
    ASSUME FenceInv, LoseDevice \/ \E k \in Submissions : Submit(k) \/ SignalFence(k)
    PROVE  FenceInv'
<1>1. CASE \E k \in Submissions : Submit(k)
  BY <1>1 DEF FenceInv, Submit
<1>2. CASE \E k \in Submissions : SignalFence(k)
  BY <1>2 DEF FenceInv, SignalFence
<1>3. CASE LoseDevice
  BY <1>3 DEF FenceInv, LoseDevice
<1>. QED BY <1>1, <1>2, <1>3

\* A submitter whose fence was refused hands its resource on itself.
LEMMA SubmitterKeepsFenceInv ==
    ASSUME FenceInv, NEW k \in Submissions, SubmitterStep(k)
    PROVE  FenceInv'
<1>1. CASE AddFence(k)
  BY <1>1 DEF FenceInv, AddFence
<1>2. CASE LockManager(k)
  BY <1>2 DEF FenceInv, LockManager
<1>3. CASE ReclaimRefused(k)
  BY <1>3 DEF FenceInv, ReclaimRefused, Reclaim
<1>. QED BY <1>1, <1>2, <1>3 DEF SubmitterStep

LEMMA WaiterKeepsFenceInv ==
    ASSUME FenceInv, WaiterStep
    PROVE  FenceInv'
<1>1. CASE TestWaitSet
  BY <1>1 DEF FenceInv, TestWaitSet
<1>2. CASE SnapshotWaitSet
  BY <1>2 DEF FenceInv, SnapshotWaitSet
<1>3. CASE PollFences
  BY <1>3 DEF FenceInv, PollFences
<1>4. CASE ClearErasedEntries
  BY <1>4 DEF FenceInv, ClearErasedEntries, Reclaim
<1>. QED BY <1>1, <1>2, <1>3, <1>4 DEF WaiterStep

LEMMA ManagerKeepsFenceInv ==
    ASSUME FenceInv, ManagerStep
    PROVE  FenceInv'
<1>1. CASE CollectReclaimables
  BY <1>1 DEF FenceInv, CollectReclaimables
<1>2. CASE ClearResources
  BY <1>2 DEF FenceInv, ClearResources
<1>. QED BY <1>1, <1>2 DEF ManagerStep

\* The shutdown: what a waiter left behind is destroyed with it, after it has ended.
LEMMA ShutdownKeepsFenceInv ==
    ASSUME FenceInv,
           TerminateWaiter \/ ResetManager \/ BeginExit \/ JoinManager \/ DestroyWaiter
    PROVE  FenceInv'
<1>1. CASE TerminateWaiter
  BY <1>1 DEF FenceInv, TerminateWaiter
<1>2. CASE ResetManager
  BY <1>2 DEF FenceInv, ResetManager
<1>3. CASE BeginExit
  BY <1>3 DEF FenceInv, BeginExit
<1>4. CASE JoinManager
  BY <1>4 DEF FenceInv, JoinManager
<1>5. CASE DestroyWaiter
  BY <1>5 DEF FenceInv, DestroyWaiter
<1>. QED BY <1>1, <1>2, <1>3, <1>4, <1>5

LEMMA FenceInvStep == FenceInv /\ [FenceNext]_fenceVars => FenceInv'
<1>. SUFFICES ASSUME FenceInv, [FenceNext]_fenceVars PROVE FenceInv'
  OBVIOUS
<1>1. CASE UNCHANGED fenceVars
  BY <1>1 DEF FenceInv, fenceVars
<1>. QED BY <1>1, GpuKeepsFenceInv, SubmitterKeepsFenceInv, WaiterKeepsFenceInv,
            ManagerKeepsFenceInv, ShutdownKeepsFenceInv DEF FenceNext

\* A resource is destroyed after its fence, on any of the paths to its destruction and
\* for any number of submissions, unless the device is lost or its fence was refused by
\* a waiter that was terminated (fence_waiter_vk.cc:132-204, command_queue_vk.cc:65-85).
THEOREM AlwaysReclaimedAfterFence == FenceSpec => []ReclaimedAfterFence
<1>1. FenceInit => FenceInv
  BY DEF FenceInit, FenceInv
<1>2. FenceInv => ReclaimedAfterFence
  BY DEF FenceInv, ReclaimedAfterFence
<1>. QED BY <1>1, <1>2, FenceInvStep, PTL DEF FenceSpec

HIDE DEF States, WaitedIsAccepted, Harmless, RefusedAtTheEnd, OnTheWay,
         OnTheWayIsHarmless, LeavesNothing, DrainsAtTheEnd, JoinedBeforeReset, waiterVars, managerVars, gpuWorkVars, Woken,
         SubmissionGoes

-----------------------------------------------------------------------------
(* UnrefQueue: no object is left without a drain while the IO loop runs,   *)
(* and none is released twice, for any number of objects.                  *)

\* The flag promises a posted drain; a drain that another one has made superfluous
\* may be there without it.
PendingIsPosted == ioLoop = "open" /\ drain_pending_ => drains > 0

QueuedIsPending == ioLoop = "open" /\ objects_ # {} => drain_pending_

\* An object is on its way to its release in one place at most.
WaitsInOnePlace ==
    /\ objects_ \cap taken = {}
    /\ objects_ \cap orphans = {}
    /\ taken \cap orphans = {}

Waiting == objects_ \cup taken \cup orphans

\* What waits was given up, and what was released does not wait.
ReleasedAfterWait ==
    \A o \in GpuObjects :
        /\ unrefs[o] \in {0, 1}
        /\ object[o] = "live" \/ o \in Waiting => unrefs[o] = 0
        /\ object[o] = "live" => o \notin Waiting

UnrefInv ==
    /\ UnrefTypeOK
    /\ PendingIsPosted
    /\ QueuedIsPending
    /\ WaitsInOnePlace
    /\ ReleasedAfterWait

USE DEF PendingIsPosted, QueuedIsPending, WaitsInOnePlace, Waiting, ReleasedAfterWait, UnrefTypeOK

\* Giving an object up, and letting go of the queue, on any thread.
LEMMA GivingUpKeepsUnrefInv ==
    ASSUME UnrefInv, NEW o \in GpuObjects, Unref(o) \/ DropQueue(o)
    PROVE  UnrefInv'
<1>1. CASE Unref(o)
  BY <1>1 DEF UnrefInv, Unref
<1>2. CASE DropQueue(o)
  <2>1. CASE UNCHANGED <<objects_, context, orphans>>
    BY <1>2, <2>1 DEF UnrefInv, DropQueue
  <2>2. CASE ioStep = "idle" /\ DestroyElsewhere
    BY <1>2, <2>2 DEF UnrefInv, DropQueue, DestroyElsewhere
  <2>. QED BY <1>2, <2>1, <2>2 DEF DropQueue
<1>. QED BY <1>1, <1>2

\* The drains of the IO thread.
LEMMA DrainsKeepUnrefInv ==
    ASSUME UnrefInv, BeginDrain \/ BeginManagerDrain \/ EndDrain
    PROVE  UnrefInv'
<1>1. CASE BeginDrain
  <2>1. drains' \in Nat /\ drain_pending_' = FALSE /\ objects_' = {}
    BY <1>1 DEF UnrefInv, BeginDrain, SwapOut
  <2>2. PendingIsPosted' /\ QueuedIsPending'
    BY <2>1
  <2>3. UnrefTypeOK'
    BY <1>1, <2>1 DEF UnrefInv, BeginDrain, SwapOut
  <2>4. WaitsInOnePlace' /\ ReleasedAfterWait'
    BY <1>1 DEF UnrefInv, BeginDrain, SwapOut
  <2>. QED BY <2>2, <2>3, <2>4 DEF UnrefInv
<1>2. CASE BeginManagerDrain
  BY <1>2 DEF UnrefInv, BeginManagerDrain, IoIdle, SwapOut
<1>3. CASE EndDrain
  BY <1>3 DEF UnrefInv, EndDrain, Released
<1>. QED BY <1>1, <1>2, <1>3

\* The ends of the IO manager, of the queue and of the loop.
LEMMA EndsKeepUnrefInv ==
    ASSUME UnrefInv, DropManager \/ ReleaseContext \/ EndLoop
    PROVE  UnrefInv'
<1>1. CASE DropManager
  <2>1. CASE UNCHANGED <<objects_, context, unrefs>>
    BY <1>1, <2>1 DEF UnrefInv, DropManager
  <2>2. CASE Released(objects_) /\ objects_' = {} /\ context' = "released"
    <3>1. PendingIsPosted' /\ QueuedIsPending'
      BY <1>1, <2>2 DEF UnrefInv, DropManager
    <3>2. unrefs' \in [GpuObjects -> Nat]
      BY <2>2 DEF UnrefInv, Released
    <3>3. UnrefTypeOK'
      BY <1>1, <2>2, <3>2 DEF UnrefInv, DropManager
    <3>4. WaitsInOnePlace' /\ ReleasedAfterWait'
      BY <1>1, <2>2 DEF UnrefInv, DropManager, Released
    <3>. QED BY <3>1, <3>3, <3>4 DEF UnrefInv
  <2>. QED BY <1>1, <2>1, <2>2 DEF DropManager
<1>2. CASE ReleaseContext
  BY <1>2 DEF UnrefInv, ReleaseContext, IoIdle, Released
<1>3. CASE EndLoop
  <2>1. CASE Released(objects_) /\ objects_' = {} /\ context' = "released"
    BY <1>3, <2>1 DEF UnrefInv, EndLoop, Released
  <2>2. CASE UNCHANGED <<objects_, unrefs>> /\ context' \in {context, "leaked"}
    BY <1>3, <2>2 DEF UnrefInv, EndLoop
  <2>. QED BY <1>3, <2>1, <2>2 DEF EndLoop
<1>. QED BY <1>1, <1>2, <1>3

LEMMA UnrefInvStep == UnrefInv /\ [UnrefNext]_unrefVars => UnrefInv'
<1>. SUFFICES ASSUME UnrefInv, [UnrefNext]_unrefVars PROVE UnrefInv'
  OBVIOUS
<1>1. CASE UNCHANGED unrefVars
  BY <1>1 DEF UnrefInv, unrefVars
<1>. QED BY <1>1, GivingUpKeepsUnrefInv, DrainsKeepUnrefInv, EndsKeepUnrefInv
         DEF UnrefNext, IoStep

LEMMA UnrefInvInit == UnrefInit => UnrefInv
<1>. SUFFICES ASSUME UnrefInit PROVE UnrefInv
  OBVIOUS
<1>1. UnrefTypeOK
  BY DEF UnrefInit
<1>2. PendingIsPosted /\ QueuedIsPending /\ WaitsInOnePlace
  BY DEF UnrefInit
<1>3. ReleasedAfterWait
  BY DEF UnrefInit
<1>. QED BY <1>1, <1>2, <1>3 DEF UnrefInv

\* While the IO loop runs, queued objects have a drain that will find them, for any
\* number of objects and however posted drains, the drains of the shell and the
\* threads that give objects up interleave (skia_gpu_object.h:36-41, 70-73).
THEOREM QueuedAlwaysHasDrain == UnrefSpec => []QueuedHasDrain
<1>1. UnrefInv => QueuedHasDrain
  BY DEF UnrefInv, QueuedHasDrain
<1>. QED BY <1>1, UnrefInvInit, UnrefInvStep, PTL DEF UnrefSpec

\* No object is released twice, whoever drains and wherever the queue's destructor
\* runs (skia_gpu_object.h:63-80, 110-139).
THEOREM NeverReleasedTwice == UnrefSpec => []ReleasedOnce
<1>1. UnrefInv => ReleasedOnce
  BY DEF UnrefInv, ReleasedOnce
<1>. QED BY <1>1, UnrefInvInit, UnrefInvStep, PTL DEF UnrefSpec

HIDE DEF PendingIsPosted, QueuedIsPending, WaitsInOnePlace, Waiting, ReleasedAfterWait, UnrefTypeOK

-----------------------------------------------------------------------------
(* PointerDispatch: however packets and vsyncs alternate, for any number   *)
(* of packets.                                                             *)

UiTasks == [packet : Nat]

\* The numbers of the tasks in a queue, 0 for the callback.
Numbers(q) == [i \in 1 .. Len(q) |-> q[i].packet]

\* The n tasks with the numbers f bring the packets after lo up to hi, in their order.
Brings(f, n, lo, hi) ==
    /\ f \in [1 .. n -> Nat]
    /\ lo <= hi
    /\ \A k \in Nat \ {0} : lo < k /\ k <= hi <=> \E i \in 1 .. n : f[i] = k
    /\ \A i, j \in 1 .. n : f[i] # 0 /\ f[j] # 0 /\ i < j => f[i] < f[j]

\* The packets up to n.
FirstPackets(s, n) == s \in Seq(Nat) /\ Len(s) = n /\ \A i \in 1 .. n : s[i] = i

DispatchTyped ==
    /\ delivered \in Seq(Nat)
    /\ pending_packet_ \in Seq(Nat) /\ Len(pending_packet_) <= 1
    /\ uiTasks \in Seq(UiTasks)
    /\ received \in Nat

\* A packet is kept only while another is in progress.
KeptInProgress == pending_packet_ # <<>> => is_pointer_data_in_progress_

Dispatched == Len(delivered) + Len(pending_packet_)

PointerInv ==
    /\ DispatchTyped
    /\ KeptInProgress
    /\ FirstPackets(delivered \o pending_packet_, Dispatched)
    /\ Brings(Numbers(uiTasks), Len(uiTasks), Dispatched, received)

LEMMA NumbersTyped ==
    ASSUME NEW q \in Seq(UiTasks)
    PROVE  /\ Len(q) \in Nat
           /\ Numbers(q) \in [1 .. Len(q) -> Nat]
           /\ \A i \in 1 .. Len(q) : Numbers(q)[i] = q[i].packet
<1>1. ASSUME NEW i \in 1 .. Len(q) PROVE q[i].packet \in Nat
  <2>1. q[i] \in UiTasks
    OBVIOUS
  <2>. QED BY <2>1 DEF UiTasks
<1>. QED BY <1>1 DEF Numbers

LEMMA NumbersOfAppend ==
    ASSUME NEW q \in Seq(UiTasks), NEW x \in UiTasks
    PROVE  /\ Append(q, x) \in Seq(UiTasks)
           /\ Len(Append(q, x)) = Len(q) + 1
           /\ Numbers(Append(q, x)) \in [1 .. Len(q) + 1 -> Nat]
           /\ Numbers(Append(q, x))[Len(q) + 1] = x.packet
           /\ \A i \in 1 .. Len(q) : Numbers(Append(q, x))[i] = Numbers(q)[i]
<1>. DEFINE r == Append(q, x)
<1>1. /\ r \in Seq(UiTasks) /\ Len(r) = Len(q) + 1 /\ r[Len(q) + 1] = x
      /\ \A i \in 1 .. Len(q) : r[i] = q[i]
  BY AppendProperties
<1>. HIDE DEF r
<1>2. /\ Len(q) \in Nat /\ Len(q) + 1 \in 1 .. Len(r)
      /\ \A i \in 1 .. Len(q) : i \in 1 .. Len(r)
  BY <1>1, NumbersTyped
<1>3. /\ Numbers(r) \in [1 .. Len(q) + 1 -> Nat]
      /\ \A i \in 1 .. Len(r) : Numbers(r)[i] = r[i].packet
      /\ \A i \in 1 .. Len(q) : Numbers(q)[i] = q[i].packet
  BY <1>1, NumbersTyped
<1>4. Numbers(r)[Len(q) + 1] = x.packet
  BY <1>1, <1>2, <1>3
<1>5. \A i \in 1 .. Len(q) : Numbers(r)[i] = Numbers(q)[i]
  BY <1>1, <1>2, <1>3
<1>. QED BY <1>1, <1>3, <1>4, <1>5 DEF r

LEMMA NumbersOfTail ==
    ASSUME NEW q \in Seq(UiTasks), q # <<>>
    PROVE  /\ Tail(q) \in Seq(UiTasks)
           /\ Len(Tail(q)) \in Nat
           /\ Len(q) = Len(Tail(q)) + 1
           /\ Numbers(Tail(q)) \in [1 .. Len(Tail(q)) -> Nat]
           /\ Numbers(q)[1] = Head(q).packet
           /\ \A i \in 1 .. Len(Tail(q)) : Numbers(Tail(q))[i] = Numbers(q)[i + 1]
<1>. DEFINE r == Tail(q)
<1>1. /\ r \in Seq(UiTasks) /\ Len(r) = Len(q) - 1 /\ q[1] = Head(q)
      /\ \A i \in 1 .. Len(r) : r[i] = q[i + 1]
  BY HeadTailProperties
<1>. HIDE DEF r
<1>2. /\ Len(r) \in Nat /\ Len(q) = Len(r) + 1 /\ 1 \in 1 .. Len(q)
      /\ \A i \in 1 .. Len(r) : i + 1 \in 1 .. Len(q)
  BY <1>1, NumbersTyped
<1>3. /\ Numbers(r) \in [1 .. Len(r) -> Nat]
      /\ \A i \in 1 .. Len(r) : Numbers(r)[i] = r[i].packet
      /\ \A i \in 1 .. Len(q) : Numbers(q)[i] = q[i].packet
  BY <1>1, NumbersTyped
<1>4. Numbers(q)[1] = Head(q).packet
  BY <1>1, <1>2, <1>3
<1>5. \A i \in 1 .. Len(r) : Numbers(r)[i] = Numbers(q)[i + 1]
  BY <1>1, <1>2, <1>3
<1>. QED BY <1>1, <1>2, <1>3, <1>4, <1>5 DEF r

\* Another packet, or the callback, is posted.
LEMMA NumberPosted ==
    ASSUME NEW n \in Nat, NEW lo \in Nat, NEW hi \in Nat, NEW f, Brings(f, n, lo, hi),
           NEW g \in [1 .. n + 1 -> Nat], \A i \in 1 .. n : g[i] = f[i]
    PROVE  /\ g[n + 1] = hi + 1 => Brings(g, n + 1, lo, hi + 1)
           /\ g[n + 1] = 0 => Brings(g, n + 1, lo, hi)
<1>. USE DEF Brings
<1>1. \A i \in 1 .. n + 1 : i = n + 1 \/ i \in 1 .. n
  OBVIOUS
<1>2. CASE g[n + 1] = hi + 1
  <2>1. \A i \in 1 .. n : g[i] # 0 => g[i] <= hi
    OBVIOUS
  <2>2. ASSUME NEW i \in 1 .. n + 1, NEW j \in 1 .. n + 1, g[i] # 0, g[j] # 0, i < j
        PROVE  g[i] < g[j]
    <3>1. i \in 1 .. n
      BY <2>2
    <3>2. CASE j \in 1 .. n
      BY <2>2, <3>1, <3>2
    <3>3. CASE j = n + 1
      BY <1>2, <2>1, <2>2, <3>1, <3>3
    <3>. QED BY <1>1, <3>2, <3>3
  <2>3. \A k \in Nat \ {0} : lo < k /\ k <= hi + 1 => \E i \in 1 .. n + 1 : g[i] = k
    BY <1>2
  <2>4. \A i \in 1 .. n + 1 : g[i] # 0 => lo < g[i] /\ g[i] <= hi + 1
    BY <1>1, <1>2
  <2>. QED BY <1>2, <2>2, <2>3, <2>4
<1>3. CASE g[n + 1] = 0
  <2>1. \A i, j \in 1 .. n + 1 : g[i] # 0 /\ g[j] # 0 /\ i < j => g[i] < g[j]
    BY <1>1, <1>3
  <2>2. \A k \in Nat \ {0} : lo < k /\ k <= hi => \E i \in 1 .. n + 1 : g[i] = k
    BY <1>3
  <2>3. \A i \in 1 .. n + 1 : g[i] # 0 => lo < g[i] /\ g[i] <= hi
    BY <1>1, <1>3
  <2>. QED BY <1>3, <2>1, <2>2, <2>3
<1>. QED BY <1>2, <1>3

\* The task at the head of the queue begins.
LEMMA NumberTaken ==
    ASSUME NEW n \in Nat, NEW lo \in Nat, NEW hi \in Nat, NEW f, Brings(f, n + 1, lo, hi),
           NEW g \in [1 .. n -> Nat], \A i \in 1 .. n : g[i] = f[i + 1]
    PROVE  /\ f[1] = 0 => Brings(g, n, lo, hi)
           /\ f[1] # 0 => f[1] = lo + 1 /\ Brings(g, n, lo + 1, hi)
<1>. USE DEF Brings
<1>1. \A i \in 1 .. n + 1 : i = 1 \/ (i - 1 \in 1 .. n /\ g[i - 1] = f[i])
  OBVIOUS
<1>2. \A i \in 1 .. n : i + 1 \in 1 .. n + 1
  OBVIOUS
<1>3. \A i, j \in 1 .. n : g[i] # 0 /\ g[j] # 0 /\ i < j => g[i] < g[j]
  BY <1>2
<1>4. \A i \in 1 .. n : g[i] # 0 => lo < g[i] /\ g[i] <= hi
  BY <1>2
<1>5. CASE f[1] = 0
  <2>1. \A k \in Nat \ {0} : lo < k /\ k <= hi => \E i \in 1 .. n : g[i] = k
    BY <1>1, <1>5
  <2>. QED BY <1>3, <1>4, <1>5, <2>1
<1>6. CASE f[1] # 0
  <2>1. 1 \in 1 .. n + 1 /\ f[1] \in Nat \ {0}
    BY <1>6
  <2>2. lo < f[1] /\ f[1] <= hi
    BY <1>6, <2>1
  <2>3. \A i \in 1 .. n : g[i] # 0 => f[1] < g[i]
    BY <1>2, <1>6, <2>1
  <2>4. f[1] = lo + 1
    <3>1. PICK i \in 1 .. n + 1 : f[i] = lo + 1
      BY <2>1, <2>2
    <3>2. CASE i = 1
      BY <3>1, <3>2
    <3>3. CASE i - 1 \in 1 .. n /\ g[i - 1] = f[i]
      <4>1. f[1] < lo + 1
        BY <2>3, <3>1, <3>3
      <4>. QED BY <2>1, <2>2, <4>1
    <3>. QED BY <1>1, <3>2, <3>3
  <2>5. ASSUME NEW k \in Nat \ {0}, lo + 1 < k, k <= hi PROVE \E i \in 1 .. n : g[i] = k
    <3>1. PICK i \in 1 .. n + 1 : f[i] = k
      BY <2>5
    <3>. QED BY <1>1, <2>4, <2>5, <3>1
  <2>. QED BY <1>3, <1>4, <1>6, <2>2, <2>3, <2>4, <2>5
<1>. QED BY <1>5, <1>6

\* What is delivered and kept stays the first packets: as a packet is delivered at once,
\* as it is kept and the one before it delivered, and as the callback delivers it.
LEMMA PacketMoves ==
    ASSUME NEW d \in Seq(Nat), NEW k \in Seq(Nat), Len(k) <= 1,
           FirstPackets(d \o k, Len(d) + Len(k))
    PROVE  /\ Len(d) + Len(k) \in Nat
           /\ d \o k \in Seq(Nat)
           /\ FirstPackets((d \o k) \o <<>>, Len(d \o k) + Len(<<>>))
           /\ Len(d \o k) + Len(<<>>) = Len(d) + Len(k)
           /\ \A p \in Nat : p = Len(d) + Len(k) + 1 =>
                 /\ <<p>> \in Seq(Nat) /\ Len(<<p>>) = 1
                 /\ FirstPackets((d \o k) \o <<p>>, Len(d \o k) + Len(<<p>>))
                 /\ Len(d \o k) + Len(<<p>>) = p
<1>1. /\ Len(d) \in Nat /\ Len(k) \in Nat
      /\ d \o k \in Seq(Nat) /\ Len(d \o k) = Len(d) + Len(k)
  BY ConcatProperties
<1>2. (d \o k) \o <<>> = d \o k /\ Len(<<>>) = 0
  BY <1>1, ConcatEmptySeq
<1>3. ASSUME NEW p \in Nat, p = Len(d) + Len(k) + 1
      PROVE  /\ <<p>> \in Seq(Nat) /\ Len(<<p>>) = 1
             /\ FirstPackets((d \o k) \o <<p>>, Len(d \o k) + Len(<<p>>))
  <2>1. <<p>> \in Seq(Nat) /\ Len(<<p>>) = 1 /\ <<p>>[1] = p
    OBVIOUS
  <2>. DEFINE s == (d \o k) \o <<p>>
  <2>2. /\ s \in Seq(Nat) /\ Len(s) = p
        /\ \A i \in 1 .. p : s[i] = IF i <= Len(d) + Len(k) THEN (d \o k)[i]
                                    ELSE <<p>>[i - (Len(d) + Len(k))]
    BY <1>1, <1>3, <2>1, ConcatProperties
  <2>. HIDE DEF s
  <2>3. ASSUME NEW i \in 1 .. p PROVE s[i] = i
    <3>1. CASE i <= Len(d) + Len(k)
      <4>1. i \in 1 .. Len(d) + Len(k)
        BY <1>1, <3>1
      <4>. QED BY <2>2, <3>1, <4>1 DEF FirstPackets
    <3>2. CASE i = p
      <4>1. ~ (i <= Len(d) + Len(k)) /\ i - (Len(d) + Len(k)) = 1
        BY <1>1, <1>3, <3>2
      <4>2. s[i] = <<p>>[i - (Len(d) + Len(k))]
        BY <2>2, <4>1
      <4>. QED BY <2>1, <3>2, <4>1, <4>2
    <3>. QED BY <1>1, <1>3, <3>1, <3>2
  <2>4. Len(d \o k) + Len(<<p>>) = p
    BY <1>1, <1>3, <2>1
  <2>. QED BY <2>1, <2>2, <2>3, <2>4 DEF FirstPackets, s
<1>4. ASSUME NEW p \in Nat, p = Len(d) + Len(k) + 1 PROVE Len(d \o k) + Len(<<p>>) = p
  BY <1>1, <1>3, <1>4
<1>. QED BY <1>1, <1>2, <1>3, <1>4

LEMMA PostKeepsPointerInv ==
    ASSUME PointerInv, PostPacket \/ FireSecondaryCallback
    PROVE  PointerInv'
<1>. USE DEF PointerInv, DispatchTyped
<1>1. /\ Packet(received + 1) \in UiTasks /\ Packet(received + 1).packet = received + 1
      /\ callback \in UiTasks /\ callback.packet = 0
  BY DEF UiTasks, Packet, callback
<1>2. Dispatched \in Nat /\ Len(uiTasks) \in Nat
  BY DEF Dispatched
<1>3. UNCHANGED <<delivered, pending_packet_, is_pointer_data_in_progress_>>
  BY DEF PostPacket, FireSecondaryCallback
<1>4. ASSUME NEW x \in UiTasks, uiTasks' = Append(uiTasks, x),
             \/ x.packet = received + 1 /\ received' = received + 1
             \/ x.packet = 0 /\ received' = received
      PROVE  /\ uiTasks' \in Seq(UiTasks) /\ received' \in Nat
             /\ Brings(Numbers(uiTasks'), Len(uiTasks'), Dispatched, received')
  <2>1. /\ uiTasks' \in Seq(UiTasks)
        /\ Len(uiTasks') = Len(uiTasks) + 1
        /\ Numbers(uiTasks') \in [1 .. Len(uiTasks) + 1 -> Nat]
        /\ Numbers(uiTasks')[Len(uiTasks) + 1] = x.packet
        /\ \A i \in 1 .. Len(uiTasks) : Numbers(uiTasks')[i] = Numbers(uiTasks)[i]
    BY <1>4, NumbersOfAppend
  <2>2. /\ x.packet = received + 1
              => Brings(Numbers(uiTasks'), Len(uiTasks) + 1, Dispatched, received + 1)
        /\ x.packet = 0 => Brings(Numbers(uiTasks'), Len(uiTasks) + 1, Dispatched, received)
    BY <1>2, <2>1, NumberPosted
  <2>. QED BY <1>4, <2>1, <2>2
<1>5. /\ uiTasks' \in Seq(UiTasks) /\ received' \in Nat
      /\ Brings(Numbers(uiTasks'), Len(uiTasks'), Dispatched, received')
  <2>1. CASE PostPacket
    <3>1. uiTasks' = Append(uiTasks, Packet(received + 1)) /\ received' = received + 1
      BY <2>1 DEF PostPacket
    <3>. QED BY <1>1, <1>4, <3>1
  <2>2. CASE FireSecondaryCallback
    BY <1>1, <1>4, <2>2 DEF FireSecondaryCallback
  <2>. QED BY <2>1, <2>2
<1>6. Dispatched' = Dispatched /\ KeptInProgress'
  BY <1>3 DEF Dispatched, KeptInProgress
<1>. QED BY <1>3, <1>5, <1>6

LEMMA UiTaskKeepsPointerInv ==
    ASSUME PointerInv, UiTask
    PROVE  PointerInv'
<1>. USE DEF PointerInv, DispatchTyped
<1>1. Dispatched \in Nat
  BY DEF Dispatched
<1>2. uiTasks # <<>> /\ uiTasks' = Tail(uiTasks) /\ received' = received
  BY DEF UiTask, RunSecondaryCallback, DispatchPacket, NextTask
<1>3. /\ uiTasks' \in Seq(UiTasks)
      /\ Numbers(uiTasks)[1] = 0
            => Brings(Numbers(uiTasks'), Len(uiTasks'), Dispatched, received')
      /\ Numbers(uiTasks)[1] # 0 =>
            /\ Numbers(uiTasks)[1] = Dispatched + 1
            /\ Brings(Numbers(uiTasks'), Len(uiTasks'), Dispatched + 1, received')
      /\ Numbers(uiTasks)[1] = Head(uiTasks).packet
  <2>. DEFINE n == Len(Tail(uiTasks))
              g == Numbers(Tail(uiTasks))
  <2>1. /\ Tail(uiTasks) \in Seq(UiTasks) /\ n \in Nat /\ Len(uiTasks) = n + 1
        /\ g \in [1 .. n -> Nat]
        /\ Numbers(uiTasks)[1] = Head(uiTasks).packet
        /\ \A i \in 1 .. n : g[i] = Numbers(uiTasks)[i + 1]
    BY <1>2, NumbersOfTail
  <2>2. Brings(Numbers(uiTasks), n + 1, Dispatched, received)
    BY <2>1
  <2>. HIDE DEF n, g
  <2>3. /\ Numbers(uiTasks)[1] = 0 => Brings(g, n, Dispatched, received)
        /\ Numbers(uiTasks)[1] # 0 => Numbers(uiTasks)[1] = Dispatched + 1
                                     /\ Brings(g, n, Dispatched + 1, received)
    BY <1>1, <2>1, <2>2, NumberTaken
  <2>. QED BY <1>2, <2>1, <2>3 DEF n, g
<1>4. /\ delivered \o pending_packet_ \in Seq(Nat)
      /\ FirstPackets((delivered \o pending_packet_) \o <<>>,
                      Len(delivered \o pending_packet_) + Len(<<>>))
      /\ Len(delivered \o pending_packet_) + Len(<<>>) = Dispatched
      /\ \A p \in Nat : p = Dispatched + 1 =>
            /\ <<p>> \in Seq(Nat) /\ Len(<<p>>) = 1
            /\ FirstPackets((delivered \o pending_packet_) \o <<p>>,
                            Len(delivered \o pending_packet_) + Len(<<p>>))
            /\ Len(delivered \o pending_packet_) + Len(<<p>>) = p
  BY PacketMoves DEF Dispatched
<1>5. ASSUME NEW p \in 1 .. MaxPackets, DispatchPacket(p) PROVE PointerInv'
  <2>1. p = Dispatched + 1 /\ Brings(Numbers(uiTasks'), Len(uiTasks'), p, received')
    <3>1. p \in Nat \ {0} /\ Head(uiTasks).packet = p
      BY <1>5, PacketsAssumption DEF DispatchPacket, NextTask, Packet
    <3>. QED BY <1>3, <3>1
  <2>2. p \in Nat
    BY <1>1, <2>1
  <2>3. CASE is_pointer_data_in_progress_
    <3>1. /\ delivered' = delivered \o pending_packet_ /\ pending_packet_' = <<p>>
          /\ is_pointer_data_in_progress_'
      BY <1>5, <2>3 DEF DispatchPacket
    <3>2. /\ delivered' \in Seq(Nat) /\ pending_packet_' \in Seq(Nat)
          /\ Len(pending_packet_') = 1 /\ Dispatched' = p
          /\ FirstPackets(delivered' \o pending_packet_', p)
      BY <1>4, <2>1, <2>2, <3>1 DEF Dispatched
    <3>. QED BY <1>2, <1>3, <2>1, <3>1, <3>2 DEF KeptInProgress
  <2>4. CASE ~ is_pointer_data_in_progress_
    <3>1. /\ pending_packet_ = <<>> /\ pending_packet_' = <<>>
          /\ delivered' = Append(delivered, p)
      BY <1>5, <2>4 DEF DispatchPacket, KeptInProgress
    <3>2. delivered \o pending_packet_ = delivered /\ delivered' = delivered \o <<p>>
      BY <2>2, <3>1, ConcatEmptySeq, AppendIsConcat
    <3>3. /\ delivered' \in Seq(Nat) /\ Len(delivered') = p
          /\ FirstPackets(delivered', p)
      BY <1>4, <2>1, <2>2, <3>2 DEF FirstPackets
    <3>4. /\ delivered' \o pending_packet_' = delivered' /\ Dispatched' = p
          /\ Len(pending_packet_') <= 1 /\ pending_packet_' \in Seq(Nat)
      BY <2>2, <3>1, <3>3, ConcatEmptySeq DEF Dispatched
    <3>. QED BY <1>2, <1>3, <2>1, <3>1, <3>3, <3>4 DEF KeptInProgress
  <2>. QED BY <2>3, <2>4
<1>6. CASE RunSecondaryCallback
  <2>1. Brings(Numbers(uiTasks'), Len(uiTasks'), Dispatched, received')
    <3>1. Head(uiTasks).packet = 0
      BY <1>6 DEF RunSecondaryCallback, NextTask, callback
    <3>. QED BY <1>3, <3>1
  <2>2. CASE is_pointer_data_in_progress_ /\ pending_packet_ # <<>>
    <3>1. delivered' = delivered \o pending_packet_ /\ pending_packet_' = <<>>
      BY <1>6, <2>2 DEF RunSecondaryCallback
    <3>2. /\ delivered' \in Seq(Nat) /\ pending_packet_' \in Seq(Nat)
          /\ Len(pending_packet_') <= 1 /\ Dispatched' = Dispatched
          /\ FirstPackets(delivered' \o pending_packet_', Dispatched)
      BY <1>4, <3>1 DEF Dispatched
    <3>. QED BY <1>2, <1>3, <2>1, <3>1, <3>2 DEF KeptInProgress
  <2>3. CASE ~ (is_pointer_data_in_progress_ /\ pending_packet_ # <<>>)
    <3>1. UNCHANGED <<delivered, pending_packet_>> /\ pending_packet_ = <<>>
      BY <1>6, <2>3 DEF RunSecondaryCallback, KeptInProgress
    <3>. QED BY <1>2, <1>3, <2>1, <3>1 DEF KeptInProgress, Dispatched
  <2>. QED BY <2>2, <2>3
<1>. QED BY <1>5, <1>6 DEF UiTask

\* A packet is dispatched after all earlier ones, whenever vsyncs come: none overtakes
\* the one that is kept, is lost or is delivered twice, for any number of packets
\* (pointer_data_dispatcher.cc:36-48).
THEOREM PacketsAlwaysInOrder == PointerSpec => []PacketsInOrder
<1>1. PointerInit => PointerInv
  BY DEF PointerInit, PointerInv, DispatchTyped, KeptInProgress, Dispatched, FirstPackets,
         Brings, Numbers
<1>2. PointerInv /\ [PointerNext]_pointerVars => PointerInv'
  <2>1. ASSUME PointerInv, UNCHANGED pointerVars PROVE PointerInv'
    BY <2>1 DEF PointerInv, pointerVars, DispatchTyped, KeptInProgress, Dispatched
  <2>. QED BY <2>1, PostKeepsPointerInv, UiTaskKeepsPointerInv DEF PointerNext
<1>3. PointerInv => PacketsInOrder
  <2>. SUFFICES ASSUME PointerInv PROVE PacketsInOrder
    OBVIOUS
  <2>. DEFINE dispatched == delivered \o pending_packet_
              waiting == {i \in DOMAIN uiTasks : uiTasks[i] # callback}
  <2>1. /\ dispatched \in Seq(Nat) /\ Len(dispatched) = Dispatched
        /\ \A i \in 1 .. Len(dispatched) : dispatched[i] = i
    BY DEF PointerInv, FirstPackets
  <2>2. dispatched = [i \in 1 .. Len(dispatched) |-> i]
    <3>. HIDE DEF dispatched
    <3>1. dispatched \in [1 .. Len(dispatched) -> Nat]
      BY <2>1, LenProperties
    <3>. QED BY <2>1, <3>1
  <2>3. /\ DOMAIN uiTasks = 1 .. Len(uiTasks)
        /\ \A i \in 1 .. Len(uiTasks) :
              /\ Numbers(uiTasks)[i] = uiTasks[i].packet
              /\ uiTasks[i] # callback <=> Numbers(uiTasks)[i] # 0
    <3>1. ASSUME NEW i \in 1 .. Len(uiTasks) PROVE uiTasks[i] # callback <=> uiTasks[i].packet # 0
      <4>1. uiTasks[i] \in UiTasks
        BY DEF PointerInv, DispatchTyped
      <4>. QED BY <4>1 DEF UiTasks, callback
    <3>. QED BY <3>1, NumbersTyped DEF PointerInv, DispatchTyped
  <2>4. \A i : i \in waiting <=> i \in 1 .. Len(uiTasks) /\ Numbers(uiTasks)[i] # 0
    BY <2>3
  <2>5. Brings(Numbers(uiTasks), Len(uiTasks), Len(dispatched), received)
    BY <2>1 DEF PointerInv
  <2>6. received \in Nat /\ Len(uiTasks) \in Nat /\ Len(dispatched) \in Nat
    BY <2>1 DEF PointerInv, DispatchTyped
  <2>. HIDE DEF dispatched, waiting
  <2>7. Len(dispatched) <= received
    BY <2>5 DEF Brings
  <2>8. \A i, j \in waiting : i < j => uiTasks[i].packet < uiTasks[j].packet
    BY <2>3, <2>4, <2>5 DEF Brings
  <2>9. {uiTasks[i].packet : i \in waiting} = Len(dispatched) + 1 .. received
    <3>1. ASSUME NEW i \in waiting PROVE uiTasks[i].packet \in Len(dispatched) + 1 .. received
      <4>1. i \in 1 .. Len(uiTasks) /\ Numbers(uiTasks)[i] # 0 /\ Numbers(uiTasks)[i] \in Nat
        BY <2>4, <2>5 DEF Brings
      <4>2. Len(dispatched) < Numbers(uiTasks)[i] /\ Numbers(uiTasks)[i] <= received
        BY <2>5, <4>1 DEF Brings
      <4>. QED BY <2>3, <2>6, <4>1, <4>2
    <3>2. ASSUME NEW k \in Len(dispatched) + 1 .. received
          PROVE  \E i \in waiting : uiTasks[i].packet = k
      <4>1. PICK i \in 1 .. Len(uiTasks) : Numbers(uiTasks)[i] = k
        BY <2>5, <2>6 DEF Brings
      <4>. QED BY <2>3, <2>4, <2>6, <4>1
    <3>. QED BY <3>1, <3>2
  <2>. QED BY <2>2, <2>7, <2>8, <2>9 DEF PacketsInOrder, dispatched, waiting
<1>. QED BY <1>1, <1>2, <1>3, PTL DEF PointerSpec

-----------------------------------------------------------------------------
(* GpuAccess: each request is answered once and no decode or snapshot is   *)
(* forgotten, for any number of requests and of tasks a context keeps.    *)

\* s holds stored requests, each of them once.
HoldsStored(s, where) ==
    /\ s \in Seq(Requests)
    /\ \A i \in 1 .. Len(s) : where[s[i]] = "stored"
    /\ \A i, j \in 1 .. Len(s) : s[i] = s[j] => i = j

Apart(s, t) == \A i \in 1 .. Len(s), j \in 1 .. Len(t) : s[i] # t[j]

\* A stored request waits in one of the two queues.
StoredWaits ==
    /\ HoldsStored(tasks_awaiting_gpu_, request)
    /\ HoldsStored(flushing, request)
    /\ Apart(tasks_awaiting_gpu_, flushing)

RequestsTyped ==
    /\ request \in [Requests -> {"new", "using", "storing", "refused", "stored",
                                 "retry", "answered"}]
    /\ answers \in [Requests -> Nat]

AnswersInv == RequestsTyped /\ StoredWaits /\ AnsweredOnce

\* A request that is between its test of the switch and its store has kept the switch
\* where it was, or is an encode.
StoringSawSwitch ==
    \A k \in Requests :
        /\ request[k] = "storing" => value_
        /\ request[k] = "refused" => k \in Encodes

NoUpload(s) == \A i \in 1 .. Len(s) : s[i] \notin Uploads

\* Uploads wait only until the observer has seen the GPU again.
UploadsAreSeen == ~ value_ /\ observer # "notify" => NoUpload(tasks_awaiting_gpu_)

USE GpuAssumption DEF HoldsStored, Apart, StoredWaits, RequestsTyped, AnsweredOnce,
    StoringSawSwitch, NoUpload, UploadsAreSeen

LEMMA OthersStored ==
    ASSUME NEW s, NEW where, HoldsStored(s, where), NEW k, where[k] # "stored",
           NEW after, \A j \in Requests : j # k => after[j] = where[j]
    PROVE  HoldsStored(s, after) /\ \A i \in 1 .. Len(s) : s[i] # k
<1>1. \A i \in 1 .. Len(s) : s[i] \in Requests /\ s[i] # k
  BY DEF HoldsStored
<1>2. \A i \in 1 .. Len(s) : after[s[i]] = "stored"
  BY <1>1 DEF HoldsStored
<1>. QED BY <1>1, <1>2 DEF HoldsStored

LEMMA AppendStored ==
    ASSUME NEW s, NEW where, HoldsStored(s, where), NEW k \in Requests, where[k] # "stored",
           NEW after, after[k] = "stored", \A j \in Requests : j # k => after[j] = where[j]
    PROVE  HoldsStored(Append(s, k), after)
BY AppendProperties

LEMMA TailStored ==
    ASSUME NEW s, NEW where, HoldsStored(s, where), s # <<>>,
           NEW after,
           \A k \in Requests : k # Head(s) => after[k] = where[k]
    PROVE  /\ HoldsStored(Tail(s), after)
           /\ where[Head(s)] = "stored" /\ Head(s) \in Requests
<1>1. /\ Tail(s) \in Seq(Requests) /\ Len(Tail(s)) = Len(s) - 1
      /\ \A i \in 1 .. Len(Tail(s)) : Tail(s)[i] = s[i + 1] /\ i + 1 \in 1 .. Len(s)
      /\ Head(s) = s[1] /\ 1 \in 1 .. Len(s)
  BY HeadTailProperties
<1>2. ASSUME NEW i \in 1 .. Len(Tail(s)) PROVE Tail(s)[i] # Head(s) /\ Tail(s)[i] \in Requests
  BY <1>1
<1>. QED BY <1>1, <1>2

LEMMA ApartTail ==
    ASSUME NEW s \in Seq(Requests), s # <<>>, NEW t, Apart(s, t)
    PROVE  /\ Apart(Tail(s), t)
           /\ \A j \in 1 .. Len(t) : t[j] # Head(s)
<1>1. /\ Len(Tail(s)) = Len(s) - 1
      /\ \A i \in 1 .. Len(Tail(s)) : Tail(s)[i] = s[i + 1] /\ i + 1 \in 1 .. Len(s)
      /\ Head(s) = s[1] /\ 1 \in 1 .. Len(s)
  BY HeadTailProperties
<1>. QED BY <1>1

\* A request that is not stored moves on.
LEMMA RequestKeepsAnswers ==
    ASSUME AnswersInv, NEW k \in Requests, Execute(k) \/ FinishWork(k) \/ Retry(k)
    PROVE  AnswersInv'
<1>1. PICK to \in {"using", "storing", "refused", "answered"} :
          /\ request' = [request EXCEPT ![k] = to]
          /\ answers' = IF to = "answered" THEN [answers EXCEPT ![k] = @ + 1] ELSE answers
          /\ UNCHANGED <<tasks_awaiting_gpu_, flushing>>
  <2>. HIDE DEF HoldsStored, Apart, StoredWaits, RequestsTyped, AnsweredOnce, StoringSawSwitch,
                NoUpload, UploadsAreSeen
  <2>1. CASE Execute(k)
    BY <2>1 DEF Execute
  <2>2. CASE FinishWork(k)
    BY <2>2 DEF FinishWork
  <2>3. CASE Retry(k)
    BY <2>3 DEF Retry
  <2>. QED BY <2>1, <2>2, <2>3
<1>2. request[k] \notin {"stored", "answered"}
  BY DEF Execute, FinishWork, Retry
<1>3. RequestsTyped /\ AnsweredOnce /\ HoldsStored(tasks_awaiting_gpu_, request)
      /\ HoldsStored(flushing, request) /\ Apart(tasks_awaiting_gpu_, flushing)
  BY DEF AnswersInv
<1>4. /\ request'[k] = to
      /\ \A j \in Requests : j # k => request'[j] = request[j]
  BY <1>1, <1>3
<1>5. RequestsTyped'
  <2>1. answers' \in [Requests -> Nat]
    <3>1. CASE to = "answered"
      BY <1>1, <1>3, <3>1
    <3>2. CASE to # "answered"
      BY <1>1, <1>3, <3>2
    <3>. QED BY <3>1, <3>2
  <2>. QED BY <1>1, <1>3, <2>1
<1>6. AnsweredOnce'
  BY <1>1, <1>2, <1>3, <1>4
<1>7. HoldsStored(tasks_awaiting_gpu_, request') /\ HoldsStored(flushing, request')
  <2>. HIDE DEF HoldsStored
  <2>. QED BY <1>2, <1>3, <1>4, OthersStored
<1>. QED BY <1>1, <1>3, <1>5, <1>6, <1>7 DEF AnswersInv

\* The stored request is new to the queue, and the one that does not fit any more
\* leaves it.
LEMMA StoreKeepsAnswers ==
    ASSUME AnswersInv, NEW k \in Requests, StoreTaskForGPU(k)
    PROVE  AnswersInv'
<1>. DEFINE queue == Append(tasks_awaiting_gpu_, k)
            middle == [request EXCEPT ![k] = "stored"]
            full == Len(queue) > kMaxTasksAwaitingGPU
<1>1. /\ HoldsStored(queue, middle) /\ HoldsStored(flushing, middle)
      /\ Apart(queue, flushing)
      /\ queue # <<>>
      /\ request[k] \notin {"stored", "answered"}
  <2>1. request[k] \in {"storing", "refused"}
    BY DEF StoreTaskForGPU
  <2>2. HoldsStored(queue, middle)
    BY <2>1, AppendStored DEF AnswersInv
  <2>3. HoldsStored(flushing, middle) /\ \A i \in 1 .. Len(flushing) : flushing[i] # k
    <3>1. HoldsStored(flushing, request) /\ \A j \in Requests : j # k => middle[j] = request[j]
      BY DEF AnswersInv
    <3>. HIDE DEF HoldsStored, middle
    <3>. QED BY <2>1, <3>1, OthersStored
  <2>4. Apart(queue, flushing)
    BY <2>3, AppendProperties DEF AnswersInv
  <2>. QED BY <2>1, <2>2, <2>3, <2>4, AppendProperties DEF AnswersInv
<1>2. CASE ~ full
  <2>1. /\ tasks_awaiting_gpu_' = queue /\ request' = middle
        /\ UNCHANGED <<answers, flushing>>
    BY <1>2 DEF AnswersInv, StoreTaskForGPU
  <2>. QED BY <1>1, <2>1 DEF AnswersInv
<1>3. CASE full
  <2>. DEFINE oldest == Head(queue)
  <2>1. tasks_awaiting_gpu_ # <<>> /\ oldest = tasks_awaiting_gpu_[1] /\ oldest # k
        /\ oldest \in Requests /\ request[oldest] = "stored"
    <3>1. Len(queue) = Len(tasks_awaiting_gpu_) + 1
      BY AppendProperties DEF AnswersInv
    <3>2. 1 \in 1 .. Len(tasks_awaiting_gpu_)
      BY <1>3, <3>1 DEF AnswersInv
    <3>3. oldest = tasks_awaiting_gpu_[1]
      BY <3>2, AppendProperties DEF AnswersInv
    <3>. QED BY <1>1, <3>2, <3>3 DEF AnswersInv
  <2>2. /\ tasks_awaiting_gpu_' = Tail(queue)
        /\ request' = [middle EXCEPT ![oldest] = "answered"]
        /\ answers' = [answers EXCEPT ![oldest] = @ + 1]
        /\ UNCHANGED flushing
    BY <1>3, <2>1 DEF AnswersInv, StoreTaskForGPU
  <2>3. HoldsStored(tasks_awaiting_gpu_', request')
    <3>1. \A j \in Requests : j # oldest => request'[j] = middle[j]
      BY <2>2 DEF AnswersInv
    <3>. QED
      <4>. HIDE DEF HoldsStored, queue, middle
      <4>. QED BY <1>1, <2>2, <3>1, TailStored
  <2>4. Apart(tasks_awaiting_gpu_', flushing') /\ HoldsStored(flushing', request')
    BY <1>1, <2>2, ApartTail DEF AnswersInv
  <2>5. RequestsTyped' /\ AnsweredOnce'
    BY <1>1, <2>1, <2>2 DEF AnswersInv
  <2>. QED BY <2>3, <2>4, <2>5 DEF AnswersInv
<1>. QED BY <1>2, <1>3

\* The observer's thread moves the queue, and then empties it.
LEMMA ObserverKeepsAnswers ==
    ASSUME AnswersInv, observer # "flush" => flushing = <<>>,
           ObserverStep \/ \E disabled \in BOOLEAN : SetSwitch(disabled)
    PROVE  AnswersInv'
<1>1. CASE OnSyncSwitchUpdate
  <2>1. /\ UNCHANGED <<request, answers>>
        /\ \/ UNCHANGED <<tasks_awaiting_gpu_, flushing>>
           \/ flushing' = tasks_awaiting_gpu_ /\ tasks_awaiting_gpu_' = <<>>
    BY <1>1 DEF OnSyncSwitchUpdate
  <2>2. RequestsTyped' /\ AnsweredOnce'
    BY <2>1 DEF AnswersInv
  <2>3. CASE UNCHANGED <<tasks_awaiting_gpu_, flushing>>
    BY <2>1, <2>2, <2>3 DEF AnswersInv
  <2>4. CASE flushing' = tasks_awaiting_gpu_ /\ tasks_awaiting_gpu_' = <<>>
    <3>1. HoldsStored(flushing', request')
      BY <2>1, <2>4 DEF AnswersInv
    <3>2. HoldsStored(tasks_awaiting_gpu_', request') /\ Apart(tasks_awaiting_gpu_', flushing')
      BY <2>4
    <3>. QED BY <2>2, <3>1, <3>2 DEF AnswersInv
  <2>. QED BY <2>1, <2>3, <2>4
<1>2. CASE FlushNext
  <2>1. /\ flushing # <<>> /\ flushing' = Tail(flushing)
        /\ \A j \in Requests : j # Head(flushing) =>
               request'[j] = request[j] /\ answers'[j] = answers[j]
        /\ UNCHANGED tasks_awaiting_gpu_
    BY <1>2 DEF AnswersInv, FlushNext
  <2>2. HoldsStored(flushing', request') /\ request[Head(flushing)] = "stored"
        /\ Head(flushing) \in Requests
    BY <2>1, TailStored DEF AnswersInv
  <2>3. /\ Apart(tasks_awaiting_gpu_', flushing')
        /\ \A i \in 1 .. Len(tasks_awaiting_gpu_) : tasks_awaiting_gpu_[i] # Head(flushing)
    BY <2>1, ApartTail DEF AnswersInv
  <2>4. HoldsStored(tasks_awaiting_gpu_', request')
    BY <2>1, <2>3 DEF AnswersInv
  <2>5. RequestsTyped'
    <3>1. request' \in {[request EXCEPT ![Head(flushing)] = "answered"],
                        [request EXCEPT ![Head(flushing)] = "retry"]}
      BY <1>2 DEF FlushNext
    <3>2. answers' \in {answers, [answers EXCEPT ![Head(flushing)] = @ + 1]}
      BY <1>2 DEF FlushNext
    <3>. DEFINE h == Head(flushing)
    <3>3. h \in Requests /\ RequestsTyped
      BY <2>2 DEF AnswersInv
    <3>. HIDE DEF h
    <3>4. [request EXCEPT ![h] = "answered"] \in [Requests -> {"new", "using", "storing",
              "refused", "stored", "retry", "answered"}]
      BY <3>3
    <3>5. [request EXCEPT ![h] = "retry"] \in [Requests -> {"new", "using", "storing",
              "refused", "stored", "retry", "answered"}]
      BY <3>3
    <3>6. [answers EXCEPT ![h] = @ + 1] \in [Requests -> Nat]
      BY <3>3
    <3>. QED BY <3>1, <3>2, <3>3, <3>4, <3>5, <3>6 DEF h
  <2>6. answers'[Head(flushing)] = IF request'[Head(flushing)] = "answered" THEN 1 ELSE 0
    BY <1>2, <2>2 DEF AnswersInv, FlushNext
  <2>7. AnsweredOnce'
    BY <2>1, <2>6 DEF AnswersInv
  <2>. QED BY <2>2, <2>3, <2>4, <2>5, <2>7 DEF AnswersInv
<1>3. CASE EndFlush \/ \E disabled \in BOOLEAN : SetSwitch(disabled)
  BY <1>3 DEF AnswersInv, EndFlush, SetSwitch
<1>. QED BY <1>1, <1>2, <1>3 DEF ObserverStep

FlushedWhileFlushing == observer # "flush" => flushing = <<>>

GpuInv == AnswersInv /\ StoringSawSwitch /\ UploadsAreSeen /\ FlushedWhileFlushing

LEMMA GpuInvInit == GpuInit => GpuInv
BY DEF GpuInit, GpuInv, AnswersInv, FlushedWhileFlushing

\* Requests: the store of an upload still holds the switch's lock.
LEMMA RequestKeepsGpuInv ==
    ASSUME GpuInv, NEW k \in Requests, RequestStep(k)
    PROVE  GpuInv'
<1>1. AnswersInv'
  BY RequestKeepsAnswers, StoreKeepsAnswers DEF GpuInv, RequestStep
<1>2. UNCHANGED <<value_, observer, flushing>> /\ FlushedWhileFlushing'
  BY DEF GpuInv, RequestStep, Execute, FinishWork, StoreTaskForGPU, Retry,
         FlushedWhileFlushing
<1>3. CASE Execute(k) \/ FinishWork(k) \/ Retry(k)
  BY <1>1, <1>2, <1>3 DEF GpuInv, AnswersInv, Execute, FinishWork, Retry, Requests
<1>4. CASE StoreTaskForGPU(k)
  <2>. DEFINE queue == Append(tasks_awaiting_gpu_, k)
  <2>1. /\ request[k] \in {"storing", "refused"}
        /\ tasks_awaiting_gpu_' \in {queue, Tail(queue)}
        /\ \A j \in Requests : request'[j] \in {request[j], "answered", "stored"}
    BY <1>4 DEF StoreTaskForGPU, GpuInv, AnswersInv
  <2>2. StoringSawSwitch'
    BY <1>2, <2>1 DEF GpuInv
  <2>3. ASSUME ~ value_, observer # "notify" PROVE NoUpload(tasks_awaiting_gpu_')
    <3>1. k \notin Uploads /\ NoUpload(tasks_awaiting_gpu_)
      BY <2>1, <2>3 DEF GpuInv
    <3>2. queue \in Seq(Requests) /\ queue # <<>> /\ NoUpload(queue)
      BY <3>1, AppendProperties DEF GpuInv, AnswersInv
    <3>3. NoUpload(Tail(queue))
      <4>. HIDE DEF queue
      <4>1. /\ Len(Tail(queue)) = Len(queue) - 1
            /\ \A i \in 1 .. Len(Tail(queue)) :
                  Tail(queue)[i] = queue[i + 1] /\ i + 1 \in 1 .. Len(queue)
        BY <3>2, HeadTailProperties
      <4>. QED BY <3>2, <4>1
    <3>. QED BY <2>1, <3>2, <3>3
  <2>. QED BY <1>1, <1>2, <2>2, <2>3 DEF GpuInv
<1>. QED BY <1>3, <1>4 DEF RequestStep

\* The platform thread: it turns the switch while nobody is storing an upload, and
\* tells the observer next.
LEMMA PlatformKeepsGpuInv ==
    ASSUME GpuInv, ObserverStep \/ \E disabled \in BOOLEAN : SetSwitch(disabled)
    PROVE  GpuInv'
<1>1. AnswersInv'
  BY ObserverKeepsAnswers DEF GpuInv, FlushedWhileFlushing
<1>2. CASE \E disabled \in BOOLEAN : SetSwitch(disabled)
  BY <1>1, <1>2 DEF GpuInv, SetSwitch, Readers, FlushedWhileFlushing
<1>3. CASE OnSyncSwitchUpdate
  BY <1>1, <1>3 DEF GpuInv, OnSyncSwitchUpdate, FlushedWhileFlushing
<1>4. CASE FlushNext
  <2>1. /\ UNCHANGED <<value_, tasks_awaiting_gpu_, observer>> /\ observer = "flush"
        /\ \A j \in Requests : request'[j] \in {request[j], "answered", "retry"}
    BY <1>4 DEF FlushNext, GpuInv, AnswersInv
  <2>. QED BY <1>1, <2>1 DEF GpuInv, FlushedWhileFlushing
<1>5. CASE EndFlush
  BY <1>1, <1>5 DEF GpuInv, EndFlush, FlushedWhileFlushing
<1>. QED BY <1>2, <1>3, <1>4, <1>5 DEF ObserverStep

LEMMA GpuInvStep == GpuInv /\ [GpuNext]_gpuVars => GpuInv'
<1>. SUFFICES ASSUME GpuInv, [GpuNext]_gpuVars PROVE GpuInv'
  OBVIOUS
<1>1. CASE UNCHANGED gpuVars
  BY <1>1 DEF GpuInv, AnswersInv, FlushedWhileFlushing, gpuVars
<1>. QED BY <1>1, RequestKeepsGpuInv, PlatformKeepsGpuInv DEF GpuNext

\* Each decode, snapshot and encode is answered once, for any number of requests and
\* any bound of the stored tasks: a task that is flushed is not failed as well, and
\* none is flushed twice (context_mtl.mm:392-445).
THEOREM AlwaysAnsweredOnce == GpuSpec => []AnsweredOnce
<1>1. GpuInv => AnsweredOnce
  BY DEF GpuInv, AnswersInv
<1>. QED BY <1>1, GpuInvInit, GpuInvStep, PTL DEF GpuSpec

\* No decode or snapshot is forgotten while the GPU is there: its test of the switch
\* and its store are one critical section of the switch's lock
\* (image_decoder_impeller.cc:584-609).
THEOREM NeverUploadStranded == GpuSpec => []NoUploadStranded
<1>1. GpuInv => NoUploadStranded
  BY DEF GpuInv, AnswersInv, NoUploadStranded
<1>. QED BY <1>1, GpuInvInit, GpuInvStep, PTL DEF GpuSpec

=============================================================================
