# TLA+ models of the Flutter engine's threading core

The repository is the Flutter monorepo. Its own concurrent program is the C++
engine under `src/engine/src/flutter`: four threads (platform, UI, raster, IO)
that exchange tasks, frames and, on Android, even each other's task queues, with
worker threads and backend threads beside them. The modules in this directory
model that core, and the services around it whose protocols are hard: the shell's
life, the worker pool, the clean-up after GPU work, the switch that takes the GPU
away, the release of Skia objects, pointer packets, the resize of a window, and
the gesture arena of the framework. TLC checks them on small instances and TLAPS
proves the most important invariants for every value of the constants. Paths
below are relative to `src/engine/src/flutter`, except those of the framework.

    tlc -workers 2 -config MCFrames.cfg MCFrames.tla     check one run
    tlapm FramesProofs.tla                               check the proofs of a module

`PROJECT.json` is the machine-readable index: components, runs, the mutants that
break each property, the source lines of each definition, findings, hazards and
theorems.

## 1. Inventory

### 1.1 The engine's concurrent core

| component | state | operations | who touches it |
|---|---|---|---|
| Task queues (`fml/message_loop_task_queues.cc`, `fml/task_source.cc`) | one process-wide table: per queue an entry, two heaps of delayed tasks, a pause counter, observers, the queues it owns, the queue that subsumes it, a wakeable | create, dispose, dispose tasks, register, get next, observe, pause, resume, merge, unmerge | every thread, under `queue_mutex_` |
| Message loops and task runners (`fml/message_loop_impl.cc`, `fml/task_runner.cc`, `fml/thread.cc`, the loops of each platform) | `terminated_`, `running_`, the timer, the task that runs | post, run, flush, terminate, join | its thread; any thread posts |
| Frame pipeline (`shell/common/pipeline.h`) | two semaphores, a queue | produce, commit (always, or if empty), consume | UI thread and raster thread |
| Animator, vsync waiter (`shell/common/animator.cc`, `vsync_waiter.cc`) | continuation, layer trees of the frame, request semaphore, callbacks | request a frame, await the vsync, begin, render, end | UI thread; the platform's vsync thread fires |
| Rasterizer (`shell/common/rasterizer.cc`) | the item it draws, the surface, its merger | draw with resubmission, setup, teardown | raster thread, or the platform thread while merged |
| Raster thread merger (`fml/shared_thread_merger.cc`, `raster_thread_merger.cc`) | a lease per engine, `enabled_` | merge with a lease, extend, decrement, un-merge, enable, disable | raster and platform threads, each merger under its mutex and the leases under another |
| Shell (`shell/common/shell.cc`) | owner of all the above; futures and latches | create, launch, destroy, surface created and destroyed, wait for the first frame | all threads |
| Concurrent message loop (`fml/concurrent_message_loop.cc`) | tasks, tasks per worker, shutdown flag, a weak reference per runner | post, post to all workers, work, terminate, destroy | worker pool, any thread that posts |
| Synchronisation primitives (`fml/synchronization`) | a switch with observers, events with timeouts | set, execute, wait, signal | any thread |
| Impeller's GPU tasks (`impeller/renderer/backend/metal/context_mtl.mm`, `lib/ui/painting/image_*_impeller.cc`) | the tasks that wait for the GPU | execute, store, flush, retry | worker, IO and raster threads; the platform thread turns the switch |
| Impeller's Vulkan clean-up (`impeller/renderer/backend/vulkan/fence_waiter_vk.cc`, `resource_manager_vk.cc`, `command_queue_vk.cc`) | fences with callbacks, resources to destroy, two shutdown flags | submit, add a fence, wait, reclaim, terminate | submitting threads, the waiter's and the manager's thread |
| Skia unref queue (`flow/skia_gpu_object.h`) | objects to release, `drain_pending_`, a reference count | unref, drain, destroy | any thread; the IO thread drains |
| Window resize on Windows (`shell/platform/windows/flutter_windows_view.cc`) | the surface, the status and the target of a resize | size changed, frame generated, frame presented | platform thread, which blocks, and raster thread |
| Gesture arena (`src/packages/flutter/lib/src/gestures/arena.dart`) | members, open, held, pending sweep, eager winner | add, close, sweep, hold, release, resolve | recognizers, re-entrantly, and a microtask |
| Dart VM and isolates (`runtime`) | the shared VM reference, platform isolates | ensure, register, shut down | platform and UI threads |
| Pointer data dispatcher (`shell/common/pointer_data_dispatcher.cc`) | one packet held back | dispatch, secondary callback | UI thread |
| Channel buffers (`lib/ui/channel_buffers.dart`) | bounded queue per channel | push, drain, resize | UI thread |

Interactions: the shell posts tasks to runners; runners register them in the
table; the loop that services the queue runs them. The animator commits frames
into the pipeline and tells the shell, which posts a Draw task to the raster
runner. The rasterizer asks the merger on every frame which thread it may draw
on, and the merger calls Merge and Unmerge of the table. The vsync waiter
pauses the UI queue's secondary heap for the length of a frame callback.

Image decoders and encoders ask the switch whether the GPU may be used and leave
tasks behind if it may not; command queues hand fences to the waiter, whose
callbacks hand resources to the manager. The embedder calls the shell on the
platform thread, which waits for the others.

The rest of the repository (compositor, display lists, the renderers, text, the
other parts of the embedders and of the framework, the web engine, the tool, the
tests, the infrastructure) is listed under `components` with the reason why it is not
modelled: geometry and drawing, I/O, sequential code of another language, or not
part of the program that runs.

### 1.2 What is hard, and what must hold

- *Wake-ups.* Loops sleep on timers that other threads set. Registering,
  merging, un-merging and resuming change what a sleeping loop has to do. No
  loop may sleep past work (`NoLostWakeup`), whatever the interleaving.
- *Moving queues between threads.* A merge changes which thread runs a queue's
  tasks, while one of them runs. The two records of a merge must agree, no
  queue may have two servicers or none, and a task runs on another loop than its
  queue's servicer only if it moved the queue itself (`OneServicer`,
  `RunsOnServicer`).
- *Pauses that others end.* A frame callback pauses the Dart events and a posted
  task resumes them; a resume that is lost would leave them waiting for ever
  (`PausesBalanced`, `DartEventsRun`).
- *Termination.* A loop drops its tasks when it ends, and posts race with that.
- *A bounded pipeline whose parts change one after the other.* Slots may leak on
  rare paths, and an item is in the queue before it is announced.
- *One frame request over four places* (semaphore, posted task, callback, vsync):
  it must not be lost or doubled.
- *Two locks and two records of one fact* in the thread merger: leases and
  merged queues, written one after the other and read without the lock of the
  writer (`LeasesMatchMerge`, `OneThreadDraws`).
- *Waiting.* The platform thread waits on latches and futures for other threads,
  some of which may share a thread with it, or be merged into it while it waits
  (`ShellCallsReturn`, `DestructorReturns`).
- *Tasks that outlive the call that posted them.* They hold raw pointers; the
  order of the destructor is all that protects them (`NothingDangles`).
- *References that end anywhere.* The last owner of the worker pool, of the unref
  queue or of the resource manager may be any thread, and the destructor runs
  there (`DestructorEnds`, `ReleasedOnce`, `ReclaimedAfterFence`).
- *A fact that is stale when it is used.* Whether the GPU is there, whether the
  surface has to change, whether the pool is being shut down
  (`NoUploadStranded`, `NoEncodeStranded`, `NoFrozenView`, `ImplementsTaskPool`).
- *Re-entrance.* A callback of the arena changes the arena that calls it
  (`OneVerdictEach`).

Every hazard is listed at its line under `hazards`, with the properties that
watch it, or a note if none does yet.

## 2. Modules

    TaskQueues     <-- MessageLoops  --Execution!Spec-->  TaskExecution
       ^                   ^
    MCTaskQueues       MCMessageLoops
       ^                   ^
    TaskQueuesProofs <-- MessageLoopsProofs (which EXTENDS MessageLoops too)

    FramePipeline  <-- Frames        --Delivery!Spec-->   FrameDelivery
                         ^     ^
                    MCFrames  FramesProofs

    ThreadMerger   <-- MCThreadMerger, ThreadMergerProofs

    ConcurrentLoop --Promise!TaskPoolSpec--> TaskPool
    ConcurrentLoop, FenceWaiter, GestureArena, GpuAccess,
    PointerDispatch, Shell, UnrefQueue, WindowResize  <-- Services <-- MCServices
       ^ ConcurrentLoopProofs, GestureArenaProofs, ShellProofs;
         ServicesProofs for FenceWaiter, GpuAccess, PointerDispatch, UnrefQueue
         and WindowResize; MCWindowResize names the sizes

(`A <-- B` means that B EXTENDS A; the arrows to the right are refinements by
`INSTANCE ... WITH`, checked as properties.)

### TaskQueues

`fml::MessageLoopTaskQueues`. Each public method holds `queue_mutex_` for its
whole body, so each is one action over the variables of the table; `entry`
stands for the keys of `queue_entries_`, `primary` and `secondary` for the two
heaps (orders are unique, so a heap is the set of its tasks and `Earliest` its
top), `wake` for the time the queue's wakeable was last set to. Methods that
have several outcomes are several actions: `GetNextTaskToRun` is
`NothingToRun`, `NotDueYet` and `TakeTask`; the last sets the timer *before* it
pops, to the task it pops, as the code does. `WakeIfPending` is the
`WakeUpUnlocked(..., GetNextWakeTimeUnlocked(...))` that closes
`RegisterTask`, `Merge`, `Unmerge` and `ResumeSecondarySource`, and is part of
them. The calls that return false, or true with nothing to do, change nothing
and are stuttering steps. `TQSpec` lets anybody call anything, with the
`FML_DCHECK` preconditions of `Dispose`, `DisposeTasks` and
`ResumeSecondarySource`. The last one (there is a pause to end, `task_source.cc`
line 100) is what keeps `pauses` a number in a release build too, because the callers
keep it (`PausesBalanced`).

Left out: `GetObserversToNotify`, which only reads the table (section 5 says what it
does after a task that moved its own queue); the thread-local task grade, which is
only handed to the embedder; and the width of `order_` (an `atomic_int`; a hazard
without a property).

### MessageLoops

The threads. `pc[l]` is where loop `l` is: blocked (`wait`), past the read of
its timer (`drained`), inside `FlushTasks` (`next`, `run`), after `Run`
(`leaving`, `last`, `lastRun`), in `DisposeTasks` (`dispose`), and after it.
The code's own boundaries are the actions: reading the clock once per flush
(`BeginFlush`), taking a task (`BeginTask`), running it (`EndTask`, with what
the closure does: nothing, resume the secondary heap, terminate the loop),
finding none (`EndFlush`). While a task runs, all other loops and posters may
step, and the task itself may post, merge its own queue away
(`MergeOwnQueue`), un-merge a queue of its loop (`UnmergeFromOwn`) and add or
remove an observer: those are the callers the engine has.

`PostTask` reads `terminated_` and registers later, so it is two actions,
`BeginPost` and `EndPost`. `PostDartTask` registers in the secondary heap
without asking the loop. `BeginFireCallback` and `PostFrameCallback` are the
pause and the post of `VsyncWaiter::FireCallback`; the posted task resumes.
`Join` is `Thread::Join`.

Bounds: `MaxTasks` tasks in all (with room kept for the resumes that are owed),
the clock from 0 to `MaxTime`, `MaxPauses` nested pauses.

Left out: the loops of Darwin, Windows and Fuchsia (their timers differ, their
flushes do not), termination from another thread, which the engine does not
do, and `RunSingleExpiredTaskNow`, which no loop of the engine calls.

### TaskExecution

The promise of task runners, without threads, merges, timers or pauses: an
accepted task is executed at most once, not before its target time, after every
earlier task of the same heap, and, if it is in the primary heap of a queue that
is not closed, eventually. `ImplementsTaskExecution` states that
`MessageLoops` implements it, with the union of the heaps as the pending tasks.
(Secondary tasks have no liveness: frame callbacks may pause them over and
over.) `Safety` is the promise without that last part; it is what the proof is
about.

### FramePipeline, Frames

`FramePipeline` is `Pipeline<FrameItem>`: one action for each change of a
semaphore or of the queue, because the code makes them one after the other.
`Frames` puts them in the order of their callers.

UI thread (`ui`): `RequestFrame` takes the request semaphore and posts
`AwaitVSync`; that sets the callback and, if no callback of either kind was
set, asks the platform (`AskPlatform`, a separate step: it is outside the
lock). `FireCallback` is the platform's answer, on any thread; it posts the
frame callback. That is `DrawLastLayerTrees` (nothing to build), `BeginFrame`
(a continuation is held, or the pipeline has a slot) or `BeginFrameFull`
(ask again). `Render` adds a view's tree and ends the frame once every view is
there; `EndFrameWithTrees` and `EndFrameEmpty` are the end of the callback.
A commit is `Push`, `SignalConsumer`, `EndCommit` (which posts Draw, if the
item was the first). `DestroyAnimator` drops a continuation, which pushes a
null item.

Raster thread (`raster`): `Draw` tries the semaphore, `PopItem` takes the item,
`DoDraw` is the consumer, which may ask to resubmit; `EndConsume` releases the
slot, `ReserveRetry`, `CommitRetry` and `SignalRetry` push the frame again if
nothing newer waits. Draw posts itself when it knows of more items; those tasks
keep the pipeline alive (`redraws`), the animator's hold it weakly (`draws`).

Frames are numbered modulo `FrameIds`, which exceeds `Depth + 3`, so that frames
that exist together have different numbers.

Left out: `inflight_` and trace flows, which nothing reads; idle notices to the
VM; frame times; the merger's veto (`kYielded`) and the Draw that a frame which
un-merged the threads posts in spite of an empty queue (`kEnqueuePipeline`,
rasterizer.cc lines 280-282), which belong together and to the composition planned
below; what is drawn.

### FrameDelivery

The promise of the pipeline: committed frames are drawn one at a time, in the
order of their commits, never more than `Depth` wait, and a frame that is
resubmitted goes back only if no newer frame waits.

### ThreadMerger

Engines of a group share one pair of threads and one `SharedThreadMerger`, each
through its own `RasterThreadMerger`. A call is up to three actions: the checks
(`IsMerged`, `enabled_`, read under separate locks); the shared merger's first write;
and its second. `MergeWithLeaseShared` merges the queues and `RecordLease` records the
lease; `DecrementLeaseShared` and `UnMergeNowIfLastOneShared` write the leases and
`UnMergeNowUnSafe` un-merges the queues. `Unlocked` is the mutex of the engine's
merger, `SharedUnlocked` that of the shared one, which is held across both writes. It
does not keep readers out: `IsMerged` looks at the leases without it, so another
engine's frame may see merged queues without a lease, or the reverse of an un-merge,
and yields. A frame is `BeginDraw` to
`DecrementLeaseShared` on the thread that services the raster queue. The
platform thread gains and loses views: `BeginViewChange`, `Disable`,
`ChooseThread` (run the raster task at once, or post it, and wait for it if the
view is lost), and the raster task `Enable` with setup or teardown.

Bounds: `LeaseTerm` frames per lease (the code has 10), and `MaxOverlap`: how
many frames may begin on the platform thread while the raster thread is still
finishing the frame that merged the threads. `MaxOverlap` is an *assumption*, not
something the code enforces: the raster thread has to get from `MergeWithLease` to
`DecrementLease` of one frame before the platform thread has used up the lease.
With `LeaseTerm` 3, TLC finds all properties true for `MaxOverlap` 1 (three engines,
the run), and with two engines `TornDownHoldsNoLease` false for 2, where the raster
thread's `DecrementLease` can un-merge under a tear-down on the platform thread, and
`LeasesMatchMerge` and `OneThreadDraws` false for 3, where `PostPrerollAction` extends
a lease that has just been given up; `NeverLeftDisabled` is true for each. So the
assumption is that fewer than `LeaseTerm - 1` frames fit into the end of one (at most
eight, in the code); the proofs take it as their hypothesis `ShortOverlap`. What
happens beyond it is a hazard that no property covers (`shared_thread_merger.cc`
line 81).

Left out: `WaitUntilMerged`, which only tests call, and one queue for both
threads, where every method returns at once.

### ConcurrentLoop, TaskPool

`ConcurrentLoop` is `fml::ConcurrentMessageLoop` with its runners. A critical
section of `tasks_mutex_` is one action; between two of them a thread is at
`workerPc[w]`, or in a call at `call[t]`. `LockLoop` is the lock of the runner's
weak reference, `EnqueueTask` the section of `PostTask`, `NotifyOne` the
notification after it, with which the runner also lets go of the pool. So the
last reference may go away on any thread, a worker included: `ReleaseLoop` then
makes that thread the `destroyer`. `~ConcurrentMessageLoop` joins all workers; a
worker that joins itself ends the process, which the model calls `"aborted"`
and leaves. `TakeTasks` is one round of `WorkerMain` up to the unlock: one shared
task, all tasks of the worker's own, and `shutdown_` as it is then; `ExecuteTask`
and `FinishTask` run them one by one, and a running task may post. A condition
variable may also wake a worker for no reason. The owner (`held`) terminates the
pool and drops it whenever it likes.

`TaskPool` is the promise: a set of accepted tasks, the ordered tasks of each
worker, who ran what, and whether the pool is closed. Callers run a task only if
it is closed, nothing runs twice, and only `Forget`, the end of the destructor,
loses tasks: the comment at `concurrent_message_loop.cc` line 52 would like it
otherwise, but a worker leaves after one round that saw the shutdown.

### FenceWaiter

The clean-up of Impeller's Vulkan backend: `FenceWaiterVK`, `ResourceManagerVK`
and the submitters of `CommandQueueVK`, one submission standing for its fence, its
callback and the resource the callback holds. The waiter's thread tests its
predicate (`TestWaitSet`), copies the set (`SnapshotWaitSet`), waits and takes the
signalled entries out (`PollFences`) and destroys them (`ClearErasedEntries`)
without the mutex; once terminated it does the same until the set is empty.
`Reclaim` is where a resource goes: to the manager, or to destruction at once if
the manager is gone. `ContextVK::Shutdown` is `TerminateWaiter`, `ResetManager`
(after the join), `BeginExit` and `JoinManager` (the manager's destructor, once no
submitter has it locked) and `DestroyWaiter`. Fences that come too late are
refused, and the submitter's thread drops the resource (`LockManager`,
`ReclaimRefused`). The GPU signals fences whenever it likes or loses the device,
upon which the waiter's thread leaves at once.

Left out: the holder of the Vulkan device, which keeps the device alive for as
long as resources of it exist, and sets of fences of more than one submission.

### GpuAccess

`fml::SyncSwitch` and what Impeller's Metal context makes of it. `Execute` takes
the shared lock and picks a handler; `Readers` are the requests that still hold
it, and `SetSwitch` waits for them. An upload that finds the GPU away stores its
task inside the handler; an encode only notes it, returns from `Execute`, and
stores its task later. The queue holds `kMaxTasksAwaitingGPU` tasks, and the
oldest fails when another comes. The observer is told after the switch has let its
lock go: `OnSyncSwitchUpdate` swaps the queue out, `FlushNext` runs its tasks,
some of which post one `Retry`. Only the platform thread turns the switch, and it
also runs the flush, so the branch of `FlushTasksAwaitingGPU` that puts tasks back
because the GPU has gone again (lines 428-444) cannot be taken and is not in the
model.

### PointerDispatch

`SmoothPointerDataDispatcher` on the UI thread, whose queue holds packets and the
vsync's callback in the order they were posted. `FireSecondaryCallback` takes the
callback that is registered and posts it, on the vsync's thread.

### Shell

`flutter::Shell`, from its creation to its end, over four runners. Embedders may
let the UI and the raster runner use the platform thread, so `thread` maps
runners to threads (`Hosts`); with `kMergeAfterLaunch` the UI queue moves to the
platform thread as the engine is launched. `RunNowOrPostTask` runs a task at once
if the thread is the caller's, so the number of steps of a call depends on the
mapping: a thread has a sequence of steps to do, and a call (`CallStep`) puts the
body of a task in front of the rest. The bodies (`CreateShellOnPlatformThread`,
`SetupIo`, `ViewIo`, `ShellDestructor`, ...) are the code's, statement by
statement: what is posted, what is waited for, what comes into being, what goes,
and which raw pointers are used; a `Use` of what is gone sets `dangled`. The calls
are the embedder's, one at a time on the platform thread, any of them in any
order; the destructor may come while tasks of the launch or of a surface are
pending.

Left out: `WaitForFirstFrame`, `Spawn`, a platform view or a vsync waiter that cannot
be made (shell.cc lines 277-279, 339-341), the latch of `PlatformView::NotifyCreated`,
`Setup`'s own task, and the raster merges. Two uses of raw pointers are left out
because the order of the destructor plainly covers them: the constructor's task for
the raster thread, which captures the shell (lines 551-555; it is first on that
thread, and the shell waits for a later task of it before it goes), and the use of
`rasterizer_` after the wait of `OnPlatformViewDestroyed` (line 1113; only the
destructor, on the same thread, drops it).

### UnrefQueue

`flutter::UnrefQueue` with its reference count: the owners are the IO manager, the
`SkiaGPUObject`s that have not been reset, and the drains that were posted.
`Unref` and the swap of a drain are critical sections; the release of what was
taken is a step of its own (`EndDrain`), after which a posted drain's closure lets
go of the queue and may run the destructor. On another thread the destructor posts
a task with what is left and the context (`DestroyElsewhere`, `ReleaseContext`).
The IO loop may end, dropping its tasks.

Left out: the immediate mode of Impeller, which bypasses the queue, and
`UpdateResourceContext`.

### WindowResize

The Windows embedder, rendering with OpenGL. `OnWindowSizeChanged` reads the
surface without `resize_mutex_` and, if it has to change, goes on to
`StartResize`, `SendWindowMetrics` and a wait that `EndWait` ends, at any time: the
code waits for at most 100 ms. The raster thread draws frames of the size the
shell was last told (`DrawViewFrame`, by `Shell::ShouldDiscardLayerTree`), asks
`OnFrameGenerated` or `OnEmptyFrameGenerated`, which may make a new surface, and
tells the view that the frame was presented, unless presenting fails. As in the
code, the empty frame's surface is made with width and height exchanged (`Turned`,
line 155).

Left out: views sized to their content, the repaint after a resize, and a second
resize inside the wait of the first. The code waits in `PollOnce` (line 254), which
runs tasks of the platform thread, so one of them could change the size again; here
the next change comes after the wait, whose end is possible at any time.

### GestureArena

The arena of one pointer, in Dart on one isolate. `rejectGesture` is a callback in
the middle of `_resolve`: `RejectMember` is what comes before it, `ResumeReject`
what comes after, and in between recognizers may do anything that their entries
allow. The other announcements end the handler they are in, and the arena is no
longer in the table by then. The record lives on in closures after its removal, as
`members`, `isOpen` and the flags do here. A recognizer resolves its entry once, as
`recognizer.dart` does. `close` and `sweep` come from the binding's event
handlers, so not inside a callback; `sweep` may come before the microtasks of the
pointer's arrival, as one batch of events may hold its down and its up.

### Services

These eight components share no state, so their product would only multiply their
states. `Services` is their *sum*: a variable `service`, chosen at the start and
never changed, names the component that moves, and the others stay in an initial
state. Every behaviour of a component is one of the sum, and every property speaks
of one component's variables, so a property holds of the sum exactly if it holds of
the component in its own specification (`PoolSpec`, `FenceSpec`, ...; the proofs
are about those). No interaction is claimed; where two of them do meet (the shell
drops the IO manager, which drops its reference to the unref queue), each models
the other's step as its own.

## 3. Runs

All seven passing runs explore the whole reachable state space; no state
constraint is used, only the bounds in the guards.

| run | instance | distinct states, depth | what it shows |
|---|---|---|---|
| MCTaskQueues | 3 queues, 1 task, 1 instant, symmetric | 20 487, 18 | after any sequence of calls the two records of a merge agree, owners are not subsumed, merged queues are alive, each queue has one servicer |
| MCMessageLoops | 2 loops, 3 tasks, times 0..1, 1 pause | 2 291 047, 30 | no loop sleeps past work; a task runs on the servicing loop unless it moved its queue; pauses are balanced and respected |
| MCExecution | 2 loops, 2 tasks, 1 observer key, fair | 266 393, 28 | the loops implement TaskExecution, with its liveness; a Dart event is run unless frame callbacks never end |
| MCFrames | depth 2, 2 views, 6 frame numbers | 2 785 872, 69 | slots and announced items are accounted for, requests and vsyncs are never doubled or lost, Frames implements FrameDelivery |
| MCFramesFair | depth 1, 1 view, 5 frame numbers, fair | 31 120, 41 | a request reaches a frame callback; a committed frame is drawn |
| MCThreadMerger | 3 engines, lease 3, overlap 1 | 1 766 299, 118 | leases and merged queues agree; two threads never draw at once; a merger is not left disabled; no engine without surface holds a lease |
| MCServices | one instance of each service, below; fair | 71 371, 112 | the pool loses no wake-up and implements TaskPool; its destructor ends; resources are destroyed once, after their fence and eventually; each recognizer hears once; each GPU request is answered once and no upload is stranded; packets keep their order and arrive; the shell's calls return, nothing dangles and no surface outlives its view; the unref queue releases once and is never without a drain; a resize ends with its own frame |
| MCStuckFrame | depth 2, 1 view | violation | section 5 |
| MCLeaseCheck | 2 engines | violation | section 5 |
| MCStrandedEncode | 1 upload, 1 encode | violation | section 5 |
| MCDestroyDuringLaunch | no surface, fair | violation | section 5 |
| MCFrozenView | 3 sizes | violation | section 5 |

Why the bounds are enough. Three queues are what a chain of merges or two
subsumed queues of one owner need; the records of a merge concern two. The
table's merge properties do not read the tasks, so one task suffices there.
Between two loops three tasks give one that moves the queue, one that is taken
while the first still runs, and one that arrives or resumes meanwhile; two
instants give a due task and one that is not. The two tasks of MCExecution are a Dart
event and the resume that lets it run, so `DartEventsRun` is checked without merges in
between; that a resume on a merged queue wakes its servicer is `NoLostWakeup`, on three
tasks. Depth 2 is the one the shell uses
for separate threads, and depth 1 the one it uses without Metal when the raster
queue is the platform's (`animator.cc` lines 30-41); two views distinguish a frame that is
complete from one that is not. Three engines give one that draws, one that holds
the threads merged and one that comes or goes; a lease of 3 is the smallest that
is neither new nor at its end in some state.

In MCServices: two workers, one client, two tasks for one worker and one for all
give a worker that sleeps while the other works, a destructor on either side, and
a task more than a shutdown's last round may leave; two submissions give one whose
fence is in the waiter's hands while another is refused; three recognizers give a
winner, one that was told and one that is left; two uploads and two encodes
overflow a queue of two; four packets pass through each state of the dispatcher
twice; the shell gains its surface twice, so that the second set-up meets the first
tear-down, and every mapping of runners to threads is an initial state; three
objects are in the queue, in a drain and still live; the sizes are a tall one, a
wide one (the tall one turned) and that of a minimised window.

`CHECK_DEADLOCK FALSE` everywhere: the engine may shut down, and the bounded
counters (tasks, time) end every behaviour of the queue models.

### Fairness

- MCExecution: the clock advances; a loop that can take its next step takes it
  (threads are scheduled); once `FireCallback` has paused a queue it posts the
  resume (it is straight-line code). Nobody has to post, merge, un-merge or join, and
  frame callbacks may stop or go on for ever; `DartEventsRun` says so.
- MCFramesFair, MCStuckFrame: the platform's vsync fires once asked; threads are
  scheduled; Dart's frame callback returns. `AwaitVSync` and the frame callback
  have *strong* fairness, because in `Frames` other UI tasks may come in between
  for ever, whereas the UI queue is first in, first out: a posted task gets its
  turn. `MessageLoops` checks that order.

- MCServices, MCDestroyDuringLaunch: each thread of the pool, of the clean-up and
  of the shell is scheduled (weak fairness of its steps together, so it may not
  rest while it can go on); tasks return; the destructor that joins the workers
  goes on; the display's vsyncs and the UI thread's tasks go on. Nobody has to
  post, submit, call the shell, signal a fence, terminate or drop anything:
  `SubmittedIsReclaimed` is about fences that were signalled, and
  `DestructorEnds` about destructors that have begun. The GPU, the arena, the
  unref queue and the resize have only safety properties and no fairness in the sum.
- `ShellCallsReturn` excludes the destructor while a launch is about to move the
  UI queue, which is MCDestroyDuringLaunch.

`MessageLoops` and `ThreadMerger` have no type invariant among the runs: the types
of the table they share are `TypeOK` of MCTaskQueues, and their own variables are
program counters whose values are listed before `Init`.

### Mutants

For every property of a passing run `PROJECT.json` names a plausible bug (a
missing wake-up, a check dropped, a slot not given back, a timer not drained, a
request not repeated) under which TLC finds the property violated. The mutated
operators stand before the operators they replace and are used by nothing else.

## 4. Proofs

TLAPS proves the following for every value of the constants that satisfies the
named assumptions of the modules, with no other assumption but `ShortOverlap` in three
theorems and a single engine in one of `ThreadMergerProofs`.

`TaskQueuesProofs` (any number of queues, tasks and instants):

- `TypeCorrect`, `TasksNeverDuplicated`: `TypeOK` is not inductive as it
  stands. `TakeTask`, `Merge` and others set `wake` to the target time of the
  earliest task, and `Earliest` is a CHOOSE, which means something only in a set
  that has an earliest task. `Inv` therefore adds `TasksDistinct`: no order is
  used twice, in a heap, across heaps or across queues, every order is below
  `order_`, and each heap holds the grades it should. The lemma `EarliestExists`
  (from the well-foundedness of the naturals, applied first to times, then to
  orders) gives the earliest task, `PeekFindsEarliest` the earliest over all
  serviced queues, and `TimersTyped` that every wake-up is at an instant.
- `MergeRecordsAlwaysAgree`, `OwnersAreNeverSubsumed`,
  `MergesAreOfLiveQueues`: none of the three is inductive, their conjunction
  `MergeInv` is. For instance `Unmerge(o, s)` keeps the records in agreement
  only because `s` has one owner, and `Dispose(q)` leaves no dangling record
  only because the queues that `q` owns own none.
- `ExactlyOneServicer`: every live queue is looked at by exactly one loop, a
  consequence of `MergeInv`.

`MessageLoopsProofs` (any number of queues, tasks, closures and observers). What the
threads do to the table are steps of `TaskQueues` (`LoopsUseTable`; Join's task, which
sets a timer, is the one exception), so `Inv` and `MergeInv` carry over.

- `TableTypedAlways`, `TasksRunOnServicer`, `PausedNeverStartsDartTask`: from
  `PlaceInv`, which adds to the table's invariants that a loop has one task at most
  and only while it is inside one, and that a task that resumes or ends a loop moves
  no queue. That a task stays on the servicer of its queue when *another* loop merges
  or un-merges is where `MergeInv` is needed: the other loop can move only queues it
  services itself.
- `NoWakeupLost`: `NoOversleep` says of each task that a waiting loop services that
  the loop's timer has expired or is not after the task. It is proved by what a step
  does to `Serviced`, `Visible` and `wake`: each step that gives a loop a queue, a task
  or the sight of a paused heap ends in `WakeIfPending` for that loop
  (`EarliestExists` makes it the right time), or is the loop's own.
- `PausesAlwaysBalanced`: the sum of the resumes that are in a heap, in a loop, in a
  `FireCallback` between its pause and its post, and in a post that passed its check is
  the number of pauses, unless the loop was terminated (`Balanced`). A loop is
  terminated only in a task that `Join` has posted, after which its queue takes part
  in no merge (`JoinedIsAlone`, `QuitsAreJoined`); so no resume is lost with a queue
  that others share.
- `LoopsImplementExecution`: `Spec => Execution!Safety`, each step mapped to one of
  `TaskExecution` or to a stutter. A task that a loop takes is due and the first of
  its heap, because the loop's `now` is not ahead of the clock (`FlushTimesPassed`)
  and the heap orders by time, then by order; tasks are discarded only of queues
  whose loop has terminated.

`FramesProofs` (every depth, any number of views and frame numbers):

- `FramesTypeCorrect`: with `ItemHeld`, the raster thread holds an item exactly
  between `PopItem` and the end of Draw; without it `CommitRetry` could push
  the mark for "no item".
- `SlotsAlwaysAccounted`, `ConsumerAlwaysFindsItem`: the two counts, together
  with the types, are inductive (`Counted`). The second count needs both
  threads' places between push and signal, and between wait and pop.
- `FramesImplementDelivery`: `Spec => Delivery!Spec`. Each step maps to a step
  of `FrameDelivery` or to a stutter; that a commit finds room
  (`ReservedLeavesRoom`) is where the count of the slots is used.
- `AlwaysOneRequestPending`, `VsyncAlwaysAskedOnce`: both are sums over the places a
  request or a vsync can be in, inductive together with the types (`Requests`), which
  keep each place from holding less than nothing.

`ThreadMergerProofs` (any number of engines, any `LeaseTerm`):

- `MergerNotLeftDisabled`: whatever disables the merger leaves a step behind that
  will enable it, in the same call, in a posted `raster_task` or in one that has
  begun (`EnableIsDue`). No assumption about overlaps is needed.
- `LeasesAlwaysMatchMerge`, `OneThreadAlwaysDraws`, `TornDownNeverHoldsLease`: under
  `ShortOverlap`. The first says that a lease is seen only on merged queues, and that
  merged queues have one except between the two writes of a call; so what a reader may
  see in between errs to the side where its frame yields. None is inductive. The two
  flags change in separate steps from those that look at them, so `LeaseInv` says
  which looks still hold when they are acted on (`ChecksStillHold`): only the raster
  thread merges, only the platform thread extends, and an engine in a frame has a
  surface. This rests on `Exclusion`: the thread in a task of the raster queue is the
  one that services it, or the raster thread ending the frame that merged. For that
  frame `OverlapCounted` weighs its lease against the frames begun beside it; each
  gives one frame back, so with `ShortOverlap` the lease cannot run out before the
  raster thread is done. `WritesApart` says what holds between two writes: no lease is
  recorded, and while the merging frame's is missing, no frame of the other thread is
  past its first check. `OneDestroy` says that the platform thread waits while a
  tear-down it posted is under way, so that there is never a second one.
- `OneEngineFindsLease`: for one engine, and without `ShortOverlap`. The run
  `MCLeaseCheck` refutes `DecrementFindsLease` for two (section 5); the theorem says
  that a second engine is what it takes. Every change of the leases is made under the
  mutex of the caller's merger (`MutexExcludes`, inductive for any number of
  engines); with one engine that is one mutex, so what `DecrementLease` saw
  (`LeaseSeen`) still holds when it calls the shared merger.

`ConcurrentLoopProofs` (any numbers of workers, clients and tasks):

- `PoolTypeCorrect`: the types, inductive with `RoundHolds`, which says that a
  worker at `"start"` has a task to run.
- `NeverSleepsOnWork`: `NoSleepOnWork` is nearly inductive as it stands, because it
  counts the workers that are awake *and* the calls that have yet to notify; the
  lemmas about cardinalities are for the steps that move a thread from one of the
  sets to the other. `LastSawShutdown` is added: a worker that leaves, and so no
  longer counts as awake, has seen a shutdown, and then nobody sleeps.
- `PoolImplementsPromise`: `PoolSpec => Promise!TaskPoolSpec`. Needs `OnePlace`: a
  posted task is in one call, in the queue once, or with one worker.

In `ServicesProofs`, for `FenceWaiter` (any number of submissions):
`AlwaysReclaimedAfterFence`. The strengthening follows a submission on its way: what
is in the erased entries, with the manager or in its last batch was signalled, was
refused, or the device is lost; a fence is refused only after `Terminate`; and a
waiter that has left has nothing in its set, unless the device is lost, so that
`DestroyWaiter` does no harm.

`GestureArenaProofs` (any set of recognizers): `OneVerdictForEach` and
`AlwaysSweptUnlessHeld`. The strengthening says that until the arena has left the
table nobody has won and no member has heard, and that afterwards all of them have.
For the callbacks it needs two facts that are not obvious from the code: once the
arena of an eager winner is closed nothing is left to resume (`EagerWins`), and
while a default microtask waits the last member is alone, or has just admitted
defeat and its callback is not back (`DefaultIsAlone`).

In `ServicesProofs`, for `GpuAccess` (any number of requests, any
`kMaxTasksAwaitingGPU`): `AlwaysAnsweredOnce`, with the invariant that queue and flush
hold stored requests only, each in one place once; `NeverUploadStranded`, with the
invariants that a request that is storing has kept the switch where it saw it, and
that an upload in the queue is there while the GPU is away or the observer has yet to
look.

In `ServicesProofs`, for `UnrefQueue` (any set of objects): `QueuedAlwaysHasDrain`,
with the invariant that while the loop is open the flag implies a posted drain, and
`NeverReleasedTwice`, with the invariants that the queue, a drain and the
destructor's task hold different objects and that none of those was released.

In `ServicesProofs`, for `WindowResize` (any set of sizes): `ResizeEndsRight`. The
target is the size of the window while the platform thread is in a resize, and the
surface that goes with `kFrameGenerated` meanwhile has the size of the target or that
size turned, and the frame being presented is the one that made it, unless a frame was
lost.

In `ServicesProofs`, for `PointerDispatch` (any number of packets):
`PacketsAlwaysInOrder`. The numbers of the waiting tasks ascend and are all those
after the dispatched ones (`Brings`), so the packet at the head of the queue is the
next; and a packet is kept only while another is in progress (`KeptInProgress`), or
the next one would be delivered before it.

`ShellProofs` (each of the embedders' mappings of the runners to threads, with and
without `kMergeAfterLaunch`, any `MaxViews`): `ShellNothingDangles` and
`ShellSurfaceGone`, both from `ShellExplained`, the inductive invariant. The order of
steps that keeps them true is in the bodies of the calls and tasks, and a body that a
thread runs in line is put in front of what it has left to do. So the invariant first
says what a thread can have left (`Control`): the rest of one task's body from a
*point* `<<k, n>>`, in front of it a branch not yet taken, and behind it, on the
platform's thread, the rest of the current call from its step `c`. That a body never
runs in line inside another task, but only inside a call, is part of what is proved.
The rest annotates the code, as one would a concurrent program:

- `Local`: what holds while a thread is at a point or a task is in a queue
  (`Ok`): a task that holds locals by reference is left only until its call has
  passed the step that waits for it, and a task that will signal only while the call
  is at the latch that it is to end, and the latch not signalled.
- `Global`: which parts exist at each step of each call. The shell's parts are dropped
  only by the destructor, one after the other.
- `QueueInv`, `ThreadInv`: a task is on the thread of its runner, and each task but the
  repeated ones is in one place at most. Two facts about order are needed. `SetupIo`
  comes first on the IO thread, and it waits for the Impeller context that a raster
  task makes with the platform view and that `Shell::Create` does not wait for
  (`IoPending`); so that raster task is over once the IO manager has been dropped, and
  the platform view goes after it. And no `setupSurface` is behind a `teardown` or a
  `dropRasterizer` on the raster thread, so that a surface that was posted and not
  waited for is not set up after `OnPlatformViewDestroyed` has returned
  (`SurfaceInv`), nor on a rasterizer that is gone.

A step changes one thread's point, so it has to keep that point's annotation, and not
disturb those of the other threads, of the queues and of the call: the steps are sorted
by what they do to `made` (make, drop, get, use, signal, wait, run), and each kind has
one lemma about what it can disturb.

Only model-checked:

- liveness (`ImplementsTaskExecution` beyond `Safety`, `DartEventsRun`,
  `RequestReachesVsync`, `CommittedFrameConsumed`, `DestructorEnds`, `SubmittedIsReclaimed`,
  `PacketIsDelivered`, `ShellCallsReturn`), which is beyond this prover.

Every safety property that a passing run checks is a theorem.

## 5. Findings

Each of these has a run that shows it:

- `MCStuckFrame` (pipeline.h:233): an item is pushed, then signalled. A Draw
  that the previous Draw posted because it saw the item, and that runs before
  the signal, finds nothing and posts none; the frame stays until the next
  explicit Draw, and as the queue is never empty there is none.
- `MCLeaseCheck` (shared_thread_merger.cc:59): with two engines, one whose lease
  has run out while the other keeps the threads merged decrements a lease of
  zero, which `FML_CHECK` says cannot be.
- `MCStrandedEncode` (lib/ui/painting/image_encoding_impeller.cc:101): the encode
  stores its retry after `Execute` has returned. If the GPU comes back and the queue
  is flushed in between, the retry waits although the GPU is there, until the GPU
  has gone and come back once more.
- `MCDestroyDuringLaunch` (shell.cc:624): with `kMergeAfterLaunch`, a shell that is
  destroyed before the UI thread has run `Engine::Run` waits for a task of the UI
  queue while that queue is merged into the waiting thread's.
- `MCFrozenView` (flutter_windows_view.cc:228): a resize that timed out leaves its
  target behind. If the window goes back to the size that the surface has, no new
  resize is started, and every frame of that size is refused. `kDone` is the "Default
  state for when no resize is in progress" (flutter_windows_view.h:329-331); here none
  is in progress, the status stays `kResizeStarted`, and nothing that is drawn will
  complete it.

The properties of these runs state what the quoted comments say; they are not
claimed of the passing runs. In `MCFramesFair` the stuck frame cannot happen:
with one slot there is no second item to overlook.

Also met while modelling, in the models as the code has them, without a run:

- message_loop_impl.cc:59: `PostTask` checks `terminated_` and registers
  afterwards. A post that passed the check before the loop's end registers after
  `DisposeTasks`, although pending tasks are to be destructed on the loop's thread.
- message_loop_impl.cc:126: after a task that has merged its own loop's queue away,
  `GetObserversToNotify` sees a subsumed queue and returns nothing
  (message_loop_task_queues.cc:186), and the loop that now services the queue does not
  know that the task ran; so no observer of the queue is notified after it.
- memory/task_runner_checker.cc:41: a thread that has merged its queue away is told
  that it runs the tasks of the owner's queue, so `RunNowOrPostTask` runs a closure
  on the wrong thread.
- pipeline.h:89: a continuation destroyed with the animator pushes a null item; a
  Draw that is already posted and keeps the pipeline alive consumes it.
- shell.cc:1064: the raster task of a view's creation, which nobody waits for, may
  enable the merger after the view's destruction has disabled it; a frame then
  merges the threads while the platform thread waits for the raster task.
- shared_thread_merger.cc:40: with two engines, the raster thread can be past
  `IsMerged` in its merging frame for one, which has been torn down meanwhile, when
  the platform thread tears the other down and un-merges (the mergers, and so their
  mutexes, are two). The raster thread then finds all leases zero and un-merges
  again, which `FML_CHECK(success)` ends. The model stops there too: a guard that
  stands for an `FML_CHECK` is where the process ends.
- command_queue_vk.cc:83: a fence that comes after `Terminate` is refused when its
  work has been submitted already. The callback and what it keeps go at once, although
  the GPU may not be done with them; `ReclaimedAfterFence` exempts these submissions.
- flutter_windows_view.cc:155: an empty frame's surface is made with the height for
  the width.
- concurrent_message_loop.cc:109: tasks beyond one per worker are dropped by a
  shutdown; a task that drops the last reference makes its worker join itself.

## 6. Not modelled, and the plan

Not modelled at all, for a reason that will not go away: the web engine, the tool,
the tests and the infrastructure are other programs; layer trees, display lists,
text layout, most of Impeller and most of the framework are sequential computation
over data, without protocols that interleavings could break; surfaces, plugins,
assets and the loading of isolates are calls to the system outside.

Left out of components that are modelled, and what would come next, in this order:

1. *FrameThreads*: `Frames` composed with `ThreadMerger`. Draw's veto
   (`kYielded`, rasterizer.cc lines 586-611) in the merge window; a single
   consumer although two threads may be in Draw; a yielded frame is drawn
   eventually. Proof: on top of `LeaseInv`.
2. *Shell*: `WaitForFirstFrame` with its condition variable and timeout (shell.cc
   lines 1420-1430; a notification that is lost costs a wait its timeout), `Spawn`
   with the IO manager and the merger that shells share.
3. *VMRef and PlatformIsolates*: registration against shutdown.
4. *ChannelBuffers*: the bounds and the order of messages that arrive before their
   listener.
5. *SyncSwitch*'s observers that come and go, and the embedders' other threads.

Theorems to add: `LeasesMatchMerge` from the weaker hypothesis that TLC finds enough
for it (`MaxOverlap < LeaseTerm`), which needs an `Exclusion` that allows an un-merge
under a tear-down; and the proofs about *FrameThreads*.
