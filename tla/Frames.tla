-------------------------------- MODULE Frames --------------------------------
(***************************************************************************)
(* How a frame is made and drawn: the Animator and its VsyncWaiter on the  *)
(* UI thread produce frames into the pipeline, Rasterizer::Draw consumes   *)
(* them on the raster thread.  The two threads meet in the pipeline, in    *)
(* the Draw tasks that Shell::OnAnimatorDraw posts, and when the shell     *)
(* destroys first the animator and then the rasterizer.                    *)
(*                                                                         *)
(* Between two tasks of the UI thread, and inside a frame, Dart code may   *)
(* ask for frames and render views.  UI tasks other than those named here  *)
(* do not touch this state, and may come in any order.                     *)
(***************************************************************************)
EXTENDS FramePipeline, FiniteSets

CONSTANTS
    Views,      \* the views that have viewport metrics
    FrameIds,   \* frames are numbered modulo FrameIds
    nullptr     \* an item that is no frame

ASSUME FrameIdsAssumption == FrameIds \in Nat /\ FrameIds > Depth + 3
ASSUME ViewsAssumption == Views # {} /\ IsFiniteSet(Views)
ASSUME nullptrAssumption == nullptr \notin 0 .. FrameIds

VARIABLES
    alive,                    \* the Animator exists, and holds the pipeline
    ui,                       \* where the UI thread is
    returnTo,                 \* where it goes on after a commit
    is_first_item,            \* the commit found the queue empty
    producer_continuation_,   \* a slot of the pipeline is reserved
    frame_timings_recorder_,  \* the number of the frame being built, or none
    lastBuilt,                \* the number of the frame before
    layer_trees_tasks_,       \* the views rendered for it
    rendered_views_,          \* rendered_views_during_frame_
    frame_scheduled_,
    regenerate_layer_trees_,
    pending_frame_semaphore_,
    awaits,                   \* AwaitVSync tasks posted to the UI thread
    callback_,                \* VsyncWaiter::callback_ is set
    secondary_callbacks_,     \* and some secondary callback
    vsyncs,                   \* vsyncs asked of the platform and not yet fired
    beginTasks,               \* frame callbacks posted to the UI thread
    rasterizer,               \* the Rasterizer exists
    raster,                   \* where the raster thread is
    item,                     \* the frame it has taken
    more,                     \* items_count > 0 when it was taken
    retry,                    \* the frame is to be resubmitted
    draws,                    \* Draw tasks of OnAnimatorDraw, which hold the pipeline weakly
    redraws                   \* Draw tasks of Draw itself, which keep it alive

animatorVars == <<producer_continuation_, frame_timings_recorder_, lastBuilt,
                  layer_trees_tasks_, rendered_views_>>
requestVars == <<frame_scheduled_, regenerate_layer_trees_,
                 pending_frame_semaphore_, awaits>>
vsyncVars == <<callback_, secondary_callbacks_, vsyncs, beginTasks>>
uiVars == <<alive, ui, returnTo, is_first_item>>
rasterVars == <<rasterizer, raster, item, more, retry>>
drawVars == <<draws, redraws>>
vars == <<pipelineVars, animatorVars, requestVars, vsyncVars, uiVars, rasterVars,
          drawVars>>

Frame == 0 .. FrameIds - 1
none == FrameIds
NextFrame == (lastBuilt + 1) % FrameIds

FramesTypeOK ==
    /\ empty_ \in Nat /\ available_ \in Nat
    /\ queue_ \in Seq(Frame \cup {nullptr})
    /\ alive \in BOOLEAN
    /\ ui \in {"idle", "await", "build", "pushed", "signalled"}
    /\ returnTo \in {"idle", "build"}
    /\ is_first_item \in BOOLEAN
    /\ producer_continuation_ \in BOOLEAN
    /\ frame_timings_recorder_ \in Frame \cup {none}
    /\ lastBuilt \in Frame
    /\ layer_trees_tasks_ \subseteq Views
    /\ rendered_views_ \subseteq Views
    /\ frame_scheduled_ \in BOOLEAN
    /\ regenerate_layer_trees_ \in BOOLEAN
    /\ pending_frame_semaphore_ \in Nat
    /\ awaits \in Nat
    /\ callback_ \in BOOLEAN
    /\ secondary_callbacks_ \in BOOLEAN
    /\ vsyncs \in Nat
    /\ beginTasks \in Nat
    /\ rasterizer \in BOOLEAN
    /\ raster \in {"idle", "took", "drawing", "drawn", "retrying", "reserved", "resubmitted"}
    /\ item \in Frame \cup {nullptr, none}
    /\ more \in BOOLEAN
    /\ retry \in BOOLEAN
    /\ draws \in Nat
    /\ redraws \in Nat

Init ==
    /\ PipelineInit
    /\ alive = TRUE
    /\ ui = "idle"
    /\ returnTo = "idle"
    /\ is_first_item = FALSE
    /\ producer_continuation_ = FALSE
    /\ frame_timings_recorder_ = none
    /\ lastBuilt = 0
    /\ layer_trees_tasks_ = {}
    /\ rendered_views_ = {}
    /\ frame_scheduled_ = FALSE
    /\ regenerate_layer_trees_ = FALSE
    /\ pending_frame_semaphore_ = 1
    /\ awaits = 0
    /\ callback_ = FALSE
    /\ secondary_callbacks_ = FALSE
    /\ vsyncs = 0
    /\ beginTasks = 0
    /\ rasterizer = TRUE
    /\ raster = "idle"
    /\ item = none
    /\ more = FALSE
    /\ retry = FALSE
    /\ draws = 0
    /\ redraws = 0

-----------------------------------------------------------------------------
(* Requesting a frame *)

\* Dart code runs in a task of the UI thread, or in the frame callback.
DartMayRun == alive /\ ui \in {"idle", "build"}

RequestFrame(regenerate_layer_trees) ==
    /\ DartMayRun
    /\ regenerate_layer_trees_' = (regenerate_layer_trees_ \/ regenerate_layer_trees)
    /\ \/ /\ pending_frame_semaphore_ > 0
          /\ pending_frame_semaphore_' = pending_frame_semaphore_ - 1
          /\ awaits' = awaits + 1
          /\ frame_scheduled_' = TRUE
       \/ /\ pending_frame_semaphore_ = 0
          /\ UNCHANGED <<pending_frame_semaphore_, awaits, frame_scheduled_>>
    /\ UNCHANGED <<pipelineVars, animatorVars, vsyncVars, uiVars, rasterVars, drawVars>>

\* Mutant: the platform is never asked for the vsync.
AwaitVSync_Never ==
    /\ alive /\ ui = "idle"
    /\ awaits > 0
    /\ awaits' = awaits - 1
    /\ callback_' = TRUE
    /\ UNCHANGED <<ui, frame_scheduled_, regenerate_layer_trees_,
                   pending_frame_semaphore_, secondary_callbacks_, vsyncs,
                   beginTasks, pipelineVars, animatorVars, alive, returnTo,
                   is_first_item, rasterVars, drawVars>>

\* AsyncWaitForVsync sets the callback.  The platform has already been asked if
\* there was one, of either kind.
AwaitVSync ==
    /\ alive /\ ui = "idle"
    /\ awaits > 0
    /\ awaits' = awaits - 1
    /\ callback_' = TRUE
    /\ ui' = IF callback_ \/ secondary_callbacks_ THEN "idle" ELSE "await"
    /\ UNCHANGED <<frame_scheduled_, regenerate_layer_trees_,
                   pending_frame_semaphore_, secondary_callbacks_, vsyncs,
                   beginTasks, pipelineVars, animatorVars, alive, returnTo,
                   is_first_item, rasterVars, drawVars>>

\* Mutant: asks the platform again while the frame callback is waiting.
ScheduleSecondaryCallback_Again ==
    /\ alive /\ ui = "idle"
    /\ secondary_callbacks_' = TRUE
    /\ ui' = IF secondary_callbacks_ THEN "idle" ELSE "await"
    /\ UNCHANGED <<requestVars, callback_, vsyncs, beginTasks, pipelineVars,
                   animatorVars, alive, returnTo, is_first_item, rasterVars, drawVars>>

\* For pointer events and their trace flows.
ScheduleSecondaryCallback ==
    /\ alive /\ ui = "idle"
    /\ secondary_callbacks_' = TRUE
    /\ ui' = IF callback_ \/ secondary_callbacks_ THEN "idle" ELSE "await"
    /\ UNCHANGED <<requestVars, callback_, vsyncs, beginTasks, pipelineVars,
                   animatorVars, alive, returnTo, is_first_item, rasterVars, drawVars>>

\* The platform's AwaitVSync, called without the lock.
AskPlatform ==
    /\ ui = "await"
    /\ ui' = "idle"
    /\ vsyncs' = vsyncs + 1
    /\ UNCHANGED <<requestVars, callback_, secondary_callbacks_, beginTasks,
                   pipelineVars, animatorVars, alive, returnTo, is_first_item,
                   rasterVars, drawVars>>

\* The vsync comes, on whatever thread the platform has for it.
FireCallback ==
    /\ alive
    /\ vsyncs > 0
    /\ vsyncs' = vsyncs - 1
    /\ callback_' = FALSE
    /\ secondary_callbacks_' = FALSE
    /\ beginTasks' = IF callback_ THEN beginTasks + 1 ELSE beginTasks
    /\ UNCHANGED <<requestVars, pipelineVars, animatorVars, uiVars, rasterVars, drawVars>>

-----------------------------------------------------------------------------
(* Building a frame *)

\* No frame is to be built: the raster thread draws the last trees again.
\* frame_scheduled_ is left as it is.
DrawLastLayerTrees ==
    /\ alive /\ ui = "idle"
    /\ beginTasks > 0
    /\ ~ regenerate_layer_trees_
    /\ beginTasks' = beginTasks - 1
    /\ pending_frame_semaphore_' = pending_frame_semaphore_ + 1
    /\ UNCHANGED <<frame_scheduled_, regenerate_layer_trees_, awaits, callback_,
                   secondary_callbacks_, vsyncs, pipelineVars, animatorVars, uiVars,
                   rasterVars, drawVars>>

\* The frame callback builds a new frame, if it holds or gets a continuation.
BeginFrame ==
    /\ alive /\ ui = "idle"
    /\ beginTasks > 0
    /\ regenerate_layer_trees_
    /\ beginTasks' = beginTasks - 1
    /\ \/ producer_continuation_ /\ UNCHANGED pipelineVars
       \/ ~ producer_continuation_ /\ Produce
    /\ producer_continuation_' = TRUE
    /\ layer_trees_tasks_' = {}
    /\ rendered_views_' = {}
    /\ frame_timings_recorder_' = NextFrame
    /\ lastBuilt' = NextFrame
    /\ frame_scheduled_' = FALSE
    /\ regenerate_layer_trees_' = FALSE
    /\ pending_frame_semaphore_' = pending_frame_semaphore_ + 1
    /\ ui' = "build"
    /\ UNCHANGED <<awaits, callback_, secondary_callbacks_, vsyncs, alive, returnTo,
                   is_first_item, rasterVars, drawVars>>

\* Mutant: the request is not made again.
BeginFrameFull_NoRequest ==
    /\ alive /\ ui = "idle"
    /\ beginTasks > 0
    /\ regenerate_layer_trees_
    /\ ~ producer_continuation_ /\ ProduceFails
    /\ beginTasks' = beginTasks - 1
    /\ layer_trees_tasks_' = {}
    /\ frame_timings_recorder_' = none
    /\ frame_scheduled_' = FALSE
    /\ UNCHANGED <<regenerate_layer_trees_, pending_frame_semaphore_, awaits,
                   producer_continuation_, lastBuilt, rendered_views_, callback_,
                   secondary_callbacks_, vsyncs, uiVars, rasterVars, drawVars>>

\* The pipeline is full: BeginFrame takes back what it gave to the semaphore and
\* asks for another frame, and EndFrame finds nothing to commit.
BeginFrameFull ==
    /\ alive /\ ui = "idle"
    /\ beginTasks > 0
    /\ regenerate_layer_trees_
    /\ ~ producer_continuation_ /\ ProduceFails
    /\ beginTasks' = beginTasks - 1
    /\ layer_trees_tasks_' = {}
    /\ frame_timings_recorder_' = none
    /\ awaits' = awaits + 1
    /\ frame_scheduled_' = TRUE
    /\ UNCHANGED <<regenerate_layer_trees_, pending_frame_semaphore_,
                   producer_continuation_, lastBuilt, rendered_views_, callback_,
                   secondary_callbacks_, vsyncs, uiVars, rasterVars, drawVars>>

\* EndFrame of a frame that has layer trees: Complete pushes it, or drops it for
\* want of a continuation.  The trees become those of trees, and the UI thread
\* goes on at to.
EndFrame(to) ==
    /\ frame_timings_recorder_' = none
    /\ layer_trees_tasks_' = {}
    /\ producer_continuation_' = FALSE
    /\ IF producer_continuation_
       THEN /\ Push(IF frame_timings_recorder_ = none THEN NextFrame
                    ELSE frame_timings_recorder_)
            /\ is_first_item' = (queue_ = <<>>)
            /\ ui' = "pushed"
            /\ returnTo' = to
       ELSE /\ ui' = to
            /\ UNCHANGED <<pipelineVars, is_first_item, returnTo>>

\* Dart renders a view, in a frame or outside one (the warm-up frame).  A view
\* that was rendered before keeps its tree.  Once every view is rendered, the
\* frame ends at once.
Render(view) ==
    /\ DartMayRun
    /\ LET rendered == rendered_views_ \cup {view}
       IN  IF rendered = Views
           THEN EndFrame(ui) /\ rendered_views_' = {}
           ELSE /\ layer_trees_tasks_' = layer_trees_tasks_ \cup {view}
                /\ frame_timings_recorder_' =
                       IF frame_timings_recorder_ = none THEN NextFrame
                       ELSE frame_timings_recorder_
                /\ rendered_views_' = rendered
                /\ UNCHANGED <<pipelineVars, producer_continuation_, ui, returnTo,
                               is_first_item>>
    /\ lastBuilt' = IF frame_timings_recorder_ = none THEN NextFrame ELSE lastBuilt
    /\ UNCHANGED <<alive, requestVars, vsyncVars, rasterVars, drawVars>>

\* EndWarmUpFrame, or the end of the frame callback, with trees to commit ...
EndFrameWithTrees ==
    /\ DartMayRun
    /\ layer_trees_tasks_ # {}
    /\ EndFrame("idle")
    /\ UNCHANGED <<lastBuilt, rendered_views_, alive, requestVars, vsyncVars,
                   rasterVars, drawVars>>

\* ... and the end of a frame callback that has none (left): the continuation is
\* kept for the next frame.
EndFrameEmpty ==
    /\ alive /\ ui = "build"
    /\ layer_trees_tasks_ = {}
    /\ frame_timings_recorder_' = none
    /\ ui' = "idle"
    /\ UNCHANGED <<producer_continuation_, lastBuilt, layer_trees_tasks_,
                   rendered_views_, alive, returnTo, is_first_item, pipelineVars,
                   requestVars, vsyncVars, rasterVars, drawVars>>

SignalConsumer ==
    /\ ui = "pushed"
    /\ SignalAvailable
    /\ ui' = "signalled"
    /\ UNCHANGED <<alive, returnTo, is_first_item, animatorVars, requestVars,
                   vsyncVars, rasterVars, drawVars>>

\* OnAnimatorDraw, if the frame was the first item.
EndCommit ==
    /\ ui = "signalled"
    /\ ui' = returnTo
    /\ draws' = IF is_first_item /\ alive THEN draws + 1 ELSE draws
    /\ UNCHANGED <<alive, returnTo, is_first_item, redraws, pipelineVars,
                   animatorVars, requestVars, vsyncVars, rasterVars>>

\* The shell destroys the engine.  A continuation that was never completed
\* pushes a null item as it is destroyed.
DestroyAnimator ==
    /\ alive /\ ui = "idle"
    /\ alive' = FALSE
    /\ producer_continuation_' = FALSE
    /\ returnTo' = "idle"
    /\ IF producer_continuation_
       THEN Push(nullptr) /\ ui' = "pushed"
       ELSE UNCHANGED <<pipelineVars, ui>>
    /\ UNCHANGED <<is_first_item, frame_timings_recorder_, lastBuilt,
                   layer_trees_tasks_, rendered_views_, requestVars, vsyncVars,
                   rasterVars, drawVars>>

-----------------------------------------------------------------------------
(* Rasterizer::Draw *)

\* A Draw task starts: one of OnAnimatorDraw finds the pipeline only if
\* somebody else keeps it alive.
DrawTask ==
    \/ /\ redraws > 0
       /\ redraws' = redraws - 1
       /\ UNCHANGED draws
    \/ /\ draws > 0
       /\ alive \/ ui # "idle" \/ redraws > 0
       /\ draws' = draws - 1
       /\ UNCHANGED redraws

Draw ==
    /\ rasterizer /\ raster = "idle"
    /\ DrawTask
    /\ \/ TakeAvailable /\ raster' = "took"
       \/ NoneAvailable /\ UNCHANGED raster
    /\ UNCHANGED <<animatorVars, requestVars, vsyncVars, uiVars, rasterizer, item,
                   more, retry>>

PopItem ==
    /\ raster = "took"
    /\ \E i \in Frame \cup {nullptr} : Pop(i) /\ item' = i
    /\ more' = (queue_' # <<>>)
    /\ raster' = "drawing"
    /\ UNCHANGED <<animatorVars, requestVars, vsyncVars, uiVars, rasterizer, retry,
                   drawVars>>

\* The consumer returns; a view embedder may want the frame again.  A null item
\* has no return: the consumer reads through it.
DoDraw(resubmit) ==
    /\ raster = "drawing"
    /\ item # nullptr
    /\ retry' = resubmit
    /\ raster' = "drawn"
    /\ UNCHANGED <<pipelineVars, animatorVars, requestVars, vsyncVars, uiVars,
                   rasterizer, item, more, drawVars>>

\* Mutant: Draw never posts itself again.
EndDraw_NoRepost(again) ==
    /\ raster' = "idle"
    /\ item' = none
    /\ retry' = FALSE
    /\ more' = FALSE
    /\ redraws' = redraws

\* Draw returns, and posts itself again if it knows of more items.  It also does so
\* after a frame that un-merged the threads (kEnqueuePipeline), for a Draw that has
\* yielded meanwhile (kYielded); here no Draw yields, as nothing is merged.
EndDraw(again) ==
    /\ raster' = "idle"
    /\ item' = none
    /\ retry' = FALSE
    /\ more' = FALSE
    /\ redraws' = IF again THEN redraws + 1 ELSE redraws

EndConsume ==
    /\ raster = "drawn"
    /\ Release
    /\ IF retry
       THEN raster' = "retrying" /\ UNCHANGED <<item, retry, more, redraws>>
       ELSE EndDraw(more)
    /\ UNCHANGED <<animatorVars, requestVars, vsyncVars, uiVars, rasterizer, draws>>

\* The frame is pushed again if a slot is free and nothing waits, and dropped
\* otherwise.
ReserveRetry ==
    /\ raster = "retrying"
    /\ \/ Produce /\ raster' = "reserved" /\ UNCHANGED <<item, retry, more, redraws>>
       \/ ProduceFails /\ EndDraw(more)
    /\ UNCHANGED <<animatorVars, requestVars, vsyncVars, uiVars, rasterizer, draws>>

CommitRetry ==
    /\ raster = "reserved"
    /\ \/ /\ PushIfEmpty(item)
          /\ raster' = "resubmitted"
          /\ item' = none
          /\ UNCHANGED <<retry, more, redraws>>
       \/ Bail /\ EndDraw(more)
    /\ UNCHANGED <<animatorVars, requestVars, vsyncVars, uiVars, rasterizer, draws>>

SignalRetry ==
    /\ raster = "resubmitted"
    /\ SignalAvailable
    /\ EndDraw(TRUE)
    /\ UNCHANGED <<animatorVars, requestVars, vsyncVars, uiVars, rasterizer, draws>>

\* The shell destroys the rasterizer once the engine is gone.
DestroyRasterizer ==
    /\ ~ alive /\ ui = "idle"
    /\ rasterizer /\ raster = "idle"
    /\ rasterizer' = FALSE
    /\ UNCHANGED <<pipelineVars, animatorVars, requestVars, vsyncVars, uiVars,
                   raster, item, more, retry, drawVars>>

-----------------------------------------------------------------------------

Requesting ==
    \/ \E regenerate \in BOOLEAN : RequestFrame(regenerate)
    \/ AwaitVSync
    \/ ScheduleSecondaryCallback
    \/ AskPlatform
    \/ FireCallback

Building ==
    \/ DrawLastLayerTrees
    \/ BeginFrame
    \/ BeginFrameFull
    \/ \E view \in Views : Render(view)
    \/ EndFrameWithTrees
    \/ EndFrameEmpty
    \/ SignalConsumer
    \/ EndCommit

Rastering ==
    \/ Draw
    \/ PopItem
    \/ \E resubmit \in BOOLEAN : DoDraw(resubmit)
    \/ EndConsume
    \/ ReserveRetry
    \/ CommitRetry
    \/ SignalRetry

Next == Requesting \/ Building \/ Rastering \/ DestroyAnimator \/ DestroyRasterizer

Spec == Init /\ [][Next]_vars

\* Dart code returns and UI tasks get their turn however many others there are
\* (the UI queue is first in, first out), the platform fires the vsyncs it was
\* asked for, and the raster thread runs.
Fairness ==
    /\ SF_vars(AwaitVSync)
    /\ SF_vars(DrawLastLayerTrees \/ BeginFrame \/ BeginFrameFull)
    /\ WF_vars(AskPlatform)
    /\ WF_vars(FireCallback)
    /\ WF_vars(ui = "build" /\ (EndFrameWithTrees \/ EndFrameEmpty))
    /\ WF_vars(SignalConsumer)
    /\ WF_vars(EndCommit)
    /\ WF_vars(Rastering)

FairSpec == Spec /\ Fairness

-----------------------------------------------------------------------------
(* Properties *)

\* Every slot of the pipeline is free, reserved by a continuation, taken by a
\* waiting item, or held by the frame that is drawn: none is lost or used twice,
\* whatever is retried or dropped, so the queue is never longer than its depth
\* (pipeline.h lines 31-32).
SlotsAccounted ==
    Depth = empty_ + Len(queue_)
            + (IF producer_continuation_ THEN 1 ELSE 0)
            + (IF raster \in {"drawing", "drawn", "reserved"} THEN 1 ELSE 0)

\* available_ counts the items that were announced: a consumer that has passed
\* it finds an item, so queue_.front() is never taken of an empty queue
\* (pipeline.h lines 188-200).
ConsumerFindsItem ==
    /\ available_ + (IF raster = "took" THEN 1 ELSE 0)
       + (IF ui = "pushed" THEN 1 ELSE 0)
       + (IF raster = "resubmitted" THEN 1 ELSE 0) = Len(queue_)
    /\ raster = "took" => queue_ # <<>>

\* A frame request is in one place at a time, from RequestFrame to the frame
\* callback, so one vsync begins one frame (animator.cc lines 251-255).
OneRequestPending ==
    pending_frame_semaphore_ + awaits + beginTasks
        + (IF callback_ THEN 1 ELSE 0) = 1

\* While a callback waits for the vsync, the platform has been asked for exactly
\* one (vsync_waiter.cc lines 34-50 and 64-83).
VsyncAskedOnce ==
    alive => vsyncs + (IF ui = "await" THEN 1 ELSE 0)
             = (IF callback_ \/ secondary_callbacks_ THEN 1 ELSE 0)

\* Committed frames are drawn in order, one at a time, and a retry never
\* overtakes a newer frame.
Delivery == INSTANCE FrameDelivery WITH
    Items <- Frame \cup {nullptr},
    waiting <- queue_,
    rasterizing <- {item} \ {none}

ImplementsFrameDelivery == Delivery!Spec

\* A posted request leads to a frame callback, also while the pipeline is full
\* (animator.cc lines 97-104).
RequestReachesVsync == awaits > 0 ~> beginTasks > 0 \/ ~ alive

\* animator.cc lines 149-151: an item that is not the first needs no notice,
\* "Eventually the 'Rasterizer' will consume it".
CommittedFrameConsumed == queue_ # <<>> ~> raster = "drawing" \/ ~ alive

=============================================================================
