----------------------------- MODULE FramesProofs -----------------------------
(***************************************************************************)
(* What holds of the frame pipeline for every depth, every number of views *)
(* and every interleaving of the UI thread, the raster thread and the      *)
(* platform's vsync.  Each half of a push or of a pop leaves one slot, or  *)
(* one announced item, with a thread that is between two steps; counting   *)
(* those with the semaphores gives an invariant that is inductive, and     *)
(* with it every step of Frames is one of FrameDelivery, or a stutter.     *)
(***************************************************************************)
EXTENDS Frames, TLAPS

\* The raster thread holds a frame from PopItem until Draw returns or pushes it
\* again.  Without it the type invariant is not inductive: CommitRetry would
\* push whatever item is.
ItemHeld == item # none <=> raster \in {"drawing", "drawn", "retrying", "reserved"}

Typed == FramesTypeOK /\ ItemHeld

-----------------------------------------------------------------------------
(* Types *)

\* The parts of FramesTypeOK.
PipelineTyped ==
    empty_ \in Nat /\ available_ \in Nat /\ queue_ \in Seq(Frame \cup {nullptr})

UITyped ==
    /\ alive \in BOOLEAN
    /\ ui \in {"idle", "await", "build", "pushed", "signalled"}
    /\ returnTo \in {"idle", "build"}
    /\ is_first_item \in BOOLEAN

AnimatorTyped ==
    /\ producer_continuation_ \in BOOLEAN
    /\ frame_timings_recorder_ \in Frame \cup {none}
    /\ lastBuilt \in Frame
    /\ layer_trees_tasks_ \subseteq Views
    /\ rendered_views_ \subseteq Views

RequestsTyped ==
    /\ frame_scheduled_ \in BOOLEAN
    /\ regenerate_layer_trees_ \in BOOLEAN
    /\ pending_frame_semaphore_ \in Nat
    /\ awaits \in Nat
    /\ callback_ \in BOOLEAN
    /\ secondary_callbacks_ \in BOOLEAN
    /\ vsyncs \in Nat
    /\ beginTasks \in Nat

RasterTyped ==
    /\ rasterizer \in BOOLEAN
    /\ raster \in {"idle", "took", "drawing", "drawn", "retrying", "reserved", "resubmitted"}
    /\ item \in Frame \cup {nullptr, none}
    /\ more \in BOOLEAN
    /\ retry \in BOOLEAN
    /\ draws \in Nat
    /\ redraws \in Nat

LEMMA TypedParts ==
    FramesTypeOK <=> PipelineTyped /\ UITyped /\ AnimatorTyped /\ RequestsTyped /\ RasterTyped
BY DEF FramesTypeOK, PipelineTyped, UITyped, AnimatorTyped, RequestsTyped, RasterTyped

\* Frames are numbered, and the null item has no number.
LEMMA FrameNumbers ==
    /\ FrameIds \in Nat /\ FrameIds > 0
    /\ Depth \in Nat /\ Depth > 0
    /\ lastBuilt \in Frame => NextFrame \in Frame
    /\ none \notin Frame /\ nullptr # none /\ nullptr \notin Frame
<1>1. FrameIds \in Nat /\ FrameIds > 0 /\ Depth \in Nat /\ Depth > 0
  BY FrameIdsAssumption, DepthAssumption
<1>2. \A x \in Int : x % FrameIds \in 0 .. FrameIds - 1
  BY <1>1
<1>3. lastBuilt \in Frame => NextFrame \in Frame
  BY <1>1, <1>2 DEF Frame, NextFrame
<1>4. none \notin Frame /\ nullptr # none /\ nullptr \notin Frame
  BY <1>1, nullptrAssumption DEF Frame, none
<1>. QED BY <1>1, <1>3, <1>4

\* Every operation of the pipeline keeps its types.
LEMMA PushTyped ==
    ASSUME PipelineTyped, NEW i \in Frame \cup {nullptr}, Push(i)
    PROVE  PipelineTyped'
BY DEF PipelineTyped, Push

LEMMA PopTyped ==
    ASSUME PipelineTyped, NEW i, Pop(i)
    PROVE  PipelineTyped' /\ i \in Frame \cup {nullptr}
BY DEF PipelineTyped, Pop

LEMMA SemaphoresTyped ==
    ASSUME PipelineTyped,
           \/ Produce \/ ProduceFails \/ Bail \/ SignalAvailable
           \/ TakeAvailable \/ NoneAvailable \/ Release \/ UNCHANGED pipelineVars
    PROVE  PipelineTyped'
BY DEF PipelineTyped, Produce, ProduceFails, Bail, SignalAvailable, TakeAvailable,
       NoneAvailable, Release, pipelineVars

LEMMA PipelineStep == Typed /\ Next => PipelineTyped'
<1>. SUFFICES ASSUME Typed, Next PROVE PipelineTyped'
  OBVIOUS
<1>1. PipelineTyped /\ AnimatorTyped /\ RasterTyped
  BY TypedParts DEF Typed
<1>2. CASE Requesting
  BY <1>1, <1>2, SemaphoresTyped
     DEF Requesting, RequestFrame, AwaitVSync, ScheduleSecondaryCallback,
         AskPlatform, FireCallback
<1>3. CASE Building
  <2>1. CASE DrawLastLayerTrees \/ EndFrameEmpty \/ EndCommit \/ SignalConsumer
             \/ BeginFrame \/ BeginFrameFull
    BY <1>1, <2>1, SemaphoresTyped
       DEF DrawLastLayerTrees, EndFrameEmpty, EndCommit, SignalConsumer, BeginFrame,
           BeginFrameFull
  <2>2. ASSUME NEW to, EndFrame(to) PROVE PipelineTyped'
    BY <1>1, <2>2, SemaphoresTyped, PushTyped, FrameNumbers DEF EndFrame, AnimatorTyped
  <2>3. CASE EndFrameWithTrees \/ \E view \in Views : Render(view)
    BY <1>1, <2>2, <2>3, SemaphoresTyped DEF EndFrameWithTrees, Render
  <2>. QED BY <1>3, <2>1, <2>3 DEF Building
<1>4. CASE Rastering
  <2>1. CASE Draw \/ (\E resubmit \in BOOLEAN : DoDraw(resubmit)) \/ EndConsume
             \/ ReserveRetry \/ SignalRetry
    BY <1>1, <2>1, SemaphoresTyped DEF Draw, DoDraw, EndConsume, ReserveRetry, SignalRetry
  <2>2. CASE PopItem
    BY <1>1, <2>2, PopTyped DEF PopItem
  <2>3. CASE CommitRetry
    <3>1. item \in Frame \cup {nullptr}
      BY <1>1, <2>3 DEF Typed, ItemHeld, RasterTyped, CommitRetry
    <3>. QED BY <1>1, <2>3, <3>1, SemaphoresTyped, PushTyped DEF CommitRetry, PushIfEmpty
  <2>. QED BY <1>4, <2>1, <2>2, <2>3 DEF Rastering
<1>5. CASE DestroyAnimator \/ DestroyRasterizer
  BY <1>1, <1>5, SemaphoresTyped, PushTyped DEF DestroyAnimator, DestroyRasterizer
<1>. QED BY <1>2, <1>3, <1>4, <1>5 DEF Next

LEMMA UIStep == Typed /\ Next => UITyped'
<1>. SUFFICES ASSUME Typed, Next PROVE UITyped'
  OBVIOUS
<1>1. UITyped
  BY TypedParts DEF Typed
<1>2. CASE Requesting
  BY <1>1, <1>2 DEF UITyped, uiVars, Requesting, RequestFrame, AwaitVSync,
                    ScheduleSecondaryCallback, AskPlatform, FireCallback
<1>3. CASE Building
  <2>1. CASE DrawLastLayerTrees \/ EndFrameEmpty \/ EndCommit \/ SignalConsumer
             \/ BeginFrame \/ BeginFrameFull
    BY <1>1, <2>1 DEF UITyped, uiVars, DrawLastLayerTrees, EndFrameEmpty, EndCommit,
                      SignalConsumer, BeginFrame, BeginFrameFull
  <2>2. ASSUME NEW to \in {"idle", "build"}, EndFrame(to), UNCHANGED alive
        PROVE  UITyped'
    BY <1>1, <2>2 DEF UITyped, EndFrame
  <2>3. CASE EndFrameWithTrees \/ \E view \in Views : Render(view)
    BY <1>1, <2>2, <2>3 DEF UITyped, EndFrameWithTrees, Render, DartMayRun
  <2>. QED BY <1>3, <2>1, <2>3 DEF Building
<1>4. CASE Rastering
  BY <1>1, <1>4 DEF UITyped, uiVars, Rastering, Draw, PopItem, DoDraw, EndConsume,
                    ReserveRetry, CommitRetry, SignalRetry
<1>5. CASE DestroyAnimator \/ DestroyRasterizer
  BY <1>1, <1>5 DEF UITyped, uiVars, DestroyAnimator, DestroyRasterizer
<1>. QED BY <1>2, <1>3, <1>4, <1>5 DEF Next

LEMMA AnimatorStep == Typed /\ Next => AnimatorTyped'
<1>. SUFFICES ASSUME Typed, Next PROVE AnimatorTyped'
  OBVIOUS
<1>1. AnimatorTyped
  BY TypedParts DEF Typed
<1>2. CASE Requesting
  BY <1>1, <1>2 DEF AnimatorTyped, animatorVars, Requesting, RequestFrame, AwaitVSync,
                    ScheduleSecondaryCallback, AskPlatform, FireCallback
<1>3. CASE Building
  <2>1. CASE DrawLastLayerTrees \/ EndFrameEmpty \/ EndCommit \/ SignalConsumer
             \/ BeginFrame \/ BeginFrameFull
    BY <1>1, <2>1, FrameNumbers
       DEF AnimatorTyped, animatorVars, DrawLastLayerTrees, EndFrameEmpty, EndCommit,
           SignalConsumer, BeginFrame, BeginFrameFull
  <2>2. CASE EndFrameWithTrees \/ \E view \in Views : Render(view)
    BY <1>1, <2>2, FrameNumbers DEF AnimatorTyped, EndFrameWithTrees, Render, EndFrame
  <2>. QED BY <1>3, <2>1, <2>2 DEF Building
<1>4. CASE Rastering
  BY <1>1, <1>4 DEF AnimatorTyped, animatorVars, Rastering, Draw, PopItem, DoDraw,
                    EndConsume, ReserveRetry, CommitRetry, SignalRetry
<1>5. CASE DestroyAnimator \/ DestroyRasterizer
  BY <1>1, <1>5 DEF AnimatorTyped, animatorVars, DestroyAnimator, DestroyRasterizer
<1>. QED BY <1>2, <1>3, <1>4, <1>5 DEF Next

LEMMA RequestsStep == Typed /\ Next => RequestsTyped'
<1>. SUFFICES ASSUME Typed, Next PROVE RequestsTyped'
  OBVIOUS
<1>1. RequestsTyped
  BY TypedParts DEF Typed
<1>2. CASE Requesting
  <2>1. ASSUME NEW regenerate \in BOOLEAN, RequestFrame(regenerate) PROVE RequestsTyped'
    <3>1. regenerate_layer_trees_' \in BOOLEAN /\ frame_scheduled_' \in BOOLEAN
      BY <1>1, <2>1 DEF RequestsTyped, RequestFrame
    <3>2. pending_frame_semaphore_' \in Nat /\ awaits' \in Nat
      BY <1>1, <2>1 DEF RequestsTyped, RequestFrame
    <3>. QED BY <1>1, <2>1, <3>1, <3>2 DEF RequestsTyped, vsyncVars, RequestFrame
  <2>2. CASE FireCallback
    <3>1. beginTasks' \in Nat /\ vsyncs' \in Nat
      BY <1>1, <2>2 DEF RequestsTyped, FireCallback
    <3>. QED BY <1>1, <2>2, <3>1 DEF RequestsTyped, requestVars, FireCallback
  <2>3. CASE AwaitVSync
    BY <1>1, <2>3 DEF RequestsTyped, AwaitVSync
  <2>4. CASE ScheduleSecondaryCallback
    BY <1>1, <2>4 DEF RequestsTyped, requestVars, ScheduleSecondaryCallback
  <2>5. CASE AskPlatform
    BY <1>1, <2>5 DEF RequestsTyped, requestVars, AskPlatform
  <2>. QED BY <1>2, <2>1, <2>2, <2>3, <2>4, <2>5 DEF Requesting
<1>3. CASE Building
  <2>1. CASE DrawLastLayerTrees
    BY <1>1, <2>1 DEF RequestsTyped, DrawLastLayerTrees
  <2>2. CASE BeginFrame
    <3>1. pending_frame_semaphore_' \in Nat /\ beginTasks' \in Nat
      BY <1>1, <2>2 DEF RequestsTyped, BeginFrame
    <3>. QED BY <1>1, <2>2, <3>1 DEF RequestsTyped, BeginFrame
  <2>3. CASE BeginFrameFull
    BY <1>1, <2>3 DEF RequestsTyped, BeginFrameFull
  <2>4. CASE (\E view \in Views : Render(view)) \/ EndFrameWithTrees \/ EndFrameEmpty
             \/ SignalConsumer \/ EndCommit
    BY <1>1, <2>4 DEF RequestsTyped, requestVars, vsyncVars, Render, EndFrameWithTrees,
                      EndFrameEmpty, SignalConsumer, EndCommit
  <2>. QED BY <1>3, <2>1, <2>2, <2>3, <2>4 DEF Building
<1>4. CASE Rastering
  BY <1>1, <1>4 DEF RequestsTyped, requestVars, vsyncVars, Rastering, Draw, PopItem,
                    DoDraw, EndConsume, ReserveRetry, CommitRetry, SignalRetry
<1>5. CASE DestroyAnimator \/ DestroyRasterizer
  BY <1>1, <1>5 DEF RequestsTyped, requestVars, vsyncVars, DestroyAnimator,
                    DestroyRasterizer
<1>. QED BY <1>2, <1>3, <1>4, <1>5 DEF Next

LEMMA RasterStep == Typed /\ Next => RasterTyped'
<1>. SUFFICES ASSUME Typed, Next PROVE RasterTyped'
  OBVIOUS
<1>1. RasterTyped /\ PipelineTyped
  BY TypedParts DEF Typed
<1>2. CASE Requesting
  BY <1>1, <1>2 DEF RasterTyped, rasterVars, drawVars, Requesting, RequestFrame,
                    AwaitVSync, ScheduleSecondaryCallback, AskPlatform, FireCallback
<1>3. CASE Building
  BY <1>1, <1>3 DEF RasterTyped, rasterVars, drawVars, Building, DrawLastLayerTrees,
                    BeginFrame, BeginFrameFull, Render, EndFrameWithTrees, EndFrameEmpty,
                    SignalConsumer, EndCommit
<1>4. CASE Rastering
  <2>1. CASE Draw
    BY <1>1, <2>1 DEF RasterTyped, Draw, DrawTask
  <2>2. CASE PopItem
    BY <1>1, <2>2, PopTyped DEF RasterTyped, drawVars, PopItem
  <2>3. ASSUME NEW resubmit \in BOOLEAN, DoDraw(resubmit) PROVE RasterTyped'
    BY <1>1, <2>3 DEF RasterTyped, drawVars, DoDraw
  <2>4. ASSUME NEW again, EndDraw(again), UNCHANGED <<rasterizer, draws>>
        PROVE  RasterTyped'
    <3>1. redraws' \in Nat
      BY <1>1, <2>4 DEF RasterTyped, EndDraw
    <3>. QED BY <1>1, <2>4, <3>1 DEF RasterTyped, EndDraw
  <2>5. CASE EndConsume \/ ReserveRetry \/ CommitRetry \/ SignalRetry
    BY <1>1, <2>4, <2>5 DEF RasterTyped, EndConsume, ReserveRetry, CommitRetry,
                            SignalRetry
  <2>. QED BY <1>4, <2>1, <2>2, <2>3, <2>4, <2>5 DEF Rastering
<1>5. CASE DestroyAnimator \/ DestroyRasterizer
  BY <1>1, <1>5 DEF RasterTyped, rasterVars, drawVars, DestroyAnimator, DestroyRasterizer
<1>. QED BY <1>2, <1>3, <1>4, <1>5 DEF Next

LEMMA ItemHeldStep == Typed /\ Next => ItemHeld'
<1>. SUFFICES ASSUME Typed, Next PROVE ItemHeld'
  OBVIOUS
<1>1. RasterTyped /\ PipelineTyped /\ ItemHeld
  BY TypedParts DEF Typed
<1>2. CASE Requesting \/ Building \/ DestroyAnimator \/ DestroyRasterizer
  <2>1. UNCHANGED <<raster, item>>
    BY <1>2 DEF rasterVars, Requesting, RequestFrame, AwaitVSync,
                ScheduleSecondaryCallback, AskPlatform, FireCallback, Building,
                DrawLastLayerTrees, BeginFrame, BeginFrameFull, Render,
                EndFrameWithTrees, EndFrameEmpty, SignalConsumer, EndCommit,
                DestroyAnimator, DestroyRasterizer
  <2>. QED BY <1>1, <2>1 DEF ItemHeld
<1>3. CASE Draw \/ \E resubmit \in BOOLEAN : DoDraw(resubmit)
  BY <1>1, <1>3 DEF ItemHeld, Draw, DoDraw
<1>4. CASE PopItem
  BY <1>1, <1>4, PopTyped, FrameNumbers DEF ItemHeld, PopItem
<1>5. CASE EndConsume \/ ReserveRetry \/ CommitRetry \/ SignalRetry
  BY <1>1, <1>5 DEF ItemHeld, EndDraw, EndConsume, ReserveRetry, CommitRetry, SignalRetry
<1>. QED BY <1>2, <1>3, <1>4, <1>5 DEF Next, Rastering

LEMMA TypesKept == Typed /\ [Next]_vars => Typed'
<1>1. CASE UNCHANGED vars
  BY <1>1 DEF Typed, ItemHeld, FramesTypeOK, vars, pipelineVars, animatorVars,
              requestVars, vsyncVars, uiVars, rasterVars, drawVars
<1>2. (PipelineTyped /\ UITyped /\ AnimatorTyped /\ RequestsTyped /\ RasterTyped)'
         => FramesTypeOK'
  BY DEF FramesTypeOK, PipelineTyped, UITyped, AnimatorTyped, RequestsTyped, RasterTyped
<1>. QED
  BY <1>1, <1>2, PipelineStep, UIStep, AnimatorStep, RequestsStep, RasterStep,
     ItemHeldStep DEF Typed

LEMMA InitTyped == Init => Typed
<1>. SUFFICES ASSUME Init PROVE Typed
  OBVIOUS
<1>1. PipelineTyped
  BY DepthAssumption DEF Init, PipelineInit, PipelineTyped
<1>2. AnimatorTyped
  <2>1. 0 \in Frame
    BY FrameNumbers DEF Frame
  <2>. QED BY <2>1 DEF Init, AnimatorTyped
<1>3. UITyped /\ RequestsTyped
  BY DEF Init, UITyped, RequestsTyped
<1>4. RasterTyped /\ ItemHeld
  BY DEF Init, RasterTyped, ItemHeld
<1>. QED BY <1>1, <1>2, <1>3, <1>4, TypedParts DEF Typed

\* Every field of the animator, the waiter, the pipeline and the rasterizer
\* stays in its domain: no semaphore goes below zero, and every waiting item is a
\* frame or the null item of an abandoned continuation.
THEOREM FramesTypeCorrect == Spec => []FramesTypeOK
<1>1. Typed => FramesTypeOK
  BY DEF Typed
<1>. QED BY <1>1, InitTyped, TypesKept, PTL DEF Spec

-----------------------------------------------------------------------------
(* Slots and items *)

Counted == Typed /\ SlotsAccounted /\ ConsumerFindsItem

\* What the counts are made of, besides the pipeline.
holders == <<producer_continuation_, raster, ui = "pushed">>

LEMMA CountsKept ==
    ASSUME Counted, UNCHANGED <<empty_, available_, queue_, holders>>
    PROVE  (SlotsAccounted /\ ConsumerFindsItem)'
BY DEF Counted, SlotsAccounted, ConsumerFindsItem, holders

LEMMA RequestingCounted ==
    ASSUME Counted, Requesting
    PROVE  (SlotsAccounted /\ ConsumerFindsItem)'
<1>1. ui' = "pushed" <=> ui = "pushed"
  BY DEF uiVars, Requesting, RequestFrame, AwaitVSync, ScheduleSecondaryCallback,
         AskPlatform, FireCallback
<1>2. UNCHANGED <<empty_, available_, queue_, producer_continuation_, raster>>
  BY DEF pipelineVars, animatorVars, rasterVars, Requesting, RequestFrame, AwaitVSync,
         ScheduleSecondaryCallback, AskPlatform, FireCallback
<1>. QED BY <1>1, <1>2, CountsKept DEF holders

\* A commit of the UI thread turns a reserved slot into a waiting item.
LEMMA UIPushCounted ==
    ASSUME Counted, producer_continuation_, ~ producer_continuation_',
           ui # "pushed", ui' = "pushed", UNCHANGED raster,
           NEW i \in Frame \cup {nullptr}, Push(i)
    PROVE  (SlotsAccounted /\ ConsumerFindsItem)'
<1>1. queue_ \in Seq(Frame \cup {nullptr}) /\ empty_ \in Nat /\ available_ \in Nat
  BY TypedParts DEF Counted, Typed, PipelineTyped
<1>2. Len(queue_') = Len(queue_) + 1 /\ UNCHANGED <<empty_, available_>>
  BY <1>1 DEF Push
<1>3. raster # "took" \/ queue_' # <<>>
  BY <1>1, <1>2
<1>. QED BY <1>1, <1>2, <1>3 DEF Counted, SlotsAccounted, ConsumerFindsItem

LEMMA BuildingCounted ==
    ASSUME Counted, Building
    PROVE  (SlotsAccounted /\ ConsumerFindsItem)'
<1>1. PipelineTyped /\ UITyped /\ AnimatorTyped
  BY TypedParts DEF Counted, Typed
<1>2. CASE DrawLastLayerTrees \/ EndFrameEmpty \/ EndCommit \/ BeginFrameFull
  <2>1. UNCHANGED <<empty_, available_, queue_, producer_continuation_, raster>>
    BY <1>2 DEF pipelineVars, animatorVars, rasterVars, ProduceFails,
                DrawLastLayerTrees, EndFrameEmpty, EndCommit, BeginFrameFull
  <2>2. ui' = "pushed" <=> ui = "pushed"
    BY <1>1, <1>2 DEF UITyped, uiVars, DrawLastLayerTrees, EndFrameEmpty, EndCommit,
                      BeginFrameFull
  <2>. QED BY <2>1, <2>2, CountsKept DEF holders
<1>3. CASE BeginFrame
  <2>1. CASE producer_continuation_ /\ UNCHANGED pipelineVars
    BY <1>3, <2>1 DEF Counted, SlotsAccounted, ConsumerFindsItem, BeginFrame,
                      pipelineVars, rasterVars
  <2>2. CASE ~ producer_continuation_ /\ Produce
    BY <1>1, <1>3, <2>2 DEF Counted, SlotsAccounted, ConsumerFindsItem, BeginFrame,
                            Produce, rasterVars, PipelineTyped
  <2>. QED BY <1>3, <2>1, <2>2 DEF BeginFrame
<1>4. CASE SignalConsumer
  BY <1>1, <1>4 DEF Counted, SlotsAccounted, ConsumerFindsItem, SignalConsumer,
                    SignalAvailable, animatorVars, rasterVars, PipelineTyped
<1>5. ASSUME NEW to \in {"idle", "build"}, EndFrame(to), DartMayRun, UNCHANGED raster
      PROVE  (SlotsAccounted /\ ConsumerFindsItem)'
  <2>1. ui # "pushed"
    BY <1>5 DEF DartMayRun
  <2>2. CASE producer_continuation_
    <3>1. PICK i \in Frame \cup {nullptr} : Push(i)
      BY <1>1, <1>5, <2>2, FrameNumbers DEF EndFrame, AnimatorTyped
    <3>. QED BY <1>5, <2>1, <2>2, <3>1, UIPushCounted DEF EndFrame
  <2>3. CASE ~ producer_continuation_
    BY <1>5, <2>1, <2>3 DEF Counted, SlotsAccounted, ConsumerFindsItem, EndFrame,
                            pipelineVars
  <2>. QED BY <2>2, <2>3
<1>6. CASE EndFrameWithTrees
  BY <1>5, <1>6 DEF EndFrameWithTrees, rasterVars
<1>7. ASSUME NEW view \in Views, Render(view)
      PROVE  (SlotsAccounted /\ ConsumerFindsItem)'
  <2>1. DartMayRun /\ ui \in {"idle", "build"} /\ UNCHANGED raster
    BY <1>7 DEF Render, DartMayRun, rasterVars
  <2>2. CASE EndFrame(ui)
    BY <1>5, <2>1, <2>2
  <2>3. CASE UNCHANGED <<pipelineVars, producer_continuation_, ui>>
    BY <2>1, <2>3, CountsKept DEF pipelineVars, holders
  <2>. QED BY <1>7, <2>2, <2>3 DEF Render
<1>. QED BY <1>2, <1>3, <1>4, <1>6, <1>7 DEF Building

LEMMA RasteringCounted ==
    ASSUME Counted, Rastering
    PROVE  (SlotsAccounted /\ ConsumerFindsItem)'
<1>1. PipelineTyped
  BY TypedParts DEF Counted, Typed
<1>2. UNCHANGED <<producer_continuation_, ui>>
  BY DEF animatorVars, uiVars, Rastering, Draw, PopItem, DoDraw, EndConsume,
         ReserveRetry, CommitRetry, SignalRetry
<1>. USE <1>1, <1>2 DEF Counted, SlotsAccounted, ConsumerFindsItem, PipelineTyped
<1>3. CASE Draw
  BY <1>3 DEF Draw, TakeAvailable, NoneAvailable, pipelineVars
<1>4. CASE PopItem
  <2>1. Len(queue_') = Len(queue_) - 1 /\ UNCHANGED <<empty_, available_>>
    BY <1>4 DEF PopItem, Pop
  <2>. QED BY <1>4, <2>1 DEF PopItem
<1>5. ASSUME NEW resubmit \in BOOLEAN, DoDraw(resubmit)
      PROVE  (SlotsAccounted /\ ConsumerFindsItem)'
  BY <1>5 DEF DoDraw, pipelineVars
<1>6. CASE EndConsume
  BY <1>6 DEF EndConsume, Release, EndDraw
<1>7. CASE ReserveRetry
  BY <1>7 DEF ReserveRetry, Produce, ProduceFails, EndDraw, pipelineVars
<1>8. CASE CommitRetry
  <2>1. CASE PushIfEmpty(item) /\ raster' = "resubmitted"
    <3>1. Len(queue_') = Len(queue_) + 1 /\ UNCHANGED <<empty_, available_>>
      BY <2>1 DEF PushIfEmpty, Push
    <3>. QED BY <1>8, <2>1, <3>1 DEF CommitRetry
  <2>2. CASE Bail /\ EndDraw(more)
    BY <1>8, <2>2 DEF CommitRetry, Bail, EndDraw
  <2>. QED BY <1>8, <2>1, <2>2 DEF CommitRetry
<1>9. CASE SignalRetry
  BY <1>9 DEF SignalRetry, SignalAvailable, EndDraw
<1>. QED BY <1>3, <1>4, <1>5, <1>6, <1>7, <1>8, <1>9 DEF Rastering

LEMMA DestroyingCounted ==
    ASSUME Counted, DestroyAnimator \/ DestroyRasterizer
    PROVE  (SlotsAccounted /\ ConsumerFindsItem)'
<1>1. AnimatorTyped
  BY TypedParts DEF Counted, Typed
<1>2. CASE DestroyAnimator /\ producer_continuation_
  <2>1. Push(nullptr) /\ ui # "pushed" /\ ui' = "pushed" /\ UNCHANGED raster
        /\ ~ producer_continuation_'
    BY <1>2 DEF DestroyAnimator, rasterVars
  <2>. QED BY <1>2, <2>1, UIPushCounted
<1>3. CASE DestroyAnimator /\ ~ producer_continuation_
  <2>1. UNCHANGED <<empty_, available_, queue_, raster, ui>> /\ ~ producer_continuation_'
    BY <1>3 DEF DestroyAnimator, pipelineVars, rasterVars
  <2>. QED BY <1>3, <2>1 DEF Counted, SlotsAccounted, ConsumerFindsItem
<1>4. CASE DestroyRasterizer
  BY <1>4, CountsKept DEF DestroyRasterizer, pipelineVars, animatorVars, uiVars, holders
<1>. QED BY <1>2, <1>3, <1>4

LEMMA CountedStep == Counted /\ [Next]_vars => Counted'
<1>. SUFFICES ASSUME Counted, [Next]_vars PROVE Counted'
  OBVIOUS
<1>1. Typed'
  BY TypesKept DEF Counted
<1>2. CASE UNCHANGED vars
  BY <1>1, <1>2, CountsKept
     DEF Counted, vars, pipelineVars, animatorVars, rasterVars, uiVars, holders
<1>3. CASE Next
  BY <1>1, <1>3, RequestingCounted, BuildingCounted, RasteringCounted,
     DestroyingCounted DEF Next, Counted
<1>. QED BY <1>2, <1>3

LEMMA InitCounted == Init => Counted
BY InitTyped, DepthAssumption
   DEF Init, PipelineInit, Counted, SlotsAccounted, ConsumerFindsItem

\* No slot of the pipeline is lost or used twice, whatever is retried, dropped or
\* abandoned, for every depth: so the queue is never longer than the depth.
THEOREM SlotsAlwaysAccounted == Spec => []SlotsAccounted
<1>1. Counted => SlotsAccounted
  BY DEF Counted
<1>. QED BY <1>1, InitCounted, CountedStep, PTL DEF Spec

\* A consumer that has passed the semaphore never finds the queue empty.
THEOREM ConsumerAlwaysFindsItem == Spec => []ConsumerFindsItem
<1>1. Counted => ConsumerFindsItem
  BY DEF Counted
<1>. QED BY <1>1, InitCounted, CountedStep, PTL DEF Spec

-----------------------------------------------------------------------------
(* Refinement of FrameDelivery *)

\* A slot that is reserved leaves room in the queue.
LEMMA ReservedLeavesRoom ==
    ASSUME Counted, producer_continuation_
    PROVE  Len(queue_) < Depth
<1>1. PipelineTyped
  BY TypedParts DEF Counted, Typed
<1>. QED BY <1>1, FrameNumbers DEF Counted, SlotsAccounted, PipelineTyped

\* Where neither the queue nor the drawn frame changes, FrameDelivery stutters.
LEMMA Stutters ==
    ASSUME UNCHANGED <<queue_, item>>
    PROVE  UNCHANGED Delivery!vars
BY DEF Delivery!vars

LEMMA UIPushCommits ==
    ASSUME Counted, producer_continuation_, UNCHANGED item,
           NEW i \in Frame \cup {nullptr}, Push(i)
    PROVE  Delivery!Next
BY ReservedLeavesRoom DEF Push, Delivery!Next, Delivery!Commit

LEMMA BuildingDelivers ==
    ASSUME Counted, Building
    PROVE  [Delivery!Next]_(Delivery!vars)
<1>1. AnimatorTyped
  BY TypedParts DEF Counted, Typed
<1>2. UNCHANGED item
  BY DEF rasterVars, Building, DrawLastLayerTrees, BeginFrame, BeginFrameFull, Render,
         EndFrameWithTrees, EndFrameEmpty, SignalConsumer, EndCommit
<1>3. CASE DrawLastLayerTrees \/ EndFrameEmpty \/ EndCommit \/ BeginFrameFull
           \/ BeginFrame \/ SignalConsumer
  BY <1>2, <1>3, Stutters
     DEF pipelineVars, ProduceFails, Produce, SignalAvailable, DrawLastLayerTrees,
         EndFrameEmpty, EndCommit, BeginFrameFull, BeginFrame, SignalConsumer
<1>4. ASSUME NEW to, EndFrame(to) PROVE [Delivery!Next]_(Delivery!vars)
  <2>1. CASE producer_continuation_
    <3>1. PICK i \in Frame \cup {nullptr} : Push(i)
      BY <1>1, <1>4, <2>1, FrameNumbers DEF EndFrame, AnimatorTyped
    <3>. QED BY <1>2, <2>1, <3>1, UIPushCommits
  <2>2. CASE ~ producer_continuation_
    BY <1>2, <1>4, <2>2, Stutters DEF EndFrame, pipelineVars
  <2>. QED BY <2>1, <2>2
<1>5. CASE EndFrameWithTrees
  BY <1>4, <1>5 DEF EndFrameWithTrees
<1>6. ASSUME NEW view \in Views, Render(view) PROVE [Delivery!Next]_(Delivery!vars)
  <2>1. CASE EndFrame(ui)
    BY <1>4, <2>1
  <2>2. CASE UNCHANGED pipelineVars
    BY <1>2, <2>2, Stutters DEF pipelineVars
  <2>. QED BY <1>6, <2>1, <2>2 DEF Render
<1>. QED BY <1>3, <1>5, <1>6 DEF Building

LEMMA RasteringDelivers ==
    ASSUME Counted, Rastering
    PROVE  [Delivery!Next]_(Delivery!vars)
<1>1. PipelineTyped /\ RasterTyped
  BY TypedParts DEF Counted, Typed
<1>2. CASE Draw \/ \E resubmit \in BOOLEAN : DoDraw(resubmit)
  BY <1>2, Stutters DEF Draw, DoDraw, TakeAvailable, NoneAvailable, pipelineVars
<1>3. CASE PopItem
  <2>1. PICK i \in Frame \cup {nullptr} : Pop(i) /\ item' = i
    BY <1>3 DEF PopItem
  <2>2. item = none /\ i # none
    BY <1>3, <2>1, FrameNumbers DEF Counted, Typed, ItemHeld, PopItem
  <2>3. Delivery!Start
    BY <2>1, <2>2 DEF Pop, Delivery!Start
  <2>. QED BY <2>3 DEF Delivery!Next
<1>4. ASSUME UNCHANGED queue_, item # none, item' = none PROVE Delivery!Next
  BY <1>4 DEF Delivery!Next, Delivery!Finish
<1>5. CASE EndConsume
  <2>1. UNCHANGED queue_ /\ item # none /\ item' \in {item, none}
    BY <1>5 DEF EndConsume, Release, EndDraw, Counted, Typed, ItemHeld
  <2>. QED BY <2>1, <1>4, Stutters
<1>6. CASE ReserveRetry
  <2>1. UNCHANGED queue_ /\ item # none /\ item' \in {item, none}
    BY <1>6 DEF ReserveRetry, Produce, ProduceFails, pipelineVars, EndDraw, Counted,
                Typed, ItemHeld
  <2>. QED BY <2>1, <1>4, Stutters
<1>7. CASE CommitRetry
  <2>1. item # none
    BY <1>7 DEF CommitRetry, Counted, Typed, ItemHeld
  <2>2. CASE PushIfEmpty(item) /\ item' = none
    <3>1. queue_ = <<>> /\ queue_' = <<item>>
      BY <1>1, <2>2 DEF PushIfEmpty, Push
    <3>2. Delivery!Retry
      BY <2>1, <2>2, <3>1 DEF Delivery!Retry
    <3>. QED BY <3>2 DEF Delivery!Next
  <2>3. CASE Bail /\ EndDraw(more)
    BY <1>4, <2>1, <2>3 DEF Bail, EndDraw
  <2>. QED BY <1>7, <2>2, <2>3 DEF CommitRetry
<1>8. CASE SignalRetry
  <2>1. UNCHANGED <<queue_, item>>
    BY <1>8 DEF SignalRetry, SignalAvailable, EndDraw, Counted, Typed, ItemHeld
  <2>. QED BY <2>1, Stutters
<1>. QED BY <1>2, <1>3, <1>5, <1>6, <1>7, <1>8 DEF Rastering

LEMMA StepDelivers == Counted /\ [Next]_vars => [Delivery!Next]_(Delivery!vars)
<1>. SUFFICES ASSUME Counted, [Next]_vars PROVE [Delivery!Next]_(Delivery!vars)
  OBVIOUS
<1>1. CASE UNCHANGED vars
  BY <1>1, Stutters DEF vars, pipelineVars, rasterVars
<1>2. CASE Requesting \/ DestroyRasterizer
  BY <1>2, Stutters
     DEF pipelineVars, rasterVars, Requesting, RequestFrame, AwaitVSync,
         ScheduleSecondaryCallback, AskPlatform, FireCallback, DestroyRasterizer
<1>3. CASE DestroyAnimator
  <2>1. UNCHANGED item
    BY <1>3 DEF DestroyAnimator, rasterVars
  <2>2. CASE producer_continuation_
    BY <1>3, <2>1, <2>2, UIPushCommits DEF DestroyAnimator
  <2>3. CASE ~ producer_continuation_
    BY <1>3, <2>1, <2>3, Stutters DEF DestroyAnimator, pipelineVars
  <2>. QED BY <2>2, <2>3
<1>. QED BY <1>1, <1>2, <1>3, BuildingDelivers, RasteringDelivers DEF Next

\* Frames are rasterised one at a time and in the order they were committed, a
\* retried frame never meets a newer one, and no more wait than the depth allows:
\* the pipeline implements FrameDelivery for every depth.
THEOREM FramesImplementDelivery == Spec => ImplementsFrameDelivery
<1>1. Init => Delivery!Init
  BY DEF Init, PipelineInit, Delivery!Init
<1>. QED BY <1>1, InitCounted, CountedStep, StepDelivers, PTL
         DEF Spec, ImplementsFrameDelivery, Delivery!Spec

-----------------------------------------------------------------------------
(* One request, one vsync *)

\* Where the request of a frame is, and what the platform was asked for: a
\* semaphore, tasks of the UI thread, and the callbacks that the waiter holds.
Requests == Typed /\ OneRequestPending /\ VsyncAskedOnce

LEMMA RequestingKeepsRequests ==
    ASSUME Requests, Requesting
    PROVE  (OneRequestPending /\ VsyncAskedOnce)'
<1>1. RequestsTyped /\ UITyped
  BY TypedParts DEF Requests, Typed
<1>. USE <1>1 DEF Requests, OneRequestPending, VsyncAskedOnce, RequestsTyped, UITyped
<1>2. ASSUME NEW regenerate \in BOOLEAN, RequestFrame(regenerate)
      PROVE  (OneRequestPending /\ VsyncAskedOnce)'
  BY <1>2 DEF RequestFrame, DartMayRun, vsyncVars, uiVars
<1>3. CASE AwaitVSync
  <2>1. ~ callback_ /\ awaits = 1 /\ pending_frame_semaphore_ = 0 /\ beginTasks = 0
    BY <1>3 DEF AwaitVSync
  <2>. QED BY <1>3, <2>1 DEF AwaitVSync
<1>4. CASE ScheduleSecondaryCallback
  BY <1>4 DEF ScheduleSecondaryCallback, requestVars
<1>5. CASE AskPlatform
  BY <1>5 DEF AskPlatform, requestVars
<1>6. CASE FireCallback
  BY <1>6 DEF FireCallback, requestVars, uiVars
<1>. QED BY <1>2, <1>3, <1>4, <1>5, <1>6 DEF Requesting

LEMMA BuildingKeepsRequests ==
    ASSUME Requests, Building
    PROVE  (OneRequestPending /\ VsyncAskedOnce)'
<1>1. RequestsTyped /\ UITyped
  BY TypedParts DEF Requests, Typed
<1>2. VsyncAskedOnce'
  <2>1. UNCHANGED <<alive, vsyncs, callback_, secondary_callbacks_>>
    BY DEF Building, DrawLastLayerTrees, BeginFrame, BeginFrameFull, Render,
           EndFrameWithTrees, EndFrameEmpty, SignalConsumer, EndCommit, uiVars, vsyncVars
  <2>2. ui # "await" /\ ui' # "await"
    BY <1>1 DEF Building, DrawLastLayerTrees, BeginFrame, BeginFrameFull, Render, EndFrame,
           EndFrameWithTrees, EndFrameEmpty, SignalConsumer, EndCommit, uiVars, DartMayRun,
           UITyped
  <2>. QED BY <2>1, <2>2 DEF Requests, VsyncAskedOnce
<1>3. OneRequestPending'
  <2>1. CASE DrawLastLayerTrees \/ BeginFrame \/ BeginFrameFull
    BY <1>1, <2>1
       DEF Requests, OneRequestPending, RequestsTyped, DrawLastLayerTrees, BeginFrame,
           BeginFrameFull
  <2>2. CASE \/ \E view \in Views : Render(view)
             \/ EndFrameWithTrees \/ EndFrameEmpty \/ SignalConsumer \/ EndCommit
    BY <2>2 DEF Requests, OneRequestPending, Render, EndFrameWithTrees, EndFrameEmpty,
                SignalConsumer, EndCommit, requestVars, vsyncVars
  <2>. QED BY <2>1, <2>2 DEF Building
<1>. QED BY <1>2, <1>3

LEMMA RequestsKept == Requests /\ [Next]_vars => Requests'
<1>. SUFFICES ASSUME Requests, [Next]_vars PROVE Requests'
  OBVIOUS
<1>1. Typed'
  BY TypesKept DEF Requests
<1>2. CASE Rastering \/ DestroyRasterizer \/ UNCHANGED vars
  <2>1. UNCHANGED <<alive, ui, requestVars, vsyncVars>>
    BY <1>2 DEF Rastering, Draw, PopItem, DoDraw, EndConsume, ReserveRetry, CommitRetry,
                SignalRetry, DestroyRasterizer, uiVars, vars
  <2>. QED BY <1>1, <2>1 DEF Requests, OneRequestPending, VsyncAskedOnce, requestVars, vsyncVars
<1>3. CASE DestroyAnimator
  BY <1>1, <1>3 DEF DestroyAnimator, Requests, OneRequestPending, VsyncAskedOnce,
                    requestVars, vsyncVars
<1>. QED BY <1>1, <1>2, <1>3, RequestingKeepsRequests, BuildingKeepsRequests
         DEF Next, Requests

LEMMA RequestsAlways == Spec => []Requests
<1>1. Init => Requests
  <2>. SUFFICES ASSUME Init PROVE Requests
    OBVIOUS
  <2>. QED BY InitTyped DEF Init, Requests, OneRequestPending, VsyncAskedOnce
<1>. QED BY <1>1, RequestsKept, PTL DEF Spec

\* A frame request is in one place from RequestFrame to the frame callback, also
\* when a full pipeline sends it round again: one vsync never begins two frames,
\* and no request is lost (animator.cc lines 97-104 and 251-255).
THEOREM AlwaysOneRequestPending == Spec => []OneRequestPending
<1>1. Requests => OneRequestPending
  BY DEF Requests
<1>. QED BY <1>1, RequestsAlways, PTL

\* While the animator lives the platform has been asked for exactly one vsync as
\* long as some callback waits for it, and for none otherwise, however frame and
\* secondary callbacks overtake each other (vsync_waiter.cc lines 34-83).
THEOREM VsyncAlwaysAskedOnce == Spec => []VsyncAskedOnce
<1>1. Requests => VsyncAskedOnce
  BY DEF Requests
<1>. QED BY <1>1, RequestsAlways, PTL

=============================================================================
