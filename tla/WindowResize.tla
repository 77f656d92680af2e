---------------------------- MODULE WindowResize ----------------------------
(***************************************************************************)
(* FlutterWindowsView, the resize of a window of the Windows embedder: the *)
(* platform thread announces the new size and waits for up to 100 ms until *)
(* the raster thread has made a surface of that size and presented a frame *)
(* on it.                                                                  *)
(*                                                                         *)
(* The view renders with OpenGL and is not sized to its content.  Only     *)
(* frames of the size that the shell was last told reach the view          *)
(* (Shell::ShouldDiscardLayerTree); they may come at any time.             *)
(***************************************************************************)
EXTENDS Naturals

CONSTANTS
    Sizes,      \* sizes of the window, records of width and height
    invalid     \* the surface that could not be created

ASSUME SizesAssumption ==
    /\ \A s \in Sizes : s.width \in Nat /\ s.height \in Nat
    /\ invalid \notin Sizes

VARIABLES
    window,         \* the size of the window
    surface_,       \* the size of surface_, or invalid
    resize_status_, \* "kResizeStarted", "kFrameGenerated" or "kDone"
    resize_target_, \* resize_target_width_ and resize_target_height_
    metrics,        \* the size the shell was last told
    resizeStep,     \* OnWindowSizeChanged: "idle", "start" a resize, then "announce" it
                    \* and "wait", or only "send" the metrics
    frame,          \* the frame of the raster thread: its size, and whether it is empty
    rasterStep,     \* "idle", "drawn", or "presenting"
    lost            \* history: a frame was not presented since the resize was started

resizeVars == <<window, surface_, resize_status_, resize_target_, metrics, resizeStep,
                frame, rasterStep, lost>>

platformVars == <<window, metrics, resizeStep>>
rasterVars == <<frame, rasterStep, lost>>
stateVars == <<surface_, resize_status_, resize_target_>>

IsZero(s) == s.width = 0 \/ s.height = 0

ResizeInit ==
    /\ window \in {s \in Sizes : ~ IsZero(s)}
    /\ surface_ \in {window, invalid}       \* CreateRenderSurface
    /\ resize_status_ = "kDone"
    /\ resize_target_ = window
    /\ metrics = window
    /\ resizeStep = "idle"
    /\ frame = [size |-> window, empty |-> FALSE]
    /\ rasterStep = "idle"
    /\ lost = FALSE

-----------------------------------------------------------------------------
(* The platform thread: OnWindowSizeChanged *)

SurfaceWillUpdate(current, target) == ~ IsZero(target) /\ current # target

\* The window changes its size.  The surface is looked at without resize_mutex_.
OnWindowSizeChanged(s) ==
    /\ resizeStep = "idle"
    /\ s # window
    /\ window' = s
    /\ resizeStep' =
          IF surface_ # invalid /\ SurfaceWillUpdate(surface_, s) THEN "start" ELSE "send"
    /\ UNCHANGED <<metrics, stateVars, rasterVars>>

\* The new target, under resize_mutex_.
StartResize ==
    /\ resizeStep = "start"
    /\ resize_status_' = "kResizeStarted"
    /\ resize_target_' = window
    /\ resizeStep' = "announce"
    /\ lost' = FALSE
    /\ UNCHANGED <<window, surface_, metrics, frame, rasterStep>>

\* SendWindowMetrics.  The shell ignores a size of zero (ValidateViewportMetrics).
SendWindowMetrics ==
    /\ resizeStep \in {"announce", "send"}
    /\ metrics' = IF IsZero(window) THEN metrics ELSE window
    /\ resizeStep' = IF resizeStep = "announce" THEN "wait" ELSE "idle"
    /\ UNCHANGED <<window, stateVars, rasterVars>>

\* The resize is done, or kWindowResizeTimeout is over.
EndWait ==
    /\ resizeStep = "wait"
    /\ resizeStep' = "idle"
    /\ UNCHANGED <<window, metrics, stateVars, rasterVars>>

-----------------------------------------------------------------------------
(* The raster thread *)

\* A frame of the size the shell was told, which may have no layers.
DrawViewFrame(empty) ==
    /\ rasterStep = "idle"
    /\ frame' = [size |-> metrics, empty |-> empty]
    /\ rasterStep' = "drawn"
    /\ UNCHANGED <<platformVars, stateVars, lost>>

Refuse == rasterStep' = "idle" /\ UNCHANGED stateVars

Accept == rasterStep' = "presenting" /\ UNCHANGED stateVars

Turned(size) == [width |-> size.height, height |-> size.width]

\* ResizeRenderSurface, which may fail with the old surface destroyed.
ResizeRenderSurface(size) ==
    \/ /\ surface_' = size
       /\ resize_status_' = "kFrameGenerated"
       /\ rasterStep' = "presenting"
       /\ UNCHANGED resize_target_
    \/ /\ surface_ # size
       /\ surface_' = invalid
       /\ rasterStep' = "idle"
       /\ UNCHANGED <<resize_status_, resize_target_>>

OnFrameGenerated ==
    /\ rasterStep = "drawn" /\ ~ frame.empty
    /\ CASE surface_ = invalid -> Refuse
         [] surface_ # invalid /\ resize_status_ # "kResizeStarted" -> Accept
         [] OTHER -> IF resize_target_ # frame.size
                     THEN Refuse
                     ELSE ResizeRenderSurface(resize_target_)
    /\ UNCHANGED <<platformVars, frame, lost>>

\* As the code has it, ResizeRenderSurface is called with the height for the width.
OnEmptyFrameGenerated ==
    /\ rasterStep = "drawn" /\ frame.empty
    /\ CASE surface_ = invalid -> Refuse
         [] surface_ # invalid /\ resize_status_ # "kResizeStarted" -> Accept
         [] OTHER -> ResizeRenderSurface(Turned(resize_target_))
    /\ UNCHANGED <<platformVars, frame, lost>>

\* Mutant: a resize that was started meanwhile ends with this frame.
OnFramePresented_Mutation ==
    /\ rasterStep = "presenting"
    /\ rasterStep' = "idle"
    /\ resize_status_' = "kDone"
    /\ UNCHANGED <<platformVars, surface_, resize_target_, frame, lost>>

\* The buffers are swapped; a resize that was started meanwhile goes on.
OnFramePresented ==
    /\ rasterStep = "presenting"
    /\ rasterStep' = "idle"
    /\ resize_status_' =
          IF resize_status_ = "kFrameGenerated" THEN "kDone" ELSE resize_status_
    /\ UNCHANGED <<platformVars, surface_, resize_target_, frame, lost>>

\* MakeCurrent or SwapBuffers fails, and the view is not told.
PresentFails ==
    /\ rasterStep = "presenting"
    /\ rasterStep' = "idle"
    /\ lost' = TRUE
    /\ UNCHANGED <<platformVars, stateVars, frame>>

ResizeNext ==
    \/ \E s \in Sizes : OnWindowSizeChanged(s)
    \/ StartResize \/ SendWindowMetrics \/ EndWait
    \/ \E empty \in BOOLEAN : DrawViewFrame(empty)
    \/ OnFrameGenerated \/ OnEmptyFrameGenerated
    \/ OnFramePresented \/ PresentFails

ResizeSpec == ResizeInit /\ [][ResizeNext]_resizeVars

-----------------------------------------------------------------------------
(* Properties *)

\* The platform thread is not let go by the frame of an earlier resize that timed
\* out, nor by one drawn before the new metrics.  When the resize it waits for ends,
\* the surface was made for it, and if no frame was lost on the way, the frame that
\* ends it is the one the surface was made for: one with content has the size of the
\* window, and so has its surface (flutter_windows_view.cc:186-200, 750-760); an empty
\* one has no size to compare, and its surface is the window's turned round (line 155).
ResizeEndsWithItsFrame ==
    [][resize_status_ # "kDone" /\ resize_status_' = "kDone" /\ resizeStep = "wait"
        => /\ surface_ \in {window, Turned(window)}
           /\ ~ lost => IF frame.empty
                        THEN surface_ = Turned(window)
                        ELSE surface_ = window /\ frame.size = window]_resizeVars

\* kDone is the "Default state for when no resize is in progress"
\* (flutter_windows_view.h:329-331), and a frame of the target's size completes "a view
\* resize if one is pending" (139-142).  So kResizeStarted ought not to outlive the
\* resize.  One that timed out may still be pending while the platform thread is idle,
\* but only as long as the frames that are drawn have the size that completes it.
NoFrozenView ==
    resize_status_ = "kResizeStarted" /\ resizeStep = "idle" => resize_target_ = metrics
=============================================================================
