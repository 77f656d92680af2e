-------------------------------- MODULE Shell --------------------------------
(***************************************************************************)
(* flutter::Shell: it creates the platform view, the rasterizer, the IO    *)
(* manager and the engine on four task runners, hands the platform's       *)
(* surface to the rasterizer and takes it away, and destroys the parts in  *)
(* turn.  The platform thread waits for the others with futures and        *)
(* latches.                                                                *)
(*                                                                         *)
(* The UI and the raster runner may use the platform thread, and with      *)
(* kMergeAfterLaunch the UI runner moves there as the engine is launched.  *)
(* As RunNowOrPostTask runs a task of its own thread at once, a thread has *)
(* a sequence of steps to do, and a call puts others in front of the rest. *)
(* The merges of the raster runner are in ThreadMerger, frames in Frames.  *)
(***************************************************************************)
EXTENDS Naturals, Sequences

CONSTANTS MaxViews     \* bound: how often the platform gives its surface

ASSUME ViewsAssumption == MaxViews \in Nat

Runners == {"platform", "ui", "raster", "io"}

VARIABLES
    thread,         \* thread[r]: the runner whose thread runner r uses
    mergeLaunch,    \* the settings ask for kMergeAfterLaunch
    uiMoved,        \* the UI queue has been merged into the platform queue
    tasks,          \* tasks[t]: the queue of thread t
    steps,          \* steps[t]: what is left of the task of thread t
    made,           \* what exists: parts, promises that are set
    signaled,       \* the latch of the call that waits
    shellCall,      \* the call of the platform thread, or "none"
    shellLife,      \* of the shell: "none", "ready", "running" (the engine was
                    \* asked to run), "gone"
    viewed,         \* the platform has given its surface
    views,          \* how often it has
    dangled         \* a task has used what is gone

hostVars == <<thread, mergeLaunch>>
callerVars == <<shellCall, shellLife, viewed, views>>
shellVars == <<hostVars, uiMoved, tasks, steps, made, signaled, callerVars, dangled>>

\* How embedders let runners share threads; the IO thread is the engine's own.
Hosts == {f \in [Runners -> Runners] :
             /\ f["platform"] = "platform" /\ f["io"] = "io"
             /\ \A r \in {"ui", "raster"} : f[r] \in {r, "platform"}}

Separate == [r \in Runners |-> r]

ShellInit ==
    /\ thread \in Hosts
    /\ mergeLaunch \in {FALSE, thread = Separate}
    /\ uiMoved = FALSE
    /\ tasks = [t \in Runners |-> <<>>]
    /\ steps = [t \in Runners |-> <<>>]
    /\ made = {}
    /\ signaled = FALSE
    /\ shellCall = "none"
    /\ shellLife = "none"
    /\ viewed = FALSE
    /\ views = 0
    /\ dangled = FALSE

-----------------------------------------------------------------------------
(* Steps of tasks *)

Run(r, k) == [op |-> "run", runner |-> r, task |-> k]   \* RunNowOrPostTask
Get(x)    == [op |-> "get", parts |-> {x}]              \* future.get
Make(S)   == [op |-> "make", parts |-> S]
Drop(S)   == [op |-> "drop", parts |-> S]
Use(S)    == [op |-> "use", parts |-> S]                \* by raw pointers or references
If(x, s)  == [op |-> "if", part |-> x, then |-> s]      \* by a weak pointer
Wait      == [op |-> "wait"]
Signal    == [op |-> "signal"]
MergeUi   == [op |-> "merge"]
UnmergeUi == [op |-> "unmerge"]
Return    == [op |-> "return"]

-----------------------------------------------------------------------------
(* The bodies of calls and tasks *)

\* Mutant: the engine is created before the IO manager, and its task waits for it.
CreateShellOnPlatformThread_Mutation ==
    <<Make({"shell", "platformView", "locals"}),
      Run("raster", "setupGpu"), Run("raster", "impellerContext"),
      Run("ui", "setupUi"), Run("io", "setupIo"),
      Get("engine"), Get("rasterizer"), Get("ioManager"), Drop({"locals"}), Return>>

\* Its tasks refer to the promises among its locals.
CreateShellOnPlatformThread ==
    <<Make({"shell", "platformView", "locals"}),
      Run("raster", "setupGpu"), Run("raster", "impellerContext"),
      Run("io", "setupIo"), Run("ui", "setupUi"),
      Get("engine"), Get("rasterizer"), Get("ioManager"), Drop({"locals"}), Return>>

SetupGpu == <<Use({"shell", "locals"}), Make({"snapshotDelegate", "rasterizer"})>>

SetupImpellerContext == <<Use({"platformView"}), Make({"impellerContext"})>>

SetupIo == <<Use({"locals"}), Make({"weakIoManager", "unrefQueue", "ioManager"}),
             Get("impellerContext"), Use({"platformView"})>>

SetupUi == <<Use({"shell", "locals"}), Get("weakIoManager"), Get("unrefQueue"),
             Get("snapshotDelegate"), Use({"locals"}), Make({"engine"})>>

\* Engine::Run, in a task of the UI thread.
RunEngine == <<If("engine", IF mergeLaunch THEN <<MergeUi>> ELSE <<>>)>>

ShouldPostRasterTask == thread["raster"] # "platform"

\* The raster_task of OnPlatformViewCreated.
SetupSurface == <<If("rasterizer", <<Make({"surface"})>>), Use({"shell"})>>

OnPlatformViewCreated ==
    <<Run("io", "viewIo"), Wait>>
        \o (IF ShouldPostRasterTask THEN <<>> ELSE SetupSurface) \o <<Return>>

\* Mutant: the latch is signalled before the raster task is posted.
ViewIo_Mutation ==
    <<Use({"platformView"}), Run("ui", "scheduleFrame"), Signal>>
        \o (IF ShouldPostRasterTask THEN <<Run("raster", "setupSurface")>> ELSE <<>>)

\* The io_task of OnPlatformViewCreated.
ViewIo ==
    <<Use({"platformView"}), Run("ui", "scheduleFrame")>>
        \o (IF ShouldPostRasterTask THEN <<Run("raster", "setupSurface")>> ELSE <<>>)
        \o <<Signal>>

OnPlatformViewDestroyed == <<Run("raster", "teardown"), Wait, Return>>

Teardown == <<If("rasterizer", <<Drop({"surface"})>>), Run("io", "drain")>>

Drain == <<Use({"ioManager"}), Signal>>

\* The raster task of OnAnimatorDraw.
Draw == <<If("rasterizer", <<Use({"shell"})>>)>>

\* Mutant: the platform view is destroyed before the IO manager.
ShellDestructor_Mutation ==
    <<Run("platform", "shutdownIsolates"), Wait, Run("ui", "dropEngine"), Wait,
      Run("platform", "dropView"), Wait, Run("raster", "dropRasterizer"), Wait,
      Run("io", "dropIoManager"), Wait, UnmergeUi, Drop({"shell"}), Return>>

\* ~Shell.
ShellDestructor ==
    <<Run("platform", "shutdownIsolates"), Wait, Run("ui", "dropEngine"), Wait,
      Run("raster", "dropRasterizer"), Wait, Run("io", "dropIoManager"), Wait,
      Run("platform", "dropView"), Wait, UnmergeUi, Drop({"shell"}), Return>>

Body(k) ==
    CASE k = "setupGpu" -> SetupGpu
      [] k = "impellerContext" -> SetupImpellerContext
      [] k = "setupIo" -> SetupIo
      [] k = "setupUi" -> SetupUi
      [] k = "runEngine" -> RunEngine
      [] k = "viewIo" -> ViewIo
      [] k = "scheduleFrame" -> <<>>
      [] k = "setupSurface" -> SetupSurface
      [] k = "teardown" -> Teardown
      [] k = "drain" -> Drain
      [] k = "draw" -> Draw
      [] k = "shutdownIsolates" -> <<Use({"engine"}), Signal>>
      [] k = "dropEngine" -> <<Drop({"engine"}), Signal>>
      [] k = "dropRasterizer" -> <<Drop({"surface", "rasterizer"}), Signal>>
      [] k = "dropIoManager" -> <<Drop({"ioManager"}), Use({"platformView"}), Signal>>
      [] k = "dropView" -> <<Drop({"platformView"}), Signal>>

-----------------------------------------------------------------------------
(* Threads *)

\* The queues that thread t serves; a queue that was merged away is served by the
\* platform thread.
Serves(t) == {q \in Runners : IF uiMoved /\ q = "ui" THEN t = "platform" ELSE t = q}

\* RunsTasksOnCurrentThread, on thread t.
RunsNow(t, r) ==
    thread[r] = t \/ (uiMoved /\ {thread[r], t} = {"platform", "ui"})

\* The next task of thread t.  (A loop with two queues takes the older task first.)
TakeShellTask(t) ==
    /\ steps[t] = <<>>
    /\ \E q \in Serves(t) :
          /\ tasks[q] # <<>>
          /\ steps' = [steps EXCEPT ![t] = Body(Head(tasks[q]))]
          /\ tasks' = [tasks EXCEPT ![q] = Tail(@)]
    /\ UNCHANGED <<hostVars, uiMoved, made, signaled, callerVars, dangled>>

\* Thread t goes on to the steps s after its current one.
Continue(t, s) == steps' = [steps EXCEPT ![t] = s \o Tail(@)]

\* Steps that call, or that branch.
CallStep(t, s) ==
    /\ \/ /\ s.op = "run"
          /\ \/ RunsNow(t, s.runner) /\ Continue(t, Body(s.task)) /\ UNCHANGED tasks
             \/ /\ ~ RunsNow(t, s.runner)
                /\ Continue(t, <<>>)
                /\ tasks' = [tasks EXCEPT ![thread[s.runner]] = Append(@, s.task)]
       \/ /\ s.op = "if"
          /\ Continue(t, IF s.part \in made THEN s.then ELSE <<>>)
          /\ UNCHANGED tasks
    /\ UNCHANGED <<hostVars, uiMoved, made, signaled, callerVars, dangled>>

\* Steps that make, use and destroy.
PartStep(t, s) ==
    /\ s.op \in {"make", "drop", "use", "get"}
    /\ s.op = "get" => s.parts \subseteq made
    /\ made' = CASE s.op = "make" -> made \cup s.parts
                 [] s.op = "drop" -> made \ s.parts
                 [] OTHER -> made
    /\ dangled' = (dangled \/ (s.op = "use" /\ ~ s.parts \subseteq made))
    /\ Continue(t, <<>>)
    /\ UNCHANGED <<hostVars, uiMoved, tasks, signaled, callerVars>>

\* The latch.
SignalStep(t, s) ==
    /\ \/ s.op = "wait" /\ signaled /\ signaled' = FALSE
       \/ s.op = "signal" /\ signaled' = TRUE
    /\ Continue(t, <<>>)
    /\ UNCHANGED <<hostVars, uiMoved, tasks, made, callerVars, dangled>>

\* Merge as the engine was launched, and Unmerge in the destructor.
MergeStep(t, s) ==
    /\ s.op \in {"merge", "unmerge"}
    /\ uiMoved' = (s.op = "merge")
    /\ Continue(t, <<>>)
    /\ UNCHANGED <<hostVars, tasks, made, signaled, callerVars, dangled>>

\* The call of the platform thread returns.
ReturnStep(t, s) ==
    /\ s.op = "return"
    /\ shellCall' = "none"
    /\ shellLife' = CASE shellCall = "create" -> "ready"
                      [] shellCall = "destroy" -> "gone"
                      [] OTHER -> shellLife
    /\ Continue(t, <<>>)
    /\ UNCHANGED <<hostVars, uiMoved, tasks, made, signaled, viewed, views, dangled>>

TakeStep(t) ==
    /\ steps[t] # <<>>
    /\ LET s == Head(steps[t])
       IN  \/ CallStep(t, s)
           \/ PartStep(t, s)
           \/ SignalStep(t, s)
           \/ MergeStep(t, s)
           \/ ReturnStep(t, s)

\* The UI thread builds a frame, and the shell posts its Draw task.
DrawFrame ==
    \E t \in Runners :
        /\ thread["ui"] \in Serves(t)
        /\ steps[t] = <<>>
        /\ "engine" \in made
        /\ \A i \in DOMAIN tasks[thread["raster"]] : tasks[thread["raster"]][i] # "draw"
        /\ tasks' = [tasks EXCEPT ![thread["raster"]] = Append(@, "draw")]
        /\ UNCHANGED <<hostVars, uiMoved, steps, made, signaled, callerVars, dangled>>

-----------------------------------------------------------------------------
(* The embedder calls the shell on the platform thread *)

BeginCall(name, body) ==
    /\ shellCall = "none"
    /\ steps["platform"] = <<>>
    /\ shellCall' = name
    /\ steps' = [steps EXCEPT !["platform"] = body]
    /\ UNCHANGED <<hostVars, uiMoved, tasks, made, signaled, dangled>>

Create ==
    /\ shellLife = "none"
    /\ BeginCall("create", CreateShellOnPlatformThread)
    /\ UNCHANGED <<shellLife, viewed, views>>

Launch ==
    /\ shellLife = "ready"
    /\ BeginCall("run", <<Run("ui", "runEngine"), Return>>)
    /\ shellLife' = "running"
    /\ UNCHANGED <<viewed, views>>

CreateView ==
    /\ shellLife \in {"ready", "running"} /\ ~ viewed
    /\ views < MaxViews
    /\ BeginCall("viewCreated", OnPlatformViewCreated)
    /\ viewed' = TRUE
    /\ views' = views + 1
    /\ UNCHANGED shellLife

DestroyView ==
    /\ shellLife \in {"ready", "running"} /\ viewed
    /\ BeginCall("viewDestroyed", OnPlatformViewDestroyed)
    /\ viewed' = FALSE
    /\ UNCHANGED <<shellLife, views>>

Destroy ==
    /\ shellLife \in {"ready", "running"}
    /\ BeginCall("destroy", ShellDestructor)
    /\ UNCHANGED <<shellLife, viewed, views>>

ThreadStep(t) == TakeShellTask(t) \/ TakeStep(t)

ShellNext ==
    \/ \E t \in Runners : ThreadStep(t)
    \/ DrawFrame
    \/ Create \/ Launch \/ CreateView \/ DestroyView \/ Destroy

\* Threads are scheduled.
ShellFairness == \A t \in Runners : WF_shellVars(ThreadStep(t))

ShellSpec == ShellInit /\ [][ShellNext]_shellVars
ShellFairSpec == ShellSpec /\ ShellFairness

-----------------------------------------------------------------------------
(* Properties *)

Pending(k) ==
    \/ \E q \in Runners : \E i \in DOMAIN tasks[q] : tasks[q][i] = k
    \/ \E t \in Runners : steps[t] # <<>> /\ Head(steps[t]) = Run("ui", k)

\* The engine is being launched, and the UI queue will move.
Launching ==
    mergeLaunch /\ ~ uiMoved /\ (Pending("runEngine") \/ steps["ui"] # <<>>)

\* Whichever runners share a thread, the platform thread's call returns: its futures
\* and latches are set by threads that wait for nothing that comes after.  A shell
\* that is destroyed while its UI queue moves is another matter
\* (shell.cc:234-443, 605-684, 958-1112).
ShellCallsReturn ==
    /\ \A c \in {"create", "run", "viewCreated", "viewDestroyed"} :
           (shellCall = c) ~> (shellCall # c)
    /\ (shellCall = "destroy" /\ steps["platform"] = ShellDestructor /\ ~ Launching)
           ~> (shellLife = "gone")

\* "Destroys the shell. This is a synchronous operation", and all parts are shut down
\* "before this method returns" (shell.h:179-182).
DestructorReturns == (shellCall = "destroy") ~> (shellLife = "gone")

\* Tasks hold raw pointers to the shell, its parts and the locals of the call that
\* has posted them; none of them runs once those are gone, on whatever threads
\* (shell.cc:287-411, 988-1024, 1077-1099).
NothingDangles == ~ dangled

\* When the platform is told that its view is destroyed, the rasterizer has let go of
\* the surface and no task that would set one up is left (shell.cc:1032, 1087-1104).
SurfaceGoneOnReturn ==
    ~ viewed /\ shellCall = "none" => "surface" \notin made /\ ~ Pending("setupSurface")
=============================================================================
