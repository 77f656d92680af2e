----------------------------- MODULE ShellProofs -----------------------------
(***************************************************************************)
(* In the shell's calls nothing is used that is gone, and no surface       *)
(* outlives the view: for each of the embedders' mappings of the runners   *)
(* to threads, merged at launch or not, and however often the view comes   *)
(* and goes.                                                               *)
(*                                                                         *)
(* A thread is at a point <<k, n>>, the n-th step of the body of the task  *)
(* k, and the platform thread's call is at its c-th step; what the threads *)
(* have left to do is then known (Control).  The rest annotates the code:  *)
(* what holds while a thread is at a point or a task is queued (Local, by  *)
(* Ok), what holds at each step of the call (Global), where the tasks can  *)
(* be (QueueInv, ThreadInv), and what is still to happen to the IO manager *)
(* and the surface (IoPending, SurfaceInv).  Every step of a thread keeps  *)
(* its own annotation and does not disturb the others'.                    *)
(***************************************************************************)
EXTENDS Shell, TLAPS, SequenceTheorems

-----------------------------------------------------------------------------
(* Where the threads are *)

TaskNames == {"setupGpu", "impellerContext", "setupIo", "setupUi", "runEngine", "viewIo",
              "scheduleFrame", "setupSurface", "teardown", "drain", "draw",
              "shutdownIsolates", "dropEngine", "dropRasterizer", "dropIoManager", "dropView"}

Calls == {"create", "run", "viewCreated", "viewDestroyed", "destroy"}

Parts == {"shell", "platformView", "locals", "snapshotDelegate", "rasterizer",
          "impellerContext", "weakIoManager", "unrefQueue", "ioManager", "engine", "surface"}

idle == <<"idle", 1>>

\* thenSurface is the branch that a call takes.
Names == TaskNames \cup {"idle", "thenSurface"}

Code(k) ==
    CASE k = "idle" -> <<>>
      [] k = "thenSurface" -> <<Make({"surface"})>>
      [] OTHER -> Body(k)

CallBody(name) ==
    CASE name = "create" -> CreateShellOnPlatformThread
      [] name = "run" -> <<Run("ui", "runEngine"), Return>>
      [] name = "viewCreated" -> OnPlatformViewCreated
      [] name = "viewDestroyed" -> OnPlatformViewDestroyed
      [] name = "destroy" -> ShellDestructor

Branching == {"runEngine", "setupSurface", "teardown", "draw"}

BranchStep(k) ==
    CASE k = "runEngine" -> MergeUi
      [] k = "setupSurface" -> Make({"surface"})
      [] k = "teardown" -> Drop({"surface"})
      [] k = "draw" -> Use({"shell"})

From(b, n) == SubSeq(b, n, Len(b))

\* What is left at the point x of a body; at <<k, 0>> the branch comes first.
Rest(x) ==
    IF x[2] = 0 THEN <<BranchStep(x[1])>> \o From(Code(x[1]), 2)
                ELSE From(Code(x[1]), x[2])

StepAt(x) == IF x[2] = 0 THEN BranchStep(x[1]) ELSE Code(x[1])[x[2]]

\* The point after x.
After(x) ==
    LET n == IF x[2] = 0 THEN 2 ELSE x[2] + 1
    IN  IF n <= Len(Code(x[1])) THEN <<x[1], n>> ELSE idle

Points ==
    {idle} \cup {x \in Names \X Nat : \/ x[2] \in 1 .. Len(Code(x[1]))
                                      \/ x[2] = 0 /\ x[1] \in Branching}

CallRest(t, c) ==
    IF t = "platform" /\ shellCall # "none" THEN From(CallBody(shellCall), c) ELSE <<>>

-----------------------------------------------------------------------------
(* Steps and sequences of steps *)

Steps ==
    {Run(r, k) : r \in Runners, k \in TaskNames} \cup {Get(x) : x \in Parts}
    \cup {Make(S) : S \in SUBSET Parts} \cup {Drop(S) : S \in SUBSET Parts}
    \cup {Use(S) : S \in SUBSET Parts}
    \cup {If("engine", IF mergeLaunch THEN <<MergeUi>> ELSE <<>>),
          If("rasterizer", <<Make({"surface"})>>), If("rasterizer", <<Drop({"surface"})>>),
          If("rasterizer", <<Use({"shell"})>>)}
    \cup {Wait, Signal, MergeUi, UnmergeUi, Return}

LEMMA StepIntro ==
    /\ \A r \in Runners, k \in TaskNames : Run(r, k) \in Steps
    /\ \A x \in Parts : Get(x) \in Steps
    /\ \A S \in SUBSET Parts : Make(S) \in Steps /\ Drop(S) \in Steps /\ Use(S) \in Steps
    /\ {If("engine", IF mergeLaunch THEN <<MergeUi>> ELSE <<>>),
          If("rasterizer", <<Make({"surface"})>>), If("rasterizer", <<Drop({"surface"})>>),
          If("rasterizer", <<Use({"shell"})>>)} \subseteq Steps
    /\ {Wait, Signal, MergeUi, UnmergeUi, Return} \subseteq Steps
BY DEF Steps

LEMMA CodeIsSeq ==
    ASSUME NEW k \in Names
    PROVE  Code(k) \in Seq(Steps)
<1>. USE StepIntro DEF Code, Body, Parts, Runners, TaskNames, Names
<1>1. CASE k \in {"idle", "thenSurface", "setupGpu", "impellerContext"}
  BY <1>1 DEF SetupGpu, SetupImpellerContext
<1>2. CASE k \in {"setupIo", "setupUi"}
  BY <1>2 DEF SetupIo, SetupUi
<1>3. CASE k \in {"runEngine", "scheduleFrame", "setupSurface", "teardown", "drain", "draw"}
  BY <1>3 DEF RunEngine, SetupSurface, Teardown, Drain, Draw
<1>4. CASE k = "viewIo"
  BY <1>4 DEF ViewIo
<1>5. CASE k \in {"shutdownIsolates", "dropEngine", "dropRasterizer", "dropIoManager", "dropView"}
  BY <1>5
<1>. QED BY <1>1, <1>2, <1>3, <1>4, <1>5

LEMMA CallIsSeq ==
    ASSUME NEW name \in Calls
    PROVE  CallBody(name) \in Seq(Steps)
<1>. USE StepIntro DEF CallBody, Calls, Parts, Runners, TaskNames
<1>1. CASE name = "create"
  BY <1>1 DEF CreateShellOnPlatformThread
<1>2. CASE name \in {"run", "viewDestroyed"}
  BY <1>2 DEF OnPlatformViewDestroyed
<1>3. CASE name = "viewCreated"
  BY <1>3 DEF OnPlatformViewCreated, SetupSurface
<1>4. CASE name = "destroy"
  BY <1>4 DEF ShellDestructor
<1>. QED BY <1>1, <1>2, <1>3, <1>4

LEMMA FromStep ==
    ASSUME NEW b \in Seq(Steps), NEW n \in 1 .. Len(b)
    PROVE  /\ From(b, n) = <<b[n]>> \o From(b, n + 1)
           /\ From(b, n) \in Seq(Steps) /\ From(b, n + 1) \in Seq(Steps)
           /\ b[n] \in Steps
<1>1. b[n] \in Steps
  BY ElementOfSeq
<1>2. Len(b) \in Nat /\ \A i \in 1 .. Len(b) : b[i] \in Steps
  BY LenProperties, ElementOfSeq
<1>3. From(b, n) \in Seq(Steps) /\ From(b, n + 1) \in Seq(Steps)
  BY <1>2, SubSeqProperties DEF From
<1>4. From(b, n) = <<b[n]>> \o From(b, n + 1)
  BY <1>2, SubSeqRecursiveFirst DEF From
<1>. QED BY <1>1, <1>3, <1>4

LEMMA ConsConcat ==
    ASSUME NEW e \in Steps, NEW s \in Seq(Steps), NEW r \in Seq(Steps)
    PROVE  /\ (<<e>> \o s) \o r # <<>>
           /\ Head((<<e>> \o s) \o r) = e
           /\ Tail((<<e>> \o s) \o r) = s \o r
<1>1. <<e>> \in Seq(Steps)
  OBVIOUS
<1>2. s \o r \in Seq(Steps)
  BY ConcatProperties
<1>3. (<<e>> \o s) \o r = <<e>> \o (s \o r)
  BY <1>1, ConcatAssociative
<1>4. \A u \in Seq(Steps) : <<e>> \o u # <<>> /\ Head(<<e>> \o u) = e /\ Tail(<<e>> \o u) = u
  OBVIOUS
<1>. QED BY <1>2, <1>3, <1>4

LEMMA RestFrom ==
    ASSUME NEW k \in Names, NEW n \in 1 .. Len(Code(k)) + 1
    PROVE  /\ From(Code(k), n) \in Seq(Steps)
           /\ n <= Len(Code(k)) => <<k, n>> \in Points /\ Rest(<<k, n>>) = From(Code(k), n)
           /\ n = Len(Code(k)) + 1 => From(Code(k), n) = <<>>
<1>1. Code(k) \in Seq(Steps) /\ Len(Code(k)) \in Nat
  BY CodeIsSeq, LenProperties
<1>2. CASE n <= Len(Code(k))
  <2>0. n \in 1 .. Len(Code(k))
    BY <1>1, <1>2
  <2>1. From(Code(k), n) \in Seq(Steps)
    BY <1>1, <2>0, FromStep
  <2>2. <<k, n>> \in Points
    <3>1. <<k, n>> \in Names \X Nat /\ <<k, n>>[1] = k /\ <<k, n>>[2] = n
      BY <1>1
    <3>. QED BY <2>0, <3>1 DEF Points
  <2>3. Rest(<<k, n>>) = From(Code(k), n)
    BY <1>1 DEF Rest
  <2>4. n # Len(Code(k)) + 1
    BY <1>1, <1>2
  <2>. QED BY <2>1, <2>2, <2>3, <2>4
<1>3. CASE n = Len(Code(k)) + 1
  <2>1. From(Code(k), n) = <<>>
    <3>1. n \in Int /\ Len(Code(k)) \in Int /\ Len(Code(k)) < n
      BY <1>1, <1>3
    <3>. QED BY <3>1, SubSeqEmpty DEF From
  <2>2. ~ (n <= Len(Code(k)))
    BY <1>1, <1>3
  <2>. QED BY <2>1, <2>2
<1>. QED BY <1>1, <1>2, <1>3

\* The thread at the point x, in its call at c, has these steps left.
LEMMA PointStep ==
    ASSUME NEW x \in Points, x # idle, NEW r \in Seq(Steps)
    PROVE  /\ Rest(x) \o r # <<>>
           /\ Head(Rest(x) \o r) = StepAt(x)
           /\ Tail(Rest(x) \o r) = Rest(After(x)) \o r
           /\ After(x) \in Points /\ Rest(After(x)) \in Seq(Steps)
           /\ StepAt(x) \in Steps
<1>. DEFINE k == x[1]
            n == IF x[2] = 0 THEN 2 ELSE x[2] + 1
            rest == From(Code(k), n)
<1>1. /\ k \in Names /\ x[2] \in Nat
      /\ Code(k) \in Seq(Steps) /\ Len(Code(k)) \in Nat
  <2>1. k \in Names /\ x[2] \in Nat
    BY DEF Points, idle, Names
  <2>. QED BY <2>1, CodeIsSeq, LenProperties
<1>2. /\ StepAt(x) \in Steps /\ Rest(x) = <<StepAt(x)>> \o rest
      /\ n \in 1 .. Len(Code(k)) + 1
  <2>1. CASE x[2] = 0
    <3>1. k \in Branching
      BY <2>1 DEF Points, idle
    <3>2. BranchStep(k) \in Steps
      BY <3>1, StepIntro DEF BranchStep, Branching, Parts
    <3>3. Len(Code(k)) >= 1
      BY <3>1 DEF Branching, Code, Body, RunEngine, SetupSurface, Teardown, Draw
    <3>. QED BY <1>1, <2>1, <3>2, <3>3 DEF Rest, StepAt
  <2>2. CASE x[2] # 0
    <3>1. x[2] \in 1 .. Len(Code(k))
      BY <2>2 DEF Points
    <3>2. Code(k)[x[2]] \in Steps /\ From(Code(k), x[2]) = <<Code(k)[x[2]]>> \o From(Code(k), x[2] + 1)
      BY <1>1, <3>1, FromStep
    <3>. QED BY <1>1, <2>2, <3>1, <3>2 DEF Rest, StepAt
  <2>. QED BY <2>1, <2>2
<1>3. After(x) \in Points /\ Rest(After(x)) = rest /\ rest \in Seq(Steps)
  <2>1. After(x) = IF n <= Len(Code(k)) THEN <<k, n>> ELSE idle
    BY DEF After
  <2>2. Rest(idle) = <<>> /\ idle \in Points
    <3>1. Rest(idle) = SubSeq(<<>>, 1, 0)
      BY DEF Rest, From, idle, Code
    <3>. QED BY <3>1, SubSeqEmpty DEF Points
  <2>. QED BY <1>1, <1>2, <2>1, <2>2, RestFrom
<1>. HIDE DEF rest, n, k
<1>. QED BY <1>2, <1>3, ConsConcat

\* Every thread is at a point of the body of its task, or of one that its call has run
\* at once; the platform thread's call is at its c-th step after that.
Control(p, c) ==
    /\ p \in [Runners -> Points]
    /\ steps = [t \in Runners |-> Rest(p[t]) \o CallRest(t, c)]
    /\ shellCall \in Calls \cup {"none"}
    /\ shellCall # "none" => c \in 1 .. Len(CallBody(shellCall))

LEMMA CodeStays ==
    ASSUME UNCHANGED hostVars
    PROVE  /\ \A k \in Names : Code(k)' = Code(k)
           /\ \A x \in Points : Rest(x)' = Rest(x)
           /\ Points' = Points
           /\ \A name \in Calls : CallBody(name)' = CallBody(name)
<1>1. /\ RunEngine' = RunEngine /\ ViewIo' = ViewIo
      /\ OnPlatformViewCreated' = OnPlatformViewCreated
  BY DEF hostVars, RunEngine, ViewIo, OnPlatformViewCreated, SetupSurface, ShouldPostRasterTask
<1>2. ASSUME NEW k \in Names PROVE Code(k)' = Code(k)
  BY <1>1 DEF Names, TaskNames, Code, Body, SetupGpu, SetupImpellerContext, SetupIo, SetupUi, SetupSurface,
              Teardown, Drain, Draw
<1>3. ASSUME NEW name \in Calls PROVE CallBody(name)' = CallBody(name)
  BY <1>1 DEF Calls, CallBody, CreateShellOnPlatformThread, OnPlatformViewDestroyed, ShellDestructor
<1>4. \A x \in Points : x[1] \in Names
  BY DEF Points, Names, idle
<1>5. \A x \in Points : Rest(x)' = Rest(x)
  BY <1>2, <1>4 DEF Rest, From
<1>6. Points' = Points
  BY <1>2 DEF Points
<1>. QED BY <1>2, <1>3, <1>5, <1>6

LEMMA CallRestIsSeq ==
    ASSUME NEW p, NEW c, Control(p, c), NEW t \in Runners
    PROVE  CallRest(t, c) \in Seq(Steps)
<1>1. CASE t = "platform" /\ shellCall # "none"
  <2>1. CallBody(shellCall) \in Seq(Steps) /\ c \in 1 .. Len(CallBody(shellCall))
    BY <1>1, CallIsSeq DEF Control
  <2>. QED BY <1>1, <2>1, FromStep DEF CallRest
<1>2. CASE ~ (t = "platform" /\ shellCall # "none")
  BY <1>2 DEF CallRest
<1>. QED BY <1>1, <1>2

LEMMA RestIsSeq ==
    ASSUME NEW x \in Points
    PROVE  Rest(x) \in Seq(Steps) /\ (Rest(x) = <<>> <=> x = idle)
<1>1. CASE x = idle
  <2>1. Rest(x) = SubSeq(<<>>, 1, 0)
    BY <1>1 DEF Rest, From, idle, Code
  <2>. QED BY <1>1, <2>1, SubSeqEmpty
<1>2. CASE x # idle
  <2>0. <<>> \in Seq(Steps)
    OBVIOUS
  <2>1. Rest(x) \o <<>> # <<>>
    BY <1>2, <2>0, PointStep
  <2>2. Rest(x) \in Seq(Steps)
    <3>1. CASE x[2] = 0
      <4>1. x[1] \in Branching /\ x[1] \in Names
        BY <1>2, <3>1 DEF Points, idle
      <4>2. BranchStep(x[1]) \in Steps /\ 2 \in 1 .. Len(Code(x[1])) + 1
        BY <4>1, StepIntro DEF BranchStep, Branching, Parts, Code, Body, RunEngine, SetupSurface,
                               Teardown, Draw
      <4>3. From(Code(x[1]), 2) \in Seq(Steps)
        BY <4>1, <4>2, RestFrom
      <4>. QED BY <3>1, <4>2, <4>3, ConcatProperties DEF Rest
    <3>2. CASE x[2] # 0
      <4>1. x[1] \in Names /\ x[2] \in 1 .. Len(Code(x[1]))
        BY <1>2, <3>2 DEF Points, Names, idle
      <4>2. x[2] \in 1 .. Len(Code(x[1])) + 1
        BY <4>1, CodeIsSeq, LenProperties
      <4>. QED BY <3>2, <4>1, <4>2, RestFrom DEF Rest
    <3>. QED BY <3>1, <3>2
  <2>. QED BY <1>2, <2>1, <2>2, ConcatEmptySeq
<1>. QED BY <1>1, <1>2

\* What a thread does next: a step of its task, or of the call.
LEMMA NextStep ==
    ASSUME NEW p, NEW c, Control(p, c), NEW t \in Runners
    PROVE  /\ steps[t] = <<>> <=> p[t] = idle /\ ~ (t = "platform" /\ shellCall # "none")
           /\ p[t] # idle =>
                 /\ Head(steps[t]) = StepAt(p[t])
                 /\ Tail(steps[t]) = Rest(After(p[t])) \o CallRest(t, c)
                 /\ After(p[t]) \in Points
           /\ p[t] = idle /\ t = "platform" /\ shellCall # "none" =>
                 /\ Head(steps[t]) = CallBody(shellCall)[c]
                 /\ Tail(steps[t]) = From(CallBody(shellCall), c + 1)
                 /\ CallBody(shellCall) \in Seq(Steps)
<1>1. p[t] \in Points /\ steps[t] = Rest(p[t]) \o CallRest(t, c)
  BY DEF Control
<1>2. CallRest(t, c) \in Seq(Steps)
  BY CallRestIsSeq
<1>3. p[t] # idle => /\ steps[t] # <<>> /\ Head(steps[t]) = StepAt(p[t])
                     /\ Tail(steps[t]) = Rest(After(p[t])) \o CallRest(t, c)
                     /\ After(p[t]) \in Points
  BY <1>1, <1>2, PointStep
<1>4. p[t] = idle => steps[t] = CallRest(t, c)
  BY <1>1, <1>2, RestIsSeq, ConcatEmptySeq
<1>5. CASE t = "platform" /\ shellCall # "none"
  <2>. DEFINE b == CallBody(shellCall)
  <2>1. b \in Seq(Steps) /\ c \in 1 .. Len(b)
    BY <1>5, CallIsSeq DEF Control
  <2>2. /\ From(b, c) = <<b[c]>> \o From(b, c + 1) /\ b[c] \in Steps
        /\ From(b, c + 1) \in Seq(Steps)
    BY <2>1, FromStep
  <2>3. CallRest(t, c) = From(b, c)
    BY <1>5 DEF CallRest
  <2>. HIDE DEF b
  <2>4. CallRest(t, c) # <<>> /\ Head(CallRest(t, c)) = b[c] /\ Tail(CallRest(t, c)) = From(b, c + 1)
    BY <2>2, <2>3
  <2>. QED BY <1>3, <1>4, <1>5, <2>1, <2>4 DEF b
<1>6. CASE ~ (t = "platform" /\ shellCall # "none")
  <2>1. CallRest(t, c) = <<>>
    BY <1>6 DEF CallRest
  <2>. QED BY <1>3, <1>4, <1>6, <2>1
<1>. QED BY <1>5, <1>6

\* Thread t goes to the point y.
LEMMA Moves ==
    ASSUME NEW p, NEW c, Control(p, c), NEW t \in Runners, NEW y \in Points,
           steps' = [steps EXCEPT ![t] = Rest(y) \o CallRest(t, c)],
           UNCHANGED <<hostVars, shellCall>>
    PROVE  Control([p EXCEPT ![t] = y], c)'
<1>. DEFINE q == [p EXCEPT ![t] = y]
<1>1. /\ q \in [Runners -> Points]
      /\ \A s \in Runners : q[s] = IF s = t THEN y ELSE p[s]
  BY DEF Control
<1>2. /\ \A x \in Points : Rest(x)' = Rest(x)
      /\ Points' = Points
      /\ \A name \in Calls : CallBody(name)' = CallBody(name)
  BY CodeStays
<1>3. \A s \in Runners : CallRest(s, c)' = CallRest(s, c)
  BY <1>2 DEF CallRest, From, Control
<1>4. steps' = [s \in Runners |-> Rest(q[s]) \o CallRest(s, c)]
  BY <1>1 DEF Control
<1>5. steps' = [s \in Runners |-> Rest(q[s])' \o CallRest(s, c)']
  BY <1>1, <1>2, <1>3, <1>4
<1>6. (shellCall # "none" => c \in 1 .. Len(CallBody(shellCall)))'
  BY <1>2 DEF Control
<1>. HIDE DEF q
<1>7. Control(q, c)'
  BY <1>1, <1>2, <1>5, <1>6 DEF Control
<1>. QED BY <1>7 DEF q

\* It goes on in its task.
LEMMA Advances ==
    ASSUME NEW p, NEW c, Control(p, c), NEW t \in Runners, p[t] # idle,
           NEW y, y = After(p[t]),
           Continue(t, <<>>), UNCHANGED <<hostVars, shellCall>>
    PROVE  Control([p EXCEPT ![t] = y], c)'
<1>1. After(p[t]) \in Points /\ Tail(steps[t]) = Rest(After(p[t])) \o CallRest(t, c)
  BY NextStep
<1>2. Tail(steps[t]) \in Seq(Steps)
  <2>1. Rest(After(p[t])) \in Seq(Steps)
    BY <1>1, RestIsSeq
  <2>2. CallRest(t, c) \in Seq(Steps)
    BY CallRestIsSeq
  <2>. QED BY <1>1, <2>1, <2>2, ConcatProperties
<1>3. <<>> \o Tail(steps[t]) = Tail(steps[t])
  BY <1>2, ConcatEmptySeq
<1>4. y \in Points /\ steps' = [steps EXCEPT ![t] = Rest(y) \o CallRest(t, c)]
  BY <1>1, <1>3 DEF Continue
<1>. QED BY <1>4, Moves

\* It takes the branch of its task.
LEMMA Branches ==
    ASSUME NEW p, NEW c, Control(p, c), NEW t \in Runners, NEW k \in Branching,
           p[t] = <<k, 1>>,
           Continue(t, <<BranchStep(k)>>), UNCHANGED <<hostVars, shellCall>>
    PROVE  Control([p EXCEPT ![t] = <<k, 0>>], c)' /\ <<k, 0>> \in Points
<1>1. p[t] # idle /\ k \in Names /\ BranchStep(k) \in Steps
  BY StepIntro DEF BranchStep, Branching, Parts, Names, TaskNames, idle
<1>2. 2 \in 1 .. Len(Code(k)) + 1
  BY DEF Branching, Code, Body, RunEngine, SetupSurface, Teardown, Draw
<1>3. From(Code(k), 2) \in Seq(Steps) /\ Rest(After(p[t])) = From(Code(k), 2)
  <2>1. Len(Code(k)) \in Nat
    BY <1>1, CodeIsSeq, LenProperties
  <2>2. After(p[t]) = IF 2 <= Len(Code(k)) THEN <<k, 2>> ELSE idle
    BY DEF After
  <2>3. Rest(idle) = <<>>
    BY RestIsSeq DEF Points
  <2>. QED BY <1>1, <1>2, <2>1, <2>2, <2>3, RestFrom
<1>4. CallRest(t, c) \in Seq(Steps)
  BY CallRestIsSeq
<1>5. Tail(steps[t]) = From(Code(k), 2) \o CallRest(t, c)
  BY <1>1, <1>3, NextStep
<1>6. <<BranchStep(k)>> \o Tail(steps[t]) = (<<BranchStep(k)>> \o From(Code(k), 2)) \o CallRest(t, c)
  <2>1. <<BranchStep(k)>> \in Seq(Steps)
    BY <1>1
  <2>. DEFINE e == <<BranchStep(k)>>
              u == From(Code(k), 2)
              v == CallRest(t, c)
  <2>2. e \in Seq(Steps) /\ u \in Seq(Steps) /\ v \in Seq(Steps)
    BY <1>3, <1>4, <2>1
  <2>. HIDE DEF e, u, v
  <2>3. (e \o u) \o v = e \o (u \o v)
    BY <2>2, ConcatAssociative
  <2>. QED BY <1>5, <2>3 DEF e, u, v
<1>7. <<k, 0>> \in Points /\ Rest(<<k, 0>>) = <<BranchStep(k)>> \o From(Code(k), 2)
  <2>1. <<k, 0>> \in Names \X Nat /\ <<k, 0>>[1] = k /\ <<k, 0>>[2] = 0
    BY <1>1
  <2>. QED BY <2>1 DEF Rest, Points
<1>8. steps' = [steps EXCEPT ![t] = Rest(<<k, 0>>) \o CallRest(t, c)]
  BY <1>6, <1>7 DEF Continue
<1>. QED BY <1>7, <1>8, Moves

\* The platform thread is at the step c of its call.
InCall(p, c, t) == t = "platform" /\ p[t] = idle /\ shellCall # "none"

\* The point at which a body starts.
Start(k) == IF Code(k) = <<>> THEN idle ELSE <<k, 1>>

LEMMA StartIsPoint ==
    ASSUME NEW k \in Names
    PROVE  Start(k) \in Points /\ Rest(Start(k)) = Code(k)
<1>1. Code(k) \in Seq(Steps) /\ Len(Code(k)) \in Nat
  BY CodeIsSeq, LenProperties
<1>2. CASE Code(k) = <<>>
  <2>1. Start(k) = idle /\ idle \in Points
    BY <1>2 DEF Start, Points
  <2>. QED BY <1>2, <2>1, RestIsSeq
<1>3. CASE Code(k) # <<>>
  <2>1. 1 \in 1 .. Len(Code(k)) + 1 /\ 1 <= Len(Code(k))
    BY <1>1, <1>3, EmptySeq
  <2>2. <<k, 1>> \in Points /\ Rest(<<k, 1>>) = From(Code(k), 1)
    BY <2>1, RestFrom
  <2>3. From(Code(k), 1) = Code(k)
    BY <1>1, SubSeqFull DEF From
  <2>. QED BY <1>3, <2>2, <2>3 DEF Start
<1>. QED BY <1>2, <1>3

\* The call goes on, after what it has run at once.
LEMMA CallAdvances ==
    ASSUME NEW p, NEW c, Control(p, c), InCall(p, c, "platform"),
           NEW y \in Points, Continue("platform", Rest(y)),
           c + 1 \in 1 .. Len(CallBody(shellCall)),
           UNCHANGED <<hostVars, shellCall>>
    PROVE  Control([p EXCEPT !["platform"] = y], c + 1)'
<1>. DEFINE q == [p EXCEPT !["platform"] = y]
<1>1. /\ "platform" \in Runners
      /\ q \in [Runners -> Points]
      /\ \A s \in Runners : q[s] = IF s = "platform" THEN y ELSE p[s]
  BY DEF Control, Runners
<1>2. /\ \A x \in Points : Rest(x)' = Rest(x)
      /\ Points' = Points
      /\ \A name \in Calls : CallBody(name)' = CallBody(name)
  BY CodeStays
<1>3. Tail(steps["platform"]) = From(CallBody(shellCall), c + 1)
  BY <1>1, NextStep DEF InCall
<1>4. CallRest("platform", c + 1)' = From(CallBody(shellCall), c + 1)
  BY <1>2 DEF CallRest, From, Control, InCall
<1>5. \A s \in Runners \ {"platform"} : CallRest(s, c + 1)' = <<>> /\ CallRest(s, c) = <<>>
  BY DEF CallRest
<1>6. steps' = [s \in Runners |-> Rest(q[s]) \o (CallRest(s, c + 1)')]
  <2>1. steps' = [steps EXCEPT !["platform"] = Rest(y) \o CallRest("platform", c + 1)']
    BY <1>3, <1>4 DEF Continue
  <2>2. steps = [s \in Runners |-> Rest(p[s]) \o CallRest(s, c)]
    BY DEF Control
  <2>. HIDE DEF q
  <2>3. \A s \in Runners : s # "platform" => q[s] = p[s] /\ CallRest(s, c + 1)' = CallRest(s, c)
    BY <1>1, <1>5
  <2>4. q["platform"] = y
    BY <1>1
  <2>. QED BY <1>1, <2>1, <2>2, <2>3, <2>4
<1>7. steps' = [s \in Runners |-> Rest(q[s])' \o (CallRest(s, c + 1)')]
  BY <1>1, <1>2, <1>6
<1>8. (shellCall # "none" => c + 1 \in 1 .. Len(CallBody(shellCall)))'
  BY <1>2 DEF Control, InCall
<1>. HIDE DEF q
<1>9. Control(q, c + 1)'
  BY <1>1, <1>2, <1>7, <1>8 DEF Control
<1>. QED BY <1>9 DEF q

\* The call returns.
LEMMA CallEnds ==
    ASSUME NEW p, NEW c, Control(p, c), InCall(p, c, "platform"),
           c = Len(CallBody(shellCall)), Continue("platform", <<>>),
           shellCall' = "none", UNCHANGED hostVars
    PROVE  Control(p, c)'
<1>1. "platform" \in Runners /\ p["platform"] = idle
  BY DEF InCall, Runners
<1>2. /\ \A x \in Points : Rest(x)' = Rest(x)
      /\ Points' = Points
  BY CodeStays
<1>3. Tail(steps["platform"]) = From(CallBody(shellCall), c + 1)
  BY <1>1, NextStep DEF InCall
<1>4. From(CallBody(shellCall), c + 1) = <<>>
  <2>1. Len(CallBody(shellCall)) \in Nat
    BY CallIsSeq, LenProperties DEF Control, InCall
  <2>2. c \in Int /\ c + 1 \in Int /\ Len(CallBody(shellCall)) < c + 1
    BY <2>1
  <2>. QED BY <2>1, <2>2, SubSeqEmpty DEF From
<1>5. \A s \in Runners : CallRest(s, c)' = <<>>
  BY DEF CallRest
<1>6. \A s \in Runners \ {"platform"} : CallRest(s, c) = <<>>
  BY DEF CallRest
<1>7. Rest(idle) = <<>>
  BY RestIsSeq DEF Points
<1>8. steps' = [s \in Runners |-> Rest(p[s]) \o (CallRest(s, c)')]
  <2>1. <<>> \o <<>> = <<>>
    OBVIOUS
  <2>2. steps' = [steps EXCEPT !["platform"] = <<>>]
    BY <1>3, <1>4, <2>1 DEF Continue
  <2>. QED BY <1>1, <1>5, <1>6, <1>7, <2>1, <2>2 DEF Control
<1>9. steps' = [s \in Runners |-> Rest(p[s])' \o (CallRest(s, c)')]
  BY <1>2, <1>8 DEF Control
<1>. QED BY <1>2, <1>9 DEF Control

\* A call begins.
LEMMA CallBegins ==
    ASSUME NEW p, NEW c, Control(p, c), NEW name \in Calls, BeginCall(name, CallBody(name)),
           Len(CallBody(name)) >= 1
    PROVE  Control(p, 1)' /\ p["platform"] = idle
<1>1. "platform" \in Runners
  BY DEF Runners
<1>2. UNCHANGED hostVars /\ shellCall = "none" /\ steps["platform"] = <<>> /\ shellCall' = name
  BY DEF BeginCall
<1>3. p["platform"] = idle
  BY <1>1, <1>2, NextStep
<1>4. /\ \A x \in Points : Rest(x)' = Rest(x)
      /\ Points' = Points
      /\ CallBody(name)' = CallBody(name)
  BY <1>2, CodeStays
<1>5. name # "none" /\ CallBody(name) \in Seq(Steps) /\ Len(CallBody(name)) \in Nat
  BY CallIsSeq, LenProperties DEF Calls
<1>6. CallRest("platform", 1)' = CallBody(name)
  BY <1>2, <1>4, <1>5, SubSeqFull DEF CallRest, From
<1>7. \A s \in Runners \ {"platform"} : CallRest(s, 1)' = <<>> /\ CallRest(s, c) = <<>>
  BY DEF CallRest
<1>8. Rest(idle) = <<>>
  BY RestIsSeq DEF Points
<1>9. steps' = [s \in Runners |-> Rest(p[s]) \o (CallRest(s, 1)')]
  <2>1. <<>> \o CallBody(name) = CallBody(name)
    BY <1>5, ConcatEmptySeq
  <2>2. steps' = [steps EXCEPT !["platform"] = CallBody(name)]
    BY DEF BeginCall
  <2>3. steps = [s \in Runners |-> Rest(p[s]) \o CallRest(s, c)]
    BY DEF Control
  <2>4. \A s \in Runners : s # "platform" => CallRest(s, 1)' = CallRest(s, c)
    BY <1>7
  <2>. QED BY <1>1, <1>3, <1>6, <1>8, <2>1, <2>2, <2>3, <2>4
<1>10. steps' = [s \in Runners |-> Rest(p[s])' \o (CallRest(s, 1)')]
  BY <1>4, <1>9 DEF Control
<1>11. (shellCall # "none" => 1 \in 1 .. Len(CallBody(shellCall)))'
  BY <1>2, <1>4, <1>5
<1>. QED BY <1>2, <1>3, <1>4, <1>10, <1>11 DEF Control

\* A thread takes a task.
LEMMA Takes ==
    ASSUME NEW p, NEW c, Control(p, c), NEW t \in Runners, NEW k \in TaskNames, steps[t] = <<>>,
           steps' = [steps EXCEPT ![t] = Body(k)], UNCHANGED <<hostVars, shellCall>>,
           NEW y, y = Start(k)
    PROVE  Control([p EXCEPT ![t] = y], c)'
<1>1. k \in Names /\ Body(k) = Code(k)
  BY DEF Names, Code, TaskNames
<1>2. Start(k) \in Points /\ Rest(Start(k)) = Body(k)
  BY <1>1, StartIsPoint
<1>3. CallRest(t, c) = <<>>
  BY NextStep DEF CallRest
<1>4. Body(k) \o <<>> = Body(k)
  BY <1>1, CodeIsSeq, ConcatEmptySeq
<1>5. y \in Points /\ steps' = [steps EXCEPT ![t] = Rest(y) \o CallRest(t, c)]
  BY <1>2, <1>3, <1>4
<1>. QED BY <1>5, Moves

-----------------------------------------------------------------------------
(* The steps of the bodies, by kind *)

\* The point x is <<k, n>>; s is the step there, and y the point after it.
Row(x, k, n, s, y) == x = <<k, n>> /\ StepAt(x) = s /\ After(x) = y

UseRow(x) ==
    \/ Row(x, "setupGpu", 1, Use({"shell", "locals"}), <<"setupGpu", 2>>)
    \/ Row(x, "impellerContext", 1, Use({"platformView"}), <<"impellerContext", 2>>)
    \/ Row(x, "setupIo", 1, Use({"locals"}), <<"setupIo", 2>>)
    \/ Row(x, "setupIo", 4, Use({"platformView"}), idle)
    \/ Row(x, "setupUi", 1, Use({"shell", "locals"}), <<"setupUi", 2>>)
    \/ Row(x, "setupUi", 5, Use({"locals"}), <<"setupUi", 6>>)
    \/ Row(x, "viewIo", 1, Use({"platformView"}), <<"viewIo", 2>>)
    \/ Row(x, "setupSurface", 2, Use({"shell"}), idle)
    \/ Row(x, "drain", 1, Use({"ioManager"}), <<"drain", 2>>)
    \/ Row(x, "draw", 0, Use({"shell"}), idle)
    \/ Row(x, "shutdownIsolates", 1, Use({"engine"}), <<"shutdownIsolates", 2>>)
    \/ Row(x, "dropIoManager", 2, Use({"platformView"}), <<"dropIoManager", 3>>)

GetRow(x) ==
    \/ Row(x, "setupIo", 3, Get("impellerContext"), <<"setupIo", 4>>)
    \/ Row(x, "setupUi", 2, Get("weakIoManager"), <<"setupUi", 3>>)
    \/ Row(x, "setupUi", 3, Get("unrefQueue"), <<"setupUi", 4>>)
    \/ Row(x, "setupUi", 4, Get("snapshotDelegate"), <<"setupUi", 5>>)

MakeRow(x) ==
    \/ Row(x, "setupGpu", 2, Make({"snapshotDelegate", "rasterizer"}), idle)
    \/ Row(x, "impellerContext", 2, Make({"impellerContext"}), idle)
    \/ Row(x, "setupIo", 2, Make({"weakIoManager", "unrefQueue", "ioManager"}), <<"setupIo", 3>>)
    \/ Row(x, "setupUi", 6, Make({"engine"}), idle)
    \/ Row(x, "setupSurface", 0, Make({"surface"}), <<"setupSurface", 2>>)
    \/ Row(x, "thenSurface", 1, Make({"surface"}), idle)

DropRow(x) ==
    \/ Row(x, "teardown", 0, Drop({"surface"}), <<"teardown", 2>>)
    \/ Row(x, "dropEngine", 1, Drop({"engine"}), <<"dropEngine", 2>>)
    \/ Row(x, "dropRasterizer", 1, Drop({"surface", "rasterizer"}), <<"dropRasterizer", 2>>)
    \/ Row(x, "dropIoManager", 1, Drop({"ioManager"}), <<"dropIoManager", 2>>)
    \/ Row(x, "dropView", 1, Drop({"platformView"}), <<"dropView", 2>>)

IfRow(x) ==
    \/ Row(x, "runEngine", 1, If("engine", IF mergeLaunch THEN <<MergeUi>> ELSE <<>>), idle)
    \/ Row(x, "setupSurface", 1, If("rasterizer", <<Make({"surface"})>>), <<"setupSurface", 2>>)
    \/ Row(x, "teardown", 1, If("rasterizer", <<Drop({"surface"})>>), <<"teardown", 2>>)
    \/ Row(x, "draw", 1, If("rasterizer", <<Use({"shell"})>>), idle)

RunRow(x) ==
    \/ Row(x, "viewIo", 2, Run("ui", "scheduleFrame"), <<"viewIo", 3>>)
    \/ Row(x, "viewIo", 3, Run("raster", "setupSurface"), <<"viewIo", 4>>) /\ ShouldPostRasterTask
    \/ Row(x, "teardown", 2, Run("io", "drain"), idle)

SignalRow(x) ==
    \/ Row(x, "viewIo", 4, Signal, idle)
    \/ Row(x, "viewIo", 3, Signal, idle)
    \/ Row(x, "drain", 2, Signal, idle)
    \/ Row(x, "shutdownIsolates", 2, Signal, idle)
    \/ Row(x, "dropEngine", 2, Signal, idle)
    \/ Row(x, "dropRasterizer", 2, Signal, idle)
    \/ Row(x, "dropIoManager", 3, Signal, idle)
    \/ Row(x, "dropView", 2, Signal, idle)

MergeRow(x) ==
    \/ Row(x, "runEngine", 0, MergeUi, idle)

LEMMA Rows ==
    ASSUME NEW x \in Points, x # idle
    PROVE  \/ UseRow(x) \/ GetRow(x) \/ MakeRow(x) \/ DropRow(x)
           \/ IfRow(x) \/ RunRow(x) \/ SignalRow(x) \/ MergeRow(x)
<1>1. PICK k \in Names, n \in Nat :
          x = <<k, n>> /\ (n \in 1 .. Len(Code(k)) \/ (n = 0 /\ k \in Branching))
  BY DEF Points, idle
<1>2. Len(Code(k)) \in Nat
  BY CodeIsSeq, LenProperties
<1>3. /\ n # 0 => StepAt(x) = Code(k)[n]
      /\ n = 0 => StepAt(x) = BranchStep(k)
      /\ n # 0 /\ n < Len(Code(k)) => After(x) = <<k, n + 1>>
      /\ n # 0 /\ n = Len(Code(k)) => After(x) = idle
      /\ n = 0 /\ 2 <= Len(Code(k)) => After(x) = <<k, 2>>
      /\ n = 0 /\ Len(Code(k)) = 1 => After(x) = idle
  BY <1>1, <1>2 DEF StepAt, After
<1>4. CASE k = "setupGpu"
  <2>1. /\ Len(Code(k)) = 2
        /\ Code(k)[1] = Use({"shell", "locals"})
        /\ Code(k)[2] = Make({"snapshotDelegate", "rasterizer"})
    BY <1>4 DEF Code, Body, SetupGpu
  <2>2. n \in 1 .. 2
    BY <1>1, <1>4, <2>1 DEF Branching
  <2>3. n = 1 \/ n = 2
    BY <2>2
  <2>4. n = 1 => Row(x, "setupGpu", 1, Use({"shell", "locals"}), <<"setupGpu", 2>>)
    BY <1>1, <1>3, <1>4, <2>1 DEF Row
  <2>5. n = 2 => Row(x, "setupGpu", 2, Make({"snapshotDelegate", "rasterizer"}), idle)
    BY <1>1, <1>3, <1>4, <2>1 DEF Row
  <2>. QED BY <2>4, <2>5, <2>3 DEF UseRow, MakeRow
<1>5. CASE k = "impellerContext"
  <2>1. /\ Len(Code(k)) = 2
        /\ Code(k)[1] = Use({"platformView"})
        /\ Code(k)[2] = Make({"impellerContext"})
    BY <1>5 DEF Code, Body, SetupImpellerContext
  <2>2. n \in 1 .. 2
    BY <1>1, <1>5, <2>1 DEF Branching
  <2>3. n = 1 \/ n = 2
    BY <2>2
  <2>4. n = 1 => Row(x, "impellerContext", 1, Use({"platformView"}), <<"impellerContext", 2>>)
    BY <1>1, <1>3, <1>5, <2>1 DEF Row
  <2>5. n = 2 => Row(x, "impellerContext", 2, Make({"impellerContext"}), idle)
    BY <1>1, <1>3, <1>5, <2>1 DEF Row
  <2>. QED BY <2>4, <2>5, <2>3 DEF UseRow, MakeRow
<1>6. CASE k = "setupIo"
  <2>1. /\ Len(Code(k)) = 4
        /\ Code(k)[1] = Use({"locals"})
        /\ Code(k)[2] = Make({"weakIoManager", "unrefQueue", "ioManager"})
        /\ Code(k)[3] = Get("impellerContext")
        /\ Code(k)[4] = Use({"platformView"})
    BY <1>6 DEF Code, Body, SetupIo
  <2>2. n \in 1 .. 4
    BY <1>1, <1>6, <2>1 DEF Branching
  <2>3. n = 1 \/ n = 2 \/ n = 3 \/ n = 4
    BY <2>2
  <2>4. n = 1 => Row(x, "setupIo", 1, Use({"locals"}), <<"setupIo", 2>>)
    BY <1>1, <1>3, <1>6, <2>1 DEF Row
  <2>5. n = 2 => Row(x, "setupIo", 2,
                      Make({"weakIoManager", "unrefQueue", "ioManager"}), <<"setupIo", 3>>)
    BY <1>1, <1>3, <1>6, <2>1 DEF Row
  <2>6. n = 3 => Row(x, "setupIo", 3, Get("impellerContext"), <<"setupIo", 4>>)
    BY <1>1, <1>3, <1>6, <2>1 DEF Row
  <2>7. n = 4 => Row(x, "setupIo", 4, Use({"platformView"}), idle)
    BY <1>1, <1>3, <1>6, <2>1 DEF Row
  <2>. QED BY <2>4, <2>5, <2>6, <2>7, <2>3 DEF UseRow, MakeRow, GetRow
<1>7. CASE k = "setupUi"
  <2>1. /\ Len(Code(k)) = 6
        /\ Code(k)[1] = Use({"shell", "locals"})
        /\ Code(k)[2] = Get("weakIoManager")
        /\ Code(k)[3] = Get("unrefQueue")
        /\ Code(k)[4] = Get("snapshotDelegate")
        /\ Code(k)[5] = Use({"locals"})
        /\ Code(k)[6] = Make({"engine"})
    BY <1>7 DEF Code, Body, SetupUi
  <2>2. n \in 1 .. 6
    BY <1>1, <1>7, <2>1 DEF Branching
  <2>3. n = 1 \/ n = 2 \/ n = 3 \/ n = 4 \/ n = 5 \/ n = 6
    BY <2>2
  <2>4. n = 1 => Row(x, "setupUi", 1, Use({"shell", "locals"}), <<"setupUi", 2>>)
    BY <1>1, <1>3, <1>7, <2>1 DEF Row
  <2>5. n = 2 => Row(x, "setupUi", 2, Get("weakIoManager"), <<"setupUi", 3>>)
    BY <1>1, <1>3, <1>7, <2>1 DEF Row
  <2>6. n = 3 => Row(x, "setupUi", 3, Get("unrefQueue"), <<"setupUi", 4>>)
    BY <1>1, <1>3, <1>7, <2>1 DEF Row
  <2>7. n = 4 => Row(x, "setupUi", 4, Get("snapshotDelegate"), <<"setupUi", 5>>)
    BY <1>1, <1>3, <1>7, <2>1 DEF Row
  <2>8. n = 5 => Row(x, "setupUi", 5, Use({"locals"}), <<"setupUi", 6>>)
    BY <1>1, <1>3, <1>7, <2>1 DEF Row
  <2>9. n = 6 => Row(x, "setupUi", 6, Make({"engine"}), idle)
    BY <1>1, <1>3, <1>7, <2>1 DEF Row
  <2>. QED BY <2>4, <2>5, <2>6, <2>7, <2>8, <2>9, <2>3 DEF UseRow, GetRow, MakeRow
<1>8. CASE k = "runEngine"
  <2>1. /\ Len(Code(k)) = 1
        /\ Code(k)[1] = If("engine", IF mergeLaunch THEN <<MergeUi>> ELSE <<>>)
    BY <1>8 DEF Code, Body, RunEngine
  <2>2. n \in 1 .. 1 \/ n = 0
    BY <1>1, <1>8, <2>1
  <2>3. n = 0 \/ n = 1
    BY <2>2
  <2>4. n = 0 => Row(x, "runEngine", 0, MergeUi, idle)
    BY <1>1, <1>3, <1>8, <2>1 DEF Row, BranchStep
  <2>5. n = 1 => Row(x, "runEngine", 1,
                      If("engine", IF mergeLaunch THEN <<MergeUi>> ELSE <<>>), idle)
    BY <1>1, <1>3, <1>8, <2>1 DEF Row
  <2>. QED BY <2>4, <2>5, <2>3 DEF MergeRow, IfRow
<1>9. CASE k = "viewIo"
  <2>1. CASE ShouldPostRasterTask
    <3>1. /\ Len(Code(k)) = 4
          /\ Code(k)[1] = Use({"platformView"})
          /\ Code(k)[2] = Run("ui", "scheduleFrame")
          /\ Code(k)[3] = Run("raster", "setupSurface")
          /\ Code(k)[4] = Signal
      BY <1>9, <2>1 DEF Code, Body, ViewIo
    <3>2. n \in 1 .. 4
      BY <1>1, <1>9, <2>1, <3>1 DEF Branching
    <3>3. n = 1 \/ n = 2 \/ n = 3 \/ n = 4
      BY <3>2
    <3>4. n = 1 => Row(x, "viewIo", 1, Use({"platformView"}), <<"viewIo", 2>>)
      BY <1>1, <1>3, <1>9, <2>1, <3>1 DEF Row
    <3>5. n = 2 => Row(x, "viewIo", 2, Run("ui", "scheduleFrame"), <<"viewIo", 3>>)
      BY <1>1, <1>3, <1>9, <2>1, <3>1 DEF Row
    <3>6. n = 3 => Row(x, "viewIo", 3, Run("raster", "setupSurface"), <<"viewIo", 4>>)
      BY <1>1, <1>3, <1>9, <2>1, <3>1 DEF Row
    <3>7. n = 4 => Row(x, "viewIo", 4, Signal, idle)
      BY <1>1, <1>3, <1>9, <2>1, <3>1 DEF Row
    <3>. QED BY <3>4, <3>5, <3>6, <3>7, <3>3, <1>9, <2>1 DEF UseRow, RunRow, SignalRow
  <2>2. CASE ~ ShouldPostRasterTask
    <3>1. /\ Len(Code(k)) = 3
          /\ Code(k)[1] = Use({"platformView"})
          /\ Code(k)[2] = Run("ui", "scheduleFrame")
          /\ Code(k)[3] = Signal
      BY <1>9, <2>2 DEF Code, Body, ViewIo
    <3>2. n \in 1 .. 3
      BY <1>1, <1>9, <2>2, <3>1 DEF Branching
    <3>3. n = 1 \/ n = 2 \/ n = 3
      BY <3>2
    <3>4. n = 1 => Row(x, "viewIo", 1, Use({"platformView"}), <<"viewIo", 2>>)
      BY <1>1, <1>3, <1>9, <2>2, <3>1 DEF Row
    <3>5. n = 2 => Row(x, "viewIo", 2, Run("ui", "scheduleFrame"), <<"viewIo", 3>>)
      BY <1>1, <1>3, <1>9, <2>2, <3>1 DEF Row
    <3>6. n = 3 => Row(x, "viewIo", 3, Signal, idle)
      BY <1>1, <1>3, <1>9, <2>2, <3>1 DEF Row
    <3>. QED BY <3>4, <3>5, <3>6, <3>3, <1>9, <2>2 DEF UseRow, RunRow, SignalRow
  <2>. QED BY <2>1, <2>2
<1>10. CASE k = "setupSurface"
  <2>1. /\ Len(Code(k)) = 2
        /\ Code(k)[1] = If("rasterizer", <<Make({"surface"})>>)
        /\ Code(k)[2] = Use({"shell"})
    BY <1>10 DEF Code, Body, SetupSurface
  <2>2. n \in 1 .. 2 \/ n = 0
    BY <1>1, <1>10, <2>1
  <2>3. n = 0 \/ n = 1 \/ n = 2
    BY <2>2
  <2>4. n = 0 => Row(x, "setupSurface", 0, Make({"surface"}), <<"setupSurface", 2>>)
    BY <1>1, <1>3, <1>10, <2>1 DEF Row, BranchStep
  <2>5. n = 1 => Row(x, "setupSurface", 1,
                      If("rasterizer", <<Make({"surface"})>>), <<"setupSurface", 2>>)
    BY <1>1, <1>3, <1>10, <2>1 DEF Row
  <2>6. n = 2 => Row(x, "setupSurface", 2, Use({"shell"}), idle)
    BY <1>1, <1>3, <1>10, <2>1 DEF Row
  <2>. QED BY <2>4, <2>5, <2>6, <2>3 DEF MakeRow, IfRow, UseRow
<1>11. CASE k = "teardown"
  <2>1. /\ Len(Code(k)) = 2
        /\ Code(k)[1] = If("rasterizer", <<Drop({"surface"})>>)
        /\ Code(k)[2] = Run("io", "drain")
    BY <1>11 DEF Code, Body, Teardown
  <2>2. n \in 1 .. 2 \/ n = 0
    BY <1>1, <1>11, <2>1
  <2>3. n = 0 \/ n = 1 \/ n = 2
    BY <2>2
  <2>4. n = 0 => Row(x, "teardown", 0, Drop({"surface"}), <<"teardown", 2>>)
    BY <1>1, <1>3, <1>11, <2>1 DEF Row, BranchStep
  <2>5. n = 1 => Row(x, "teardown", 1, If("rasterizer", <<Drop({"surface"})>>), <<"teardown", 2>>)
    BY <1>1, <1>3, <1>11, <2>1 DEF Row
  <2>6. n = 2 => Row(x, "teardown", 2, Run("io", "drain"), idle)
    BY <1>1, <1>3, <1>11, <2>1 DEF Row
  <2>. QED BY <2>4, <2>5, <2>6, <2>3 DEF DropRow, IfRow, RunRow
<1>12. CASE k = "drain"
  <2>1. /\ Len(Code(k)) = 2
        /\ Code(k)[1] = Use({"ioManager"})
        /\ Code(k)[2] = Signal
    BY <1>12 DEF Code, Body, Drain
  <2>2. n \in 1 .. 2
    BY <1>1, <1>12, <2>1 DEF Branching
  <2>3. n = 1 \/ n = 2
    BY <2>2
  <2>4. n = 1 => Row(x, "drain", 1, Use({"ioManager"}), <<"drain", 2>>)
    BY <1>1, <1>3, <1>12, <2>1 DEF Row
  <2>5. n = 2 => Row(x, "drain", 2, Signal, idle)
    BY <1>1, <1>3, <1>12, <2>1 DEF Row
  <2>. QED BY <2>4, <2>5, <2>3 DEF UseRow, SignalRow
<1>13. CASE k = "draw"
  <2>1. /\ Len(Code(k)) = 1
        /\ Code(k)[1] = If("rasterizer", <<Use({"shell"})>>)
    BY <1>13 DEF Code, Body, Draw
  <2>2. n \in 1 .. 1 \/ n = 0
    BY <1>1, <1>13, <2>1
  <2>3. n = 0 \/ n = 1
    BY <2>2
  <2>4. n = 0 => Row(x, "draw", 0, Use({"shell"}), idle)
    BY <1>1, <1>3, <1>13, <2>1 DEF Row, BranchStep
  <2>5. n = 1 => Row(x, "draw", 1, If("rasterizer", <<Use({"shell"})>>), idle)
    BY <1>1, <1>3, <1>13, <2>1 DEF Row
  <2>. QED BY <2>4, <2>5, <2>3 DEF UseRow, IfRow
<1>14. CASE k = "shutdownIsolates"
  <2>1. /\ Len(Code(k)) = 2
        /\ Code(k)[1] = Use({"engine"})
        /\ Code(k)[2] = Signal
    BY <1>14 DEF Code, Body
  <2>2. n \in 1 .. 2
    BY <1>1, <1>14, <2>1 DEF Branching
  <2>3. n = 1 \/ n = 2
    BY <2>2
  <2>4. n = 1 => Row(x, "shutdownIsolates", 1, Use({"engine"}), <<"shutdownIsolates", 2>>)
    BY <1>1, <1>3, <1>14, <2>1 DEF Row
  <2>5. n = 2 => Row(x, "shutdownIsolates", 2, Signal, idle)
    BY <1>1, <1>3, <1>14, <2>1 DEF Row
  <2>. QED BY <2>4, <2>5, <2>3 DEF UseRow, SignalRow
<1>15. CASE k = "dropEngine"
  <2>1. /\ Len(Code(k)) = 2
        /\ Code(k)[1] = Drop({"engine"})
        /\ Code(k)[2] = Signal
    BY <1>15 DEF Code, Body
  <2>2. n \in 1 .. 2
    BY <1>1, <1>15, <2>1 DEF Branching
  <2>3. n = 1 \/ n = 2
    BY <2>2
  <2>4. n = 1 => Row(x, "dropEngine", 1, Drop({"engine"}), <<"dropEngine", 2>>)
    BY <1>1, <1>3, <1>15, <2>1 DEF Row
  <2>5. n = 2 => Row(x, "dropEngine", 2, Signal, idle)
    BY <1>1, <1>3, <1>15, <2>1 DEF Row
  <2>. QED BY <2>4, <2>5, <2>3 DEF DropRow, SignalRow
<1>16. CASE k = "dropRasterizer"
  <2>1. /\ Len(Code(k)) = 2
        /\ Code(k)[1] = Drop({"surface", "rasterizer"})
        /\ Code(k)[2] = Signal
    BY <1>16 DEF Code, Body
  <2>2. n \in 1 .. 2
    BY <1>1, <1>16, <2>1 DEF Branching
  <2>3. n = 1 \/ n = 2
    BY <2>2
  <2>4. n = 1 => Row(x, "dropRasterizer", 1,
                      Drop({"surface", "rasterizer"}), <<"dropRasterizer", 2>>)
    BY <1>1, <1>3, <1>16, <2>1 DEF Row
  <2>5. n = 2 => Row(x, "dropRasterizer", 2, Signal, idle)
    BY <1>1, <1>3, <1>16, <2>1 DEF Row
  <2>. QED BY <2>4, <2>5, <2>3 DEF DropRow, SignalRow
<1>17. CASE k = "dropIoManager"
  <2>1. /\ Len(Code(k)) = 3
        /\ Code(k)[1] = Drop({"ioManager"})
        /\ Code(k)[2] = Use({"platformView"})
        /\ Code(k)[3] = Signal
    BY <1>17 DEF Code, Body
  <2>2. n \in 1 .. 3
    BY <1>1, <1>17, <2>1 DEF Branching
  <2>3. n = 1 \/ n = 2 \/ n = 3
    BY <2>2
  <2>4. n = 1 => Row(x, "dropIoManager", 1, Drop({"ioManager"}), <<"dropIoManager", 2>>)
    BY <1>1, <1>3, <1>17, <2>1 DEF Row
  <2>5. n = 2 => Row(x, "dropIoManager", 2, Use({"platformView"}), <<"dropIoManager", 3>>)
    BY <1>1, <1>3, <1>17, <2>1 DEF Row
  <2>6. n = 3 => Row(x, "dropIoManager", 3, Signal, idle)
    BY <1>1, <1>3, <1>17, <2>1 DEF Row
  <2>. QED BY <2>4, <2>5, <2>6, <2>3 DEF DropRow, UseRow, SignalRow
<1>18. CASE k = "dropView"
  <2>1. /\ Len(Code(k)) = 2
        /\ Code(k)[1] = Drop({"platformView"})
        /\ Code(k)[2] = Signal
    BY <1>18 DEF Code, Body
  <2>2. n \in 1 .. 2
    BY <1>1, <1>18, <2>1 DEF Branching
  <2>3. n = 1 \/ n = 2
    BY <2>2
  <2>4. n = 1 => Row(x, "dropView", 1, Drop({"platformView"}), <<"dropView", 2>>)
    BY <1>1, <1>3, <1>18, <2>1 DEF Row
  <2>5. n = 2 => Row(x, "dropView", 2, Signal, idle)
    BY <1>1, <1>3, <1>18, <2>1 DEF Row
  <2>. QED BY <2>4, <2>5, <2>3 DEF DropRow, SignalRow
<1>19. CASE k = "thenSurface"
  <2>1. /\ Len(Code(k)) = 1
        /\ Code(k)[1] = Make({"surface"})
    BY <1>19 DEF Code, Body
  <2>2. n \in 1 .. 1
    BY <1>1, <1>19, <2>1 DEF Branching
  <2>3. n = 1
    BY <2>2
  <2>4. n = 1 => Row(x, "thenSurface", 1, Make({"surface"}), idle)
    BY <1>1, <1>3, <1>19, <2>1 DEF Row
  <2>. QED BY <2>4, <2>3 DEF MakeRow
<1>20. CASE k \in {"idle", "scheduleFrame"}
  <2>1. Code(k) = <<>>
    BY <1>20 DEF Code, Body
  <2>. QED BY <1>1, <1>20, <2>1 DEF Branching
<1>. QED BY <1>1, <1>4, <1>5, <1>6, <1>7, <1>8, <1>9, <1>10, <1>11, <1>12, <1>13, <1>14, <1>15, <1>16, <1>17, <1>18, <1>19, <1>20
             DEF Names, TaskNames

LEMMA Ops ==
    /\ \A r, k : Run(r, k).op = "run" /\ Run(r, k).runner = r /\ Run(r, k).task = k
    /\ \A x : Get(x).op = "get" /\ Get(x).parts = {x}
    /\ \A S : Make(S).op = "make" /\ Make(S).parts = S
    /\ \A S : Drop(S).op = "drop" /\ Drop(S).parts = S
    /\ \A S : Use(S).op = "use" /\ Use(S).parts = S
    /\ \A x, s : If(x, s).op = "if" /\ If(x, s).part = x /\ If(x, s).then = s
    /\ Wait.op = "wait" /\ Signal.op = "signal" /\ MergeUi.op = "merge"
    /\ UnmergeUi.op = "unmerge" /\ Return.op = "return"
BY DEF Run, Get, Make, Drop, Use, If, Wait, Signal, MergeUi, UnmergeUi, Return

\* The kind of a step is its op; bodies neither wait nor return.
LEMMA Kinds ==
    ASSUME NEW x \in Points, x # idle
    PROVE  \/ StepAt(x).op = "use" /\ UseRow(x)
           \/ StepAt(x).op = "get" /\ GetRow(x)
           \/ StepAt(x).op = "make" /\ MakeRow(x)
           \/ StepAt(x).op = "drop" /\ DropRow(x)
           \/ StepAt(x).op = "if" /\ IfRow(x)
           \/ StepAt(x).op = "run" /\ RunRow(x)
           \/ StepAt(x).op = "signal" /\ SignalRow(x)
           \/ StepAt(x).op = "merge" /\ MergeRow(x)
<1>1. /\ UseRow(x) => StepAt(x).op = "use"
      /\ GetRow(x) => StepAt(x).op = "get"
      /\ MakeRow(x) => StepAt(x).op = "make"
      /\ DropRow(x) => StepAt(x).op = "drop"
  BY Ops DEF UseRow, GetRow, MakeRow, DropRow, Row
<1>2. /\ IfRow(x) => StepAt(x).op = "if"
      /\ RunRow(x) => StepAt(x).op = "run"
      /\ SignalRow(x) => StepAt(x).op = "signal"
      /\ MergeRow(x) => StepAt(x).op = "merge"
  BY Ops DEF IfRow, RunRow, SignalRow, MergeRow, Row
<1>. QED BY <1>1, <1>2, Rows

\* Only scheduleFrame has nothing to do.
LEMMA Starts ==
    ASSUME NEW k \in TaskNames
    PROVE  Start(k) = (IF k = "scheduleFrame" THEN idle ELSE <<k, 1>>)
<1>1. CASE k \in {"setupGpu", "impellerContext", "setupIo", "setupUi"}
  BY <1>1 DEF Start, Code, Body, SetupGpu, SetupImpellerContext, SetupIo, SetupUi
<1>2. CASE k \in {"runEngine", "scheduleFrame", "setupSurface", "teardown", "drain", "draw"}
  BY <1>2 DEF Start, Code, Body, RunEngine, SetupSurface, Teardown, Drain, Draw
<1>3. CASE k = "viewIo"
  BY <1>3 DEF Start, Code, Body, ViewIo
<1>4. CASE k \in {"shutdownIsolates", "dropEngine", "dropRasterizer", "dropIoManager", "dropView"}
  BY <1>4 DEF Start, Code, Body
<1>. QED BY <1>1, <1>2, <1>3, <1>4 DEF TaskNames

CallRow(c, i, s, last) == c = i /\ CallBody(shellCall)[c] = s /\ (c = Len(CallBody(shellCall)) <=> last)

CreateRow(c) ==
    \/ CallRow(c, 1, Make({"shell", "platformView", "locals"}), FALSE)
    \/ CallRow(c, 2, Run("raster", "setupGpu"), FALSE)
    \/ CallRow(c, 3, Run("raster", "impellerContext"), FALSE)
    \/ CallRow(c, 4, Run("io", "setupIo"), FALSE)
    \/ CallRow(c, 5, Run("ui", "setupUi"), FALSE)
    \/ CallRow(c, 6, Get("engine"), FALSE)
    \/ CallRow(c, 7, Get("rasterizer"), FALSE)
    \/ CallRow(c, 8, Get("ioManager"), FALSE)
    \/ CallRow(c, 9, Drop({"locals"}), FALSE)
    \/ CallRow(c, 10, Return, TRUE)

LaunchRow(c) ==
    \/ CallRow(c, 1, Run("ui", "runEngine"), FALSE)
    \/ CallRow(c, 2, Return, TRUE)

PostViewRow(c) ==
    \/ CallRow(c, 1, Run("io", "viewIo"), FALSE)
    \/ CallRow(c, 2, Wait, FALSE)
    \/ CallRow(c, 3, Return, TRUE)

NowViewRow(c) ==
    \/ CallRow(c, 1, Run("io", "viewIo"), FALSE)
    \/ CallRow(c, 2, Wait, FALSE)
    \/ CallRow(c, 3, If("rasterizer", <<Make({"surface"})>>), FALSE)
    \/ CallRow(c, 4, Use({"shell"}), FALSE)
    \/ CallRow(c, 5, Return, TRUE)

UnviewRow(c) ==
    \/ CallRow(c, 1, Run("raster", "teardown"), FALSE)
    \/ CallRow(c, 2, Wait, FALSE)
    \/ CallRow(c, 3, Return, TRUE)

DestroyRow(c) ==
    \/ CallRow(c, 1, Run("platform", "shutdownIsolates"), FALSE)
    \/ CallRow(c, 2, Wait, FALSE)
    \/ CallRow(c, 3, Run("ui", "dropEngine"), FALSE)
    \/ CallRow(c, 4, Wait, FALSE)
    \/ CallRow(c, 5, Run("raster", "dropRasterizer"), FALSE)
    \/ CallRow(c, 6, Wait, FALSE)
    \/ CallRow(c, 7, Run("io", "dropIoManager"), FALSE)
    \/ CallRow(c, 8, Wait, FALSE)
    \/ CallRow(c, 9, Run("platform", "dropView"), FALSE)
    \/ CallRow(c, 10, Wait, FALSE)
    \/ CallRow(c, 11, UnmergeUi, FALSE)
    \/ CallRow(c, 12, Drop({"shell"}), FALSE)
    \/ CallRow(c, 13, Return, TRUE)

\* The steps of the calls.
LEMMA CallRows ==
    ASSUME NEW p, NEW c, Control(p, c), shellCall # "none"
    PROVE  /\ shellCall \in Calls
           /\ shellCall = "create" => CreateRow(c)
           /\ shellCall = "run" => LaunchRow(c)
           /\ shellCall = "viewCreated" => IF ShouldPostRasterTask THEN PostViewRow(c) ELSE NowViewRow(c)
           /\ shellCall = "viewDestroyed" => UnviewRow(c)
           /\ shellCall = "destroy" => DestroyRow(c)
<1>1. shellCall \in Calls /\ c \in 1 .. Len(CallBody(shellCall))
  BY DEF Control
<1>2. CASE shellCall = "create"
  BY <1>1, <1>2 DEF CallBody, CreateShellOnPlatformThread, CreateRow, CallRow
<1>3. CASE shellCall = "run"
  BY <1>1, <1>3 DEF CallBody, LaunchRow, CallRow
<1>4. CASE shellCall = "viewCreated" /\ ShouldPostRasterTask
  <2>1. CallBody(shellCall) = OnPlatformViewCreated
    BY <1>4 DEF CallBody
  <2>2. /\ Len(CallBody(shellCall)) = 3
        /\ CallBody(shellCall)[1] = Run("io", "viewIo")
        /\ CallBody(shellCall)[2] = Wait
        /\ CallBody(shellCall)[3] = Return
    BY <1>4, <2>1 DEF OnPlatformViewCreated
  <2>3. c = 1 \/ c = 2 \/ c = 3
    BY <1>1, <2>2
  <2>4. PostViewRow(c)
    BY <2>2, <2>3 DEF PostViewRow, CallRow
  <2>. QED BY <1>1, <1>4, <2>4
<1>5. CASE shellCall = "viewCreated" /\ ~ ShouldPostRasterTask
  <2>1. CallBody(shellCall) = OnPlatformViewCreated
    BY <1>5 DEF CallBody
  <2>2. /\ Len(CallBody(shellCall)) = 5
        /\ CallBody(shellCall)[1] = Run("io", "viewIo")
        /\ CallBody(shellCall)[2] = Wait
        /\ CallBody(shellCall)[3] = If("rasterizer", <<Make({"surface"})>>)
        /\ CallBody(shellCall)[4] = Use({"shell"})
        /\ CallBody(shellCall)[5] = Return
    BY <1>5, <2>1 DEF OnPlatformViewCreated, SetupSurface
  <2>3. c = 1 \/ c = 2 \/ c = 3 \/ c = 4 \/ c = 5
    BY <1>1, <2>2
  <2>4. NowViewRow(c)
    BY <2>2, <2>3 DEF NowViewRow, CallRow
  <2>. QED BY <1>1, <1>5, <2>4
<1>6. CASE shellCall = "viewDestroyed"
  BY <1>1, <1>6 DEF CallBody, OnPlatformViewDestroyed, UnviewRow, CallRow
<1>7. CASE shellCall = "destroy"
  BY <1>1, <1>7 DEF CallBody, ShellDestructor, DestroyRow, CallRow
<1>. QED BY <1>1, <1>2, <1>3, <1>4, <1>5, <1>6, <1>7 DEF Calls

-----------------------------------------------------------------------------
(* The queues *)

SetupTasks == {"setupGpu", "impellerContext", "setupIo", "setupUi"}
Signalers == {"viewIo", "teardown", "drain", "shutdownIsolates", "dropEngine",
              "dropRasterizer", "dropIoManager", "dropView"}
OnceTasks == SetupTasks \cup Signalers
IoTasks == {"setupIo", "viewIo", "drain", "dropIoManager"}
RasterTasks == {"setupGpu", "impellerContext", "setupSurface", "teardown", "dropRasterizer", "draw"}

Queued(k) == \E q \in Runners : \E i \in 1 .. Len(tasks[q]) : tasks[q][i] = k
Gains(k) == \A j : Queued(j)' <=> Queued(j) \/ j = k
Sends(r, k) == tasks' = [tasks EXCEPT ![thread[r]] = Append(@, k)]

\* Where task k may be posted.
Fits(k, q) ==
    /\ k \in IoTasks <=> q = "io"
    /\ k \in RasterTasks => q = thread["raster"]
    /\ k \in RasterTasks \ {"draw"} => q = "raster"

\* Tasks are in the queues of their runners.  There is one of each that sets up a part
\* or signals; the IO thread's setup task is its first; whatever lets the surface go
\* comes after what sets it up.
QueueInv ==
    /\ thread["raster"] \in {"raster", "platform"} /\ thread["ui"] \in {"ui", "platform"}
    /\ thread["platform"] = "platform" /\ thread["io"] = "io"
    /\ tasks \in [Runners -> Seq(TaskNames)]
    /\ \A q \in Runners : \A i \in 1 .. Len(tasks[q]) : Fits(tasks[q][i], q)
    /\ \A q, r \in Runners : \A i \in 1 .. Len(tasks[q]) : \A j \in 1 .. Len(tasks[r]) :
          tasks[q][i] = tasks[r][j] /\ tasks[q][i] \in OnceTasks => q = r /\ i = j
    /\ \A i \in 1 .. Len(tasks["io"]) : tasks["io"][i] = "setupIo" => i = 1
    /\ \A i, j \in 1 .. Len(tasks["raster"]) :
          /\ tasks["raster"][i] \in {"teardown", "dropRasterizer"}
          /\ tasks["raster"][j] = "setupSurface"
          => j < i

LEMMA QueuesStay ==
    ASSUME QueueInv, UNCHANGED <<thread, tasks>>
    PROVE  QueueInv' /\ \A k : Queued(k)' <=> Queued(k)
<1>1. \A k : Queued(k)' <=> Queued(k)
  BY DEF Queued
<1>2. QueueInv'
  BY DEF QueueInv, Fits
<1>. QED BY <1>1, <1>2

\* Task k is posted to queue q.
LEMMA Posts ==
    ASSUME QueueInv, UNCHANGED thread, NEW q \in Runners, NEW k \in TaskNames,
           tasks' = [tasks EXCEPT ![q] = Append(@, k)],
           Fits(k, q),
           k \in OnceTasks => ~ Queued(k),
           k = "setupIo" => tasks["io"] = <<>>,
           k = "setupSurface" => ~ Queued("teardown") /\ ~ Queued("dropRasterizer")
    PROVE  QueueInv' /\ \A j : Queued(j)' <=> Queued(j) \/ j = k
<1>1. /\ tasks \in [Runners -> Seq(TaskNames)]
      /\ \A r \in Runners : Len(tasks[r]) \in Nat
  BY LenProperties DEF QueueInv
<1>2. /\ tasks' \in [Runners -> Seq(TaskNames)]
      /\ \A r \in Runners : r # q => tasks'[r] = tasks[r]
      /\ Len(tasks'[q]) = Len(tasks[q]) + 1
      /\ \A i \in 1 .. Len(tasks[q]) : tasks'[q][i] = tasks[q][i]
      /\ tasks'[q][Len(tasks[q]) + 1] = k
  BY <1>1
<1>3. \A r \in Runners : \A i \in 1 .. Len(tasks'[r]) :
          \/ i \in 1 .. Len(tasks[r]) /\ tasks'[r][i] = tasks[r][i]
          \/ r = q /\ i = Len(tasks[q]) + 1 /\ tasks'[r][i] = k
  BY <1>1, <1>2
<1>4. \A r \in Runners : \A i \in 1 .. Len(tasks[r]) :
          i \in 1 .. Len(tasks'[r]) /\ tasks'[r][i] = tasks[r][i]
  BY <1>1, <1>2
<1>5. ASSUME NEW j PROVE Queued(j)' <=> Queued(j) \/ j = k
  <2>1. Queued(j) => Queued(j)'
    BY <1>4 DEF Queued
  <2>2. Queued(k)'
    <3>1. Len(tasks[q]) + 1 \in 1 .. Len(tasks'[q])
      BY <1>1, <1>2
    <3>. QED BY <1>2, <3>1 DEF Queued
  <2>3. Queued(j)' => Queued(j) \/ j = k
    BY <1>3 DEF Queued
  <2>. QED BY <2>1, <2>2, <2>3
<1>6. QueueInv'
  <2>1. \A r \in Runners : \A i \in 1 .. Len(tasks'[r]) : Fits(tasks[r][i], r)'
    BY <1>3 DEF QueueInv, Fits
  <2>2. ASSUME NEW r \in Runners, NEW s \in Runners,
               NEW i \in 1 .. Len(tasks'[r]), NEW j \in 1 .. Len(tasks'[s]),
               tasks'[r][i] = tasks'[s][j], tasks'[r][i] \in OnceTasks
        PROVE  r = s /\ i = j
    <3>1. k \in OnceTasks => \A u \in Runners : \A l \in 1 .. Len(tasks[u]) : tasks[u][l] # k
      BY DEF Queued
    <3>. QED BY <1>3, <2>2, <3>1 DEF QueueInv
  <2>3. ASSUME NEW i \in 1 .. Len(tasks'["io"]), tasks'["io"][i] = "setupIo" PROVE i = 1
    <3>1. "io" \in Runners
      BY DEF Runners
    <3>2. k = "setupIo" => Len(tasks["io"]) = 0
      OBVIOUS
    <3>. QED BY <1>3, <2>3, <3>1, <3>2 DEF QueueInv
  <2>4. ASSUME NEW i \in 1 .. Len(tasks'["raster"]), NEW j \in 1 .. Len(tasks'["raster"]),
               tasks'["raster"][i] \in {"teardown", "dropRasterizer"},
               tasks'["raster"][j] = "setupSurface"
        PROVE  j < i
    <3>1. "raster" \in Runners
      BY DEF Runners
    <3>2. k = "setupSurface" =>
              \A l \in 1 .. Len(tasks["raster"]) : tasks["raster"][l] \notin {"teardown", "dropRasterizer"}
      BY <3>1 DEF Queued
    <3>. QED BY <1>1, <1>3, <2>4, <3>1, <3>2 DEF QueueInv
  <2>. QED BY <1>2, <2>1, <2>2, <2>3, <2>4 DEF QueueInv
<1>. QED BY <1>5, <1>6

\* A thread takes the first task of queue q.
LEMMA TakesFirst ==
    ASSUME QueueInv, UNCHANGED thread, NEW q \in Runners, tasks[q] # <<>>,
           NEW k, k = Head(tasks[q]),
           tasks' = [tasks EXCEPT ![q] = Tail(@)]
    PROVE  /\ QueueInv'
           /\ k \in TaskNames /\ Fits(k, q) /\ Queued(k)
           /\ \A j : Queued(j)' => Queued(j)
           /\ \A j : j # k => (Queued(j)' <=> Queued(j))
           /\ k \in OnceTasks => ~ Queued(k)'
           /\ k \in {"teardown", "dropRasterizer"} => ~ Queued("setupSurface")'
           /\ q = "io" => ~ Queued("setupIo")'
<1>1. /\ tasks \in [Runners -> Seq(TaskNames)]
      /\ \A r \in Runners : Len(tasks[r]) \in Nat
      /\ Len(tasks[q]) >= 1
  BY LenProperties, EmptySeq DEF QueueInv
<1>2. /\ tasks' \in [Runners -> Seq(TaskNames)]
      /\ \A r \in Runners : r # q => tasks'[r] = tasks[r]
      /\ Len(tasks'[q]) = Len(tasks[q]) - 1
      /\ \A i \in 1 .. Len(tasks[q]) - 1 : tasks'[q][i] = tasks[q][i + 1]
      /\ k = tasks[q][1] /\ k \in TaskNames
  <2>1. /\ Tail(tasks[q]) \in Seq(TaskNames) /\ Len(Tail(tasks[q])) = Len(tasks[q]) - 1
        /\ \A i \in 1 .. Len(tasks[q]) - 1 : Tail(tasks[q])[i] = tasks[q][i + 1]
        /\ k = tasks[q][1] /\ k \in TaskNames
    BY <1>1, HeadTailProperties
  <2>. QED BY <1>1, <2>1
<1>3. \A r \in Runners : \A i \in 1 .. Len(tasks'[r]) :
          \/ r # q /\ i \in 1 .. Len(tasks[r]) /\ tasks'[r][i] = tasks[r][i]
          \/ r = q /\ i + 1 \in 1 .. Len(tasks[q]) /\ tasks'[q][i] = tasks[q][i + 1]
  BY <1>1, <1>2
<1>4. /\ 1 \in 1 .. Len(tasks[q])
      /\ \A i \in 1 .. Len(tasks[q]) : i = 1 \/ (i - 1 \in 1 .. Len(tasks'[q]) /\ tasks'[q][i - 1] = tasks[q][i])
  BY <1>1, <1>2
<1>5. ASSUME NEW j, Queued(j)' PROVE Queued(j)
  <2>1. PICK r \in Runners : \E i \in 1 .. Len(tasks'[r]) : tasks'[r][i] = j
    BY <1>5 DEF Queued
  <2>2. CASE r # q
    BY <1>3, <2>1, <2>2 DEF Queued
  <2>3. CASE r = q
    BY <1>3, <2>1, <2>3 DEF Queued
  <2>. QED BY <2>2, <2>3
<1>6. ASSUME NEW j, j # k, Queued(j) PROVE Queued(j)'
  <2>1. PICK r \in Runners : \E i \in 1 .. Len(tasks[r]) : tasks[r][i] = j
    BY <1>6 DEF Queued
  <2>2. CASE r # q
    BY <1>2, <2>1, <2>2 DEF Queued
  <2>3. CASE r = q
    <3>1. PICK i \in 1 .. Len(tasks[q]) : tasks[q][i] = j
      BY <2>1, <2>3
    <3>2. i # 1
      BY <1>2, <1>6, <3>1
    <3>3. i - 1 \in 1 .. Len(tasks'[q]) /\ tasks'[q][i - 1] = j
      BY <1>4, <3>1, <3>2
    <3>. QED BY <3>3 DEF Queued
  <2>. QED BY <2>2, <2>3
<1>7. Queued(k) /\ Fits(k, q)
  <2>1. tasks[q][1] = k /\ 1 \in 1 .. Len(tasks[q])
    BY <1>2, <1>4
  <2>2. Fits(tasks[q][1], q)
    BY <2>1 DEF QueueInv
  <2>. QED BY <2>1, <2>2 DEF Queued
<1>8. ASSUME k \in OnceTasks PROVE ~ Queued(k)'
  <2>. SUFFICES ASSUME NEW r \in Runners, NEW i \in 1 .. Len(tasks'[r]), tasks'[r][i] = k
                PROVE  FALSE
    BY DEF Queued
  <2>. QED BY <1>1, <1>2, <1>3, <1>4, <1>8 DEF QueueInv
<1>9. ASSUME k \in {"teardown", "dropRasterizer"} PROVE ~ Queued("setupSurface")'
  <2>. SUFFICES ASSUME NEW r \in Runners, NEW i \in 1 .. Len(tasks'[r]), tasks'[r][i] = "setupSurface"
                PROVE  FALSE
    BY DEF Queued
  <2>1. Fits("setupSurface", r)
    BY <1>3 DEF QueueInv
  <2>2. r = "raster" /\ q = "raster"
    BY <1>7, <1>9, <2>1 DEF Fits, RasterTasks
  <2>. QED BY <1>1, <1>2, <1>3, <1>4, <1>9, <2>2 DEF QueueInv
<1>10. ASSUME q = "io" PROVE ~ Queued("setupIo")'
  <2>. SUFFICES ASSUME NEW r \in Runners, NEW i \in 1 .. Len(tasks'[r]), tasks'[r][i] = "setupIo"
                PROVE  FALSE
    BY DEF Queued
  <2>1. Fits("setupIo", r)
    BY <1>3 DEF QueueInv
  <2>2. r = "io"
    BY <2>1 DEF Fits, IoTasks
  <2>. QED BY <1>1, <1>3, <1>10, <2>2 DEF QueueInv
<1>11. QueueInv'
  <2>1. \A r \in Runners : \A i \in 1 .. Len(tasks'[r]) : Fits(tasks[r][i], r)'
    BY <1>3 DEF QueueInv, Fits
  <2>2. \A r, s \in Runners : \A i \in 1 .. Len(tasks'[r]) : \A j \in 1 .. Len(tasks'[s]) :
            tasks'[r][i] = tasks'[s][j] /\ tasks'[r][i] \in OnceTasks => r = s /\ i = j
    <3>. TAKE r, s \in Runners
    <3>. TAKE i \in 1 .. Len(tasks'[r])
    <3>. TAKE j \in 1 .. Len(tasks'[s])
    <3>0. HAVE tasks'[r][i] = tasks'[s][j] /\ tasks'[r][i] \in OnceTasks
    <3>. DEFINE a == IF r = q THEN i + 1 ELSE i
                b == IF s = q THEN j + 1 ELSE j
    <3>1. /\ a \in 1 .. Len(tasks[r]) /\ tasks[r][a] = tasks'[r][i]
          /\ b \in 1 .. Len(tasks[s]) /\ tasks[s][b] = tasks'[s][j]
      BY <1>3
    <3>2. r = s /\ a = b
      <4>. HIDE DEF a, b
      <4>. QED BY <3>0, <3>1 DEF QueueInv
    <3>3. i \in Int /\ j \in Int
      OBVIOUS
    <3>. QED BY <3>2, <3>3
  <2>3. ASSUME NEW i \in 1 .. Len(tasks'["io"]), tasks'["io"][i] = "setupIo" PROVE i = 1
    <3>1. "io" \in Runners
      BY DEF Runners
    <3>. QED BY <1>3, <2>3, <3>1 DEF QueueInv
  <2>4. ASSUME NEW i \in 1 .. Len(tasks'["raster"]), NEW j \in 1 .. Len(tasks'["raster"]),
               tasks'["raster"][i] \in {"teardown", "dropRasterizer"},
               tasks'["raster"][j] = "setupSurface"
        PROVE  j < i
    <3>1. "raster" \in Runners
      BY DEF Runners
    <3>. QED BY <1>1, <1>3, <2>4, <3>1 DEF QueueInv
  <2>5. /\ \A r \in Runners : \A i \in 1 .. Len(tasks'[r]) : Fits(tasks[r][i], r)'
        /\ tasks' \in [Runners -> Seq(TaskNames)]
    BY <1>2, <2>1
  <2>7. \A i \in 1 .. Len(tasks'["io"]) : tasks'["io"][i] = "setupIo" => i = 1
    BY <2>3
  <2>8. \A i, j \in 1 .. Len(tasks'["raster"]) :
            /\ tasks'["raster"][i] \in {"teardown", "dropRasterizer"}
            /\ tasks'["raster"][j] = "setupSurface"
            => j < i
    BY <2>4, Zenon
  <2>. QED BY <2>2, <2>5, <2>7, <2>8 DEF QueueInv
<1>12. k \in TaskNames
  BY <1>2
<1>. QED BY <1>5, <1>6, <1>7, <1>8, <1>9, <1>10, <1>11, <1>12

-----------------------------------------------------------------------------
(* The threads *)

Running(p, k) == \E t \in Runners : p[t][1] = k
Left(p, k) == Queued(k) \/ Running(p, k)

\* Task k has gone from its queue to a thread.
Loses(p, q, k, y) ==
    /\ \A j : Queued(j)' => Queued(j)
    /\ \A j : j # k => (Queued(j)' <=> Queued(j))
    /\ \A j : j \notin {"idle", k} => (Running(q, j) <=> Running(p, j))
    /\ k # "scheduleFrame" => Running(q, k) /\ y = <<k, 1>>
    /\ k = "scheduleFrame" => y = idle

\* Thread t has gone on or ended its task.
Runs(p, q, t) ==
    /\ \A k : k # "idle" => (Running(q, k) => Running(p, k))
    /\ q[t] = p[t] \/ q[t] # idle => \A k : Running(q, k) <=> Running(p, k)
    /\ \A k : k # p[t][1] => (Running(p, k) => Running(q, k))

\* Threads run what is posted to them, one task of each kind that is not repeated.
ThreadInv(p) ==
    /\ \A t \in Runners : p[t][1] \in IoTasks => t = "io"
    /\ p["io"] # idle => p["io"][1] \in IoTasks
    /\ \A t \in Runners : p[t][1] \in RasterTasks => t = thread["raster"]
    /\ \A t \in Runners : p[t][1] = "thenSurface" => t = "platform"
    /\ \A t \in Runners : p[t][1] \in OnceTasks => ~ Queued(p[t][1])
    /\ \A s, t \in Runners : p[t][1] \in OnceTasks /\ p[s][1] = p[t][1] => s = t
    /\ Queued("setupIo") => p["io"] = idle
    /\ \A t \in Runners : p[t][1] \in {"teardown", "dropRasterizer"} => ~ Queued("setupSurface")
    /\ Left(p, "teardown") => ~ Left(p, "drain")

\* Thread t goes on in its task or ends it, and posts nothing.
LEMMA ThreadMoves ==
    ASSUME NEW p \in [Runners -> Points], ThreadInv(p), NEW t \in Runners, p[t] # idle,
           NEW y, y = idle \/ (y # idle /\ y[1] = p[t][1]), NEW q, q = [p EXCEPT ![t] = y],
           UNCHANGED thread, \A k : Queued(k)' <=> Queued(k)
    PROVE  /\ ThreadInv(q)'
           /\ \A k : k # "idle" => (Running(q, k) => Running(p, k))
           /\ \A k : k # p[t][1] => (Running(p, k) => Running(q, k))
           /\ y # idle => \A k : Running(p, k) => Running(q, k)
<1>1. /\ \A s \in Runners : q[s] = IF s = t THEN y ELSE p[s]
      /\ "io" \in Runners /\ idle[1] = "idle"
  BY DEF Runners, idle
<1>2. /\ \A k : k # "idle" => (Running(q, k) => Running(p, k))
      /\ \A k : k # p[t][1] => (Running(p, k) => Running(q, k))
      /\ y # idle => \A k : Running(p, k) => Running(q, k)
  BY <1>1 DEF Running
<1>3. "idle" \notin IoTasks \cup RasterTasks \cup OnceTasks \cup {"teardown", "dropRasterizer", "thenSurface"}
  BY DEF IoTasks, RasterTasks, OnceTasks, SetupTasks, Signalers
<1>4. ThreadInv(q)'
  <2>1. /\ \A s \in Runners : q[s][1] \in IoTasks => s = "io"
        /\ q["io"] # idle => q["io"][1] \in IoTasks
        /\ \A s \in Runners : q[s][1] \in RasterTasks => s = thread'["raster"]
        /\ \A s \in Runners : q[s][1] = "thenSurface" => s = "platform"
    BY <1>1, <1>3 DEF ThreadInv
  <2>2. /\ \A s \in Runners : q[s][1] \in OnceTasks => ~ Queued(q[s][1])
        /\ \A s, u \in Runners : q[u][1] \in OnceTasks /\ q[s][1] = q[u][1] => s = u
        /\ Queued("setupIo") => q["io"] = idle
        /\ \A s \in Runners : q[s][1] \in {"teardown", "dropRasterizer"} => ~ Queued("setupSurface")
    BY <1>1, <1>3 DEF ThreadInv
  <2>3. Left(q, "teardown") => ~ Left(q, "drain")
    BY <1>2 DEF ThreadInv, Left
  <2>4. (Left(q, "teardown") => ~ Left(q, "drain"))'
    BY <2>3 DEF Left, Running
  <2>. QED BY <2>1, <2>2, <2>4 DEF ThreadInv
<1>. QED BY <1>2, <1>4

\* Thread t, which is idle, takes the first task k of queue r.
LEMMA ThreadTakes ==
    ASSUME NEW p \in [Runners -> Points], QueueInv, ThreadInv(p), NEW t \in Runners, p[t] = idle,
           NEW r \in Serves(t), tasks[r] # <<>>, NEW k, k = Head(tasks[r]),
           tasks' = [tasks EXCEPT ![r] = Tail(@)], UNCHANGED thread,
           NEW y, y = Start(k), NEW q, q = [p EXCEPT ![t] = y]
    PROVE  /\ QueueInv' /\ ThreadInv(q)' /\ k \in TaskNames /\ Queued(k)
           /\ Loses(p, q, k, y)
<1>1. /\ r \in Runners /\ (t = r \/ (t = "platform" /\ r = "ui"))
  BY DEF Serves
<1>2. /\ QueueInv'
      /\ k \in TaskNames /\ Fits(k, r) /\ Queued(k)
      /\ \A j : Queued(j)' => Queued(j)
      /\ \A j : j # k => (Queued(j)' <=> Queued(j))
      /\ k \in OnceTasks => ~ Queued(k)'
      /\ k \in {"teardown", "dropRasterizer"} => ~ Queued("setupSurface")'
      /\ r = "io" => ~ Queued("setupIo")'
  BY <1>1, TakesFirst
<1>3. /\ \A s \in Runners : q[s] = IF s = t THEN y ELSE p[s]
      /\ "io" \in Runners /\ idle[1] = "idle"
  BY DEF Runners, idle
<1>4. /\ k = "scheduleFrame" => y = idle
      /\ k # "scheduleFrame" => y = <<k, 1>> /\ y[1] = k /\ y # idle
  <2>1. k # "idle"
    BY <1>2 DEF TaskNames
  <2>. QED BY <1>2, <2>1, Starts DEF idle
<1>5. /\ \A j : j \notin {"idle", k} => (Running(q, j) <=> Running(p, j))
      /\ k # "scheduleFrame" => Running(q, k)
  BY <1>3, <1>4 DEF Running
<1>6. "idle" \notin IoTasks \cup RasterTasks \cup OnceTasks \cup {"teardown", "dropRasterizer", "thenSurface"}
  BY DEF IoTasks, RasterTasks, OnceTasks, SetupTasks, Signalers
<1>7. /\ k \in IoTasks => t = "io"
      /\ t = "io" => k \in IoTasks /\ r = "io"
      /\ k \in RasterTasks => t = thread["raster"]
      /\ k # "thenSurface" /\ "scheduleFrame" \notin IoTasks
  BY <1>1, <1>2 DEF Fits, IoTasks, RasterTasks, QueueInv, TaskNames
<1>8. ThreadInv(q)'
  <2>1. /\ \A s \in Runners : q[s][1] \in IoTasks => s = "io"
        /\ q["io"] # idle => q["io"][1] \in IoTasks
        /\ \A s \in Runners : q[s][1] \in RasterTasks => s = thread'["raster"]
        /\ \A s \in Runners : q[s][1] = "thenSurface" => s = "platform"
    BY <1>3, <1>4, <1>6, <1>7 DEF ThreadInv
  <2>2. /\ \A s \in Runners : q[s][1] \in OnceTasks => ~ Queued(q[s][1])'
        /\ \A s, u \in Runners : q[u][1] \in OnceTasks /\ q[s][1] = q[u][1] => s = u
    BY <1>2, <1>3, <1>4, <1>6 DEF ThreadInv
  <2>3. Queued("setupIo")' => q["io"] = idle
    BY <1>2, <1>3, <1>7 DEF ThreadInv
  <2>4. \A s \in Runners : q[s][1] \in {"teardown", "dropRasterizer"} => ~ Queued("setupSurface")'
    BY <1>2, <1>3, <1>4, <1>6 DEF ThreadInv
  <2>5. \A j \in {"teardown", "drain"} : Queued(j)' \/ Running(q, j) => Left(p, j)
    BY <1>2, <1>5 DEF Left
  <2>6. (Left(q, "teardown") => ~ Left(q, "drain"))'
    BY <2>5 DEF Left, Running, ThreadInv
  <2>. QED BY <2>1, <2>2, <2>3, <2>4, <2>6 DEF ThreadInv
<1>9. Loses(p, q, k, y)
  BY <1>2, <1>4, <1>5 DEF Loses
<1>. QED BY <1>2, <1>8, <1>9

\* Task k is posted, by thread t that is on its way to the point y.
LEMMA ThreadPosts ==
    ASSUME NEW p \in [Runners -> Points], ThreadInv(p), NEW t \in Runners,
           NEW y, y \in {idle, p[t]} \/ (p[t] # idle /\ y # idle /\ y[1] = p[t][1]), NEW q, q = [p EXCEPT ![t] = y],
           UNCHANGED thread, NEW k, Gains(k),
           k \in OnceTasks => ~ Running(p, k),
           k = "setupIo" => p["io"] = idle,
           k = "setupSurface" => ~ Running(p, "teardown") /\ ~ Running(p, "dropRasterizer"),
           k = "teardown" => ~ Left(p, "drain"),
           k = "drain" => ~ Queued("teardown") /\ ~ Running(q, "teardown")
    PROVE  /\ ThreadInv(q)'
           /\ Runs(p, q, t)
<1>0. \A j : Queued(j)' <=> Queued(j) \/ j = k
  BY DEF Gains
<1>1. /\ \A s \in Runners : q[s] = IF s = t THEN y ELSE p[s]
      /\ "io" \in Runners /\ idle[1] = "idle"
  BY DEF Runners, idle
<1>2. /\ \A j : j # "idle" => (Running(q, j) => Running(p, j))
      /\ y = p[t] => \A j : Running(q, j) <=> Running(p, j)
      /\ y # idle => \A j : Running(q, j) <=> Running(p, j)
      /\ \A j : j # p[t][1] => (Running(p, j) => Running(q, j))
  BY <1>1 DEF Running
<1>5. Runs(p, q, t)
  BY <1>1, <1>2 DEF Runs
<1>3. "idle" \notin IoTasks \cup RasterTasks \cup OnceTasks \cup {"teardown", "dropRasterizer", "thenSurface"}
  BY DEF IoTasks, RasterTasks, OnceTasks, SetupTasks, Signalers
<1>4. ThreadInv(q)'
  <2>. USE <1>0
  <2>1. /\ \A s \in Runners : q[s][1] \in IoTasks => s = "io"
        /\ q["io"] # idle => q["io"][1] \in IoTasks
        /\ \A s \in Runners : q[s][1] \in RasterTasks => s = thread'["raster"]
        /\ \A s \in Runners : q[s][1] = "thenSurface" => s = "platform"
    BY <1>1, <1>3 DEF ThreadInv
  <2>2. \A s \in Runners : q[s][1] \in OnceTasks => ~ Queued(q[s][1])'
    <3>. TAKE s \in Runners
    <3>1. HAVE q[s][1] \in OnceTasks
    <3>2. q[s][1] = p[s][1]
      BY <1>1, <1>3, <3>1
    <3>3. ~ Queued(p[s][1]) /\ Running(p, p[s][1])
      BY <3>1, <3>2 DEF ThreadInv, Running
    <3>. QED BY <3>1, <3>2, <3>3
  <2>3. \A s, u \in Runners : q[u][1] \in OnceTasks /\ q[s][1] = q[u][1] => s = u
    BY <1>1, <1>3 DEF ThreadInv
  <2>4. Queued("setupIo")' => q["io"] = idle
    BY <1>1 DEF ThreadInv
  <2>5. \A s \in Runners : q[s][1] \in {"teardown", "dropRasterizer"} => ~ Queued("setupSurface")'
    BY <1>1, <1>3 DEF ThreadInv, Running
  <2>6. Queued("teardown")' \/ Running(q, "teardown") => ~ (Queued("drain")' \/ Running(q, "drain"))
    BY <1>2 DEF ThreadInv, Left
  <2>7. (Left(q, "teardown") => ~ Left(q, "drain"))'
    BY <2>6 DEF Left, Running
  <2>. QED BY <2>1, <2>2, <2>3, <2>4, <2>5, <2>7 DEF ThreadInv
<1>. QED BY <1>4, <1>5

\* The platform thread's call runs task k at once.
LEMMA ThreadRuns ==
    ASSUME NEW p \in [Runners -> Points], ThreadInv(p), p["platform"] = idle,
           NEW k, k \notin IoTasks \cup {"idle"}, k \in RasterTasks => thread["raster"] = "platform",
           NEW y, y = <<k, 1>>, NEW q, q = [p EXCEPT !["platform"] = y],
           UNCHANGED thread, \A j : Queued(j)' <=> Queued(j),
           k \in OnceTasks => ~ Left(p, k),
           k \in {"teardown", "dropRasterizer"} => ~ Queued("setupSurface"),
           k = "teardown" => ~ Left(p, "drain")
    PROVE  /\ ThreadInv(q)'
           /\ \A j : j \notin {"idle", k} => (Running(q, j) <=> Running(p, j))
           /\ Running(q, k)
<1>1. /\ \A s \in Runners : q[s] = IF s = "platform" THEN y ELSE p[s]
      /\ "io" \in Runners /\ "platform" \in Runners /\ idle[1] = "idle" /\ y[1] = k /\ "platform" # "io"
  BY DEF Runners, idle
<1>2. /\ \A j : j \notin {"idle", k} => (Running(q, j) <=> Running(p, j))
      /\ Running(q, k)
  BY <1>1 DEF Running
<1>3. "idle" \notin IoTasks \cup RasterTasks \cup OnceTasks \cup {"teardown", "dropRasterizer", "thenSurface"}
  BY DEF IoTasks, RasterTasks, OnceTasks, SetupTasks, Signalers
<1>4. ThreadInv(q)'
  <2>1. /\ \A s \in Runners : q[s][1] \in IoTasks => s = "io"
        /\ q["io"] # idle => q["io"][1] \in IoTasks
        /\ \A s \in Runners : q[s][1] \in RasterTasks => s = thread'["raster"]
        /\ \A s \in Runners : q[s][1] = "thenSurface" => s = "platform"
    BY <1>1, <1>3 DEF ThreadInv
  <2>2. \A s \in Runners : q[s][1] \in OnceTasks => ~ Queued(q[s][1])'
    BY <1>1, <1>3 DEF ThreadInv, Left
  <2>3. \A s, u \in Runners : q[u][1] \in OnceTasks /\ q[s][1] = q[u][1] => s = u
    BY <1>1, <1>3 DEF ThreadInv, Left, Running
  <2>4. Queued("setupIo")' => q["io"] = idle
    BY <1>1 DEF ThreadInv
  <2>5. \A s \in Runners : q[s][1] \in {"teardown", "dropRasterizer"} => ~ Queued("setupSurface")'
    BY <1>1, <1>3 DEF ThreadInv
  <2>6. Queued("teardown")' \/ Running(q, "teardown") => ~ (Queued("drain")' \/ Running(q, "drain"))
    BY <1>2 DEF ThreadInv, Left, IoTasks
  <2>7. (Left(q, "teardown") => ~ Left(q, "drain"))'
    BY <2>6 DEF Left, Running
  <2>. QED BY <2>1, <2>2, <2>3, <2>4, <2>5, <2>7 DEF ThreadInv
<1>. QED BY <1>2, <1>4

-----------------------------------------------------------------------------
(* What holds as tasks are left and calls are under way *)

\* The call name is at one of the steps lo to hi.
During(name, lo, hi, c) == shellCall = name /\ c \in lo .. hi

Alive == shellLife \in {"ready", "running"}

\* The call of the platform thread fits the shell's life and the surface.
Caller ==
    /\ shellCall \in Calls \cup {"none"}
    /\ shellLife \in {"none", "ready", "running", "gone"}
    /\ shellCall = "create" => shellLife = "none"
    /\ shellCall \in Calls \ {"create"} => Alive
    /\ shellCall = "viewCreated" => viewed
    /\ shellCall = "viewDestroyed" => ~ viewed

\* The destructor is past the IO manager, or the rasterizer.
IoGone(c) ==
    \/ During("destroy", 9, 13, c) \/ (During("destroy", 8, 8, c) /\ signaled)
    \/ shellLife = "gone"

RasterGone(c) ==
    \/ During("destroy", 7, 13, c) \/ (During("destroy", 6, 6, c) /\ signaled)
    \/ shellLife = "gone"

\* The call waits for a signal of task k.
Awaits(k, c) ==
    \/ k = "viewIo" /\ During("viewCreated", 2, 2, c)
    \/ k \in {"teardown", "drain"} /\ During("viewDestroyed", 2, 2, c)
    \/ k = "shutdownIsolates" /\ During("destroy", 2, 2, c)
    \/ k = "dropEngine" /\ During("destroy", 4, 4, c)
    \/ k = "dropRasterizer" /\ During("destroy", 6, 6, c)
    \/ k = "dropIoManager" /\ During("destroy", 8, 8, c)
    \/ k = "dropView" /\ During("destroy", 10, 10, c)

\* What holds while a thread is at <<k, n>>, and, with n = 1, while k is queued.
Ok(k, n, c) ==
    /\ k = "setupGpu" => During("create", 3, 7, c) /\ "rasterizer" \notin made
    /\ k = "setupUi" => During("create", 6, 6, c) /\ "engine" \notin made
    /\ k = "impellerContext" =>
          (During("create", 4, 10, c) \/ Alive) /\ "impellerContext" \notin made
    /\ k = "setupIo" =>
          /\ (During("create", 5, 10, c) \/ Alive) /\ ~ IoGone(c)
          /\ n \in {1, 2} => During("create", 5, 8, c) /\ "ioManager" \notin made
          /\ n = 4 => "impellerContext" \in made
    /\ k \in Signalers => Awaits(k, c) /\ ~ signaled
    /\ k = "setupSurface" => Alive /\ ~ RasterGone(c)
    /\ k = "draw" /\ n = 0 => (During("create", 3, 10, c) \/ Alive) /\ ~ RasterGone(c)
    /\ k = "dropRasterizer" /\ n = 2 => "rasterizer" \notin made
    /\ k = "thenSurface" => During("viewCreated", 4, 4, c)

Local(p, c) ==
    /\ \A k \in TaskNames : Queued(k) => Ok(k, 1, c)
    /\ \A t \in Runners : Ok(p[t][1], p[t][2], c)

\* What exists at which step of the calls.
Global(c) ==
    /\ During("create", 2, 10, c) => "shell" \in made /\ "platformView" \in made
    /\ During("create", 2, 9, c) => "locals" \in made
    /\ During("create", 7, 10, c) => "engine" \in made
    /\ During("create", 8, 10, c) => "rasterizer" \in made
    /\ During("create", 9, 10, c) => "ioManager" \in made
    /\ Alive /\ shellCall # "destroy" =>
          /\ "shell" \in made /\ "platformView" \in made /\ "engine" \in made
          /\ "rasterizer" \in made /\ "ioManager" \in made
    /\ During("destroy", 1, 12, c) => "shell" \in made
    /\ During("destroy", 1, 9, c) => "platformView" \in made
    /\ During("destroy", 1, 3, c) => "engine" \in made
    /\ RasterGone(c) => "rasterizer" \notin made
    /\ "rasterizer" \in made => During("create", 3, 10, c) \/ shellLife # "none"
    /\ "engine" \in made => During("create", 6, 10, c) \/ shellLife # "none"
    /\ "ioManager" \in made => During("create", 5, 10, c) \/ shellLife # "none"
    /\ "impellerContext" \in made => During("create", 4, 10, c) \/ shellLife # "none"
    /\ signaled => During("viewCreated", 2, 2, c) \/ During("viewDestroyed", 2, 2, c)
                   \/ (shellCall = "destroy" /\ c \in {2, 4, 6, 8, 10})

\* The task that sets up the IO manager ends when the context is there.
IoPending(p, c) ==
    During("create", 5, 10, c) \/ shellLife # "none"
    => Left(p, "setupIo") \/ "impellerContext" \in made

\* Without a view there is no surface and none is being set up, or the task that lets
\* it go is still to come.
SurfaceInv(p, c) ==
    ~ viewed =>
        \/ "surface" \notin made /\ ~ Left(p, "setupSurface")
        \/ /\ shellCall = "viewDestroyed"
           /\ \/ c = 1 \/ Queued("teardown")
              \/ \E t \in Runners : p[t] \in {<<"teardown", 1>>, <<"teardown", 0>>}

Facts(p, c) ==
    /\ Caller /\ QueueInv /\ ThreadInv(p) /\ Global(c) /\ IoPending(p, c)
    /\ Local(p, c) /\ SurfaceInv(p, c)

LEMMA AfterShape ==
    ASSUME NEW x \in Points, x # idle
    PROVE  After(x) = idle \/ (After(x) # idle /\ After(x)[1] = x[1])
BY DEF After, Points, idle, Names, TaskNames

\* Thread t goes on in its task or ends it, whatever that does to the parts and the latch.
LEMMA TaskMoves ==
    ASSUME NEW p \in [Runners -> Points], NEW c, Facts(p, c), NEW t \in Runners, p[t] # idle,
           NEW y, y = idle \/ (y # idle /\ y[1] = p[t][1]), NEW q, q = [p EXCEPT ![t] = y],
           UNCHANGED <<thread, tasks, callerVars>>,
           p[t][1] = "setupIo" /\ y = idle => "impellerContext" \in made,
           "impellerContext" \in made => "impellerContext" \in made'
    PROVE  /\ QueueInv' /\ ThreadInv(q)' /\ Caller' /\ IoPending(q, c)'
           /\ \A k : Queued(k)' <=> Queued(k)
           /\ \A k : k # "idle" => (Running(q, k) => Running(p, k))
           /\ \A s \in Runners : q[s] = IF s = t THEN y ELSE p[s]
<1>1. /\ QueueInv' /\ \A k : Queued(k)' <=> Queued(k)
  BY QueuesStay DEF Facts
<1>2. UNCHANGED thread
  OBVIOUS
<1>3. /\ ThreadInv(q)'
      /\ \A k : k # "idle" => (Running(q, k) => Running(p, k))
      /\ \A k : k # p[t][1] => (Running(p, k) => Running(q, k))
      /\ y # idle => \A k : Running(p, k) => Running(q, k)
  BY <1>1, <1>2, ThreadMoves DEF Facts
<1>4. Caller'
  BY DEF Caller, Alive, Facts, callerVars
<1>5. IoPending(q, c)'
  BY <1>1, <1>3 DEF IoPending, Facts, Left, Running, callerVars, During
<1>. QED BY <1>1, <1>3, <1>4, <1>5

\* Nothing else changes.
LEMMA QuietMoves ==
    ASSUME NEW p \in [Runners -> Points], NEW c, Facts(p, c), NEW t \in Runners, p[t] # idle,
           NEW y, y = idle \/ (y # idle /\ y[1] = p[t][1]), NEW q, q = [p EXCEPT ![t] = y],
           UNCHANGED <<thread, tasks, made, signaled, callerVars>>,
           p[t][1] = "setupIo" /\ y = idle => "impellerContext" \in made,
           p[t][1] = "teardown" => y = <<"teardown", 0>>,
           Ok(y[1], y[2], c)
    PROVE  Facts(q, c)'
<1>1. /\ QueueInv' /\ ThreadInv(q)' /\ Caller' /\ IoPending(q, c)'
      /\ \A k : Queued(k)' <=> Queued(k)
      /\ \A k : k # "idle" => (Running(q, k) => Running(p, k))
      /\ \A s \in Runners : q[s] = IF s = t THEN y ELSE p[s]
  BY TaskMoves
<1>2. \A k, n : Ok(k, n, c)' <=> Ok(k, n, c)
  BY DEF Ok, During, Alive, IoGone, RasterGone, Awaits, callerVars
<1>3. Local(q, c)'
  BY <1>1, <1>2 DEF Local, Facts
<1>4. Global(c)'
  BY DEF Global, During, Alive, RasterGone, callerVars, Facts
<1>5. SurfaceInv(q, c)'
  <2>1. SurfaceInv(p, c) /\ UNCHANGED <<made, shellCall, viewed>>
    BY DEF Facts, callerVars
  <2>2. ~ Left(p, "setupSurface") => ~ Left(q, "setupSurface")'
    BY <1>1 DEF Left, Running
  <2>3. ASSUME NEW s \in Runners, p[s] \in {<<"teardown", 1>>, <<"teardown", 0>>}
        PROVE  q[s] \in {<<"teardown", 1>>, <<"teardown", 0>>}
    BY <1>1, <2>3
  <2>. QED BY <1>1, <2>1, <2>2, <2>3 DEF SurfaceInv
<1>. QED BY <1>1, <1>3, <1>4, <1>5 DEF Facts

-----------------------------------------------------------------------------
(* The steps of tasks *)

LEMMA Ranges ==
    ASSUME NEW p, NEW c, Control(p, c)
    PROVE  /\ shellCall = "create" => c \in 1 .. 10
           /\ shellCall = "run" => c \in 1 .. 2
           /\ shellCall = "viewCreated" => c \in 1 .. 5
           /\ shellCall = "viewDestroyed" => c \in 1 .. 3
           /\ shellCall = "destroy" => c \in 1 .. 13
BY CallRows DEF CreateRow, LaunchRow, PostViewRow, NowViewRow, UnviewRow, DestroyRow, CallRow

\* A task finds what it uses.
LEMMA UseFinds ==
    ASSUME NEW p, NEW c, Control(p, c), Facts(p, c), NEW t \in Runners, UseRow(p[t])
    PROVE  StepAt(p[t]).parts \subseteq made
<1>. DEFINE x == p[t]
<1>1. /\ Caller /\ Global(c) /\ IoPending(p, c) /\ Ok(x[1], x[2], c)
  BY DEF Facts, Local
<1>2. shellCall = "destroy" => c \in 1 .. 13
  BY Ranges
<1>3. \A k, n, s, y : Row(x, k, n, s, y) => x[1] = k /\ x[2] = n /\ StepAt(x) = s
  BY DEF Row
<1>. HIDE DEF x
<1>4. CASE x[1] = "setupGpu" /\ StepAt(x) = Use({"shell", "locals"})
  BY <1>1, <1>4, Ops DEF Ok, Global, During, x
<1>5. CASE x[1] = "impellerContext" /\ StepAt(x) = Use({"platformView"})
  <2>1. During("create", 5, 10, c) \/ Alive => Left(p, "setupIo")
    BY <1>1, <1>5 DEF Ok, IoPending, Alive
  <2>2. During("create", 5, 10, c) \/ Alive => ~ IoGone(c)
    <3>1. Left(p, "setupIo") => \E n : Ok("setupIo", n, c)
      BY DEF Facts, Local, Left, Running, TaskNames
    <3>. QED BY <2>1, <3>1 DEF Ok
  <2>3. "platformView" \in made
    BY <1>1, <1>2, <1>5, <2>2 DEF Ok, Global, During, IoGone, Alive
  <2>. QED BY <1>5, <2>3, Ops DEF x
<1>6. CASE x[1] = "setupIo" /\ x[2] = 1 /\ StepAt(x) = Use({"locals"})
  BY <1>1, <1>6, Ops DEF Ok, Global, During, x
<1>7. CASE x[1] = "setupIo" /\ StepAt(x) = Use({"platformView"})
  <2>1. "platformView" \in made
    BY <1>1, <1>2, <1>7 DEF Ok, Global, During, IoGone, Alive
  <2>. QED BY <1>7, <2>1, Ops DEF x
<1>8. CASE x[1] = "setupUi" /\ StepAt(x) \in {Use({"shell", "locals"}), Use({"locals"})}
  BY <1>1, <1>8, Ops DEF Ok, Global, During, x
<1>9. CASE x[1] = "viewIo" /\ StepAt(x) = Use({"platformView"})
  BY <1>1, <1>9, Ops DEF Ok, Global, During, Awaits, Signalers, Caller, Calls, Alive, x
<1>10. CASE x[1] = "setupSurface" /\ StepAt(x) = Use({"shell"})
  BY <1>1, <1>2, <1>10, Ops DEF Ok, Global, During, RasterGone, Alive, x
<1>11. CASE x[1] = "drain" /\ StepAt(x) = Use({"ioManager"})
  BY <1>1, <1>11, Ops DEF Ok, Global, During, Awaits, Signalers, Caller, Calls, Alive, x
<1>12. CASE x[1] = "draw" /\ x[2] = 0 /\ StepAt(x) = Use({"shell"})
  BY <1>1, <1>2, <1>12, Ops DEF Ok, Global, During, RasterGone, Alive, x
<1>13. CASE x[1] = "shutdownIsolates" /\ StepAt(x) = Use({"engine"})
  BY <1>1, <1>13, Ops DEF Ok, Global, During, Awaits, Signalers, x
<1>14. CASE x[1] = "dropIoManager" /\ StepAt(x) = Use({"platformView"})
  BY <1>1, <1>14, Ops DEF Ok, Global, During, Awaits, Signalers, x
<1>15. UseRow(x)
  BY DEF x
<1>. QED BY <1>3, <1>4, <1>5, <1>6, <1>7, <1>8, <1>9, <1>10, <1>11, <1>12, <1>13, <1>14, <1>15 DEF UseRow

LEMMA RowShape ==
    \A x, k, n, s, y : Row(x, k, n, s, y) => x[1] = k /\ x[2] = n /\ StepAt(x) = s /\ After(x) = y
BY DEF Row

\* A step that uses parts, or gets one that is there, changes nothing else.
LEMMA QuietStep ==
    ASSUME NEW p \in [Runners -> Points], NEW c, Facts(p, c), NEW t \in Runners, p[t] # idle,
           UseRow(p[t]) \/ (GetRow(p[t]) /\ StepAt(p[t]).parts \subseteq made) \/ MergeRow(p[t]),
           NEW y, y = After(p[t]), NEW q, q = [p EXCEPT ![t] = y],
           UNCHANGED <<thread, tasks, made, signaled, callerVars>>
    PROVE  Facts(q, c)'
<1>. DEFINE x == p[t]
<1>1. y = idle \/ (y # idle /\ y[1] = x[1])
  BY AfterShape
<1>2. Ok(x[1], x[2], c)
  BY DEF Facts, Local
<1>3. y = After(x)
  OBVIOUS
<1>4. UseRow(x) \/ (GetRow(x) /\ StepAt(x).parts \subseteq made) \/ MergeRow(x)
  OBVIOUS
<1>. HIDE DEF x
<1>5. CASE UseRow(x)
  <2>2. \/ x[1] = "setupIo" /\ x[2] = 1 /\ y = <<"setupIo", 2>>
        \/ x[1] = "setupIo" /\ x[2] = 4 /\ y = idle
        \/ x[1] \notin {"setupIo", "teardown", "dropRasterizer"} /\ (x[1] = "draw" => y = idle)
    BY <1>3, <1>5, RowShape DEF UseRow
  <2>3. Ok(y[1], y[2], c)
    BY <1>1, <1>2, <2>2 DEF Ok, Signalers, idle
  <2>4. x[1] = "setupIo" /\ y = idle => "impellerContext" \in made
    BY <1>2, <2>2 DEF Ok, idle
  <2>. QED BY <1>1, <2>2, <2>3, <2>4, QuietMoves DEF x
<1>6. CASE GetRow(x) /\ StepAt(x).parts \subseteq made
  <2>1. \/ x[1] = "setupIo" /\ y = <<"setupIo", 4>> /\ StepAt(x) = Get("impellerContext")
        \/ x[1] = "setupUi" /\ y = <<"setupUi", y[2]>>
    BY <1>3, <1>6, RowShape DEF GetRow
  <2>2. StepAt(x) = Get("impellerContext") => "impellerContext" \in made
    BY <1>6, Ops
  <2>3. Ok(y[1], y[2], c)
    BY <1>2, <2>1, <2>2 DEF Ok, Signalers
  <2>4. x[1] # "teardown" /\ (x[1] = "setupIo" => y # idle)
    BY <2>1 DEF idle
  <2>. QED BY <1>1, <2>3, <2>4, QuietMoves DEF x
<1>7. CASE MergeRow(x)
  <2>1. x[1] = "runEngine" /\ y = idle
    BY <1>3, <1>7, RowShape DEF MergeRow
  <2>2. Ok(y[1], y[2], c)
    BY <2>1 DEF Ok, Signalers, idle
  <2>. QED BY <1>1, <2>1, <2>2, QuietMoves DEF x
<1>. QED BY <1>4, <1>5, <1>6, <1>7

\* A task whose weak pointer finds nothing ends, or goes on after the branch.
LEMMA BranchSkipped ==
    ASSUME NEW p \in [Runners -> Points], NEW c, Facts(p, c), NEW t \in Runners, p[t] # idle,
           IfRow(p[t]), StepAt(p[t]).part \notin made \/ StepAt(p[t]).then = <<>>,
           NEW y, y = After(p[t]), NEW q, q = [p EXCEPT ![t] = y],
           UNCHANGED <<thread, tasks, made, signaled, callerVars>>
    PROVE  Facts(q, c)'
<1>. DEFINE x == p[t]
<1>1. y = idle \/ (y # idle /\ y[1] = x[1])
  BY AfterShape
<1>2. Ok(x[1], x[2], c) /\ Global(c) /\ Caller
  BY DEF Facts, Local
<1>3. y = After(x) /\ IfRow(x) /\ (StepAt(x).part \notin made \/ StepAt(x).then = <<>>)
  OBVIOUS
<1>. HIDE DEF x
<1>4. x[1] # "teardown"
  <2>. SUFFICES ASSUME x[1] = "teardown" PROVE FALSE
    OBVIOUS
  <2>1. StepAt(x) = If("rasterizer", <<Drop({"surface"})>>)
    BY <1>3, RowShape DEF IfRow
  <2>2. StepAt(x).part = "rasterizer" /\ StepAt(x).then # <<>>
    BY <2>1, Ops
  <2>3. "rasterizer" \in made
    BY <1>2 DEF Ok, Signalers, Awaits, During, Caller, Alive, Calls, Global
  <2>. QED BY <1>3, <2>2, <2>3
<1>5. y = idle \/ (x[1] = "setupSurface" /\ y = <<"setupSurface", 2>>)
  BY <1>3, <1>4, RowShape DEF IfRow
<1>6. Ok(y[1], y[2], c)
  BY <1>2, <1>5 DEF Ok, Signalers, idle
<1>7. x[1] # "setupIo"
  BY <1>3, RowShape DEF IfRow
<1>. QED BY <1>1, <1>4, <1>6, <1>7, QuietMoves DEF x

\* One whose weak pointer finds its part takes the branch.
LEMMA BranchTaken ==
    ASSUME NEW p \in [Runners -> Points], NEW c, Facts(p, c), NEW t \in Runners, p[t] # idle,
           IfRow(p[t]), StepAt(p[t]).part \in made,
           NEW y, y = <<p[t][1], 0>>, NEW q, q = [p EXCEPT ![t] = y],
           UNCHANGED <<thread, tasks, made, signaled, callerVars>>
    PROVE  Facts(q, c)'
<1>. DEFINE x == p[t]
<1>1. y = <<x[1], 0>> /\ y # idle /\ y[1] = x[1] /\ y[2] = 0
  BY DEF idle
<1>2. Ok(x[1], x[2], c) /\ Global(c) /\ Caller
  BY DEF Facts, Local
<1>3. IfRow(x) /\ StepAt(x).part \in made
  OBVIOUS
<1>. HIDE DEF x
<1>4. x[1] \in {"runEngine", "setupSurface", "teardown", "draw"}
  BY <1>3, RowShape DEF IfRow
<1>5. x[1] = "draw" => "rasterizer" \in made
  <2>1. x[1] = "draw" => StepAt(x) = If("rasterizer", <<Use({"shell"})>>)
    BY <1>3, RowShape DEF IfRow
  <2>. QED BY <1>3, <2>1, Ops
<1>6. x[1] = "draw" => (During("create", 3, 10, c) \/ Alive) /\ ~ RasterGone(c)
  BY <1>2, <1>5 DEF Global, Caller, Alive, RasterGone
<1>7. Ok(y[1], y[2], c)
  BY <1>1, <1>2, <1>4, <1>6 DEF Ok, Signalers
<1>. QED BY <1>1, <1>4, <1>7, QuietMoves DEF x

\* What other tasks rely on stays, when thread t goes on.
LEMMA LocalMoves ==
    ASSUME NEW p \in [Runners -> Points], NEW c, Facts(p, c), NEW t \in Runners, p[t] # idle,
           NEW y, NEW q, \A s \in Runners : q[s] = IF s = t THEN y ELSE p[s],
           \A k : Queued(k)' <=> Queued(k),
           \A k, n : Ok(k, n, c) /\ (p[t][1] \in OnceTasks => k # p[t][1]) => Ok(k, n, c)',
           Ok(y[1], y[2], c)'
    PROVE  Local(q, c)'
<1>1. ASSUME NEW k \in TaskNames, Queued(k) PROVE Ok(k, 1, c)'
  <2>1. Ok(k, 1, c) /\ (p[t][1] \in OnceTasks => k # p[t][1])
    BY <1>1 DEF Facts, Local, ThreadInv
  <2>. QED BY <2>1
<1>2. ASSUME NEW s \in Runners PROVE Ok(q[s][1], q[s][2], c)'
  <2>1. CASE s = t
    BY <2>1
  <2>2. CASE s # t
    <3>1. Ok(p[s][1], p[s][2], c) /\ (p[t][1] \in OnceTasks => p[s][1] # p[t][1])
      BY <2>2 DEF Facts, Local, ThreadInv
    <3>2. Ok(p[s][1], p[s][2], c)'
      BY <3>1
    <3>. QED BY <2>2, <3>2
  <2>. QED BY <2>1, <2>2
<1>. QED BY <1>1, <1>2 DEF Local

LEMMA SurfaceMoves ==
    ASSUME NEW p \in [Runners -> Points], NEW c, Facts(p, c), NEW t \in Runners, p[t] # idle,
           p[t][1] # "teardown",
           NEW y, NEW q, \A s \in Runners : q[s] = IF s = t THEN y ELSE p[s],
           \A k : Queued(k)' <=> Queued(k),
           \A k : k # "idle" => (Running(q, k) => Running(p, k)),
           UNCHANGED callerVars,
           "surface" \in made' => "surface" \in made \/ p[t][1] = "setupSurface" \/ viewed
    PROVE  SurfaceInv(q, c)'
<1>1. SurfaceInv(p, c) /\ UNCHANGED <<shellCall, viewed>>
  BY DEF Facts, callerVars
<1>2. ~ Left(p, "setupSurface") => ~ Left(q, "setupSurface")' /\ p[t][1] # "setupSurface"
  BY DEF Left, Running
<1>3. ASSUME NEW s \in Runners, p[s] \in {<<"teardown", 1>>, <<"teardown", 0>>}
      PROVE  q[s] \in {<<"teardown", 1>>, <<"teardown", 0>>}
  BY <1>3
<1>. QED BY <1>1, <1>2, <1>3 DEF SurfaceInv

\* A task makes its parts.
LEMMA MakeStep ==
    ASSUME NEW p \in [Runners -> Points], NEW c, Facts(p, c), NEW t \in Runners, p[t] # idle,
           MakeRow(p[t]), NEW y, y = After(p[t]), NEW q, q = [p EXCEPT ![t] = y],
           UNCHANGED <<thread, tasks, signaled, callerVars>>,
           made' = made \cup StepAt(p[t]).parts
    PROVE  Facts(q, c)'
<1>. DEFINE x == p[t]
            A == StepAt(x).parts
<1>1. y = idle \/ (y # idle /\ y[1] = x[1])
  BY AfterShape
<1>2. Ok(x[1], x[2], c) /\ Global(c) /\ Caller
  BY DEF Facts, Local
<1>3. \/ x[1] = "setupGpu" /\ A = {"snapshotDelegate", "rasterizer"} /\ y = idle
      \/ x[1] = "impellerContext" /\ A = {"impellerContext"} /\ y = idle
      \/ x[1] = "setupIo" /\ x[2] = 2 /\ A = {"weakIoManager", "unrefQueue", "ioManager"}
            /\ y = <<"setupIo", 3>>
      \/ x[1] = "setupUi" /\ A = {"engine"} /\ y = idle
      \/ x[1] = "setupSurface" /\ A = {"surface"} /\ y = <<"setupSurface", 2>>
      \/ x[1] = "thenSurface" /\ A = {"surface"} /\ y = idle
  BY RowShape, Ops DEF MakeRow
<1>4. x[1] = "setupIo" => y # idle
  BY <1>3 DEF idle
<1>5. made' = made \cup A
  OBVIOUS
<1>6. UNCHANGED <<signaled, shellCall, shellLife, viewed>>
  BY DEF callerVars
<1>7. x[1] \in OnceTasks <=> x[1] \in {"setupGpu", "impellerContext", "setupIo", "setupUi"}
  BY <1>3 DEF OnceTasks, SetupTasks, Signalers
<1>8. /\ QueueInv' /\ ThreadInv(q)' /\ Caller' /\ IoPending(q, c)'
      /\ \A k : Queued(k)' <=> Queued(k)
      /\ \A k : k # "idle" => (Running(q, k) => Running(p, k))
      /\ \A s \in Runners : q[s] = IF s = t THEN y ELSE p[s]
  BY <1>1, <1>4, TaskMoves
<1>. HIDE DEF A
<1>. HIDE DEF x
<1>9. ASSUME NEW k, NEW n, Ok(k, n, c), x[1] \in OnceTasks => k # x[1] PROVE Ok(k, n, c)'
  <2>1. /\ k = "setupGpu" => "rasterizer" \notin made'
        /\ k = "setupUi" => "engine" \notin made'
        /\ k = "impellerContext" => "impellerContext" \notin made'
        /\ k = "setupIo" /\ n \in {1, 2} => "ioManager" \notin made'
        /\ k = "setupIo" /\ n = 4 => "impellerContext" \in made'
    BY <1>3, <1>5, <1>7, <1>9 DEF Ok
  <2>2. k = "dropRasterizer" /\ n = 2 => "rasterizer" \notin made'
    <3>1. k = "dropRasterizer" => shellCall = "destroy"
      BY <1>9 DEF Ok, Signalers, Awaits, During
    <3>2. x[1] = "setupGpu" => shellCall = "create"
      BY <1>2 DEF Ok, During
    <3>. QED BY <1>3, <1>5, <1>9, <3>1, <3>2 DEF Ok
  <2>. QED BY <1>6, <1>9, <2>1, <2>2 DEF Ok, During, Alive, IoGone, RasterGone, Awaits
<1>10. Ok(y[1], y[2], c)'
  BY <1>2, <1>3, <1>6 DEF Ok, During, Alive, IoGone, RasterGone, Signalers, idle
<1>11. Local(q, c)'
  BY <1>8, <1>9, <1>10, LocalMoves DEF x
<1>12. SurfaceInv(q, c)'
  <2>1. x[1] = "thenSurface" => viewed
    BY <1>2 DEF Ok, During, Caller
  <2>2. x[1] # "teardown" /\ ("surface" \in made' => "surface" \in made \/ x[1] = "setupSurface" \/ viewed)
    BY <1>3, <1>5, <2>1
  <2>. QED BY <1>8, <2>2, SurfaceMoves DEF x
<1>13. Global(c)'
  <2>1. /\ "rasterizer" \in made' => "rasterizer" \in made \/ (x[1] = "setupGpu" /\ During("create", 3, 7, c))
        /\ "engine" \in made' => "engine" \in made \/ During("create", 6, 6, c)
        /\ "ioManager" \in made' => "ioManager" \in made \/ During("create", 5, 8, c)
        /\ "impellerContext" \in made' => "impellerContext" \in made \/ During("create", 4, 10, c) \/ Alive
    BY <1>2, <1>3, <1>5 DEF Ok
  <2>2. During("create", 3, 7, c) => ~ RasterGone(c)
    BY <1>2 DEF During, RasterGone, Caller
  <2>3. \A a : a \in made => a \in made'
    BY <1>5
  <2>. QED BY <1>2, <1>6, <2>1, <2>2, <2>3 DEF Global, During, Alive, RasterGone
<1>. QED BY <1>8, <1>11, <1>12, <1>13 DEF Facts

\* A task destroys a part.
LEMMA DropStep ==
    ASSUME NEW p \in [Runners -> Points], NEW c, Facts(p, c), NEW t \in Runners, p[t] # idle,
           DropRow(p[t]), NEW y, y = After(p[t]), NEW q, q = [p EXCEPT ![t] = y],
           UNCHANGED <<thread, tasks, signaled, callerVars>>,
           made' = made \ StepAt(p[t]).parts
    PROVE  Facts(q, c)'
<1>. DEFINE x == p[t]
            A == StepAt(x).parts
<1>1. y = idle \/ (y # idle /\ y[1] = x[1])
  BY AfterShape
<1>2. Ok(x[1], x[2], c) /\ Global(c) /\ Caller
  BY DEF Facts, Local
<1>3. /\ \/ x[1] = "teardown" /\ x[2] = 0 /\ A = {"surface"}
         \/ x[1] = "dropEngine" /\ A = {"engine"}
         \/ x[1] = "dropRasterizer" /\ A = {"surface", "rasterizer"}
         \/ x[1] = "dropIoManager" /\ A = {"ioManager"}
         \/ x[1] = "dropView" /\ A = {"platformView"}
      /\ y = <<x[1], 2>>
  BY RowShape, Ops DEF DropRow
<1>4. made' = made \ A /\ "impellerContext" \notin A /\ x[1] # "setupIo"
  BY <1>3
<1>5. UNCHANGED <<signaled, shellCall, shellLife, viewed>>
  BY DEF callerVars
<1>6. /\ QueueInv' /\ ThreadInv(q)' /\ Caller' /\ IoPending(q, c)'
      /\ \A k : Queued(k)' <=> Queued(k)
      /\ \A k : k # "idle" => (Running(q, k) => Running(p, k))
      /\ \A s \in Runners : q[s] = IF s = t THEN y ELSE p[s]
  BY <1>1, <1>4, TaskMoves
<1>7. \A k, n : Ok(k, n, c) => Ok(k, n, c)'
  <2>1. /\ \A a : a \notin made => a \notin made'
        /\ "impellerContext" \in made => "impellerContext" \in made'
    BY <1>4
  <2>. HIDE DEF A, x
  <2>. QED BY <1>5, <2>1 DEF Ok, During, Alive, IoGone, RasterGone, Awaits
<1>8. Ok(y[1], y[2], c)'
  <2>. HIDE DEF A, x
  <2>1. Ok(y[1], y[2], c) \/ y = <<"dropRasterizer", 2>>
    BY <1>2, <1>3 DEF Ok, Signalers
  <2>2. CASE Ok(y[1], y[2], c)
    BY <1>7, <2>2
  <2>3. CASE y = <<"dropRasterizer", 2>>
    <3>1. Awaits("dropRasterizer", c) /\ ~ signaled
      BY <1>2, <1>3, <2>3 DEF Ok, Signalers
    <3>2. "rasterizer" \notin made'
      BY <1>3, <1>4, <2>3
    <3>. QED BY <1>5, <2>3, <3>1, <3>2 DEF Ok, Awaits, During, Signalers
  <2>. QED BY <2>1, <2>2, <2>3
<1>9. Local(q, c)'
  BY <1>6, <1>7, <1>8, LocalMoves
<1>10. SurfaceInv(q, c)'
  <2>1. CASE x[1] # "teardown"
    <3>1. "surface" \in made' => "surface" \in made
      BY <1>4
    <3>. QED BY <1>6, <2>1, <3>1, SurfaceMoves
  <2>2. CASE x[1] = "teardown"
    <3>1. "surface" \notin made'
      BY <1>3, <1>4, <2>2
    <3>2. ~ Left(p, "setupSurface")
      BY <2>2 DEF Facts, ThreadInv, Left, Running, RasterTasks
    <3>3. ~ Left(q, "setupSurface")'
      BY <1>6, <3>2 DEF Left, Running
    <3>. QED BY <3>1, <3>3 DEF SurfaceInv
  <2>. QED BY <2>1, <2>2
<1>11. Global(c)'
  <2>1. /\ x[1] = "teardown" => shellCall = "viewDestroyed"
        /\ x[1] # "teardown" => shellCall = "destroy"
        /\ "engine" \in A => During("destroy", 4, 4, c)
        /\ "platformView" \in A => During("destroy", 10, 10, c)
    BY <1>2, <1>3 DEF Ok, Signalers, Awaits, During
  <2>2. /\ \A a : a \notin made => a \notin made'
        /\ \A a : a \in made /\ a \notin A => a \in made'
        /\ A \cap {"shell", "locals"} = {}
        /\ x[1] = "teardown" => A = {"surface"}
    BY <1>3, <1>4
  <2>. HIDE DEF A, x
  <2>3. Global(c)
    BY <1>2
  <2>4. CASE shellCall = "destroy"
    BY <1>5, <2>1, <2>2, <2>3, <2>4 DEF Global, During, Alive, RasterGone
  <2>5. CASE shellCall = "viewDestroyed"
    <3>1. A = {"surface"}
      BY <2>1, <2>2, <2>5
    <3>. QED BY <1>5, <2>2, <2>3, <2>5, <3>1 DEF Global, During, Alive, RasterGone
  <2>. QED BY <2>1, <2>4, <2>5
<1>. QED BY <1>6, <1>9, <1>10, <1>11 DEF Facts

\* A task signals the latch, as its last step.
LEMMA SignalOk ==
    ASSUME NEW p \in [Runners -> Points], NEW c, Facts(p, c), NEW t \in Runners, p[t] # idle,
           SignalRow(p[t]), NEW y, y = After(p[t]), NEW q, q = [p EXCEPT ![t] = y],
           UNCHANGED <<thread, tasks, made, callerVars>>, signaled' = TRUE
    PROVE  Facts(q, c)'
<1>. DEFINE x == p[t]
<1>1. y = idle /\ idle[1] = "idle" /\ idle[2] = 1
  BY RowShape DEF SignalRow, idle
<1>2. Ok(x[1], x[2], c) /\ Global(c) /\ Caller /\ ThreadInv(p)
  BY DEF Facts, Local
<1>3. /\ x[1] \in Signalers \ {"teardown"}
      /\ x[1] = "dropRasterizer" => x[2] = 2
  BY RowShape DEF SignalRow, Signalers
<1>4. x[1] # "setupIo"
  BY <1>3 DEF Signalers
<1>5. UNCHANGED <<made, shellCall, shellLife, viewed>>
  BY DEF callerVars
<1>6. /\ QueueInv' /\ ThreadInv(q)' /\ Caller' /\ IoPending(q, c)'
      /\ \A k : Queued(k)' <=> Queued(k)
      /\ \A k : k # "idle" => (Running(q, k) => Running(p, k))
      /\ \A s \in Runners : q[s] = IF s = t THEN y ELSE p[s]
  BY <1>1, <1>4, <1>5, TaskMoves
<1>7. Awaits(x[1], c) /\ ~ signaled
  BY <1>2, <1>3 DEF Ok
<1>8. x[1] = "dropRasterizer" => "rasterizer" \notin made
  BY <1>2, <1>3 DEF Ok
<1>9. /\ x[1] # "dropRasterizer" => (RasterGone(c)' <=> RasterGone(c))
      /\ x[1] # "dropIoManager" => (IoGone(c)' <=> IoGone(c))
  <2>. HIDE DEF x
  <2>. QED BY <1>3, <1>5, <1>7 DEF RasterGone, IoGone, Awaits, During
\* What is left elsewhere does not signal, and sees nothing of the latch.
<1>10. ASSUME NEW k, NEW n, Ok(k, n, c), k \notin Signalers,
              k = "setupIo" => x[1] # "dropIoManager",
              k = "setupSurface" \/ (k = "draw" /\ n = 0) => x[1] # "dropRasterizer"
       PROVE  Ok(k, n, c)'
  <2>. HIDE DEF x
  <2>1. k # "dropRasterizer"
    BY <1>10 DEF Signalers
  <2>. QED BY <1>5, <1>9, <1>10, <2>1 DEF Ok, During, Alive
<1>11. ASSUME NEW k \in Signalers, k # x[1], Awaits(k, c) PROVE x[1] = "drain" /\ k = "teardown"
  <2>. HIDE DEF x
  <2>. QED BY <1>3, <1>7, <1>11 DEF Awaits, During, Signalers
<1>12. x[1] = "dropIoManager" => t = "io"
  BY <1>2 DEF ThreadInv, IoTasks
<1>13. x[1] = "dropRasterizer" => t = thread["raster"]
  BY <1>2 DEF ThreadInv, RasterTasks
<1>14. Local(q, c)'
  <2>1. ASSUME NEW k \in TaskNames, Queued(k) PROVE Ok(k, 1, c)'
    <3>1. Ok(k, 1, c)
      BY <2>1 DEF Facts, Local
    <3>2. k # x[1]
      BY <1>2, <1>3, <2>1 DEF ThreadInv, OnceTasks
    <3>3. k \notin Signalers
      <4>. SUFFICES ASSUME k \in Signalers PROVE FALSE
        OBVIOUS
      <4>1. x[1] = "drain" /\ k = "teardown"
        BY <1>11, <3>1, <3>2 DEF Ok
      <4>2. Left(p, "teardown") /\ Left(p, "drain")
        BY <2>1, <4>1 DEF Left, Running
      <4>. QED BY <1>2, <4>2 DEF ThreadInv
    <3>4. k = "setupIo" => x[1] # "dropIoManager"
      BY <1>2, <1>12, <2>1 DEF ThreadInv
    <3>5. k = "setupSurface" => x[1] # "dropRasterizer"
      BY <1>2, <2>1 DEF ThreadInv
    <3>. QED BY <1>10, <3>1, <3>3, <3>4, <3>5
  <2>2. ASSUME NEW s \in Runners PROVE Ok(q[s][1], q[s][2], c)'
    <3>1. CASE s = t
      BY <1>1, <1>6, <3>1 DEF Ok, Signalers
    <3>2. CASE s # t
      <4>. DEFINE k == p[s][1]
                  n == p[s][2]
      <4>1. Ok(k, n, c)
        BY DEF Facts, Local
      <4>2. k # x[1]
        BY <1>2, <1>3, <3>2 DEF ThreadInv, OnceTasks
      <4>3. k \notin Signalers
        <5>. SUFFICES ASSUME k \in Signalers PROVE FALSE
          OBVIOUS
        <5>1. Awaits(k, c)
          BY <4>1 DEF Ok
        <5>2. x[1] = "drain" /\ k = "teardown"
          BY <1>11, <4>2, <5>1
        <5>3. Left(p, "teardown") /\ Left(p, "drain")
          BY <5>2 DEF Left, Running
        <5>. QED BY <1>2, <5>3 DEF ThreadInv
      <4>4. k = "setupIo" => x[1] # "dropIoManager"
        BY <1>2, <1>12, <3>2 DEF ThreadInv, IoTasks
      <4>5. k = "setupSurface" \/ k = "draw" => x[1] # "dropRasterizer"
        BY <1>2, <1>13, <3>2 DEF ThreadInv, RasterTasks
      <4>6. Ok(k, n, c)'
        BY <1>10, <4>1, <4>3, <4>4, <4>5
      <4>. QED BY <1>6, <3>2, <4>6
    <3>. QED BY <3>1, <3>2
  <2>. QED BY <1>6, <2>1, <2>2 DEF Local
<1>15. SurfaceInv(q, c)'
  BY <1>3, <1>5, <1>6, SurfaceMoves
<1>16. Global(c)'
  <2>1. /\ During("viewCreated", 2, 2, c) \/ During("viewDestroyed", 2, 2, c)
           \/ (shellCall = "destroy" /\ c \in {2, 4, 6, 8, 10})
    <3>. HIDE DEF x
    <3>. QED BY <1>7 DEF Awaits, During
  <2>2. RasterGone(c)' => "rasterizer" \notin made
    BY <1>2, <1>8, <1>9 DEF Global
  <2>. QED BY <1>2, <1>5, <2>1, <2>2 DEF Global, During, Alive
<1>. QED BY <1>6, <1>14, <1>15, <1>16 DEF Facts

\* Thread t posts task k, on its way to the point y.
LEMMA PostMoves ==
    ASSUME NEW p \in [Runners -> Points], NEW c, Facts(p, c), NEW t \in Runners,
           NEW y, y \in {idle, p[t]} \/ (p[t] # idle /\ y # idle /\ y[1] = p[t][1]),
           NEW q, q = [p EXCEPT ![t] = y],
           NEW r \in Runners, NEW k \in TaskNames, tasks' = [tasks EXCEPT ![r] = Append(@, k)],
           UNCHANGED <<thread, made, signaled, callerVars>>,
           Fits(k, r), k \notin {"setupIo", "teardown"},
           k \in OnceTasks => ~ Left(p, k),
           k = "setupSurface" => ~ Left(p, "teardown") /\ ~ Left(p, "dropRasterizer") /\ viewed,
           k = "drain" => ~ Queued("teardown") /\ ~ Running(q, "teardown"),
           Ok(k, 1, c), Ok(y[1], y[2], c),
           p[t][1] = "setupIo" => y = p[t],
           p[t][1] = "teardown" /\ y # p[t] => "surface" \notin made /\ ~ Left(p, "setupSurface")
    PROVE  Facts(q, c)'
<1>1. /\ QueueInv' /\ \A j : Queued(j)' <=> Queued(j) \/ j = k
  <2>1. QueueInv /\ UNCHANGED thread
    BY DEF Facts
  <2>2. /\ k \in OnceTasks => ~ Queued(k)
        /\ k = "setupIo" => tasks["io"] = <<>>
        /\ k = "setupSurface" => ~ Queued("teardown") /\ ~ Queued("dropRasterizer")
    BY DEF Left
  <2>. QED BY <2>1, <2>2, Posts
<1>2. ThreadInv(q)' /\ Runs(p, q, t)
  <2>1. ThreadInv(p) /\ UNCHANGED thread
    BY DEF Facts
  <2>2. /\ k \in OnceTasks => ~ Running(p, k)
        /\ k = "setupSurface" => ~ Running(p, "teardown") /\ ~ Running(p, "dropRasterizer")
        /\ k = "setupIo" => p["io"] = idle
        /\ k = "teardown" => ~ Left(p, "drain")
    BY DEF Left
  <2>3. k = "drain" => ~ Queued("teardown") /\ ~ Running(q, "teardown")
    OBVIOUS
  <2>4. Gains(k)
    BY <1>1 DEF Gains
  <2>. QED BY <2>1, <2>2, <2>3, <2>4, ThreadPosts
<1>3. \A s \in Runners : q[s] = IF s = t THEN y ELSE p[s]
  OBVIOUS
<1>4. UNCHANGED <<shellCall, shellLife, viewed>>
  BY DEF callerVars
<1>5. \A j, n : Ok(j, n, c)' <=> Ok(j, n, c)
  BY <1>4 DEF Ok, During, Alive, IoGone, RasterGone, Awaits
<1>6. Local(q, c)'
  BY <1>1, <1>3, <1>5 DEF Local, Facts
<1>7. Global(c)' /\ Caller'
  BY <1>4 DEF Global, Caller, During, Alive, RasterGone, Facts
<1>8. IoPending(q, c)'
  <2>1. Left(p, "setupIo") => Left(q, "setupIo")'
    BY <1>1, <1>2 DEF Left, Running, Runs
  <2>. QED BY <1>4, <2>1 DEF IoPending, During, Facts
<1>9. SurfaceInv(q, c)'
  <2>1. k # "setupSurface" /\ ~ Left(p, "setupSurface") => ~ Left(q, "setupSurface")'
    BY <1>1, <1>2 DEF Left, Running, Runs
  <2>2. SurfaceInv(p, c)
    BY DEF Facts
  <2>3. CASE p[t][1] = "teardown" /\ y # p[t]
    <3>1. k # "setupSurface"
      BY <2>3 DEF Left, Running
    <3>. QED BY <1>4, <2>1, <2>3, <3>1 DEF SurfaceInv
  <2>4. CASE ~ (p[t][1] = "teardown" /\ y # p[t])
    <3>1. ASSUME NEW s \in Runners, p[s] \in {<<"teardown", 1>>, <<"teardown", 0>>}
          PROVE  q[s] = p[s]
      BY <1>3, <2>4, <3>1
    <3>. QED BY <1>1, <1>4, <2>1, <2>2, <3>1 DEF SurfaceInv
  <2>. QED BY <2>3, <2>4
<1>. QED BY <1>1, <1>2, <1>6, <1>7, <1>8, <1>9 DEF Facts

\* A task posts another, to a thread that is not its own.
LEMMA PostStep ==
    ASSUME NEW p \in [Runners -> Points], NEW c, Facts(p, c), NEW t \in Runners, p[t] # idle,
           RunRow(p[t]), NEW y, y = After(p[t]), NEW q, q = [p EXCEPT ![t] = y],
           NEW k, k = StepAt(p[t]).task, NEW r, r = StepAt(p[t]).runner,
           UNCHANGED <<thread, made, signaled, callerVars>>
    PROVE  /\ r \in Runners /\ k \in TaskNames /\ ~ RunsNow(t, r)
           /\ Sends(r, k) => Facts(q, c)'
<1>. DEFINE x == p[t]
<1>1. y = idle \/ (p[t] # idle /\ y # idle /\ y[1] = x[1])
  BY AfterShape
<1>2. Ok(x[1], x[2], c) /\ Global(c) /\ Caller /\ ThreadInv(p) /\ QueueInv /\ SurfaceInv(p, c)
  BY DEF Facts, Local
<1>3. \/ x = <<"teardown", 2>> /\ y = idle /\ r = "io" /\ k = "drain"
      \/ x[1] = "viewIo" /\ y = <<"viewIo", 3>> /\ r = "ui" /\ k = "scheduleFrame"
      \/ /\ x[1] = "viewIo" /\ y = <<"viewIo", 4>> /\ r = "raster" /\ k = "setupSurface"
         /\ ShouldPostRasterTask
  BY RowShape, Ops DEF RunRow, Row
<1>4. r \in Runners /\ k \in TaskNames
  BY <1>3 DEF Runners, TaskNames
<1>5. /\ x[1] = "teardown" => t \in {"raster", "platform"}
      /\ x[1] = "viewIo" => t = "io"
  BY <1>2 DEF ThreadInv, QueueInv, IoTasks, RasterTasks
<1>6. ~ RunsNow(t, r)
  <2>1. thread[r] # t
    BY <1>2, <1>3, <1>5 DEF QueueInv
  <2>2. "io" \in {thread[r], t}
    BY <1>2, <1>3, <1>5 DEF QueueInv
  <2>. QED BY <2>1, <2>2 DEF RunsNow
<1>7. /\ thread[r] \in Runners /\ Fits(k, thread[r])
  BY <1>2, <1>3 DEF QueueInv, Fits, IoTasks, RasterTasks, Runners, ShouldPostRasterTask
<1>8. x[1] \in Signalers /\ x[1] \in OnceTasks /\ Awaits(x[1], c) /\ ~ signaled
  BY <1>2, <1>3 DEF Ok, Signalers, OnceTasks
<1>9. ASSUME Sends(r, k) PROVE Facts(q, c)'
  <2>0. tasks' = [tasks EXCEPT ![thread[r]] = Append(@, k)]
    BY <1>9 DEF Sends
  <2>1. CASE x[1] = "teardown"
    <3>1. k = "drain" /\ y = idle /\ x = <<"teardown", 2>>
      BY <1>3, <2>1
    <3>2. Left(p, "teardown") /\ ~ Left(p, "drain") /\ ~ Queued("teardown")
      BY <1>2, <1>8, <2>1 DEF ThreadInv, Left, Running
    <3>3. ~ Running(q, "teardown")
      BY <1>2, <1>8, <2>1, <3>1 DEF Running, ThreadInv, idle
    <3>4. Ok(k, 1, c) /\ Ok(y[1], y[2], c)
      BY <1>8, <2>1, <3>1 DEF Ok, Signalers, Awaits, idle
    <3>5. "surface" \notin made /\ ~ Left(p, "setupSurface")
      <4>1. ~ viewed /\ c # 1
        BY <1>2, <1>8, <2>1 DEF Awaits, During, Caller
      <4>2. \A s \in Runners : p[s] \notin {<<"teardown", 1>>, <<"teardown", 0>>}
        <5>. SUFFICES ASSUME NEW s \in Runners, p[s][1] = "teardown" PROVE p[s] = <<"teardown", 2>>
          OBVIOUS
        <5>1. s = t
          BY <1>2, <1>8, <2>1 DEF ThreadInv
        <5>. QED BY <3>1, <5>1
      <4>. QED BY <1>2, <3>2, <4>1, <4>2 DEF SurfaceInv
    <3>6. p[t][1] # "setupIo" /\ k \notin {"setupIo", "teardown", "setupSurface"}
      BY <2>1, <3>1
    <3>. QED BY <1>1, <1>4, <1>7, <2>0, <3>1, <3>2, <3>3, <3>4, <3>5, <3>6, PostMoves
  <2>2. CASE x[1] = "viewIo"
    <3>1. During("viewCreated", 2, 2, c)
      BY <1>8, <2>2 DEF Awaits
    <3>2. k \in {"scheduleFrame", "setupSurface"} /\ y[1] = "viewIo" /\ y # idle
      BY <1>3, <2>2 DEF idle
    <3>3. ~ Left(p, "teardown") /\ ~ Left(p, "dropRasterizer")
      <4>1. ASSUME NEW j \in {"teardown", "dropRasterizer"}, Left(p, j) PROVE FALSE
        <5>1. \E n : Ok(j, n, c)
          BY <4>1 DEF Facts, Local, Left, Running, TaskNames
        <5>. QED BY <3>1, <5>1 DEF Ok, Signalers, Awaits, During
      <4>. QED BY <4>1
    <3>4. viewed /\ Alive /\ ~ RasterGone(c)
      BY <1>2, <3>1 DEF Caller, During, Calls, RasterGone, Alive
    <3>5. Ok(k, 1, c) /\ Ok(y[1], y[2], c)
      BY <1>8, <2>2, <3>2, <3>4 DEF Ok, Signalers
    <3>6. k \notin OnceTasks /\ k \notin {"setupIo", "teardown", "drain"} /\ p[t][1] \notin {"setupIo", "teardown"}
      BY <2>2, <3>2 DEF OnceTasks, SetupTasks, Signalers
    <3>. QED BY <1>1, <1>4, <1>7, <2>0, <3>3, <3>4, <3>5, <3>6, PostMoves
  <2>. QED BY <1>3, <2>1, <2>2
<1>. QED BY <1>4, <1>6, <1>9

\* The invariant: some points and a step of the call explain the state.
Explained == \E p, c : Control(p, c) /\ Facts(p, c)

LEMMA Explains ==
    ASSUME NEW p, NEW c, Control(p, c)', Facts(p, c)'
    PROVE  Explained'
BY DEF Explained

\* A thread takes a step of its task.
LEMMA TaskStep ==
    ASSUME NEW p, NEW c, Control(p, c), Facts(p, c), NEW t \in Runners, p[t] # idle, TakeStep(t),
           ~ dangled
    PROVE  Explained' /\ ~ dangled'
<1>1. /\ p \in [Runners -> Points] /\ p[t] \in Points
      /\ Head(steps[t]) = StepAt(p[t]) /\ After(p[t]) \in Points
  BY NextStep DEF Control
<1>2. PICK x : x = p[t]
  OBVIOUS
<1>3. PICK y : y = After(p[t])
  OBVIOUS
<1>4. PICK q : q = [p EXCEPT ![t] = y]
  OBVIOUS
<1>5. PICK s : s = StepAt(p[t])
  OBVIOUS
<1>6. \/ CallStep(t, s) \/ PartStep(t, s) \/ SignalStep(t, s) \/ MergeStep(t, s) \/ ReturnStep(t, s)
  BY <1>1, <1>5 DEF TakeStep
<1>7. Continue(t, <<>>) /\ UNCHANGED <<hostVars, shellCall>> => Control(q, c)'
  BY <1>3, <1>4, Advances
<1>8. \/ s.op = "use" /\ UseRow(p[t])
      \/ s.op = "get" /\ GetRow(p[t])
      \/ s.op = "make" /\ MakeRow(p[t])
      \/ s.op = "drop" /\ DropRow(p[t])
      \/ s.op = "if" /\ IfRow(p[t])
      \/ s.op = "run" /\ RunRow(p[t])
      \/ s.op = "signal" /\ SignalRow(p[t])
      \/ s.op = "merge" /\ MergeRow(p[t])
  BY <1>1, <1>5, Kinds
<1>9. /\ UNCHANGED hostVars => UNCHANGED thread
      /\ UNCHANGED callerVars => UNCHANGED shellCall
  BY DEF hostVars, callerVars
<1>10. CASE CallStep(t, s)
  <2>1. UNCHANGED <<hostVars, thread, made, signaled, callerVars, shellCall, dangled>>
    BY <1>9, <1>10 DEF CallStep
  <2>2. CASE s.op = "run"
    <3>1. RunRow(p[t])
      BY <1>8, <2>2
    <3>2. PICK k : k = StepAt(p[t]).task
      OBVIOUS
    <3>3. PICK r : r = StepAt(p[t]).runner
      OBVIOUS
    <3>4. UNCHANGED <<thread, made, signaled, callerVars>>
      BY <2>1
    <3>5. ~ RunsNow(t, r) /\ (Sends(r, k) => Facts(q, c)')
      BY <1>1, <1>3, <1>4, <3>1, <3>2, <3>3, <3>4, PostStep
    <3>6. Continue(t, <<>>) /\ Sends(r, k)
      BY <1>5, <1>10, <2>2, <3>2, <3>3, <3>5 DEF CallStep, Sends
    <3>. QED BY <1>7, <2>1, <3>5, <3>6, Explains
  <2>3. CASE s.op = "if"
    <3>1. IfRow(p[t]) /\ UNCHANGED tasks /\ Continue(t, IF s.part \in made THEN s.then ELSE <<>>)
      BY <1>8, <1>10, <2>3 DEF CallStep
    <3>2. UNCHANGED <<thread, tasks, made, signaled, callerVars>>
      BY <2>1, <3>1
    <3>3. CASE s.part \notin made \/ s.then = <<>>
      <4>1. Facts(q, c)'
        BY <1>1, <1>3, <1>4, <1>5, <3>1, <3>2, <3>3, BranchSkipped
      <4>2. Continue(t, <<>>)
        BY <3>1, <3>3
      <4>. QED BY <1>7, <2>1, <4>1, <4>2, Explains
    <3>4. CASE s.part \in made /\ s.then # <<>>
      <4>1. PICK k \in Branching : p[t] = <<k, 1>> /\ s.then = <<BranchStep(k)>>
        <5>1. PICK k, z : /\ k \in Branching /\ Row(p[t], k, 1, StepAt(p[t]), z)
                          /\ StepAt(p[t]).then # <<>> => StepAt(p[t]).then = <<BranchStep(k)>>
          <6>1. CASE Row(p[t], "runEngine", 1, If("engine", IF mergeLaunch THEN <<MergeUi>> ELSE <<>>), idle)
            BY <6>1, Ops DEF Row, Branching, BranchStep
          <6>2. CASE Row(p[t], "setupSurface", 1, If("rasterizer", <<Make({"surface"})>>), <<"setupSurface", 2>>)
            BY <6>2, Ops DEF Row, Branching, BranchStep
          <6>3. CASE Row(p[t], "teardown", 1, If("rasterizer", <<Drop({"surface"})>>), <<"teardown", 2>>)
            BY <6>3, Ops DEF Row, Branching, BranchStep
          <6>4. CASE Row(p[t], "draw", 1, If("rasterizer", <<Use({"shell"})>>), idle)
            BY <6>4, Ops DEF Row, Branching, BranchStep
          <6>. QED BY <3>1, <6>1, <6>2, <6>3, <6>4 DEF IfRow
        <5>. QED BY <1>5, <3>4, <5>1 DEF Row
      <4>2. PICK z : z = <<p[t][1], 0>>
        OBVIOUS
      <4>3. PICK u : u = [p EXCEPT ![t] = z]
        OBVIOUS
      <4>4. Facts(u, c)'
        BY <1>1, <1>5, <3>1, <3>2, <3>4, <4>2, <4>3, BranchTaken
      <4>5. Continue(t, <<BranchStep(k)>>)
        BY <3>1, <3>4, <4>1
      <4>6. z = <<k, 0>>
        BY <4>1, <4>2
      <4>7. Control([p EXCEPT ![t] = <<k, 0>>], c)'
        BY <2>1, <4>1, <4>5, Branches
      <4>8. Control(u, c)'
        BY <4>3, <4>6, <4>7
      <4>. QED BY <2>1, <4>4, <4>8, Explains
    <3>. QED BY <3>3, <3>4
  <2>. QED BY <1>10, <2>2, <2>3 DEF CallStep
<1>11. CASE PartStep(t, s)
  <2>1. UNCHANGED <<hostVars, thread, tasks, signaled, callerVars, shellCall>> /\ Continue(t, <<>>)
    BY <1>9, <1>11 DEF PartStep
  <2>2. UNCHANGED <<thread, tasks, signaled, callerVars>>
    BY <2>1
  <2>3. CASE s.op = "use" \/ s.op = "get"
    <3>1. UNCHANGED made /\ (s.op = "get" => s.parts \subseteq made)
      BY <1>11, <2>3 DEF PartStep
    <3>2. UseRow(p[t]) \/ (GetRow(p[t]) /\ StepAt(p[t]).parts \subseteq made)
      BY <1>5, <1>8, <2>3, <3>1
    <3>3. UNCHANGED <<thread, tasks, made, signaled, callerVars>>
      BY <2>2, <3>1
    <3>4. Facts(q, c)'
      BY <1>1, <1>3, <1>4, <3>2, <3>3, QuietStep
    <3>5. s.op = "use" => s.parts \subseteq made
      BY <1>5, <1>8, UseFinds
    <3>6. ~ dangled'
      BY <1>11, <3>5 DEF PartStep
    <3>. QED BY <1>7, <2>1, <3>4, <3>6, Explains
  <2>4. CASE s.op = "make"
    <3>1. made' = made \cup s.parts /\ ~ dangled'
      BY <1>11, <2>4 DEF PartStep
    <3>2. Facts(q, c)'
      BY <1>1, <1>3, <1>4, <1>5, <1>8, <2>2, <2>4, <3>1, MakeStep
    <3>. QED BY <1>7, <2>1, <3>1, <3>2, Explains
  <2>5. CASE s.op = "drop"
    <3>1. made' = made \ s.parts /\ ~ dangled'
      BY <1>11, <2>5 DEF PartStep
    <3>2. Facts(q, c)'
      BY <1>1, <1>3, <1>4, <1>5, <1>8, <2>2, <2>5, <3>1, DropStep
    <3>. QED BY <1>7, <2>1, <3>1, <3>2, Explains
  <2>. QED BY <1>11, <2>3, <2>4, <2>5 DEF PartStep
<1>12. CASE SignalStep(t, s)
  <2>1. s.op = "signal"
    BY <1>8, <1>12 DEF SignalStep
  <2>2. /\ signaled' = TRUE /\ Continue(t, <<>>)
        /\ UNCHANGED <<hostVars, thread, tasks, made, callerVars, shellCall, dangled>>
    BY <1>9, <1>12, <2>1 DEF SignalStep
  <2>3. UNCHANGED <<thread, tasks, made, callerVars>>
    BY <2>2
  <2>4. Facts(q, c)'
    BY <1>1, <1>3, <1>4, <1>8, <2>1, <2>2, <2>3, SignalOk
  <2>. QED BY <1>7, <2>2, <2>4, Explains
<1>13. CASE MergeStep(t, s)
  <2>1. MergeRow(p[t])
    BY <1>8, <1>13 DEF MergeStep
  <2>2. /\ Continue(t, <<>>)
        /\ UNCHANGED <<hostVars, thread, tasks, made, signaled, callerVars, shellCall, dangled>>
    BY <1>9, <1>13 DEF MergeStep
  <2>3. UNCHANGED <<thread, tasks, made, signaled, callerVars>>
    BY <2>2
  <2>4. Facts(q, c)'
    BY <1>1, <1>3, <1>4, <2>1, <2>3, QuietStep
  <2>. QED BY <1>7, <2>2, <2>4, Explains
<1>14. ~ ReturnStep(t, s)
  BY <1>8 DEF ReturnStep
<1>. QED BY <1>6, <1>10, <1>11, <1>12, <1>13, <1>14

\* A thread takes a task.
LEMMA TakeTask ==
    ASSUME NEW p, NEW c, Control(p, c), Facts(p, c), NEW t \in Runners, TakeShellTask(t),
           ~ dangled
    PROVE  Explained' /\ ~ dangled'
<1>1. PICK r \in Serves(t) :
          /\ tasks[r] # <<>>
          /\ steps' = [steps EXCEPT ![t] = Body(Head(tasks[r]))]
          /\ tasks' = [tasks EXCEPT ![r] = Tail(@)]
  BY DEF TakeShellTask
<1>2. /\ steps[t] = <<>>
      /\ UNCHANGED <<hostVars, thread, made, signaled, callerVars, shellCall, shellLife, viewed, dangled>>
  BY DEF TakeShellTask, hostVars, callerVars
<1>3. p \in [Runners -> Points] /\ p[t] = idle
  BY <1>2, NextStep DEF Control
<1>4. PICK k : k = Head(tasks[r])
  OBVIOUS
<1>5. PICK y : y = Start(k)
  OBVIOUS
<1>6. PICK q : q = [p EXCEPT ![t] = y]
  OBVIOUS
<1>7. /\ QueueInv' /\ ThreadInv(q)' /\ k \in TaskNames /\ Queued(k)
      /\ \A j : Queued(j)' => Queued(j)
      /\ \A j : j # k => (Queued(j)' <=> Queued(j))
      /\ \A j : j \notin {"idle", k} => (Running(q, j) <=> Running(p, j))
      /\ k # "scheduleFrame" => Running(q, k) /\ y = <<k, 1>>
      /\ k = "scheduleFrame" => y = idle
  <2>1. QueueInv /\ ThreadInv(p) /\ UNCHANGED thread
    BY <1>2 DEF Facts
  <2>2. /\ QueueInv' /\ ThreadInv(q)' /\ k \in TaskNames /\ Queued(k)
        /\ Loses(p, q, k, y)
    <3>1. tasks[r] # <<>> /\ tasks' = [tasks EXCEPT ![r] = Tail(@)]
      BY <1>1
    <3>. QED BY <1>3, <1>4, <1>5, <1>6, <2>1, <3>1, ThreadTakes
  <2>. QED BY <2>2 DEF Loses
<1>8. Control(q, c)'
  <2>1. steps' = [steps EXCEPT ![t] = Body(k)] /\ UNCHANGED <<hostVars, shellCall>>
    BY <1>1, <1>2, <1>4
  <2>. QED BY <1>2, <1>5, <1>6, <1>7, <2>1, Takes
<1>9. \A s \in Runners : q[s] = IF s = t THEN y ELSE p[s]
  BY <1>3, <1>6
<1>10. \A j, n : Ok(j, n, c)' <=> Ok(j, n, c)
  BY <1>2 DEF Ok, During, Alive, IoGone, RasterGone, Awaits
<1>11. Ok(y[1], y[2], c)
  <2>1. Ok(k, 1, c)
    BY <1>7 DEF Facts, Local
  <2>2. Ok("idle", 1, c)
    BY DEF Ok, Signalers
  <2>. QED BY <1>7, <2>1, <2>2 DEF idle
<1>12. Local(q, c)'
  BY <1>7, <1>9, <1>10, <1>11 DEF Local, Facts
<1>13. Global(c)' /\ Caller'
  BY <1>2 DEF Global, Caller, During, Alive, RasterGone, Facts
<1>14. IoPending(q, c)'
  <2>1. Left(p, "setupIo") => Queued("setupIo")' \/ Running(q, "setupIo")
    BY <1>7 DEF Left
  <2>2. Left(p, "setupIo") => Left(q, "setupIo")'
    BY <2>1 DEF Left, Running
  <2>. QED BY <1>2, <2>2 DEF IoPending, During, Facts
<1>15. SurfaceInv(q, c)'
  <2>1. ~ Left(p, "setupSurface") => ~ Queued("setupSurface")' /\ ~ Running(q, "setupSurface")
    BY <1>7 DEF Left
  <2>2. ~ Left(p, "setupSurface") => ~ Left(q, "setupSurface")'
    BY <2>1 DEF Left, Running
  <2>3. Queued("teardown") => Queued("teardown")' \/ q[t] = <<"teardown", 1>>
    BY <1>7, <1>9
  <2>4. \A s \in Runners : p[s] \in {<<"teardown", 1>>, <<"teardown", 0>>} => q[s] = p[s]
    BY <1>3, <1>9 DEF idle
  <2>5. SurfaceInv(p, c)
    BY DEF Facts
  <2>. QED BY <1>2, <2>2, <2>3, <2>4, <2>5 DEF SurfaceInv
<1>16. Facts(q, c)'
  BY <1>7, <1>12, <1>13, <1>14, <1>15 DEF Facts
<1>. QED BY <1>2, <1>8, <1>16, Explains

\* The UI thread posts a Draw task.
LEMMA DrawStep ==
    ASSUME NEW p, NEW c, Control(p, c), Facts(p, c), DrawFrame, ~ dangled
    PROVE  Explained' /\ ~ dangled'
<1>1. /\ "engine" \in made
      /\ tasks' = [tasks EXCEPT ![thread["raster"]] = Append(@, "draw")]
      /\ UNCHANGED <<hostVars, thread, steps, made, signaled, callerVars, shellCall, shellLife, viewed, dangled>>
  BY DEF DrawFrame, hostVars, callerVars
<1>2. p \in [Runners -> Points] /\ QueueInv /\ "platform" \in Runners
  BY DEF Control, Facts, Runners
<1>3. PICK r \in Runners : r = thread["raster"]
  BY <1>2 DEF QueueInv, Runners
<1>4. PICK y : y = p["platform"]
  OBVIOUS
<1>5. PICK q : q = [p EXCEPT !["platform"] = y]
  OBVIOUS
<1>6. q = p
  BY <1>2, <1>4, <1>5
<1>7. Fits("draw", r)
  BY <1>2, <1>3 DEF Fits, QueueInv, IoTasks, RasterTasks
<1>8. "draw" \in TaskNames /\ "draw" \notin OnceTasks /\ "draw" \notin {"setupIo", "teardown"}
  BY DEF TaskNames, OnceTasks, SetupTasks, Signalers
<1>9. Ok("draw", 1, c) /\ Ok(y[1], y[2], c)
  <2>1. Ok("draw", 1, c)
    BY DEF Ok, Signalers
  <2>. QED BY <1>2, <1>4, <2>1 DEF Facts, Local
<1>10. tasks' = [tasks EXCEPT ![r] = Append(@, "draw")] /\ UNCHANGED <<thread, made, signaled, callerVars>>
  BY <1>1, <1>3
<1>11. y \in {idle, p["platform"]}
  BY <1>4
<1>12. Facts(q, c)'
  <2>1. PICK k : k = "draw"
    OBVIOUS
  <2>. QED BY <1>2, <1>4, <1>5, <1>7, <1>8, <1>9, <1>10, <1>11, <2>1, PostMoves
<1>13. Control(p, c)'
  <2>1. /\ \A x \in Points : Rest(x)' = Rest(x)
        /\ Points' = Points
        /\ \A name \in Calls : CallBody(name)' = CallBody(name)
    BY <1>1, CodeStays
  <2>2. \A s \in Runners : CallRest(s, c)' = CallRest(s, c)
    BY <1>1, <2>1 DEF CallRest, From, Control
  <2>3. steps' = [s \in Runners |-> Rest(p[s])' \o CallRest(s, c)']
    BY <1>1, <1>2, <2>1, <2>2 DEF Control
  <2>4. (shellCall # "none" => c \in 1 .. Len(CallBody(shellCall)))'
    BY <1>1, <2>1 DEF Control
  <2>. QED BY <1>1, <1>2, <2>1, <2>3, <2>4 DEF Control
<1>. QED BY <1>1, <1>6, <1>12, <1>13, Explains

-----------------------------------------------------------------------------
(* The calls *)

\* A call of the platform thread begins.
LEMMA CallStarts ==
    ASSUME NEW p, NEW c, Control(p, c), Facts(p, c), NEW name \in Calls,
           BeginCall(name, CallBody(name)), Len(CallBody(name)) >= 1, ~ dangled,
           shellLife' = shellLife \/ (Alive /\ Alive'), Caller',
           viewed' = viewed \/ viewed' \/ name = "viewDestroyed"
    PROVE  Explained' /\ ~ dangled'
<1>1. /\ shellCall = "none" /\ shellCall' = name /\ name # "none"
      /\ UNCHANGED <<thread, tasks, made, signaled, dangled>>
  BY DEF BeginCall, Calls, hostVars
<1>2. Control(p, 1)'
  BY CallBegins
<1>3. /\ Caller /\ QueueInv /\ ThreadInv(p) /\ Global(c) /\ IoPending(p, c)
      /\ Local(p, c) /\ SurfaceInv(p, c)
  BY DEF Facts
<1>4. QueueInv' /\ \A k : Queued(k)' <=> Queued(k)
  BY <1>1, <1>3, QueuesStay
<1>5. ThreadInv(p)' /\ \A k : Left(p, k)' <=> Left(p, k)
  <2>1. \A k : Left(p, k)' <=> Left(p, k)
    BY <1>4 DEF Left, Running
  <2>. QED BY <1>1, <1>3, <1>4, <2>1 DEF ThreadInv
<1>6. /\ Alive' <=> Alive
      /\ shellLife' = "none" <=> shellLife = "none"
      /\ shellLife' = "gone" <=> shellLife = "gone"
  BY DEF Alive
<1>7. \A lo, hi, i, call : ~ During(call, lo, hi, i) \/ call = "none"
  BY <1>1 DEF During
<1>8. ~ signaled
  BY <1>1, <1>3 DEF Global, During
<1>9. ~ (1 \in 2 .. 2) /\ \A lo \in 2 .. 13, hi \in 1 .. 13 : ~ During(name, lo, hi, 1)'
  BY DEF During
<1>10. Alive => ~ IoGone(1)' /\ ~ RasterGone(1)'
  BY <1>6 DEF IoGone, RasterGone, During, Alive
<1>11. \A k, n : Ok(k, n, c) => Ok(k, n, 1)'
  <2>. TAKE k, n
  <2>. HAVE Ok(k, n, c)
  <2>1. k \notin {"setupGpu", "setupUi", "thenSurface"}
    BY <1>1 DEF Ok, During
  <2>2. k \notin Signalers
    BY <1>1 DEF Ok, During, Awaits
  <2>3. k = "impellerContext" => Alive' /\ "impellerContext" \notin made'
    BY <1>1, <1>6 DEF Ok, During
  <2>4. k = "setupIo" => Alive' /\ n \notin {1, 2} /\ (n = 4 => "impellerContext" \in made') /\ ~ IoGone(1)'
    BY <1>1, <1>6, <1>10 DEF Ok, During
  <2>5. k = "setupSurface" => Alive' /\ ~ RasterGone(1)'
    BY <1>6, <1>10 DEF Ok
  <2>6. k = "draw" /\ n = 0 => Alive' /\ ~ RasterGone(1)'
    BY <1>1, <1>6, <1>10 DEF Ok, During
  <2>7. k = "dropRasterizer" => k \in Signalers
    BY DEF Signalers
  <2>. QED BY <2>1, <2>2, <2>3, <2>4, <2>5, <2>6, <2>7 DEF Ok
<1>12. Local(p, 1)'
  BY <1>3, <1>4, <1>11 DEF Local
<1>13. Global(1)'
  <2>1. /\ "rasterizer" \in made => shellLife # "none"
        /\ "engine" \in made => shellLife # "none"
        /\ "ioManager" \in made => shellLife # "none"
        /\ "impellerContext" \in made => shellLife # "none"
        /\ Alive => /\ "shell" \in made /\ "platformView" \in made /\ "engine" \in made
                    /\ "rasterizer" \in made /\ "ioManager" \in made
        /\ shellLife = "gone" => "rasterizer" \notin made
    BY <1>1, <1>3 DEF Global, During, RasterGone
  <2>2. name \in Calls \ {"create"} => Alive'
    BY <1>1 DEF Caller
  <2>3. RasterGone(1)' => "rasterizer" \notin made'
    BY <1>1, <1>6, <2>1 DEF RasterGone, During
  <2>4. ~ signaled'
    BY <1>1, <1>8
  <2>. QED BY <1>1, <1>6, <2>1, <2>2, <2>3, <2>4 DEF Global, During, Calls
<1>14. IoPending(p, 1)'
  BY <1>1, <1>3, <1>5, <1>6 DEF IoPending, During
<1>15. SurfaceInv(p, 1)'
  BY <1>1, <1>3, <1>5 DEF SurfaceInv
<1>16. Facts(p, 1)'
  BY <1>4, <1>5, <1>12, <1>13, <1>14, <1>15 DEF Facts
<1>. QED BY <1>1, <1>2, <1>16, Explains

\* Any call does.
LEMMA CallBeginsOk ==
    ASSUME Explained, ~ dangled,
           Create \/ Launch \/ CreateView \/ DestroyView \/ Destroy
    PROVE  Explained' /\ ~ dangled'
<1>1. PICK p, c : Control(p, c) /\ Facts(p, c)
  BY DEF Explained
<1>2. Caller
  BY <1>1 DEF Facts
<1>3. CASE Create
  <2>1. CallBody("create") = CreateShellOnPlatformThread /\ "create" \in Calls
    BY DEF CallBody, Calls
  <2>2. Len(CallBody("create")) >= 1
    BY <2>1 DEF CreateShellOnPlatformThread
  <2>3. BeginCall("create", CallBody("create")) /\ UNCHANGED <<shellLife, viewed>> /\ shellCall' = "create"
    BY <1>3, <2>1 DEF Create, BeginCall
  <2>4. Caller'
    BY <1>2, <1>3, <2>3 DEF Caller, Create, Calls, Alive
  <2>. QED BY <1>1, <2>1, <2>2, <2>3, <2>4, CallStarts
<1>4. CASE Launch
  <2>1. CallBody("run") = <<Run("ui", "runEngine"), Return>> /\ "run" \in Calls
    BY DEF CallBody, Calls
  <2>2. Len(CallBody("run")) >= 1
    BY <2>1
  <2>3. BeginCall("run", CallBody("run")) /\ UNCHANGED viewed /\ shellCall' = "run"
    BY <1>4, <2>1 DEF Launch, BeginCall
  <2>4. Caller' /\ Alive /\ Alive'
    BY <1>2, <1>4, <2>3 DEF Caller, Launch, Calls, Alive
  <2>. QED BY <1>1, <2>1, <2>2, <2>3, <2>4, CallStarts
<1>5. CASE CreateView
  <2>1. CallBody("viewCreated") = OnPlatformViewCreated /\ "viewCreated" \in Calls
    BY DEF CallBody, Calls
  <2>2. Len(CallBody("viewCreated")) >= 1
    BY <2>1 DEF OnPlatformViewCreated, SetupSurface
  <2>3. BeginCall("viewCreated", CallBody("viewCreated")) /\ UNCHANGED shellLife /\ viewed' /\ shellCall' = "viewCreated"
    BY <1>5, <2>1 DEF CreateView, BeginCall
  <2>4. Caller'
    BY <1>2, <1>5, <2>3 DEF Caller, CreateView, Calls, Alive
  <2>. QED BY <1>1, <2>1, <2>2, <2>3, <2>4, CallStarts
<1>6. CASE DestroyView
  <2>1. CallBody("viewDestroyed") = OnPlatformViewDestroyed /\ "viewDestroyed" \in Calls
    BY DEF CallBody, Calls
  <2>2. Len(CallBody("viewDestroyed")) >= 1
    BY <2>1 DEF OnPlatformViewDestroyed
  <2>3. BeginCall("viewDestroyed", CallBody("viewDestroyed")) /\ UNCHANGED shellLife /\ ~ viewed' /\ shellCall' = "viewDestroyed"
    BY <1>6, <2>1 DEF DestroyView, BeginCall
  <2>4. Caller'
    BY <1>2, <1>6, <2>3 DEF Caller, DestroyView, Calls, Alive
  <2>. QED BY <1>1, <2>1, <2>2, <2>3, <2>4, CallStarts
<1>7. CASE Destroy
  <2>1. CallBody("destroy") = ShellDestructor /\ "destroy" \in Calls
    BY DEF CallBody, Calls
  <2>2. Len(CallBody("destroy")) >= 1
    <3>1. Len(ShellDestructor) = 13
      BY DEF ShellDestructor
    <3>. QED BY <2>1, <3>1
  <2>3. BeginCall("destroy", CallBody("destroy")) /\ UNCHANGED <<shellLife, viewed>> /\ shellCall' = "destroy"
    BY <1>7, <2>1 DEF Destroy, BeginCall
  <2>4. Caller'
    BY <1>2, <1>7, <2>3 DEF Caller, Destroy, Calls, Alive
  <2>. QED BY <1>1, <2>1, <2>2, <2>3, <2>4, CallStarts
<1>. QED BY <1>3, <1>4, <1>5, <1>6, <1>7

\* The calls run these tasks.
CallRun(c, r, k) ==
    \/ shellCall = "create" /\ c = 2 /\ r = "raster" /\ k = "setupGpu"
    \/ shellCall = "create" /\ c = 3 /\ r = "raster" /\ k = "impellerContext"
    \/ shellCall = "create" /\ c = 4 /\ r = "io" /\ k = "setupIo"
    \/ shellCall = "create" /\ c = 5 /\ r = "ui" /\ k = "setupUi"
    \/ shellCall = "run" /\ c = 1 /\ r = "ui" /\ k = "runEngine"
    \/ shellCall = "viewCreated" /\ c = 1 /\ r = "io" /\ k = "viewIo"
    \/ shellCall = "viewDestroyed" /\ c = 1 /\ r = "raster" /\ k = "teardown"
    \/ shellCall = "destroy" /\ c = 1 /\ r = "platform" /\ k = "shutdownIsolates"
    \/ shellCall = "destroy" /\ c = 3 /\ r = "ui" /\ k = "dropEngine"
    \/ shellCall = "destroy" /\ c = 5 /\ r = "raster" /\ k = "dropRasterizer"
    \/ shellCall = "destroy" /\ c = 7 /\ r = "io" /\ k = "dropIoManager"
    \/ shellCall = "destroy" /\ c = 9 /\ r = "platform" /\ k = "dropView"

CallWait(c) ==
    \/ shellCall \in {"viewCreated", "viewDestroyed"} /\ c = 2
    \/ shellCall = "destroy" /\ c \in {2, 4, 6, 8, 10}

CallLast(c) ==
    \/ shellCall = "create" /\ c = 10
    \/ shellCall = "run" /\ c = 2
    \/ shellCall = "viewCreated" /\ c \in {3, 5}
    \/ shellCall = "viewDestroyed" /\ c = 3
    \/ shellCall = "destroy" /\ c = 13

\* They get what others make, and make, use and drop parts of their own.
CallGet(c, S) ==
    \/ shellCall = "create" /\ c = 6 /\ S = {"engine"}
    \/ shellCall = "create" /\ c = 7 /\ S = {"rasterizer"}
    \/ shellCall = "create" /\ c = 8 /\ S = {"ioManager"}

CallMake(c, S) == shellCall = "create" /\ c = 1 /\ S = {"shell", "platformView", "locals"}

CallDrop(c, S) ==
    \/ shellCall = "create" /\ c = 9 /\ S = {"locals"}
    \/ shellCall = "destroy" /\ c = 12 /\ S = {"shell"}

\* The steps of the calls, by their op.
CallKind(c, s) ==
    \/ s.op = "run" /\ CallRun(c, s.runner, s.task)
    \/ s.op = "get" /\ CallGet(c, s.parts)
    \/ s.op = "make" /\ CallMake(c, s.parts)
    \/ s.op = "drop" /\ CallDrop(c, s.parts)
    \/ s.op = "use" /\ shellCall = "viewCreated" /\ c = 4 /\ s.parts = {"shell"}
    \/ s.op = "if" /\ shellCall = "viewCreated" /\ c = 3 /\ s.then = <<Make({"surface"})>>
    \/ s.op = "wait" /\ CallWait(c)
    \/ s.op = "unmerge" /\ shellCall = "destroy" /\ c = 11
    \/ s.op = "return" /\ CallLast(c)

LEMMA CallKinds ==
    ASSUME NEW p, NEW c, Control(p, c), shellCall # "none", NEW s, s = CallBody(shellCall)[c]
    PROVE  /\ CallKind(c, s)
           /\ s.op # "return" => c + 1 \in 1 .. Len(CallBody(shellCall))
           /\ s.op = "return" => c = Len(CallBody(shellCall))
<1>1. shellCall \in Calls /\ c \in 1 .. Len(CallBody(shellCall)) /\ Len(CallBody(shellCall)) \in Nat
  BY CallIsSeq, LenProperties DEF Control
<1>2. \A i, u, last : CallRow(c, i, u, last) => c = i /\ s = u /\ (c = Len(CallBody(shellCall)) <=> last)
  BY DEF CallRow
<1>3. ASSUME NEW i, NEW u, NEW last \in BOOLEAN, CallRow(c, i, u, last), u.op = "return" <=> last
      PROVE  /\ s.op # "return" => c + 1 \in 1 .. Len(CallBody(shellCall))
             /\ s.op = "return" => c = Len(CallBody(shellCall))
  <2>1. s = u /\ (c = Len(CallBody(shellCall)) <=> last)
    BY <1>2, <1>3
  <2>. QED BY <1>1, <1>3, <2>1
<1>4. \E i, u : \E last \in BOOLEAN : CallRow(c, i, u, last) /\ (u.op = "return" <=> last)
  <2>1. CASE shellCall = "create"
    BY <2>1, CallRows, Ops DEF CreateRow
  <2>2. CASE shellCall = "run"
    BY <2>2, CallRows, Ops DEF LaunchRow
  <2>3. CASE shellCall = "viewCreated"
    BY <2>3, CallRows, Ops DEF PostViewRow, NowViewRow
  <2>4. CASE shellCall = "viewDestroyed"
    BY <2>4, CallRows, Ops DEF UnviewRow
  <2>5. CASE shellCall = "destroy"
    BY <2>5, CallRows, Ops DEF DestroyRow
  <2>. QED BY <1>1, <2>1, <2>2, <2>3, <2>4, <2>5 DEF Calls
<1>5. CallKind(c, s)
  <2>1. CASE shellCall = "create"
    <3>1. CreateRow(c)
      BY <2>1, CallRows
    <3>2. \/ c = 1 /\ s = Make({"shell", "platformView", "locals"})
          \/ c = 2 /\ s = Run("raster", "setupGpu")
          \/ c = 3 /\ s = Run("raster", "impellerContext")
          \/ c = 4 /\ s = Run("io", "setupIo")
          \/ c = 5 /\ s = Run("ui", "setupUi")
          \/ c = 6 /\ s = Get("engine")
          \/ c = 7 /\ s = Get("rasterizer")
          \/ c = 8 /\ s = Get("ioManager")
          \/ c = 9 /\ s = Drop({"locals"})
          \/ c = 10 /\ s = Return
      BY <3>1 DEF CreateRow, CallRow
    <3>. QED BY <2>1, <3>2, Ops DEF CallKind, CallRun, CallGet, CallMake, CallDrop, CallLast
  <2>2. CASE shellCall = "run"
    <3>1. LaunchRow(c)
      BY <2>2, CallRows
    <3>2. \/ c = 1 /\ s = Run("ui", "runEngine")
          \/ c = 2 /\ s = Return
      BY <3>1 DEF LaunchRow, CallRow
    <3>. QED BY <2>2, <3>2, Ops DEF CallKind, CallRun, CallLast
  <2>3. CASE shellCall = "viewCreated"
    <3>1. PostViewRow(c) \/ NowViewRow(c)
      BY <2>3, CallRows
    <3>2. \/ c = 1 /\ s = Run("io", "viewIo")
          \/ c = 2 /\ s = Wait
          \/ c = 3 /\ s = If("rasterizer", <<Make({"surface"})>>)
          \/ c = 4 /\ s = Use({"shell"})
          \/ c = 5 /\ s = Return
          \/ c = 3 /\ s = Return
      BY <3>1 DEF PostViewRow, NowViewRow, CallRow
    <3>. QED BY <2>3, <3>2, Ops DEF CallKind, CallRun, CallWait, CallLast
  <2>4. CASE shellCall = "viewDestroyed"
    <3>1. UnviewRow(c)
      BY <2>4, CallRows
    <3>2. \/ c = 1 /\ s = Run("raster", "teardown")
          \/ c = 2 /\ s = Wait
          \/ c = 3 /\ s = Return
      BY <3>1 DEF UnviewRow, CallRow
    <3>. QED BY <2>4, <3>2, Ops DEF CallKind, CallRun, CallWait, CallLast
  <2>5. CASE shellCall = "destroy"
    <3>1. DestroyRow(c)
      BY <2>5, CallRows
    <3>2. \/ c = 1 /\ s = Run("platform", "shutdownIsolates")
          \/ c = 2 /\ s = Wait
          \/ c = 3 /\ s = Run("ui", "dropEngine")
          \/ c = 4 /\ s = Wait
          \/ c = 5 /\ s = Run("raster", "dropRasterizer")
          \/ c = 6 /\ s = Wait
          \/ c = 7 /\ s = Run("io", "dropIoManager")
          \/ c = 8 /\ s = Wait
          \/ c = 9 /\ s = Run("platform", "dropView")
          \/ c = 10 /\ s = Wait
          \/ c = 11 /\ s = UnmergeUi
          \/ c = 12 /\ s = Drop({"shell"})
          \/ c = 13 /\ s = Return
      BY <3>1 DEF DestroyRow, CallRow
    <3>. QED BY <2>5, <3>2, Ops DEF CallKind, CallRun, CallWait, CallDrop, CallLast
  <2>. QED BY <1>1, <2>1, <2>2, <2>3, <2>4, <2>5 DEF Calls
<1>. QED BY <1>3, <1>4, <1>5

\* What tasks rely on stays as the call goes on.
Passes(c, d) == \A j, n : j # "thenSurface" /\ Ok(j, n, c) => Ok(j, n, d)'

LEMMA RunPasses ==
    ASSUME NEW c, NEW r, NEW k, CallRun(c, r, k), NEW d, d = c + 1, Caller, Global(c),
           UNCHANGED <<callerVars, made, signaled>>
    PROVE  /\ Passes(c, d) /\ Global(d)'
           /\ Ok(k, 1, d)' /\ \A n : ~ Ok(k, n, c) \/ k = "runEngine"
           /\ IoTasks \cap {j \in TaskNames : \E n : Ok(j, n, c)} \subseteq {"setupIo"}
<1>1. /\ UNCHANGED <<shellCall, shellLife, viewed, made, signaled>>
      /\ c \in {1, 2, 3, 4, 5, 7, 9} /\ d \in {2, 3, 4, 5, 6, 8, 10}
  BY DEF callerVars, CallRun
<1>2. ~ signaled
  BY DEF Global, CallRun, During
<1>3. \A j : ~ Awaits(j, c)
  BY DEF CallRun, Awaits, During
<1>4. /\ Alive' <=> Alive
      /\ ~ RasterGone(c) /\ ~ IoGone(c) => ~ IoGone(d)'
      /\ ~ RasterGone(c) => ~ RasterGone(d)'
      /\ ~ IoGone(c) => ~ IoGone(d)'
  BY <1>1, <1>2 DEF Alive, RasterGone, IoGone, During, CallRun
<1>5. /\ During("create", 3, 7, c) => During("create", 3, 7, d)'
      /\ During("create", 4, 10, c) => During("create", 4, 10, d)'
      /\ During("create", 5, 10, c) => During("create", 5, 10, d)'
      /\ During("create", 5, 8, c) => During("create", 5, 8, d)'
      /\ During("create", 3, 10, c) => During("create", 3, 10, d)'
      /\ ~ During("create", 6, 6, c)
  BY <1>1 DEF During, CallRun
<1>6. Passes(c, d)
  BY <1>1, <1>3, <1>4, <1>5 DEF Passes, Ok
<1>7. Global(d)'
  <2>1. CASE shellCall = "create"
    BY <1>1, <1>2, <1>4, <2>1 DEF Global, During, CallRun, Caller, Alive
  <2>2. CASE shellCall = "destroy"
    BY <1>1, <1>2, <1>4, <2>2 DEF Global, During, CallRun, Caller, Alive, Calls
  <2>3. CASE shellCall \in {"run", "viewCreated", "viewDestroyed"}
    BY <1>1, <1>2, <1>4, <2>3 DEF Global, During, CallRun
  <2>. QED BY <2>1, <2>2, <2>3 DEF CallRun
<1>8. Ok(k, 1, d)'
  <2>1. k \in Signalers => Awaits(k, d)' /\ ~ signaled'
    BY <1>1, <1>2 DEF CallRun, Awaits, During, Signalers
  <2>2. CASE k = "setupGpu"
    BY <1>1, <2>1, <2>2 DEF Ok, CallRun, During, Global, Caller
  <2>3. CASE k = "impellerContext"
    BY <1>1, <2>1, <2>3 DEF Ok, CallRun, During, Global, Caller
  <2>4. CASE k = "setupIo"
    BY <1>1, <2>1, <2>4 DEF Ok, CallRun, During, Global, Caller, IoGone
  <2>5. CASE k = "setupUi"
    BY <1>1, <2>1, <2>5 DEF Ok, CallRun, During, Global, Caller
  <2>6. CASE k \in Signalers \cup {"runEngine"}
    BY <2>1, <2>6 DEF Ok, Signalers
  <2>. QED BY <2>2, <2>3, <2>4, <2>5, <2>6 DEF CallRun, Signalers
<1>9. \A n : ~ Ok(k, n, c) \/ k = "runEngine"
  BY <1>3 DEF Ok, CallRun, During, Caller, Alive, Signalers
<1>10. IoTasks \cap {j \in TaskNames : \E n : Ok(j, n, c)} \subseteq {"setupIo"}
  BY <1>3 DEF Ok, IoTasks, Signalers
<1>. QED BY <1>6, <1>7, <1>8, <1>9, <1>10

LEMMA GetPasses ==
    ASSUME NEW c, NEW S, CallGet(c, S), S \subseteq made, NEW d, d = c + 1, Caller, Global(c),
           UNCHANGED <<callerVars, made, signaled>>
    PROVE  Passes(c, d) /\ Global(d)'
<1>1. /\ UNCHANGED <<shellCall, shellLife, viewed, made, signaled>>
      /\ c \in {6, 7, 8} /\ d \in {7, 8, 9} /\ shellCall = "create" /\ shellLife = "none"
  BY DEF callerVars, CallGet, Caller
<1>2. ~ signaled
  BY <1>1 DEF Global, During
<1>3. Passes(c, d)
  BY <1>1 DEF Passes, Ok, CallGet, During, IoGone, RasterGone, Awaits, Alive
<1>4. Global(d)'
  BY <1>1, <1>2 DEF Global, CallGet, During, RasterGone, Alive
<1>. QED BY <1>3, <1>4

LEMMA MakePasses ==
    ASSUME NEW c, NEW S, CallMake(c, S), NEW d, d = c + 1, Caller, Global(c),
           made' = made \cup S, UNCHANGED <<callerVars, signaled>>
    PROVE  Passes(c, d) /\ Global(d)'
<1>1. /\ UNCHANGED <<shellCall, shellLife, viewed, signaled>>
      /\ c = 1 /\ d = 2 /\ shellCall = "create" /\ shellLife = "none"
      /\ made' = made \cup {"shell", "platformView", "locals"}
  BY DEF callerVars, CallMake, Caller
<1>2. ~ signaled
  BY <1>1 DEF Global, During
<1>3. Passes(c, d)
  BY <1>1 DEF Passes, Ok, During, IoGone, RasterGone, Awaits, Alive
<1>4. Global(d)'
  BY <1>1, <1>2 DEF Global, During, RasterGone, Alive
<1>. QED BY <1>3, <1>4

LEMMA DropPasses ==
    ASSUME NEW c, NEW S, CallDrop(c, S), NEW d, d = c + 1, Caller, Global(c),
           made' = made \ S, UNCHANGED <<callerVars, signaled>>
    PROVE  Passes(c, d) /\ Global(d)'
<1>1. UNCHANGED <<shellCall, shellLife, viewed, signaled>>
  BY DEF callerVars
<1>2. ~ signaled
  BY DEF Global, During, CallDrop
<1>3. CASE shellCall = "create"
  <2>1. /\ c = 9 /\ d = 10 /\ shellLife = "none" /\ made' = made \ {"locals"}
    BY <1>3 DEF CallDrop, Caller
  <2>2. Passes(c, d)
    BY <1>1, <1>3, <2>1 DEF Passes, Ok, During, IoGone, RasterGone, Awaits, Alive
  <2>3. Global(d)'
    BY <1>1, <1>2, <1>3, <2>1 DEF Global, During, RasterGone, Alive
  <2>. QED BY <2>2, <2>3
<1>4. CASE shellCall = "destroy"
  <2>1. /\ c = 12 /\ d = 13 /\ Alive /\ made' = made \ {"shell"}
    BY <1>4 DEF CallDrop, Caller, Calls
  <2>2. Passes(c, d)
    BY <1>1, <1>4, <2>1 DEF Passes, Ok, During, IoGone, RasterGone, Awaits, Alive
  <2>3. Global(d)'
    BY <1>1, <1>2, <1>4, <2>1 DEF Global, During, RasterGone, Alive
  <2>. QED BY <2>2, <2>3
<1>. QED BY <1>3, <1>4 DEF CallDrop

LEMMA WaitPasses ==
    ASSUME NEW c, CallWait(c), NEW d, d = c + 1, Caller, Global(c),
           signaled, signaled' = FALSE, UNCHANGED <<callerVars, made>>
    PROVE  Passes(c, d) /\ Global(d)' /\ \A j \in Signalers : \A n : ~ Ok(j, n, c)
<1>1. UNCHANGED <<shellCall, shellLife, viewed, made>>
  BY DEF callerVars
<1>2. \A j \in Signalers : \A n : ~ Ok(j, n, c)
  BY DEF Ok
<1>3. /\ Alive /\ Alive'
      /\ ~ RasterGone(c) => ~ RasterGone(d)'
      /\ ~ IoGone(c) => ~ IoGone(d)'
      /\ \A lo, hi, i : ~ During("create", lo, hi, i)
  BY <1>1 DEF Alive, RasterGone, IoGone, During, CallWait, Caller, Calls
<1>4. Passes(c, d)
  BY <1>1, <1>2, <1>3 DEF Passes, Ok
<1>5. Global(d)'
  <2>1. CASE shellCall = "destroy"
    BY <1>1, <1>3, <2>1 DEF Global, During, CallWait, Alive
  <2>2. CASE shellCall \in {"viewCreated", "viewDestroyed"}
    BY <1>1, <1>3, <2>2 DEF Global, During, CallWait, Alive
  <2>. QED BY <2>1, <2>2 DEF CallWait
<1>. QED BY <1>2, <1>4, <1>5

\* The branch of the call, its use of the shell and the unmerge.
LEMMA QuietPasses ==
    ASSUME NEW c, NEW d, d = c + 1, Caller, Global(c),
           (shellCall = "viewCreated" /\ c \in {3, 4}) \/ (shellCall = "destroy" /\ c = 11),
           UNCHANGED <<callerVars, made, signaled>>
    PROVE  Passes(c, d) /\ Global(d)'
<1>1. UNCHANGED <<shellCall, shellLife, viewed, made, signaled>> /\ Alive
  BY DEF callerVars, Caller, Calls
<1>2. ~ signaled
  BY DEF Global, During
<1>3. Passes(c, d)
  BY <1>1 DEF Passes, Ok, During, IoGone, RasterGone, Awaits, Alive
<1>4. Global(d)'
  BY <1>1, <1>2 DEF Global, During, RasterGone, Alive
<1>. QED BY <1>3, <1>4

LEMMA CallLocal ==
    ASSUME NEW p, NEW c, Facts(p, c), "platform" \in Runners, p["platform"] = idle, NEW d, Passes(c, d),
           NEW k, NEW q, \A s \in Runners : q[s] = p[s] \/ q[s] = <<k, 1>>,
           \A j : Queued(j)' => Queued(j) \/ j = k,
           Ok(k, 1, d)'
    PROVE  Local(q, d)'
<1>1. ASSUME NEW j \in TaskNames, Queued(j)' PROVE Ok(j, 1, d)'
  <2>1. CASE j = k
    BY <2>1
  <2>2. CASE j # k
    <3>1. Ok(j, 1, c) /\ j # "thenSurface"
      BY <1>1, <2>2 DEF Facts, Local, TaskNames
    <3>. QED BY <3>1 DEF Passes
  <2>. QED BY <2>1, <2>2
<1>2. ASSUME NEW s \in Runners PROVE Ok(q[s][1], q[s][2], d)'
  <2>1. CASE q[s] = <<k, 1>>
    BY <2>1
  <2>2. CASE q[s] = p[s]
    <3>1. Ok(p[s][1], p[s][2], c) /\ p[s][1] # "thenSurface"
      BY DEF Facts, Local, ThreadInv, idle
    <3>. QED BY <2>2, <3>1 DEF Passes
  <2>. QED BY <2>1, <2>2
<1>. QED BY <1>1, <1>2 DEF Local

\* The call goes on and runs nothing.
LEMMA CallQuiet ==
    ASSUME NEW p, NEW c, Facts(p, c), p["platform"] = idle, NEW d, Passes(c, d), Global(d)',
           UNCHANGED <<thread, tasks, callerVars>>,
           During("create", 5, 10, d)' => During("create", 5, 10, c),
           "impellerContext" \in made => "impellerContext" \in made',
           "surface" \in made' => "surface" \in made,
           shellCall = "viewDestroyed" => c # 1 /\ ~ Left(p, "teardown")
    PROVE  Facts(p, d)'
<1>1. /\ UNCHANGED <<shellCall, shellLife, viewed>> /\ "platform" \in Runners
  BY DEF callerVars, Runners
<1>2. QueueInv' /\ \A k : Queued(k)' <=> Queued(k)
  BY QueuesStay DEF Facts
<1>3. \A k : Left(p, k)' <=> Left(p, k)
  BY <1>2 DEF Left, Running
<1>4. ThreadInv(p)'
  BY <1>2, <1>3 DEF ThreadInv, Facts
<1>5. Caller'
  BY <1>1 DEF Caller, Alive, Facts
<1>6. Local(p, d)'
  <2>1. Ok("idle", 1, d)'
    BY DEF Ok, Signalers
  <2>. QED BY <1>1, <1>2, <2>1, CallLocal
<1>7. IoPending(p, d)'
  BY <1>1, <1>3 DEF IoPending, Facts
<1>8. SurfaceInv(p, d)'
  <2>1. /\ Queued("teardown") => Left(p, "teardown")
        /\ \A t \in Runners : p[t] \in {<<"teardown", 1>>, <<"teardown", 0>>} => Left(p, "teardown")
    BY DEF Left, Running
  <2>. QED BY <1>1, <1>3, <2>1 DEF SurfaceInv, Facts
<1>. QED BY <1>2, <1>4, <1>5, <1>6, <1>7, <1>8 DEF Facts

\* What the call runs is its own.
LEMMA CallTask ==
    ASSUME NEW p, NEW c, Facts(p, c), NEW r, NEW k, CallRun(c, r, k), NEW d, d = c + 1,
           UNCHANGED <<callerVars, made, signaled>>
    PROVE  /\ Passes(c, d) /\ Global(d)' /\ Ok(k, 1, d)' /\ Caller'
           /\ k # "runEngine" => ~ Left(p, k)
           /\ \A j \in IoTasks \ {"setupIo"} : ~ Left(p, j)
           /\ k = "setupIo" => ~ Left(p, "setupIo")
           /\ k \in {"teardown", "dropRasterizer"} /\ Queued("setupSurface") => thread["raster"] # "platform"
<1>1. Caller /\ Global(c) /\ Local(p, c) /\ QueueInv /\ ThreadInv(p)
  BY DEF Facts
<1>2. /\ Passes(c, d) /\ Global(d)' /\ Ok(k, 1, d)'
      /\ \A n : ~ Ok(k, n, c) \/ k = "runEngine"
      /\ IoTasks \cap {j \in TaskNames : \E n : Ok(j, n, c)} \subseteq {"setupIo"}
  BY <1>1, RunPasses
<1>3. k \in TaskNames
  BY DEF CallRun, TaskNames
<1>4. \A j \in TaskNames : Left(p, j) => \E n : Ok(j, n, c)
  BY <1>1 DEF Left, Running, Local
<1>5. Caller'
  BY <1>1 DEF Caller, Alive, callerVars
<1>6. IoTasks \subseteq TaskNames
  BY DEF IoTasks, TaskNames
<1>7. Queued("setupSurface") => thread["raster"] # "platform"
  BY <1>1 DEF QueueInv, Queued, Fits, RasterTasks
<1>8. "setupIo" # "runEngine"
  OBVIOUS
<1>. QED BY <1>2, <1>3, <1>4, <1>5, <1>6, <1>7, <1>8

\* It runs at once on the platform thread.
LEMMA CallRunsNow ==
    ASSUME NEW p, NEW c, Control(p, c), Facts(p, c), p["platform"] = idle,
           NEW r, NEW k, CallRun(c, r, k), RunsNow("platform", r), NEW d, d = c + 1,
           NEW y, y = <<k, 1>>, NEW q, q = [p EXCEPT !["platform"] = y],
           UNCHANGED <<thread, tasks, callerVars, made, signaled>>
    PROVE  Facts(q, d)'
<1>1. /\ Passes(c, d) /\ Global(d)' /\ Ok(k, 1, d)' /\ Caller'
      /\ k # "runEngine" => ~ Left(p, k)
      /\ \A j \in IoTasks \ {"setupIo"} : ~ Left(p, j)
      /\ k \in {"teardown", "dropRasterizer"} /\ Queued("setupSurface") => thread["raster"] # "platform"
  <2>1. UNCHANGED <<callerVars, made, signaled>>
    OBVIOUS
  <2>. QED BY <2>1, CallTask
<1>2. QueueInv /\ ThreadInv(p) /\ p \in [Runners -> Points] /\ "platform" \in Runners
  BY DEF Facts, Control, Runners
<1>3. r # "io" /\ (r = "raster" => thread["raster"] = "platform")
  BY <1>2 DEF RunsNow, QueueInv
<1>4. /\ k \notin IoTasks \cup {"idle", "setupIo", "setupSurface"}
      /\ k \in RasterTasks => r = "raster"
      /\ k = "runEngine" => k \notin OnceTasks
  BY <1>3 DEF CallRun, IoTasks, RasterTasks, OnceTasks, SetupTasks, Signalers
<1>5. QueueInv' /\ \A j : Queued(j)' <=> Queued(j)
  <2>1. UNCHANGED <<thread, tasks>>
    OBVIOUS
  <2>. QED BY <1>2, <2>1, QueuesStay
<1>6. k = "teardown" => ~ Left(p, "drain")
  BY <1>1 DEF IoTasks
<1>7. /\ ThreadInv(q)'
      /\ \A j : j \notin {"idle", k} => (Running(q, j) <=> Running(p, j))
      /\ Running(q, k)
  <2>1. k \in RasterTasks => thread["raster"] = "platform"
    BY <1>3, <1>4
  <2>2. k \in {"teardown", "dropRasterizer"} => ~ Queued("setupSurface")
    BY <1>1, <1>4, <2>1 DEF RasterTasks
  <2>3. k \in OnceTasks => ~ Left(p, k)
    BY <1>1, <1>4
  <2>4. k \notin IoTasks \cup {"idle"}
    BY <1>4
  <2>5. UNCHANGED thread
    OBVIOUS
  <2>. QED BY <1>2, <1>5, <1>6, <2>1, <2>2, <2>3, <2>4, <2>5, ThreadRuns
<1>8. \A s \in Runners : q[s] = IF s = "platform" THEN y ELSE p[s]
  BY <1>2
<1>9. Local(q, d)'
  <2>1. \A s \in Runners : q[s] = p[s] \/ q[s] = <<k, 1>>
    BY <1>8
  <2>2. \A j : Queued(j)' => Queued(j) \/ j = k
    BY <1>5
  <2>. QED BY <1>1, <1>2, <2>1, <2>2, CallLocal
<1>10. UNCHANGED <<shellCall, shellLife, viewed>>
  BY DEF callerVars
<1>11. IoPending(q, d)'
  <2>1. Left(p, "setupIo") => Left(q, "setupIo")'
    BY <1>4, <1>5, <1>7 DEF Left, Running
  <2>2. During("create", 5, 10, d)' => During("create", 5, 10, c)
    BY <1>4, <1>10 DEF During, CallRun, IoTasks
  <2>. QED BY <1>10, <2>1, <2>2 DEF IoPending, Facts
<1>12. SurfaceInv(q, d)'
  <2>1. ~ Left(p, "setupSurface") => ~ Left(q, "setupSurface")'
    BY <1>4, <1>5, <1>7 DEF Left, Running
  <2>2. shellCall = "viewDestroyed" => q["platform"] = <<"teardown", 1>>
    BY <1>8, <1>2 DEF CallRun
  <2>. QED BY <1>2, <1>10, <2>1, <2>2 DEF SurfaceInv, Facts
<1>. QED BY <1>1, <1>5, <1>7, <1>9, <1>11, <1>12 DEF Facts

\* Or it is posted.
LEMMA CallPosts ==
    ASSUME NEW p, NEW c, Control(p, c), Facts(p, c), p["platform"] = idle,
           NEW r, NEW k, CallRun(c, r, k), ~ RunsNow("platform", r), NEW d, d = c + 1,
           Sends(r, k),
           UNCHANGED <<thread, callerVars, made, signaled>>
    PROVE  Facts(p, d)'
<1>1. /\ Passes(c, d) /\ Global(d)' /\ Ok(k, 1, d)' /\ Caller'
      /\ k # "runEngine" => ~ Left(p, k)
      /\ \A j \in IoTasks \ {"setupIo"} : ~ Left(p, j)
      /\ k = "setupIo" => ~ Left(p, "setupIo")
  <2>1. UNCHANGED <<callerVars, made, signaled>>
    OBVIOUS
  <2>. QED BY <2>1, CallTask
<1>2. QueueInv /\ ThreadInv(p) /\ p \in [Runners -> Points] /\ "platform" \in Runners /\ "io" \in Runners
  BY DEF Facts, Control, Runners
<1>3. PICK u : u = thread[r]
  OBVIOUS
<1>4. /\ u \in Runners /\ k \in TaskNames /\ Fits(k, u)
      /\ tasks' = [tasks EXCEPT ![u] = Append(@, k)]
  <2>1. thread[r] \in Runners /\ Fits(k, thread[r]) /\ k \in TaskNames
    BY <1>2 DEF CallRun, QueueInv, Runners, Fits, IoTasks, RasterTasks, TaskNames, RunsNow
  <2>. QED BY <1>3, <2>1 DEF Sends
<1>5. /\ k \in OnceTasks => ~ Left(p, k)
      /\ k # "setupSurface" /\ k # "drain" /\ k # "idle"
  BY <1>1 DEF CallRun, OnceTasks, SetupTasks, Signalers
<1>6. k = "setupIo" => tasks["io"] = <<>> /\ p["io"] = idle
  <2>. SUFFICES ASSUME k = "setupIo" PROVE tasks["io"] = <<>> /\ p["io"] = idle
    OBVIOUS
  <2>1. \A j \in IoTasks : ~ Left(p, j)
    BY <1>1
  <2>2. ~ (1 \in 1 .. Len(tasks["io"]))
    BY <1>2, <2>1 DEF QueueInv, Fits, Left, Queued
  <2>3. tasks["io"] \in Seq(TaskNames) /\ Len(tasks["io"]) \in Nat
    BY <1>2, LenProperties DEF QueueInv
  <2>4. tasks["io"] = <<>>
    BY <2>2, <2>3, EmptySeq
  <2>5. p["io"] = idle
    BY <1>2, <2>1 DEF ThreadInv, Left, Running
  <2>. QED BY <2>4, <2>5
<1>7. QueueInv' /\ Gains(k)
  <2>1. /\ k \in OnceTasks => ~ Queued(k)
        /\ k = "setupIo" => tasks["io"] = <<>>
        /\ k = "setupSurface" => ~ Queued("teardown") /\ ~ Queued("dropRasterizer")
        /\ UNCHANGED thread
    BY <1>5, <1>6 DEF Left
  <2>2. QueueInv' /\ \A j : Queued(j)' <=> Queued(j) \/ j = k
    BY <1>2, <1>4, <2>1, Posts
  <2>. QED BY <2>2 DEF Gains
<1>8. ThreadInv(p)'
  <2>1. PICK y : y = p["platform"]
    OBVIOUS
  <2>2. PICK q : q = [p EXCEPT !["platform"] = y]
    OBVIOUS
  <2>3. q = p
    BY <1>2, <2>1, <2>2
  <2>4. /\ k \in OnceTasks => ~ Running(p, k)
        /\ k = "setupIo" => p["io"] = idle
        /\ k = "setupSurface" => ~ Running(p, "teardown") /\ ~ Running(p, "dropRasterizer")
        /\ k = "teardown" => ~ Left(p, "drain")
        /\ k = "drain" => ~ Queued("teardown") /\ ~ Running(q, "teardown")
        /\ UNCHANGED thread
    BY <1>1, <1>5, <1>6 DEF Left, IoTasks
  <2>5. y \in {idle, p["platform"]}
    BY <2>1
  <2>6. ThreadInv(q)'
    BY <1>2, <1>7, <2>2, <2>4, <2>5, ThreadPosts
  <2>. QED BY <2>3, <2>6
<1>9. Local(p, d)'
  <2>1. \A s \in Runners : p[s] = p[s] \/ p[s] = <<k, 1>>
    OBVIOUS
  <2>2. \A j : Queued(j)' => Queued(j) \/ j = k
    BY <1>7 DEF Gains
  <2>. QED BY <1>1, <1>2, <2>1, <2>2, CallLocal
<1>10. UNCHANGED <<shellCall, shellLife, viewed>>
  BY DEF callerVars
<1>11. /\ \A j : Left(p, j) => Left(p, j)'
       /\ \A j : j # k => (Left(p, j) <=> Left(p, j)')
       /\ Queued(k)'
  BY <1>7 DEF Left, Running, Gains
<1>12. IoPending(p, d)'
  <2>1. During("create", 5, 10, d)' => During("create", 5, 10, c) \/ k = "setupIo"
    BY <1>10 DEF During, CallRun
  <2>2. k = "setupIo" => Left(p, "setupIo")'
    BY <1>11 DEF Left
  <2>. QED BY <1>10, <1>11, <2>1, <2>2 DEF IoPending, Facts
<1>13. SurfaceInv(p, d)'
  <2>1. shellCall = "viewDestroyed" => Queued("teardown")'
    BY <1>11 DEF CallRun
  <2>. QED BY <1>5, <1>10, <1>11, <2>1 DEF SurfaceInv, Facts
<1>. QED BY <1>1, <1>7, <1>8, <1>9, <1>12, <1>13 DEF Facts

\* It takes the branch of the call.
LEMMA CallBranches ==
    ASSUME NEW p, NEW c, Control(p, c), Facts(p, c), p["platform"] = idle,
           shellCall = "viewCreated", c = 3, NEW d, d = c + 1,
           NEW y, y = <<"thenSurface", 1>>, NEW q, q = [p EXCEPT !["platform"] = y],
           UNCHANGED <<thread, tasks, callerVars, made, signaled>>
    PROVE  Facts(q, d)'
<1>1. Passes(c, d) /\ Global(d)'
  <2>1. Caller /\ Global(c) /\ UNCHANGED <<callerVars, made, signaled>>
    BY DEF Facts
  <2>. QED BY <2>1, QuietPasses
<1>2. QueueInv /\ ThreadInv(p) /\ p \in [Runners -> Points] /\ "platform" \in Runners /\ viewed
  BY DEF Facts, Control, Runners, Caller
<1>3. UNCHANGED <<shellCall, shellLife, viewed>>
  BY DEF callerVars
<1>4. QueueInv' /\ \A j : Queued(j)' <=> Queued(j)
  <2>1. UNCHANGED <<thread, tasks>>
    OBVIOUS
  <2>. QED BY <1>2, <2>1, QueuesStay
<1>5. PICK k : k = "thenSurface"
  OBVIOUS
<1>6. /\ k \notin IoTasks \cup RasterTasks \cup OnceTasks \cup {"idle", "teardown", "dropRasterizer"}
      /\ y = <<k, 1>>
  BY <1>5 DEF IoTasks, RasterTasks, OnceTasks, SetupTasks, Signalers
<1>7. /\ ThreadInv(q)'
      /\ \A j : j \notin {"idle", k} => (Running(q, j) <=> Running(p, j))
      /\ Running(q, k)
  <2>1. /\ k \notin IoTasks \cup {"idle"}
        /\ k \in RasterTasks => thread["raster"] = "platform"
        /\ k \in OnceTasks => ~ Left(p, k)
        /\ k \in {"teardown", "dropRasterizer"} => ~ Queued("setupSurface")
        /\ k = "teardown" => ~ Left(p, "drain")
        /\ UNCHANGED thread
    BY <1>6
  <2>. QED BY <1>2, <1>4, <1>6, <2>1, ThreadRuns
<1>8. \A s \in Runners : q[s] = IF s = "platform" THEN y ELSE p[s]
  BY <1>2
<1>9. Local(q, d)'
  <2>1. \A s \in Runners : q[s] = p[s] \/ q[s] = <<k, 1>>
    BY <1>6, <1>8
  <2>2. \A j : Queued(j)' => Queued(j) \/ j = k
    BY <1>4
  <2>3. Ok(k, 1, d)'
    BY <1>3, <1>5, <1>6 DEF Ok, During, OnceTasks
  <2>. QED BY <1>1, <1>2, <2>1, <2>2, <2>3, CallLocal
<1>10. IoPending(q, d)'
  <2>1. Left(p, "setupIo") => Left(q, "setupIo")'
    BY <1>4, <1>5, <1>7 DEF Left, Running
  <2>. QED BY <1>3, <2>1 DEF IoPending, Facts, During
<1>11. SurfaceInv(q, d)' /\ Caller'
  BY <1>2, <1>3 DEF SurfaceInv, Facts, Caller, Alive
<1>. QED BY <1>1, <1>4, <1>7, <1>9, <1>10, <1>11 DEF Facts

\* Whatever a call that ends leaves behind may stay.
LEMMA ReturnOk ==
    ASSUME NEW p, NEW c, Facts(p, c), p["platform"] = idle, CallLast(c), shellCall # "none",
           shellCall' = "none",
           shellLife' = CASE shellCall = "create" -> "ready"
                          [] shellCall = "destroy" -> "gone"
                          [] OTHER -> shellLife,
           UNCHANGED <<thread, tasks, made, signaled, viewed>>
    PROVE  Facts(p, c)'
<1>1. /\ Caller /\ QueueInv /\ ThreadInv(p) /\ Global(c) /\ IoPending(p, c)
      /\ Local(p, c) /\ SurfaceInv(p, c) /\ "platform" \in Runners
  BY DEF Facts, Runners
<1>2. QueueInv' /\ \A k : Queued(k)' <=> Queued(k)
  BY <1>1, QueuesStay
<1>3. \A k : Left(p, k)' <=> Left(p, k)
  BY <1>2 DEF Left, Running
<1>4. ThreadInv(p)'
  BY <1>1, <1>2, <1>3 DEF ThreadInv
<1>5. /\ shellCall = "create" => shellLife' = "ready" /\ shellLife = "none" /\ c = 10
      /\ shellCall = "destroy" => shellLife' = "gone" /\ Alive /\ c = 13
      /\ shellCall \notin {"create", "destroy"} => shellLife' = shellLife /\ Alive
      /\ shellLife' # "none" /\ shellLife # "gone"
  BY <1>1 DEF Caller, Calls, CallLast, Alive
<1>6. Caller'
  BY <1>1, <1>5 DEF Caller, Calls, Alive
<1>7. ~ signaled /\ \A j : ~ Awaits(j, c)
  BY <1>1 DEF Global, CallLast, During, Awaits
<1>8. /\ shellCall # "destroy" => ~ IoGone(c)' /\ ~ RasterGone(c)' /\ Alive'
      /\ shellCall = "destroy" => IoGone(c) /\ RasterGone(c) /\ ~ During("create", 1, 10, c)
  BY <1>5 DEF IoGone, RasterGone, Alive, During
<1>9. ~ (shellCall = "destroy" /\ Left(p, "impellerContext"))
  <2>. SUFFICES ASSUME shellCall = "destroy", Left(p, "impellerContext") PROVE FALSE
    OBVIOUS
  <2>1. \E n : Ok("impellerContext", n, c)
    BY <1>1 DEF Left, Running, Local, TaskNames
  <2>2. "impellerContext" \notin made
    BY <2>1 DEF Ok
  <2>3. Left(p, "setupIo")
    BY <1>1, <1>5, <2>2 DEF IoPending, Alive
  <2>4. \E n : Ok("setupIo", n, c)
    BY <1>1, <2>3 DEF Left, Running, Local, TaskNames
  <2>. QED BY <1>8, <2>4 DEF Ok
<1>10. ASSUME NEW k, NEW n, Ok(k, n, c), k # "thenSurface", ~ (shellCall = "destroy" /\ k = "impellerContext")
       PROVE  Ok(k, n, c)'
  <2>1. k \notin Signalers
    BY <1>7, <1>10 DEF Ok
  <2>2. k \notin {"setupGpu", "setupUi"}
    BY <1>5, <1>10 DEF Ok, During
  <2>3. k = "impellerContext" => Alive' /\ "impellerContext" \notin made'
    BY <1>8, <1>10 DEF Ok
  <2>4. k = "setupIo" => Alive' /\ ~ IoGone(c)' /\ n \notin {1, 2} /\ (n = 4 => "impellerContext" \in made')
    BY <1>5, <1>8, <1>10 DEF Ok, During
  <2>5. k = "setupSurface" => Alive' /\ ~ RasterGone(c)'
    BY <1>8, <1>10 DEF Ok
  <2>6. k = "draw" /\ n = 0 => Alive' /\ ~ RasterGone(c)'
    BY <1>8, <1>10 DEF Ok
  <2>7. k = "dropRasterizer" => k \in Signalers
    BY DEF Signalers
  <2>. QED BY <1>10, <2>1, <2>2, <2>3, <2>4, <2>5, <2>6, <2>7 DEF Ok
<1>11. Local(p, c)'
  <2>1. ASSUME NEW k \in TaskNames, Queued(k) PROVE Ok(k, 1, c)'
    <3>1. Ok(k, 1, c) /\ k # "thenSurface" /\ Left(p, k)
      BY <1>1, <2>1 DEF Local, TaskNames, Left
    <3>. QED BY <1>9, <1>10, <3>1
  <2>2. ASSUME NEW s \in Runners PROVE Ok(p[s][1], p[s][2], c)'
    <3>1. Ok(p[s][1], p[s][2], c) /\ p[s][1] # "thenSurface" /\ Left(p, p[s][1])
      BY <1>1 DEF Local, ThreadInv, idle, Left, Running
    <3>. QED BY <1>9, <1>10, <3>1
  <2>. QED BY <1>2, <2>1, <2>2 DEF Local
<1>12. Global(c)'
  <2>1. CASE shellCall = "create"
    BY <1>1, <1>5, <1>7, <1>8, <2>1 DEF Global, During, Alive
  <2>2. CASE shellCall = "destroy"
    <3>1. "rasterizer" \notin made
      BY <1>1, <1>8, <2>2 DEF Global
    <3>. QED BY <1>1, <1>5, <1>7, <2>2, <3>1 DEF Global, During, Alive
  <2>3. CASE shellCall \notin {"create", "destroy"}
    BY <1>1, <1>5, <1>7, <1>8, <2>3 DEF Global, During, Alive
  <2>. QED BY <2>1, <2>2, <2>3
<1>13. IoPending(p, c)'
  <2>1. During("create", 5, 10, c) \/ shellLife # "none"
    BY <1>5 DEF During, Alive
  <2>2. Left(p, "setupIo")' \/ "impellerContext" \in made
    BY <1>1, <1>3, <2>1 DEF IoPending
  <2>3. "impellerContext" \in made => "impellerContext" \in made'
    OBVIOUS
  <2>. QED BY <2>2, <2>3 DEF IoPending
<1>14. SurfaceInv(p, c)'
  <2>1. shellCall = "viewDestroyed" => c # 1 /\ ~ Left(p, "teardown")
    <3>. SUFFICES ASSUME shellCall = "viewDestroyed", Left(p, "teardown") PROVE FALSE
      BY DEF CallLast
    <3>1. \E n : Ok("teardown", n, c)
      BY <1>1 DEF Left, Running, Local, TaskNames
    <3>. QED BY <1>7, <3>1 DEF Ok, Signalers
  <2>2. /\ Queued("teardown") => Left(p, "teardown")
        /\ \A t \in Runners : p[t] \in {<<"teardown", 1>>, <<"teardown", 0>>} => Left(p, "teardown")
    BY DEF Left, Running
  <2>. QED BY <1>1, <1>3, <2>1, <2>2 DEF SurfaceInv
<1>. QED BY <1>2, <1>4, <1>6, <1>11, <1>12, <1>13, <1>14 DEF Facts

\* The platform thread takes a step of its call.
LEMMA CallStepOk ==
    ASSUME NEW p, NEW c, Control(p, c), Facts(p, c), InCall(p, c, "platform"),
           TakeStep("platform"), ~ dangled
    PROVE  Explained' /\ ~ dangled'
<1>. DEFINE t == "platform"
<1>1. /\ p \in [Runners -> Points] /\ t \in Runners /\ p["platform"] = idle /\ shellCall # "none"
      /\ Caller /\ Global(c)
  BY DEF Control, Runners, InCall, Facts
<1>2. PICK s : s = CallBody(shellCall)[c]
  OBVIOUS
<1>3. PICK d : d = c + 1
  OBVIOUS
<1>4. Head(steps[t]) = s
  BY <1>1, <1>2, NextStep DEF InCall
<1>5. \/ CallStep(t, s) \/ PartStep(t, s) \/ SignalStep(t, s) \/ MergeStep(t, s) \/ ReturnStep(t, s)
  BY <1>4 DEF TakeStep
<1>6. /\ CallKind(c, s)
      /\ s.op # "return" => c + 1 \in 1 .. Len(CallBody(shellCall))
      /\ s.op = "return" => c = Len(CallBody(shellCall))
  BY <1>1, <1>2, CallKinds
<1>7. \A y \in Points : s.op # "return" /\ Continue("platform", Rest(y)) /\ UNCHANGED <<hostVars, shellCall>>
                          => Control([p EXCEPT !["platform"] = y], d)'
  BY <1>3, <1>6, CallAdvances
<1>8. s.op # "return" /\ Continue("platform", <<>>) /\ UNCHANGED <<hostVars, shellCall>> => Control(p, d)'
  <2>1. idle \in Points /\ Rest(idle) = <<>>
    BY RestIsSeq DEF Points
  <2>2. [p EXCEPT !["platform"] = idle] = p
    BY <1>1
  <2>. QED BY <1>7, <2>1, <2>2
<1>9. /\ UNCHANGED hostVars => UNCHANGED thread
      /\ UNCHANGED callerVars => UNCHANGED shellCall
  BY DEF hostVars, callerVars
<1>. HIDE DEF t
<1>10. CASE CallStep("platform", s) /\ s.op = "run"
  <2>1. UNCHANGED <<hostVars, thread, made, signaled, callerVars, shellCall, dangled>>
    BY <1>9, <1>10 DEF CallStep
  <2>2. PICK r : r = s.runner
    OBVIOUS
  <2>3. PICK k : k = s.task
    OBVIOUS
  <2>4. CallRun(c, r, k)
    BY <1>6, <1>10, <2>2, <2>3 DEF CallKind
  <2>5. CASE RunsNow("platform", r) /\ Continue("platform", Body(k)) /\ UNCHANGED tasks
    <3>1. PICK y : y = <<k, 1>>
      OBVIOUS
    <3>2. PICK q : q = [p EXCEPT !["platform"] = y]
      OBVIOUS
    <3>3. UNCHANGED <<thread, tasks, callerVars, made, signaled>>
      BY <2>1, <2>5
    <3>4. Facts(q, d)'
      BY <1>1, <1>3, <2>4, <2>5, <3>1, <3>2, <3>3, CallRunsNow
    <3>5. k \in TaskNames /\ k # "scheduleFrame"
      BY <2>4 DEF CallRun, TaskNames
    <3>6. y \in Points /\ Rest(y) = Body(k)
      <4>1. k \in Names /\ Code(k) = Body(k) /\ Start(k) = y
        BY <3>1, <3>5, Starts DEF Names, Code, TaskNames
      <4>. QED BY <4>1, StartIsPoint
    <3>7. Continue("platform", Rest(y)) /\ UNCHANGED <<hostVars, shellCall>>
      BY <2>1, <2>5, <3>6
    <3>8. Control(q, d)'
      BY <1>7, <1>10, <3>2, <3>6, <3>7
    <3>. QED BY <2>1, <3>4, <3>8, Explains
  <2>6. CASE ~ RunsNow("platform", r) /\ Continue("platform", <<>>) /\ Sends(r, k)
    <3>1. UNCHANGED <<thread, callerVars, made, signaled>>
      BY <2>1
    <3>2. Facts(p, d)'
      BY <1>1, <1>3, <2>4, <2>6, <3>1, CallPosts
    <3>3. Control(p, d)'
      BY <1>8, <1>10, <2>1, <2>6
    <3>. QED BY <2>1, <3>2, <3>3, Explains
  <2>7. \/ RunsNow("platform", r) /\ Continue("platform", Body(k)) /\ UNCHANGED tasks
        \/ ~ RunsNow("platform", r) /\ Continue("platform", <<>>) /\ Sends(r, k)
    BY <1>10, <2>2, <2>3 DEF CallStep, Sends
  <2>. QED BY <2>5, <2>6, <2>7
<1>11. CASE CallStep("platform", s) /\ s.op # "run"
  <2>1. /\ UNCHANGED <<hostVars, thread, tasks, made, signaled, callerVars, shellCall, dangled>>
        /\ s.op = "if" /\ Continue("platform", IF s.part \in made THEN s.then ELSE <<>>)
    BY <1>9, <1>11 DEF CallStep
  <2>2. shellCall = "viewCreated" /\ c = 3 /\ s.then = <<Make({"surface"})>>
    BY <1>6, <2>1 DEF CallKind
  <2>3. UNCHANGED <<thread, tasks, callerVars, made, signaled>>
    BY <2>1
  <2>4. CASE s.part \in made
    <3>1. PICK y : y = <<"thenSurface", 1>>
      OBVIOUS
    <3>2. PICK q : q = [p EXCEPT !["platform"] = y]
      OBVIOUS
    <3>3. Facts(q, d)'
      BY <1>1, <1>3, <2>2, <2>3, <3>1, <3>2, CallBranches
    <3>4. y \in Points /\ Rest(y) = <<Make({"surface"})>>
      <4>1. "thenSurface" \in Names /\ Code("thenSurface") = <<Make({"surface"})>> /\ Start("thenSurface") = y
        BY <3>1 DEF Names, Code, Start
      <4>. QED BY <4>1, StartIsPoint
    <3>5. Continue("platform", Rest(y)) /\ UNCHANGED <<hostVars, shellCall>>
      BY <2>1, <2>2, <2>4, <3>4
    <3>6. Control(q, d)'
      BY <1>7, <2>1, <3>2, <3>4, <3>5
    <3>. QED BY <2>1, <3>3, <3>6, Explains
  <2>5. CASE s.part \notin made
    <3>1. Passes(c, d) /\ Global(d)'
      <4>1. UNCHANGED <<callerVars, made, signaled>>
        BY <2>1
      <4>. QED BY <1>1, <1>3, <2>2, <4>1, QuietPasses
    <3>2. UNCHANGED <<thread, tasks, callerVars>>
      BY <2>1
    <3>3. During("create", 5, 10, d)' => During("create", 5, 10, c)
      BY <2>1, <2>2 DEF During
    <3>4. Facts(p, d)'
      BY <1>1, <2>1, <2>2, <3>1, <3>2, <3>3, CallQuiet
    <3>5. Control(p, d)'
      BY <1>8, <2>1, <2>5
    <3>. QED BY <2>1, <3>4, <3>5, Explains
  <2>. QED BY <2>4, <2>5
<1>12. CASE PartStep("platform", s)
  <2>1. /\ UNCHANGED <<hostVars, thread, tasks, signaled, callerVars, shellCall>>
        /\ Continue("platform", <<>>) /\ s.op \in {"make", "drop", "use", "get"}
    BY <1>9, <1>12 DEF PartStep
  <2>2. UNCHANGED <<thread, tasks, callerVars>>
    BY <2>1
  <2>3. Control(p, d)'
    BY <1>8, <2>1
  <2>4. CASE s.op = "get"
    <3>1. CallGet(c, s.parts)
      BY <1>6, <2>4 DEF CallKind
    <3>2. UNCHANGED <<callerVars, made, signaled>> /\ s.parts \subseteq made /\ ~ dangled'
      BY <1>12, <2>1, <2>4 DEF PartStep
    <3>3. Passes(c, d) /\ Global(d)'
      BY <1>1, <1>3, <3>1, <3>2, GetPasses
    <3>4. During("create", 5, 10, d)' => During("create", 5, 10, c)
      BY <1>3, <2>1, <3>1 DEF During, CallGet
    <3>5. shellCall # "viewDestroyed"
      BY <3>1 DEF CallGet
    <3>6. Facts(p, d)'
      BY <1>1, <2>2, <3>2, <3>3, <3>4, <3>5, CallQuiet
    <3>. QED BY <2>3, <3>2, <3>6, Explains
  <2>5. CASE s.op = "make"
    <3>1. CallMake(c, s.parts)
      BY <1>6, <2>5 DEF CallKind
    <3>2. UNCHANGED <<callerVars, signaled>> /\ made' = made \cup s.parts /\ ~ dangled'
      BY <1>12, <2>1, <2>5 DEF PartStep
    <3>3. Passes(c, d) /\ Global(d)'
      BY <1>1, <1>3, <3>1, <3>2, MakePasses
    <3>4. During("create", 5, 10, d)' => During("create", 5, 10, c)
      BY <1>3, <2>1, <3>1 DEF During, CallMake
    <3>5. /\ "impellerContext" \in made => "impellerContext" \in made'
          /\ "surface" \in made' => "surface" \in made
          /\ shellCall # "viewDestroyed"
      BY <3>1, <3>2 DEF CallMake
    <3>6. Facts(p, d)'
      BY <1>1, <2>2, <3>3, <3>4, <3>5, CallQuiet
    <3>. QED BY <2>3, <3>2, <3>6, Explains
  <2>6. CASE s.op = "drop"
    <3>1. CallDrop(c, s.parts)
      BY <1>6, <2>6 DEF CallKind
    <3>2. UNCHANGED <<callerVars, signaled>> /\ made' = made \ s.parts /\ ~ dangled'
      BY <1>12, <2>1, <2>6 DEF PartStep
    <3>3. Passes(c, d) /\ Global(d)'
      BY <1>1, <1>3, <3>1, <3>2, DropPasses
    <3>4. During("create", 5, 10, d)' => During("create", 5, 10, c)
      BY <1>3, <2>1, <3>1 DEF During, CallDrop
    <3>5. /\ "impellerContext" \in made => "impellerContext" \in made'
          /\ "surface" \in made' => "surface" \in made
          /\ shellCall # "viewDestroyed"
      BY <3>1, <3>2 DEF CallDrop
    <3>6. Facts(p, d)'
      BY <1>1, <2>2, <3>3, <3>4, <3>5, CallQuiet
    <3>. QED BY <2>3, <3>2, <3>6, Explains
  <2>7. CASE s.op = "use"
    <3>1. shellCall = "viewCreated" /\ c = 4 /\ s.parts = {"shell"}
      BY <1>6, <2>7 DEF CallKind
    <3>2. "shell" \in made
      BY <1>1, <3>1 DEF Global, Caller, Calls
    <3>3. UNCHANGED <<callerVars, made, signaled>> /\ ~ dangled'
      BY <1>12, <2>1, <2>7, <3>1, <3>2 DEF PartStep
    <3>4. Passes(c, d) /\ Global(d)'
      BY <1>1, <1>3, <3>1, <3>3, QuietPasses
    <3>5. During("create", 5, 10, d)' => During("create", 5, 10, c)
      BY <2>1, <3>1 DEF During
    <3>6. Facts(p, d)'
      BY <1>1, <2>2, <3>1, <3>3, <3>4, <3>5, CallQuiet
    <3>. QED BY <2>3, <3>3, <3>6, Explains
  <2>. QED BY <2>1, <2>4, <2>5, <2>6, <2>7
<1>13. CASE SignalStep("platform", s)
  <2>1. CallWait(c) /\ s.op = "wait"
    BY <1>6, <1>13 DEF CallKind, SignalStep
  <2>2. /\ signaled /\ signaled' = FALSE /\ Continue("platform", <<>>)
        /\ UNCHANGED <<hostVars, thread, tasks, made, callerVars, shellCall, dangled>>
    BY <1>9, <1>13, <2>1 DEF SignalStep
  <2>3. UNCHANGED <<callerVars, made>> /\ UNCHANGED <<thread, tasks, callerVars>>
    BY <2>2
  <2>4. Passes(c, d) /\ Global(d)' /\ \A j \in Signalers : \A n : ~ Ok(j, n, c)
    BY <1>1, <1>3, <2>1, <2>2, <2>3, WaitPasses
  <2>5. ~ Left(p, "teardown")
    <3>1. Left(p, "teardown") => \E n : Ok("teardown", n, c)
      BY DEF Left, Running, Facts, Local, TaskNames
    <3>. QED BY <2>4, <3>1 DEF Signalers
  <2>6. During("create", 5, 10, d)' => During("create", 5, 10, c)
    BY <2>1, <2>2 DEF During, CallWait
  <2>7. shellCall = "viewDestroyed" => c # 1
    BY <2>1 DEF CallWait
  <2>8. Facts(p, d)'
    BY <1>1, <2>2, <2>3, <2>4, <2>5, <2>6, <2>7, CallQuiet
  <2>9. Control(p, d)'
    BY <1>8, <2>1, <2>2
  <2>. QED BY <2>2, <2>8, <2>9, Explains
<1>14. CASE MergeStep("platform", s)
  <2>1. shellCall = "destroy" /\ c = 11 /\ s.op = "unmerge"
    BY <1>6, <1>14 DEF CallKind, MergeStep
  <2>2. /\ Continue("platform", <<>>)
        /\ UNCHANGED <<hostVars, thread, tasks, made, signaled, callerVars, shellCall, dangled>>
    BY <1>9, <1>14 DEF MergeStep
  <2>3. UNCHANGED <<callerVars, made, signaled>> /\ UNCHANGED <<thread, tasks, callerVars>>
    BY <2>2
  <2>4. Passes(c, d) /\ Global(d)'
    BY <1>1, <1>3, <2>1, <2>3, QuietPasses
  <2>5. During("create", 5, 10, d)' => During("create", 5, 10, c)
    BY <2>1, <2>2 DEF During
  <2>6. Facts(p, d)'
    BY <1>1, <2>1, <2>2, <2>3, <2>4, <2>5, CallQuiet
  <2>7. Control(p, d)'
    BY <1>8, <2>1, <2>2
  <2>. QED BY <2>2, <2>6, <2>7, Explains
<1>15. CASE ReturnStep("platform", s)
  <2>1. CallLast(c) /\ c = Len(CallBody(shellCall))
    BY <1>6, <1>15 DEF CallKind, ReturnStep
  <2>2. /\ shellCall' = "none" /\ Continue("platform", <<>>) /\ UNCHANGED <<hostVars, dangled>>
        /\ UNCHANGED <<thread, tasks, made, signaled, viewed>>
        /\ shellLife' = CASE shellCall = "create" -> "ready"
                          [] shellCall = "destroy" -> "gone"
                          [] OTHER -> shellLife
    BY <1>9, <1>15 DEF ReturnStep
  <2>3. Control(p, c)'
    BY <2>1, <2>2, CallEnds
  <2>4. Facts(p, c)'
    BY <1>1, <2>1, <2>2, ReturnOk
  <2>. QED BY <2>2, <2>3, <2>4, Explains
<1>. QED BY <1>5, <1>10, <1>11, <1>12, <1>13, <1>14, <1>15 DEF t

-----------------------------------------------------------------------------
(* The theorems *)

LEMMA InitExplained ==
    ASSUME ShellInit
    PROVE  Explained /\ ~ dangled
<1>. DEFINE p == [t \in Runners |-> idle]
<1>1. /\ p \in [Runners -> Points] /\ \A t \in Runners : p[t] = idle
      /\ Rest(idle) = <<>> /\ <<>> \o <<>> = <<>>
  BY RestIsSeq DEF Points
<1>. HIDE DEF p
<1>2. Control(p, 1)
  BY <1>1 DEF ShellInit, Control, CallRest
<1>3. \A k : ~ Queued(k)
  BY DEF ShellInit, Queued
<1>4. QueueInv
  BY <1>3 DEF ShellInit, QueueInv, Hosts, Runners, Fits
<1>5. \A k : k # "idle" => ~ Left(p, k)
  BY <1>1, <1>3 DEF Left, Running, idle
<1>6. ThreadInv(p)
  <2>1. "idle" \notin IoTasks \cup RasterTasks \cup OnceTasks \cup {"teardown", "dropRasterizer", "thenSurface"}
    BY DEF IoTasks, RasterTasks, OnceTasks, SetupTasks, Signalers
  <2>. QED BY <1>1, <1>3, <1>5, <2>1 DEF ThreadInv, idle, Runners
<1>7. Local(p, 1)
  BY <1>1, <1>3 DEF Local, Ok, idle, Signalers
<1>8. Caller /\ Global(1) /\ IoPending(p, 1) /\ SurfaceInv(p, 1)
  BY <1>5 DEF ShellInit, Caller, Global, IoPending, SurfaceInv, During, Alive, RasterGone, Calls
<1>9. Facts(p, 1)
  BY <1>4, <1>6, <1>7, <1>8 DEF Facts
<1>. QED BY <1>2, <1>9 DEF Explained, ShellInit

LEMMA NextExplained ==
    ASSUME Explained, ~ dangled, [ShellNext]_shellVars
    PROVE  Explained' /\ ~ dangled'
<1>1. PICK p, c : Control(p, c) /\ Facts(p, c)
  BY DEF Explained
<1>2. ASSUME NEW t \in Runners, ThreadStep(t) PROVE Explained' /\ ~ dangled'
  <2>1. CASE TakeShellTask(t)
    BY <1>1, <2>1, TakeTask
  <2>2. CASE TakeStep(t) /\ p[t] # idle
    BY <1>1, <2>2, TaskStep
  <2>3. CASE TakeStep(t) /\ p[t] = idle
    <3>1. t = "platform" /\ shellCall # "none"
      BY <1>1, <2>3, NextStep DEF TakeStep
    <3>. QED BY <1>1, <2>3, <3>1, CallStepOk DEF InCall
  <2>. QED BY <1>2, <2>1, <2>2, <2>3 DEF ThreadStep
<1>3. CASE DrawFrame
  BY <1>1, <1>3, DrawStep
<1>4. CASE Create \/ Launch \/ CreateView \/ DestroyView \/ Destroy
  BY <1>4, CallBeginsOk
<1>5. CASE UNCHANGED shellVars
  <2>1. /\ UNCHANGED <<hostVars, thread, tasks, steps, made, signaled, callerVars, dangled>>
        /\ UNCHANGED <<shellCall, shellLife, viewed>>
    BY <1>5 DEF shellVars, hostVars, callerVars
  <2>2. /\ \A x \in Points : Rest(x)' = Rest(x)
        /\ Points' = Points
        /\ \A name \in Calls : CallBody(name)' = CallBody(name)
    BY <2>1, CodeStays
  <2>3. \A s \in Runners : CallRest(s, c)' = CallRest(s, c)
    BY <1>1, <2>1, <2>2 DEF CallRest, From, Control
  <2>4. steps' = [s \in Runners |-> Rest(p[s])' \o CallRest(s, c)']
    BY <1>1, <2>1, <2>2, <2>3 DEF Control
  <2>5. (shellCall # "none" => c \in 1 .. Len(CallBody(shellCall)))'
    BY <1>1, <2>1, <2>2 DEF Control
  <2>6. Control(p, c)'
    BY <1>1, <2>1, <2>2, <2>4, <2>5 DEF Control
  <2>7. QueueInv' /\ \A k : Queued(k)' <=> Queued(k)
    BY <1>1, <2>1, QueuesStay DEF Facts
  <2>8. \A k : Left(p, k)' <=> Left(p, k)
    BY <2>7 DEF Left, Running
  <2>9. ThreadInv(p)'
    BY <1>1, <2>1, <2>7, <2>8 DEF ThreadInv, Facts
  <2>10. \A j, n : Ok(j, n, c)' <=> Ok(j, n, c)
    BY <2>1 DEF Ok, During, Alive, IoGone, RasterGone, Awaits
  <2>11. Local(p, c)'
    BY <1>1, <2>7, <2>10 DEF Local, Facts
  <2>12. Global(c)' /\ Caller' /\ IoPending(p, c)' /\ SurfaceInv(p, c)'
    BY <1>1, <2>1, <2>7, <2>8 DEF Global, Caller, IoPending, SurfaceInv, During, Alive, RasterGone, Facts
  <2>13. Facts(p, c)'
    BY <2>7, <2>9, <2>11, <2>12 DEF Facts
  <2>. QED BY <2>1, <2>6, <2>13, Explains
<1>. QED BY <1>2, <1>3, <1>4, <1>5 DEF ShellNext

\* In every state some points of the tasks' bodies and some step of the call
\* (shell.cc:252-445, 605-684, 768-804, 959-1105) explain what the threads have left to
\* do, all the annotations of those points hold, and nothing was used that was gone.
THEOREM ShellExplained == ShellSpec => [](Explained /\ ~ dangled)
<1>1. ShellInit => Explained /\ ~ dangled
  BY InitExplained
<1>2. (Explained /\ ~ dangled) /\ [ShellNext]_shellVars => (Explained /\ ~ dangled)'
  BY NextExplained
<1>. QED BY <1>1, <1>2, PTL DEF ShellSpec

\* No task runs on what is gone: the shell and its parts outlive the tasks that hold
\* them by raw pointers, and the locals of the call those that hold them by reference
\* (shell.cc:287-411, 988-1024, 1077-1099).
THEOREM ShellNothingDangles == ShellSpec => []NothingDangles
<1>1. Explained /\ ~ dangled => NothingDangles
  BY DEF NothingDangles
<1>. QED BY <1>1, ShellExplained, PTL

\* A view that is destroyed leaves no surface, and no task that would set one up
\* (shell.cc:1032, 1087-1104).
THEOREM ShellSurfaceGone == ShellSpec => []SurfaceGoneOnReturn
<1>1. Explained => SurfaceGoneOnReturn
  <2>. SUFFICES ASSUME Explained, ~ viewed, shellCall = "none"
                PROVE  "surface" \notin made /\ ~ Pending("setupSurface")
    BY DEF SurfaceGoneOnReturn
  <2>1. PICK p, c : Control(p, c) /\ Facts(p, c)
    BY DEF Explained
  <2>2. "surface" \notin made /\ ~ Queued("setupSurface")
    BY <2>1 DEF Facts, SurfaceInv, Left
  <2>3. ASSUME NEW t \in Runners, steps[t] # <<>>, Head(steps[t]) = Run("ui", "setupSurface")
        PROVE  FALSE
    <3>1. p[t] # idle /\ StepAt(p[t]) = Run("ui", "setupSurface")
      BY <2>1, <2>3, NextStep
    <3>2. p[t] \in Points
      BY <2>1 DEF Control
    <3>3. RunRow(p[t])
      BY <3>1, <3>2, Kinds, Ops
    <3>. QED BY <3>1, <3>3, RowShape, Ops DEF RunRow
  <2>4. ASSUME NEW q \in Runners, NEW i \in DOMAIN tasks[q], tasks[q][i] = "setupSurface"
        PROVE  FALSE
    <3>1. tasks[q] \in Seq(TaskNames)
      BY <2>1 DEF Facts, QueueInv
    <3>2. i \in 1 .. Len(tasks[q])
      BY <3>1
    <3>. QED BY <2>2, <2>4, <3>2 DEF Queued
  <2>. QED BY <2>2, <2>3, <2>4 DEF Pending
<1>. QED BY <1>1, ShellExplained, PTL

=============================================================================
