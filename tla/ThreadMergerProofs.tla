-------------------------- MODULE ThreadMergerProofs --------------------------
(***************************************************************************)
(* What holds of the raster thread merger for any number of engines.       *)
(*                                                                         *)
(* Two threads may be in tasks of the raster queue at once only when the   *)
(* raster thread has itself merged the queues in its frame.  That frame's  *)
(* lease outlasts the overlap if fewer than LeaseTerm - 1 frames fit into  *)
(* it (ShortOverlap), which is what keeps the map of leases and the table  *)
(* of queues together.  That the merger is not left disabled needs none of *)
(* it: whoever disables it leaves a step behind that enables it.           *)
(***************************************************************************)
EXTENDS ThreadMerger, TLAPS

-----------------------------------------------------------------------------
(* The inductive invariant *)

\* Where a thread is in a frame, before and after its lease is settled; in the
\* tear-down of a surface; in any task of the raster queue; in a call of the
\* platform thread.
Drawn == {"drawn", "decrementShared", "decremented"}
FrameSteps == {"draw"} \cup Undecided \cup Drawn
UnMerging == {"unmerge", "unmergeShared", "erased"}
TearingDown == {"teardown"} \cup UnMerging
RasterSteps == FrameSteps \cup {"enable"} \cup TearingDown
PlatformSteps == {"disable", "choose", "wait"}

\* Fewer frames than this begin while the raster thread ends the frame that has
\* merged the threads.
ShortOverlap == MaxOverlap + 1 < LeaseTerm

leases == lease_term_by_caller_

ThreadsTypeOK ==
    /\ pc \in [Threads -> {"idle"} \cup RasterSteps \cup PlatformSteps]
    /\ engine \in [Threads -> Engines]
    /\ job \in [Threads -> {"none", "draw", "create", "destroy"}]
    /\ mergedBy \in Threads \cup {nobody}
    /\ overlap \in 0 .. MaxOverlap

ViewsTypeOK ==
    /\ surface_ \subseteq mergers
    /\ mergers \subseteq Engines
    /\ posted \subseteq Engines \X {"create", "destroy"}

LeasesTypeOK ==
    /\ leases \in [DOMAIN leases -> Nat]
    /\ DOMAIN leases \subseteq mergers
    /\ enabled_ \in BOOLEAN
    /\ merged \in BOOLEAN

JobsMatch ==
    \A t \in Threads :
        /\ pc[t] = "idle" <=> job[t] = "none"
        /\ pc[t] \in FrameSteps <=> job[t] = "draw"
        /\ pc[t] \in PlatformSteps => t = "platform"
        /\ pc[t] \in {"wait"} \cup TearingDown => job[t] = "destroy"

\* A merger that is disabled will be enabled: by the call that has disabled it, or
\* by the raster_task it has posted or begun.
EnableIsDue ==
    \/ enabled_
    \/ pc["platform"] = "choose" /\ engine["platform"] \in mergers
    \/ \E t \in Threads : pc[t] = "enable" /\ engine[t] \in mergers
    \/ \E p \in posted : p[1] \in mergers

JobsInv == ThreadsTypeOK /\ ViewsTypeOK /\ enabled_ \in BOOLEAN /\ JobsMatch /\ EnableIsDue

\* The platform thread waits for the tear-down that it has posted.
OneDestroy ==
    /\ \A p \in posted :
          p[2] = "destroy" =>
              /\ pc["platform"] = "wait" /\ engine["platform"] = p[1]
              /\ job["raster"] # "destroy"
    /\ job["raster"] = "destroy" =>
          pc["platform"] = "wait" /\ engine["platform"] = engine["raster"]

\* A task of the raster queue is on the thread that services it, or has merged it.
Exclusion ==
    \A t \in Threads :
        pc[t] \in RasterSteps => mergedBy = t \/ (t = "platform" <=> merged)

\* Only a frame of the raster thread merges, and its lease outlasts the overlap.
OverlapCounted ==
    /\ mergedBy # "platform"
    /\ mergedBy = "raster" =>
          /\ pc["raster"] \in {"recordLease"} \cup Drawn
          /\ job["platform"] = "draw" => overlap >= 1
          /\ pc["raster"] # "recordLease" /\ engine["raster"] \in DOMAIN leases =>
                leases[engine["raster"]] + overlap
                    >= LeaseTerm + (IF job["platform"] = "draw" THEN 1 ELSE 0)

\* What a thread has seen still holds when it acts on it.
ChecksStillHold ==
    \A t \in Threads :
        /\ pc[t] \in FrameSteps => engine[t] \in mergers
        /\ pc[t] \in Undecided => engine[t] \in surface_
        /\ pc[t] \in {"merge", "mergeShared", "recordLease"} => t = "raster"
        /\ pc[t] \in {"extend", "extendShared"} => t = "platform"
        /\ pc[t] \in TearingDown /\ engine[t] \in mergers => enabled_

\* Between the two writes there is no lease.  While the raster thread has merged
\* the queues and not recorded its lease, no frame of the platform thread gets past
\* its first check and no tear-down un-merges; only the platform thread, and only on
\* merged queues, gets to un-merge them.
WritesApart ==
    /\ pc["raster"] = "recordLease" =>
          /\ merged /\ mergedBy = "raster" /\ AllZero(leases)
          /\ pc["platform"] \notin Undecided \cup Drawn \cup UnMerging
    /\ \A t \in Threads :
          pc[t] \in {"decremented", "erased"} =>
              AllZero(leases) /\ (merged <=> t = "platform")

LeaseInv ==
    /\ JobsInv /\ LeasesTypeOK /\ OneDestroy /\ Exclusion /\ OverlapCounted
    /\ ChecksStillHold /\ LeasesMatchMerge /\ WritesApart /\ TornDownHoldsNoLease

-----------------------------------------------------------------------------
(* Steps of one thread *)

USE DEF Threads, Undecided, Drawn, FrameSteps, UnMerging, TearingDown, RasterSteps, PlatformSteps

\* A thread goes on with what it does.
LEMMA GotoKeepsJobs ==
    ASSUME ThreadsTypeOK, JobsMatch, NEW t \in Threads, NEW step \in RasterSteps \cup PlatformSteps,
           Goto(t, step), UNCHANGED <<engine, job>>,
           pc[t] # "idle",
           pc[t] \in FrameSteps <=> step \in FrameSteps,
           step \in PlatformSteps => t = "platform",
           step \in {"wait"} \cup TearingDown => job[t] = "destroy"
    PROVE  /\ pc' \in [Threads -> {"idle"} \cup RasterSteps \cup PlatformSteps]
           /\ engine' \in [Threads -> Engines]
           /\ job' \in [Threads -> {"none", "draw", "create", "destroy"}]
           /\ JobsMatch'
<1>1. pc' = [pc EXCEPT ![t] = step]
  BY DEF Goto
<1>. QED BY <1>1 DEF ThreadsTypeOK, JobsMatch

\* A thread ends its task; the platform thread no longer waits for a tear-down.
LEMMA EndTaskKeepsJobs ==
    ASSUME ThreadsTypeOK, JobsMatch, NEW t \in Threads, EndTask(t)
    PROVE  ThreadsTypeOK' /\ JobsMatch'
<1>1. \A s \in Threads : \/ pc'[s] = "idle" /\ job'[s] = "none"
                         \/ pc'[s] = pc[s] /\ job'[s] = job[s]
  BY DEF EndTask
<1>2. overlap' \in 0 .. MaxOverlap /\ mergedBy' \in Threads \cup {nobody} /\ engine' = engine
  BY LeaseAssumption DEF EndTask, ThreadsTypeOK
<1>3. /\ pc' \in [Threads -> {"idle"} \cup RasterSteps \cup PlatformSteps]
      /\ job' \in [Threads -> {"none", "draw", "create", "destroy"}]
  BY <1>1 DEF EndTask, ThreadsTypeOK
<1>4. JobsMatch'
  BY <1>1 DEF JobsMatch
<1>. QED BY <1>2, <1>3, <1>4 DEF ThreadsTypeOK

\* A thread starts something else.
LEMMA BeginKeepsJobs ==
    ASSUME ThreadsTypeOK, JobsMatch, NEW t \in Threads, pc[t] = "idle",
           NEW step \in {"draw", "enable", "disable"}, NEW e \in Engines,
           NEW kind \in {"draw", "create", "destroy"},
           step = "draw" <=> kind = "draw",
           step = "disable" => t = "platform",
           pc' = [pc EXCEPT ![t] = step],
           engine' = [engine EXCEPT ![t] = e],
           job' = [job EXCEPT ![t] = kind]
    PROVE  /\ pc' \in [Threads -> {"idle"} \cup RasterSteps \cup PlatformSteps]
           /\ engine' \in [Threads -> Engines]
           /\ job' \in [Threads -> {"none", "draw", "create", "destroy"}]
           /\ JobsMatch'
BY DEF ThreadsTypeOK, JobsMatch

\* What is to enable the merger is still to come.
LEMMA StillDue ==
    ASSUME EnableIsDue, UNCHANGED <<enabled_, mergers, posted>>,
           \A s \in Threads :
              pc[s] \in {"choose", "enable"} => pc'[s] = pc[s] /\ engine'[s] = engine[s]
    PROVE  EnableIsDue'
BY DEF EnableIsDue

-----------------------------------------------------------------------------
(* The merger is enabled again *)

LEMMA FrameKeepsJobsInv ==
    ASSUME JobsInv, NEW t \in Threads, Drawing(t)
    PROVE  JobsInv'
<1>. USE DEF JobsInv, Stay, leaseVars, viewVars
<1>1. UNCHANGED <<enabled_, mergers, surface_, posted>>
  BY DEF Drawing, BeginDraw, Draw, Preroll, GpuUnavailable, MergeWithLease,
         MergeWithLeaseShared, RecordLease, ExtendLeaseTo, ExtendLeaseToShared,
         DecrementLease, DecrementLeaseShared, UnMergeIfAllZero, UnMergeNowUnSafe
<1>2. ThreadsTypeOK' /\ JobsMatch'
  <2>1. ASSUME NEW e \in Engines, BeginDraw(t, e) PROVE ThreadsTypeOK' /\ JobsMatch'
    <3>1. overlap' \in 0 .. MaxOverlap /\ UNCHANGED mergedBy
      BY <2>1, LeaseAssumption DEF BeginDraw, ThreadsTypeOK
    <3>. QED BY <2>1, <3>1, BeginKeepsJobs DEF BeginDraw, RunsRasterTasks, ThreadsTypeOK
  <2>2. ASSUME NEW step \in FrameSteps, pc[t] \in FrameSteps, Goto(t, step),
               UNCHANGED <<engine, job>>, mergedBy' \in Threads \cup {nobody},
               overlap' \in 0 .. MaxOverlap
        PROVE  ThreadsTypeOK' /\ JobsMatch'
    BY <2>2, GotoKeepsJobs DEF ThreadsTypeOK
  <2>3. mergedBy \in Threads \cup {nobody} /\ overlap \in 0 .. MaxOverlap /\ 0 \in 0 .. MaxOverlap
    BY LeaseAssumption DEF ThreadsTypeOK
  <2>4. CASE \/ Draw(t) \/ GpuUnavailable(t) \/ DecrementLease(t) \/ DecrementLeaseShared(t)
             \/ UnMergeNowUnSafe(t, "decremented")
    BY <2>2, <2>3, <2>4, EndTaskKeepsJobs
       DEF Draw, GpuUnavailable, DecrementLease, DecrementLeaseShared, UnMergeIfAllZero,
           UnMergeNowUnSafe
  <2>5. CASE \/ Preroll(t) \/ MergeWithLease(t) \/ RecordLease(t)
             \/ ExtendLeaseTo(t) \/ ExtendLeaseToShared(t)
    BY <2>2, <2>3, <2>5
       DEF Preroll, MergeWithLease, RecordLease, ExtendLeaseTo, ExtendLeaseToShared
  <2>6. CASE MergeWithLeaseShared(t)
    BY <2>2, <2>3, <2>6 DEF MergeWithLeaseShared
  <2>. QED BY <2>1, <2>4, <2>5, <2>6 DEF Drawing
<1>3. \A s \in Threads :
         pc[s] \in {"choose", "enable"} => pc'[s] = pc[s] /\ engine'[s] = engine[s]
  <2>1. ASSUME NEW e \in Engines, BeginDraw(t, e), NEW s \in Threads, pc[s] # "idle"
        PROVE  pc'[s] = pc[s] /\ engine'[s] = engine[s]
    BY <2>1 DEF BeginDraw, RunsRasterTasks, ThreadsTypeOK
  <2>2. CASE \/ Draw(t) \/ Preroll(t) \/ GpuUnavailable(t) \/ MergeWithLease(t)
             \/ MergeWithLeaseShared(t) \/ RecordLease(t)
             \/ ExtendLeaseTo(t) \/ ExtendLeaseToShared(t)
             \/ DecrementLease(t) \/ DecrementLeaseShared(t)
             \/ UnMergeNowUnSafe(t, "decremented")
    <3>1. pc[t] \in FrameSteps /\ (EndTask(t) \/ (UNCHANGED engine /\ \E step : Goto(t, step)))
      BY <2>2 DEF Draw, Preroll, GpuUnavailable, MergeWithLease, MergeWithLeaseShared,
                  RecordLease, ExtendLeaseTo, ExtendLeaseToShared, DecrementLease,
                  DecrementLeaseShared, UnMergeIfAllZero, UnMergeNowUnSafe
    <3>. QED BY <3>1 DEF Goto, EndTask, ThreadsTypeOK
  <2>. QED BY <2>1, <2>2 DEF Drawing
<1>4. EnableIsDue'
  BY <1>1, <1>3, StillDue
<1>. QED BY <1>1, <1>2, <1>4 DEF ViewsTypeOK

\* The platform thread's part of a call.
LEMMA CallKeepsJobsInv ==
    ASSUME JobsInv, (\E e \in Engines : BeginViewChange(e)) \/ Disable \/ ChooseThread
    PROVE  JobsInv'
<1>. USE DEF JobsInv, Stay
<1>1. ASSUME NEW e \in Engines, BeginViewChange(e) PROVE JobsInv'
  <2>1. ThreadsTypeOK' /\ JobsMatch'
    BY <1>1, BeginKeepsJobs DEF BeginViewChange, ThreadsTypeOK
  <2>2. EnableIsDue'
    BY <1>1, StillDue DEF BeginViewChange, leaseVars, ThreadsTypeOK
  <2>. QED BY <1>1, <2>1, <2>2 DEF BeginViewChange, leaseVars, ViewsTypeOK
<1>2. CASE Disable
  <2>1. ThreadsTypeOK' /\ JobsMatch'
    BY <1>2, GotoKeepsJobs DEF Disable, ThreadsTypeOK
  <2>2. EnableIsDue'
    <3>1. CASE enabled_'
      BY <3>1 DEF EnableIsDue
    <3>2. CASE enabled_ /\ ~ enabled_'
      BY <1>2, <3>2 DEF Disable, EnableIsDue, Goto, ThreadsTypeOK, viewVars
    <3>3. CASE ~ enabled_
      BY <1>2, <3>3, StillDue DEF Disable, Goto, ThreadsTypeOK, viewVars
    <3>. QED BY <3>1, <3>2, <3>3
  <2>. QED BY <1>2, <2>1, <2>2 DEF Disable, viewVars, ViewsTypeOK
<1>3. CASE ChooseThread
  <2>1. ThreadsTypeOK' /\ JobsMatch'
    BY <1>3, GotoKeepsJobs, EndTaskKeepsJobs DEF ChooseThread, ThreadsTypeOK
  <2>2. ViewsTypeOK' /\ enabled_' \in BOOLEAN
    <3>1. job["platform"] = "create" \/ job["platform"] = "destroy" \/ merged
      BY <1>3 DEF ChooseThread
    <3>. QED BY <1>3, <3>1 DEF ChooseThread, ViewsTypeOK, ThreadsTypeOK, leaseVars
  <2>3. EnableIsDue'
    <3>1. UNCHANGED <<enabled_, mergers>> /\ pc["platform"] = "choose"
      BY <1>3 DEF ChooseThread, leaseVars
    <3>2. CASE merged
      <4>1. /\ pc' = [pc EXCEPT !["platform"] = "enable"]
            /\ UNCHANGED <<engine, posted>>
        BY <1>3, <3>2 DEF ChooseThread, Goto
      <4>. QED BY <3>1, <4>1 DEF EnableIsDue, ThreadsTypeOK
    <3>3. CASE ~ merged
      <4>1. /\ posted' = posted \cup {<<engine["platform"], job["platform"]>>}
            /\ UNCHANGED engine
            /\ \A s \in Threads : pc[s] = "enable" => pc'[s] = "enable"
        BY <1>3, <3>3 DEF ChooseThread, Goto, EndTask, ThreadsTypeOK
      <4>2. ASSUME engine["platform"] \in mergers PROVE EnableIsDue'
        <5>1. <<engine["platform"], job["platform"]>> \in posted'
          BY <4>1
        <5>. QED BY <3>1, <4>2, <5>1 DEF EnableIsDue
      <4>. QED BY <3>1, <4>1, <4>2 DEF EnableIsDue
    <3>. QED BY <3>2, <3>3
  <2>. QED BY <2>1, <2>2, <2>3
<1>. QED BY <1>1, <1>2, <1>3

\* The raster thread's part.
LEMMA RasterTaskKeepsJobsInv ==
    ASSUME JobsInv, NEW t \in Threads, ViewChanging(t)
    PROVE  JobsInv'
<1>. USE DEF JobsInv, Stay
<1>1. ASSUME NEW e \in Engines, NEW kind \in {"create", "destroy"}, BeginRasterTask(t, e, kind)
      PROVE  JobsInv'
  <2>1. ThreadsTypeOK' /\ JobsMatch'
    BY <1>1, BeginKeepsJobs DEF BeginRasterTask, RunsRasterTasks, ThreadsTypeOK
  <2>2. EnableIsDue'
    <3>1. /\ pc' = [pc EXCEPT ![t] = "enable"] /\ engine' = [engine EXCEPT ![t] = e]
          /\ posted' = posted \ {<<e, kind>>} /\ UNCHANGED <<enabled_, mergers>>
          /\ pc[t] = "idle"
      BY <1>1 DEF BeginRasterTask, RunsRasterTasks, leaseVars
    <3>2. CASE e \in mergers
      BY <3>1, <3>2 DEF EnableIsDue, ThreadsTypeOK
    <3>3. CASE e \notin mergers
      <4>1. \A p \in posted : p[1] \in mergers => p \in posted'
        BY <3>1, <3>3
      <4>. QED BY <3>1, <4>1 DEF EnableIsDue, ThreadsTypeOK
    <3>. QED BY <3>2, <3>3
  <2>. QED BY <1>1, <2>1, <2>2 DEF BeginRasterTask, ViewsTypeOK, leaseVars
<1>2. CASE Enable(t)
  <2>1. ThreadsTypeOK' /\ JobsMatch'
    <3>1. job[t] \in {"create", "destroy"}
      BY <1>2 DEF Enable, JobsMatch, ThreadsTypeOK
    <3>2. CASE job[t] = "create"
      BY <1>2, <3>2, EndTaskKeepsJobs DEF Enable
    <3>3. CASE job[t] = "destroy"
      BY <1>2, <3>3, GotoKeepsJobs DEF Enable, ThreadsTypeOK
    <3>. QED BY <3>1, <3>2, <3>3
  <2>2. ViewsTypeOK' /\ enabled_' \in BOOLEAN
    BY <1>2 DEF Enable, ViewsTypeOK, ThreadsTypeOK
  <2>3. EnableIsDue'
    <3>1. CASE engine[t] \in mergers
      BY <1>2, <3>1 DEF Enable, EnableIsDue
    <3>2. CASE engine[t] \notin mergers
      <4>1. /\ enabled_' = enabled_ /\ mergers \subseteq mergers' /\ UNCHANGED <<posted, engine>>
            /\ \A s \in Threads :
                  s # t /\ pc[s] \in {"choose", "enable"} => pc'[s] = pc[s]
        BY <1>2, <3>2 DEF Enable, EndTask, Goto, ThreadsTypeOK
      <4>2. pc[t] = "enable"
        BY <1>2 DEF Enable
      <4>. QED BY <3>2, <4>1, <4>2 DEF EnableIsDue
    <3>. QED BY <3>1, <3>2
  <2>. QED BY <2>1, <2>2, <2>3
<1>3. CASE \/ Teardown(t) \/ UnMergeNowIfLastOne(t) \/ UnMergeNowIfLastOneShared(t)
           \/ UnMergeNowUnSafe(t, "erased")
  <2>1. pc[t] \in TearingDown /\ UNCHANGED <<enabled_, surface_, mergers, posted>>
    BY <1>3 DEF Teardown, UnMergeNowIfLastOne, UnMergeNowIfLastOneShared, UnMergeIfAllZero,
                UnMergeNowUnSafe, viewVars, leaseVars
  <2>2. \/ EndTask(t)
        \/ UNCHANGED <<engine, job, mergedBy, overlap>> /\ \E step \in TearingDown : Goto(t, step)
    BY <1>3 DEF Teardown, UnMergeNowIfLastOne, UnMergeNowIfLastOneShared, UnMergeIfAllZero,
                UnMergeNowUnSafe
  <2>3. ThreadsTypeOK' /\ JobsMatch'
    <3>1. job[t] = "destroy" /\ pc[t] # "idle" /\ pc[t] \notin FrameSteps
      BY <2>1 DEF JobsMatch
    <3>. QED BY <2>2, <3>1, EndTaskKeepsJobs, GotoKeepsJobs DEF ThreadsTypeOK
  <2>4. EnableIsDue'
    <3>1. \A s \in Threads :
             pc[s] \in {"choose", "enable"} => pc'[s] = pc[s] /\ engine'[s] = engine[s]
      BY <2>1, <2>2 DEF EndTask, Goto, ThreadsTypeOK
    <3>. QED BY <2>1, <3>1, StillDue
  <2>. QED BY <2>1, <2>3, <2>4 DEF ViewsTypeOK
<1>. QED BY <1>1, <1>2, <1>3 DEF ViewChanging

LEMMA JobsInvInit == Init => JobsInv
<1>. SUFFICES ASSUME Init PROVE JobsInv
  OBVIOUS
<1>1. (CHOOSE e \in Engines : TRUE) \in Engines
  BY EnginesAssumption
<1>. QED BY <1>1, LeaseAssumption
         DEF Init, JobsInv, ThreadsTypeOK, ViewsTypeOK, JobsMatch, EnableIsDue

LEMMA JobsInvStep == JobsInv /\ [Next]_vars => JobsInv'
<1>. SUFFICES ASSUME JobsInv, [Next]_vars PROVE JobsInv'
  OBVIOUS
<1>1. CASE UNCHANGED vars
  BY <1>1 DEF vars, leaseVars, viewVars, threadVars, JobsInv, ThreadsTypeOK, ViewsTypeOK,
              JobsMatch, EnableIsDue
<1>. QED BY <1>1, FrameKeepsJobsInv, CallKeepsJobsInv, RasterTaskKeepsJobsInv DEF Next

LEMMA JobsInvAlways == Spec => []JobsInv
BY JobsInvInit, JobsInvStep, PTL DEF Spec

\* However many engines gain and lose their views, and however their frames
\* interleave with it: once no such change is under way the merger that they share
\* is enabled, so the next frame with a platform view can merge the threads
\* (shell.cc lines 970, 1062).
THEOREM MergerNotLeftDisabled == Spec => []NeverLeftDisabled
<1>1. JobsInv => NeverLeftDisabled
  <2>. SUFFICES ASSUME JobsInv, \A t \in Threads : job[t] \in {"none", "draw"}, posted = {}
                PROVE  enabled_
    BY DEF NeverLeftDisabled
  <2>1. \A t \in Threads : pc[t] \notin {"choose", "enable"}
    BY DEF JobsInv, JobsMatch, ThreadsTypeOK
  <2>. QED BY <2>1 DEF JobsInv, EnableIsDue
<1>. QED BY <1>1, JobsInvAlways, PTL

-----------------------------------------------------------------------------
(* What the steps of a frame and of a tear-down leave alone *)

FrameStep(t) ==
    \/ Draw(t) \/ Preroll(t) \/ GpuUnavailable(t)
    \/ MergeWithLease(t) \/ MergeWithLeaseShared(t) \/ RecordLease(t)
    \/ ExtendLeaseTo(t) \/ ExtendLeaseToShared(t)
    \/ DecrementLease(t) \/ DecrementLeaseShared(t)
    \/ UnMergeNowUnSafe(t, "decremented")

TearDownStep(t) ==
    \/ Teardown(t)
    \/ UnMergeNowIfLastOne(t) \/ UnMergeNowIfLastOneShared(t)
    \/ UnMergeNowUnSafe(t, "erased")

LEMMA FrameEffect ==
    ASSUME JobsInv, NEW t \in Threads, FrameStep(t)
    PROVE  /\ pc[t] \in FrameSteps /\ job[t] = "draw"
           /\ UNCHANGED <<engine, enabled_, surface_, mergers, posted>>
           /\ \A s \in Threads \ {t} : pc'[s] = pc[s] /\ job'[s] = job[s]
           /\ \/ pc'[t] \in FrameSteps /\ job'[t] = "draw"
              \/ pc'[t] = "idle" /\ job'[t] = "none"
<1>1. pc[t] \in FrameSteps /\ UNCHANGED <<enabled_, surface_, mergers, posted>>
  BY DEF FrameStep, leaseVars, viewVars, Draw, Preroll, GpuUnavailable, MergeWithLease,
         MergeWithLeaseShared, RecordLease, ExtendLeaseTo, ExtendLeaseToShared,
         DecrementLease, DecrementLeaseShared, UnMergeIfAllZero, UnMergeNowUnSafe
<1>2. job[t] = "draw"
  BY <1>1 DEF JobsInv, JobsMatch
<1>3. EndTask(t) \/ (UNCHANGED <<engine, job>> /\ \E step \in FrameSteps : Goto(t, step))
  BY DEF FrameStep, Stay, Draw, Preroll, GpuUnavailable, MergeWithLease,
         MergeWithLeaseShared, RecordLease, ExtendLeaseTo, ExtendLeaseToShared,
         DecrementLease, DecrementLeaseShared, UnMergeIfAllZero, UnMergeNowUnSafe
<1>4. CASE EndTask(t)
  BY <1>1, <1>2, <1>4 DEF EndTask
<1>5. CASE UNCHANGED <<engine, job>> /\ \E step \in FrameSteps : Goto(t, step)
  BY <1>1, <1>2, <1>5 DEF Goto, JobsInv, ThreadsTypeOK
<1>. QED BY <1>3, <1>4, <1>5

LEMMA TearDownEffect ==
    ASSUME JobsInv, NEW t \in Threads, TearDownStep(t)
    PROVE  /\ pc[t] \in TearingDown /\ job[t] = "destroy"
           /\ UNCHANGED <<engine, enabled_, surface_, mergers, posted>>
           /\ \/ /\ pc'[t] \in TearingDown /\ UNCHANGED <<job, mergedBy, overlap>>
                 /\ \A s \in Threads \ {t} : pc'[s] = pc[s]
              \/ /\ EndTask(t)
                 /\ pc'[t] = "idle" /\ job'[t] = "none"
                 /\ \A s \in Threads \ {t} :
                       IF pc[s] = "wait" THEN pc'[s] = "idle" /\ job'[s] = "none"
                       ELSE pc'[s] = pc[s] /\ job'[s] = job[s]
<1>1. pc[t] \in TearingDown /\ UNCHANGED <<enabled_, surface_, mergers, posted>>
  BY DEF TearDownStep, leaseVars, viewVars, Teardown, UnMergeNowIfLastOne,
         UnMergeNowIfLastOneShared, UnMergeIfAllZero, UnMergeNowUnSafe
<1>2. job[t] = "destroy"
  BY <1>1 DEF JobsInv, JobsMatch
<1>3. EndTask(t) \/ (Stay /\ \E step \in TearingDown : Goto(t, step))
  BY DEF TearDownStep, Teardown, UnMergeNowIfLastOne, UnMergeNowIfLastOneShared,
         UnMergeIfAllZero, UnMergeNowUnSafe
<1>4. CASE EndTask(t)
  BY <1>1, <1>2, <1>4 DEF EndTask
<1>5. CASE Stay /\ \E step \in TearingDown : Goto(t, step)
  BY <1>1, <1>2, <1>5 DEF Stay, Goto, JobsInv, ThreadsTypeOK
<1>. QED BY <1>3, <1>4, <1>5

-----------------------------------------------------------------------------
(* One tear-down at a time *)

LEMMA OneDestroyStep ==
    ASSUME JobsInv, OneDestroy, Next
    PROVE  OneDestroy'
<1>. USE DEF JobsInv, OneDestroy, ThreadsTypeOK
<1>0. ASSUME pc["platform"] # "wait"
      PROVE  job["raster"] # "destroy" /\ \A p \in posted : p[2] # "destroy"
  BY <1>0
<1>1. ASSUME NEW t \in Threads, NEW e \in Engines, BeginDraw(t, e) PROVE OneDestroy'
  <2>1. UNCHANGED posted /\ pc[t] = "idle"
    BY <1>1 DEF BeginDraw, RunsRasterTasks, viewVars
  <2>. QED BY <1>0, <1>1, <2>1 DEF BeginDraw
<1>2. ASSUME NEW t \in Threads, FrameStep(t) PROVE OneDestroy'
  BY <1>2, FrameEffect
<1>3. ASSUME NEW t \in Threads, TearDownStep(t) PROVE OneDestroy'
  <2>1. CASE t = "platform"
    BY <1>0, <1>3, <2>1, TearDownEffect
  <2>2. CASE t = "raster"
    BY <1>3, <2>2, TearDownEffect
  <2>. QED BY <2>1, <2>2
<1>4. ASSUME NEW e \in Engines, BeginViewChange(e) PROVE OneDestroy'
  BY <1>0, <1>4 DEF BeginViewChange
<1>5. CASE Disable
  BY <1>0, <1>5 DEF Disable, Goto, Stay, viewVars
<1>6. CASE ChooseThread
  <2>1. CASE merged
    BY <1>0, <1>6, <2>1 DEF ChooseThread, Goto, Stay
  <2>2. CASE ~ merged /\ job["platform"] = "destroy"
    <3>1. /\ posted' = posted \cup {<<engine["platform"], "destroy">>}
          /\ pc'["platform"] = "wait" /\ UNCHANGED <<engine, job>>
      BY <1>6, <2>2 DEF ChooseThread, Goto, Stay
    <3>2. pc["platform"] = "choose"
      BY <1>6 DEF ChooseThread
    <3>. QED BY <1>0, <3>1, <3>2
  <2>3. CASE ~ merged /\ job["platform"] = "create"
    <3>1. /\ posted' = posted \cup {<<engine["platform"], "create">>}
          /\ UNCHANGED engine /\ job'["raster"] = job["raster"]
      BY <1>6, <2>3 DEF ChooseThread, EndTask
    <3>2. pc["platform"] = "choose"
      BY <1>6 DEF ChooseThread
    <3>. QED BY <1>0, <3>1, <3>2
  <2>. QED BY <1>6, <2>1, <2>2, <2>3 DEF ChooseThread
<1>7. ASSUME NEW t \in Threads, NEW e \in Engines, NEW kind \in {"create", "destroy"},
             BeginRasterTask(t, e, kind)
      PROVE  OneDestroy'
  <2>1. /\ pc[t] = "idle" /\ <<e, kind>> \in posted
        /\ posted' = posted \ {<<e, kind>>}
        /\ pc' = [pc EXCEPT ![t] = "enable"]
        /\ engine' = [engine EXCEPT ![t] = e]
        /\ job' = [job EXCEPT ![t] = kind]
    BY <1>7 DEF BeginRasterTask, RunsRasterTasks
  <2>2. CASE t = "platform"
    BY <1>0, <2>1, <2>2
  <2>3. CASE t = "raster" /\ kind = "create"
    BY <2>1, <2>3
  <2>4. CASE t = "raster" /\ kind = "destroy"
    <3>1. pc["platform"] = "wait" /\ engine["platform"] = e
      BY <2>1, <2>4
    <3>2. ASSUME NEW p \in posted, p[2] = "destroy" PROVE p = <<e, kind>>
      BY <2>4, <3>1, <3>2 DEF ViewsTypeOK
    <3>. QED BY <2>1, <2>4, <3>1, <3>2
  <2>. QED BY <2>2, <2>3, <2>4
<1>8. ASSUME NEW t \in Threads, Enable(t) PROVE OneDestroy'
  <2>1. pc[t] = "enable" /\ UNCHANGED <<posted, engine>>
    BY <1>8 DEF Enable, Stay, EndTask
  <2>2. /\ \A s \in Threads \ {t} : pc'[s] = pc[s] /\ job'[s] = job[s]
        /\ job'[t] \in {job[t], "none"}
    <3>1. CASE job[t] = "create"
      BY <1>8, <3>1 DEF Enable, EndTask
    <3>2. CASE job[t] # "create"
      BY <1>8, <3>2 DEF Enable, Goto, Stay
    <3>. QED BY <3>1, <3>2
  <2>3. CASE t = "platform"
    BY <1>0, <2>1, <2>2, <2>3
  <2>4. CASE t = "raster"
    BY <2>1, <2>2, <2>4
  <2>. QED BY <2>3, <2>4
<1>. QED BY <1>1, <1>2, <1>3, <1>4, <1>5, <1>6, <1>7, <1>8
         DEF Next, Drawing, ViewChanging, FrameStep, TearDownStep

-----------------------------------------------------------------------------
(* What the shared merger does to the leases *)

LEMMA LeasesTyped ==
    ASSUME LeasesTypeOK, LeasesMatchMerge
    PROVE  /\ AllZero(leases) <=> \A e \in DOMAIN leases : ~ (leases[e] > 0)
           /\ ~ merged => AllZero(leases)
           /\ merged /\ SharedUnlocked => ~ AllZero(leases)
           /\ IsMerged <=> ~ AllZero(leases)
<1>1. \A e \in DOMAIN leases : leases[e] \in Nat
  BY DEF LeasesTypeOK
<1>2. AllZero(leases) <=> \A e \in DOMAIN leases : ~ (leases[e] > 0)
  BY <1>1 DEF AllZero
<1>. QED BY <1>2 DEF LeasesMatchMerge, IsMerged, leases

\* Only the raster thread merges, no other is in a raster task, and there is no lease.
LEMMA MergeEffect ==
    ASSUME LeaseInv, NEW t \in Threads, MergeWithLeaseShared(t)
    PROVE  /\ t = "raster" /\ pc[t] = "mergeShared" /\ ~ merged
           /\ pc["platform"] \notin RasterSteps
           /\ merged' = TRUE /\ mergedBy' = "raster" /\ overlap' = 0
           /\ AllZero(leases) /\ SharedUnlocked
           /\ pc'["raster"] = "recordLease" /\ pc'["platform"] = pc["platform"]
           /\ UNCHANGED <<leases, engine, job>>
<1>1. t = "raster" /\ pc[t] = "mergeShared" /\ SharedUnlocked
  BY DEF MergeWithLeaseShared, LeaseInv, ChecksStillHold
<1>2. ~ merged
  BY <1>1 DEF LeaseInv, Exclusion, OverlapCounted
<1>3. pc["platform"] \notin RasterSteps
  BY <1>2 DEF LeaseInv, Exclusion, OverlapCounted
<1>4. ~ IsMerged /\ AllZero(leases)
  BY <1>2, LeasesTyped DEF LeaseInv
<1>. QED BY <1>1, <1>2, <1>3, <1>4
         DEF MergeWithLeaseShared, Goto, leases, LeaseInv, JobsInv, ThreadsTypeOK

\* Its lease is the only one, and no frame of the platform thread has gone on.
LEMMA RecordEffect ==
    ASSUME LeaseInv, NEW t \in Threads, RecordLease(t)
    PROVE  /\ t = "raster" /\ pc[t] = "recordLease" /\ merged /\ mergedBy = "raster"
           /\ engine["raster"] \in surface_ /\ engine["raster"] \in mergers
           /\ leases' = WithLease(engine["raster"], LeaseTerm)
           /\ pc'["raster"] = "drawn" /\ pc'["platform"] = pc["platform"]
           /\ UNCHANGED <<merged, engine, job, mergedBy, overlap>>
<1>1. t = "raster" /\ pc[t] = "recordLease"
  BY DEF RecordLease, LeaseInv, ChecksStillHold
<1>2. merged /\ mergedBy = "raster"
  BY <1>1 DEF LeaseInv, WritesApart
<1>3. engine["raster"] \in surface_ /\ engine["raster"] \in mergers
  BY <1>1 DEF LeaseInv, ChecksStillHold
<1>. QED BY <1>1, <1>2, <1>3
         DEF RecordLease, Goto, Stay, leases, LeaseInv, JobsInv, ThreadsTypeOK

\* Only the platform thread extends a lease, while the threads are merged.
LEMMA ExtendEffect ==
    ASSUME LeaseInv, NEW t \in Threads, ExtendLeaseToShared(t)
    PROVE  /\ t = "platform" /\ pc[t] = "extendShared" /\ merged /\ job["platform"] = "draw"
           /\ engine["platform"] \in surface_ /\ SharedUnlocked
           /\ leases' = WithLease(engine["platform"], LeaseTerm)
           /\ pc'["platform"] = "drawn" /\ pc'["raster"] = pc["raster"]
           /\ UNCHANGED <<merged, engine, job, mergedBy, overlap>>
<1>1. t = "platform" /\ pc[t] = "extendShared" /\ SharedUnlocked
  BY DEF ExtendLeaseToShared, LeaseInv, ChecksStillHold
<1>2. merged
  BY <1>1 DEF LeaseInv, Exclusion, OverlapCounted
<1>3. job["platform"] = "draw" /\ engine["platform"] \in surface_
  BY <1>1 DEF LeaseInv, JobsInv, JobsMatch, ChecksStillHold
<1>. QED BY <1>1, <1>2, <1>3
         DEF ExtendLeaseToShared, Goto, Stay, leases, LeaseInv, JobsInv, ThreadsTypeOK

\* A decrement gives back one frame of the engine's lease, if it has one.  Where it
\* was the last, the platform thread goes on to un-merge; the raster thread finds
\* that it still has a lease, or that the threads are not merged.
LEMMA DecrementEffect ==
    ASSUME LeaseInv, ShortOverlap, NEW t \in Threads, DecrementLeaseShared(t)
    PROVE  /\ pc[t] = "decrementShared" /\ SharedUnlocked /\ UNCHANGED merged
           /\ leases' \in [DOMAIN leases -> Nat]
           /\ \A e \in DOMAIN leases :
                 leases'[e] = IF e = engine[t] THEN leases[e] - 1 ELSE leases[e]
           /\ engine[t] \in DOMAIN leases => leases[engine[t]] > 0
           /\ IF AllZero(leases') THEN Goto(t, "decremented") /\ Stay ELSE EndTask(t)
           /\ AllZero(leases') => (merged <=> t = "platform")
<1>. DEFINE e == engine[t]
            new == IF e \in DOMAIN leases THEN WithLease(e, leases[e] - 1) ELSE leases
<1>1. /\ pc[t] = "decrementShared" /\ SharedUnlocked /\ UNCHANGED merged /\ leases' = new
      /\ e \in DOMAIN leases => leases[e] > 0
      /\ IF AllZero(new) THEN Goto(t, "decremented") /\ Stay ELSE EndTask(t)
  BY DEF DecrementLeaseShared, UnMergeIfAllZero, leases
<1>2. /\ leases \in [DOMAIN leases -> Nat] /\ merged \in BOOLEAN
      /\ merged => \E f \in DOMAIN leases : leases[f] > 0
  BY <1>1, LeasesTyped DEF LeaseInv, LeasesTypeOK
<1>3. new \in [DOMAIN leases -> Nat]
      /\ \A f \in DOMAIN leases : new[f] = IF f = e THEN leases[f] - 1 ELSE leases[f]
  <2>1. CASE e \in DOMAIN leases
    <3>1. new = [f \in DOMAIN leases |-> IF f = e THEN leases[e] - 1 ELSE leases[f]]
      BY <2>1 DEF WithLease, leases
    <3>2. leases[e] - 1 \in Nat
      BY <1>1, <1>2, <2>1
    <3>. QED BY <1>2, <3>1, <3>2
  <2>2. CASE e \notin DOMAIN leases
    BY <1>2, <2>2
  <2>. QED BY <2>1, <2>2
<1>. HIDE DEF new, e
<1>4. AllZero(new) <=> \A f \in DOMAIN leases : new[f] = 0
  BY <1>3 DEF AllZero
<1>5. t = "platform" => merged
  BY <1>1 DEF LeaseInv, Exclusion, OverlapCounted
<1>6. ASSUME t = "raster", merged PROVE ~ AllZero(new)
  <2>1. mergedBy = "raster"
    BY <1>1, <1>6 DEF LeaseInv, Exclusion
  <2>2. CASE e \in DOMAIN leases
    <3>1. leases[e] + overlap
             >= LeaseTerm + (IF job["platform"] = "draw" THEN 1 ELSE 0)
      BY <1>1, <1>6, <2>1, <2>2 DEF e, LeaseInv, OverlapCounted
    <3>2. overlap \in Nat /\ overlap <= MaxOverlap /\ leases[e] \in Nat
      BY <1>2, <2>2, LeaseAssumption DEF LeaseInv, JobsInv, ThreadsTypeOK
    <3>3. leases[e] - 1 > 0
      BY <3>1, <3>2, LeaseAssumption DEF ShortOverlap
    <3>. QED BY <1>3, <1>4, <2>2, <3>3
  <2>3. CASE e \notin DOMAIN leases
    <3>1. PICK f \in DOMAIN leases : leases[f] > 0
      BY <1>2, <1>6
    <3>2. new[f] > 0
      BY <1>3, <2>3, <3>1
    <3>. QED BY <1>4, <3>2
  <2>. QED BY <2>2, <2>3
<1>. QED BY <1>1, <1>2, <1>3, <1>5, <1>6 DEF e

\* A tear-down takes the engine's record out.
LEMMA UnMergeEffect ==
    ASSUME LeaseInv, NEW t \in Threads, UnMergeNowIfLastOneShared(t)
    PROVE  /\ pc[t] = "unmergeShared" /\ SharedUnlocked /\ UNCHANGED merged
           /\ leases' \in [DOMAIN leases \ {engine[t]} -> Nat]
           /\ \A e \in DOMAIN leases \ {engine[t]} : leases'[e] = leases[e]
           /\ IF AllZero(leases') THEN Goto(t, "erased") /\ Stay ELSE EndTask(t)
           /\ merged <=> t = "platform"
<1>1. /\ pc[t] = "unmergeShared" /\ SharedUnlocked /\ UNCHANGED merged
      /\ leases' = WithoutLease(engine[t])
      /\ IF AllZero(leases') THEN Goto(t, "erased") /\ Stay ELSE EndTask(t)
  BY DEF UnMergeNowIfLastOneShared, UnMergeIfAllZero, leases
<1>2. leases \in [DOMAIN leases -> Nat]
  BY DEF LeaseInv, LeasesTypeOK
<1>3. merged <=> t = "platform"
  BY <1>1 DEF LeaseInv, Exclusion, OverlapCounted
<1>. QED BY <1>1, <1>2, <1>3 DEF WithoutLease, leases

\* Only the platform thread gets to un-merge the queues.
LEMMA UnMergeNowEffect ==
    ASSUME LeaseInv, NEW t \in Threads, NEW step \in {"decremented", "erased"},
           UnMergeNowUnSafe(t, step)
    PROVE  /\ t = "platform" /\ pc[t] = step /\ merged' = FALSE /\ AllZero(leases)
           /\ UNCHANGED leases /\ EndTask(t)
BY DEF UnMergeNowUnSafe, LeaseInv, WritesApart, leases

-----------------------------------------------------------------------------
(* The leases and the queues agree *)

LeaseStep(t) ==
    \/ MergeWithLeaseShared(t) \/ RecordLease(t) \/ ExtendLeaseToShared(t)
    \/ DecrementLeaseShared(t) \/ UnMergeNowIfLastOneShared(t)
    \/ \E step \in {"decremented", "erased"} : UnMergeNowUnSafe(t, step)

LEMMA OthersKeepLeases ==
    ASSUME Next, \A t \in Threads : ~ LeaseStep(t)
    PROVE  UNCHANGED <<leases, merged>> /\ mergers \subseteq mergers'
<1>1. ASSUME NEW t \in Threads, Drawing(t) PROVE UNCHANGED <<leases, merged, mergers>>
  BY <1>1 DEF LeaseStep, leases, leaseVars, viewVars, Drawing, BeginDraw, Draw, Preroll,
              GpuUnavailable, MergeWithLease, ExtendLeaseTo, DecrementLease
<1>2. ASSUME NEW t \in Threads, ViewChanging(t)
      PROVE  UNCHANGED <<leases, merged>> /\ mergers \subseteq mergers'
  BY <1>2 DEF LeaseStep, leases, leaseVars, viewVars, ViewChanging, BeginRasterTask, Enable,
              Teardown, UnMergeNowIfLastOne
<1>3. ASSUME (\E e \in Engines : BeginViewChange(e)) \/ Disable \/ ChooseThread
      PROVE  UNCHANGED <<leases, merged, mergers>>
  BY <1>3 DEF leases, leaseVars, viewVars, BeginViewChange, Disable, ChooseThread
<1>. QED BY <1>1, <1>2, <1>3 DEF Next

\* A step on nobody's lease takes no thread into the writes or out of them, nor
\* past a frame's decision.
LEMMA OthersKeepWrites ==
    ASSUME JobsInv, Next, \A t \in Threads : ~ LeaseStep(t), NEW s \in Threads
    PROVE  pc[s] \in BetweenWrites \/ pc'[s] \in BetweenWrites => pc'[s] = pc[s]
<1>. USE DEF ThreadsTypeOK, BetweenWrites
<1>1. ThreadsTypeOK /\ JobsMatch
  BY DEF JobsInv
<1>2. ASSUME NEW t \in Threads, FrameStep(t) \/ TearDownStep(t) \/ Enable(t)
      PROVE  pc[s] \in BetweenWrites \/ pc'[s] \in BetweenWrites => pc'[s] = pc[s]
  <2>1. pc[t] \notin BetweenWrites
    BY <1>2 DEF FrameStep, TearDownStep, LeaseStep, Draw, Preroll, GpuUnavailable,
                MergeWithLease, ExtendLeaseTo, DecrementLease, Teardown, UnMergeNowIfLastOne, Enable
  <2>2. CASE EndTask(t)
    BY <1>1, <2>1, <2>2 DEF EndTask
  <2>3. CASE \E step \in (RasterSteps \ BetweenWrites) : Goto(t, step)
    BY <1>1, <2>1, <2>3 DEF Goto
  <2>. QED BY <1>2, <2>2, <2>3
           DEF FrameStep, TearDownStep, LeaseStep, Draw, Preroll, GpuUnavailable,
               MergeWithLease, ExtendLeaseTo, DecrementLease, Teardown, UnMergeNowIfLastOne, Enable
<1>3. ASSUME NEW t \in Threads, NEW e \in Engines, BeginDraw(t, e)
      PROVE  pc[s] \in BetweenWrites \/ pc'[s] \in BetweenWrites => pc'[s] = pc[s]
  BY <1>1, <1>3 DEF BeginDraw, RunsRasterTasks
<1>4. ASSUME NEW t \in Threads, NEW e \in Engines, NEW kind \in {"create", "destroy"},
             BeginRasterTask(t, e, kind)
      PROVE  pc[s] \in BetweenWrites \/ pc'[s] \in BetweenWrites => pc'[s] = pc[s]
  BY <1>1, <1>4 DEF BeginRasterTask, RunsRasterTasks
<1>5. CASE (\E e \in Engines : BeginViewChange(e)) \/ Disable
  BY <1>1, <1>5 DEF BeginViewChange, Disable, Goto
<1>6. CASE ChooseThread
  BY <1>1, <1>6 DEF ChooseThread, Goto, EndTask
<1>. QED BY <1>2, <1>3, <1>4, <1>5, <1>6
         DEF Next, Drawing, ViewChanging, FrameStep, TearDownStep

LEMMA LeaseStepsKeepViews ==
    ASSUME NEW t \in Threads, LeaseStep(t)
    PROVE  UNCHANGED <<enabled_, surface_, mergers, posted>>
BY DEF LeaseStep, viewVars, MergeWithLeaseShared, RecordLease, ExtendLeaseToShared,
       DecrementLeaseShared, UnMergeNowIfLastOneShared, UnMergeIfAllZero, UnMergeNowUnSafe

\* What it takes for the leases and the queues to agree.
LEMMA Agree ==
    /\ AllZero(leases) => (merged => ~ SharedUnlocked)
    /\ ~ AllZero(leases) => merged
    => LeasesMatchMerge
BY DEF LeasesMatchMerge, IsMerged, leases

LEMMA LeaseRecorded ==
    ASSUME LeaseInv, NEW e \in mergers, leases' = WithLease(e, LeaseTerm)
    PROVE  /\ DOMAIN leases' = DOMAIN leases \cup {e}
           /\ leases' \in [DOMAIN leases' -> Nat]
           /\ DOMAIN leases' \subseteq mergers
           /\ leases'[e] = LeaseTerm
           /\ \A f \in DOMAIN leases \ {e} : leases'[f] = leases[f]
           /\ ~ AllZero(leases')
<1>1. /\ DOMAIN leases' = DOMAIN leases \cup {e}
      /\ leases' \in [DOMAIN leases' -> Nat]
      /\ DOMAIN leases' \subseteq mergers
      /\ leases'[e] = LeaseTerm
      /\ \A f \in DOMAIN leases \ {e} : leases'[f] = leases[f]
  BY LeaseAssumption DEF WithLease, leases, LeaseInv, LeasesTypeOK
<1>2. LeaseTerm # 0
  BY LeaseAssumption
<1>. QED BY <1>1, <1>2 DEF AllZero

LEMMA LeasesStep ==
    ASSUME LeaseInv, ShortOverlap, JobsInv', Next
    PROVE  LeasesTypeOK' /\ LeasesMatchMerge'
<1>1. enabled_' \in BOOLEAN
  BY DEF JobsInv
<1>2. (/\ AllZero(leases) => (merged => ~ SharedUnlocked)
       /\ ~ AllZero(leases) => merged
       => LeasesMatchMerge)'
  BY Agree, PTL
<1>3. /\ LeasesTypeOK /\ LeasesMatchMerge /\ DOMAIN leases \subseteq mergers
      /\ ~ merged => AllZero(leases)
      /\ merged /\ SharedUnlocked => ~ AllZero(leases)
  BY LeasesTyped DEF LeaseInv, LeasesTypeOK
<1>4. CASE \A t \in Threads : ~ LeaseStep(t)
  <2>1. UNCHANGED <<leases, merged>> /\ mergers \subseteq mergers'
    BY <1>4, OthersKeepLeases
  <2>2. LeasesTypeOK'
    BY <1>1, <1>3, <2>1 DEF LeasesTypeOK
  <2>3. ~ SharedUnlocked => ~ SharedUnlocked'
    BY <1>4, OthersKeepWrites DEF LeaseInv, SharedUnlocked
  <2>4. (AllZero(leases) <=> AllZero(leases'))
    BY <2>1
  <2>. QED BY <1>2, <1>3, <2>1, <2>2, <2>3, <2>4
<1>5. ASSUME NEW t \in Threads, LeaseStep(t) PROVE LeasesTypeOK' /\ LeasesMatchMerge'
  <2>1. mergers' = mergers
    BY <1>5, LeaseStepsKeepViews
  <2>2. CASE MergeWithLeaseShared(t)
    <3>1. merged' = TRUE /\ UNCHANGED leases /\ AllZero(leases) /\ pc'["raster"] = "recordLease"
      BY <2>2, MergeEffect
    <3>2. LeasesTypeOK'
      BY <1>1, <1>3, <2>1, <3>1 DEF LeasesTypeOK
    <3>3. ~ SharedUnlocked'
      BY <3>1 DEF SharedUnlocked, BetweenWrites
    <3>. QED BY <1>2, <3>1, <3>2, <3>3
  <2>3. CASE RecordLease(t) \/ ExtendLeaseToShared(t)
    <3>1. /\ engine[t] \in mergers
          /\ leases' = WithLease(engine[t], LeaseTerm) /\ merged' = TRUE
      <4>1. CASE RecordLease(t)
        BY <4>1, RecordEffect DEF LeaseInv, LeasesTypeOK
      <4>2. CASE ExtendLeaseToShared(t)
        <5>1. engine[t] \in mergers
          BY <4>2 DEF LeaseInv, ChecksStillHold, ExtendLeaseToShared
        <5>. QED BY <4>2, <5>1, ExtendEffect DEF LeaseInv, LeasesTypeOK
      <4>. QED BY <2>3, <4>1, <4>2
    <3>2. LeasesTypeOK'
      BY <1>1, <2>1, <3>1, LeaseRecorded DEF LeasesTypeOK
    <3>3. ~ AllZero(leases')
      BY <3>1, LeaseRecorded
    <3>. QED BY <1>2, <3>1, <3>2, <3>3
  <2>4. CASE DecrementLeaseShared(t) \/ UnMergeNowIfLastOneShared(t)
    <3>1. /\ UNCHANGED merged /\ SharedUnlocked
          /\ leases' \in [DOMAIN leases' -> Nat] /\ DOMAIN leases' \subseteq DOMAIN leases
          /\ \A e \in DOMAIN leases' : leases'[e] > 0 => leases[e] > 0
          /\ AllZero(leases') => pc'[t] \in {"decremented", "erased"}
      <4>1. pc' = [pc EXCEPT ![t] = "decremented"] => pc'[t] \in {"decremented", "erased"}
        BY DEF LeaseInv, JobsInv, ThreadsTypeOK
      <4>2. pc' = [pc EXCEPT ![t] = "erased"] => pc'[t] \in {"decremented", "erased"}
        BY DEF LeaseInv, JobsInv, ThreadsTypeOK
      <4>3. leases \in [DOMAIN leases -> Nat]
        BY <1>3 DEF LeasesTypeOK
      <4>4. CASE DecrementLeaseShared(t)
        BY <4>1, <4>3, <4>4, DecrementEffect DEF Goto
      <4>5. CASE UnMergeNowIfLastOneShared(t)
        <5>1. DOMAIN leases' = DOMAIN leases \ {engine[t]}
          BY <4>5, UnMergeEffect
        <5>. QED BY <4>2, <4>3, <4>5, <5>1, UnMergeEffect DEF Goto
      <4>. QED BY <2>4, <4>4, <4>5
    <3>2. LeasesTypeOK'
      BY <1>1, <1>3, <2>1, <3>1 DEF LeasesTypeOK
    <3>3. AllZero(leases') => ~ SharedUnlocked'
      BY <3>1 DEF SharedUnlocked, BetweenWrites
    <3>4. ~ AllZero(leases') => ~ AllZero(leases)
      <4>1. ASSUME ~ AllZero(leases') PROVE ~ AllZero(leases)
        <5>1. PICK e \in DOMAIN leases' : leases'[e] # 0
          BY <4>1 DEF AllZero
        <5>2. leases[e] > 0 /\ e \in DOMAIN leases
          BY <3>1, <5>1
        <5>. QED BY <5>2 DEF AllZero
      <4>. QED BY <4>1
    <3>. QED BY <1>2, <1>3, <3>1, <3>2, <3>3, <3>4
  <2>5. ASSUME NEW step \in {"decremented", "erased"}, UnMergeNowUnSafe(t, step)
        PROVE  LeasesTypeOK' /\ LeasesMatchMerge'
    <3>1. merged' = FALSE /\ AllZero(leases) /\ UNCHANGED leases
      BY <2>5, UnMergeNowEffect
    <3>2. LeasesTypeOK'
      BY <1>1, <1>3, <2>1, <3>1 DEF LeasesTypeOK
    <3>3. AllZero(leases')
      BY <3>1
    <3>. QED BY <1>2, <3>1, <3>2, <3>3
  <2>. QED BY <1>5, <2>2, <2>3, <2>4, <2>5 DEF LeaseStep
<1>. QED BY <1>4, <1>5

-----------------------------------------------------------------------------
(* One thread in the tasks of the raster queue *)

LEMMA EndTaskEffect ==
    ASSUME JobsInv, NEW t \in Threads, EndTask(t)
    PROVE  /\ pc'[t] = "idle" /\ job'[t] = "none" /\ engine' = engine
           /\ \A s \in Threads \ {t} :
                 \/ pc'[s] = pc[s] /\ job'[s] = job[s]
                 \/ pc[s] = "wait" /\ job[t] = "destroy" /\ pc'[s] = "idle" /\ job'[s] = "none"
           /\ mergedBy' = (IF mergedBy = t THEN nobody ELSE mergedBy)
           /\ overlap' = (IF mergedBy = t THEN 0 ELSE overlap)
BY DEF EndTask

\* The thread of a raster task other than the one that has merged excludes the other.
LEMMA OneRasterTask ==
    ASSUME LeaseInv, NEW s \in Threads, NEW t \in Threads,
           pc[s] \in RasterSteps \ Drawn, pc[t] \in RasterSteps \ Drawn
    PROVE  s = t \/ pc[s] = "recordLease" \/ pc[t] = "recordLease"
BY DEF LeaseInv, Exclusion, OverlapCounted

\* A step that neither merges nor begins a task of the raster queue.
LEMMA QuietExclusion ==
    ASSUME LeaseInv, merged' = merged,
           \A s \in Threads : pc'[s] \in RasterSteps =>
               pc[s] \in RasterSteps /\ (mergedBy = s => mergedBy' = s)
    PROVE  Exclusion'
BY DEF LeaseInv, Exclusion

LEMMA StepOfTask ==
    ASSUME LeaseInv, NEW t \in Threads, FrameStep(t) \/ TearDownStep(t) \/ Enable(t),
           ~ LeaseStep(t)
    PROVE  \/ EndTask(t)
           \/ /\ UNCHANGED <<engine, job, mergedBy, overlap>>
              /\ \E step \in RasterSteps \ {"enable", "draw"} : pc' = [pc EXCEPT ![t] = step]
BY DEF FrameStep, TearDownStep, Enable, LeaseStep, Stay, Goto, Draw, Preroll, GpuUnavailable,
       MergeWithLease, ExtendLeaseTo, DecrementLease, Teardown, UnMergeNowIfLastOne

LEMMA ExclusionStep ==
    ASSUME LeaseInv, ShortOverlap, Next
    PROVE  Exclusion'
<1>. USE DEF ThreadsTypeOK
<1>1. JobsInv /\ ThreadsTypeOK /\ Exclusion /\ mergedBy # "platform"
  BY DEF LeaseInv, JobsInv, OverlapCounted
<1>2. ASSUME NEW t \in Threads, FrameStep(t) \/ TearDownStep(t) \/ Enable(t), ~ LeaseStep(t)
      PROVE  Exclusion'
  <2>1. pc[t] \in RasterSteps
    BY <1>1, <1>2, FrameEffect, TearDownEffect DEF Enable
  <2>2. merged' = merged
    BY <1>2 DEF FrameStep, TearDownStep, Enable, LeaseStep, leaseVars, Draw, Preroll,
                GpuUnavailable, MergeWithLease, ExtendLeaseTo, DecrementLease, Teardown,
                UnMergeNowIfLastOne
  <2>3. CASE EndTask(t)
    BY <1>1, <2>2, <2>3, EndTaskEffect, QuietExclusion
  <2>4. CASE UNCHANGED mergedBy /\ \E step : pc' = [pc EXCEPT ![t] = step]
    BY <1>1, <2>1, <2>2, <2>4, QuietExclusion
  <2>. QED BY <1>2, <2>3, <2>4, StepOfTask
<1>3. ASSUME NEW t \in Threads, LeaseStep(t) PROVE Exclusion'
  <2>1. CASE MergeWithLeaseShared(t)
    BY <2>1, MergeEffect DEF Exclusion
  <2>2. CASE RecordLease(t)
    BY <1>1, <2>2, RecordEffect, QuietExclusion
  <2>3. CASE ExtendLeaseToShared(t)
    BY <1>1, <2>3, ExtendEffect, QuietExclusion
  <2>4. CASE DecrementLeaseShared(t) \/ UnMergeNowIfLastOneShared(t)
    <3>1. /\ merged' = merged /\ pc[t] \in RasterSteps
          /\ EndTask(t) \/ (Stay /\ \E step \in RasterSteps : Goto(t, step))
      <4>1. "decremented" \in RasterSteps /\ "erased" \in RasterSteps
        OBVIOUS
      <4>. QED BY <2>4, <4>1, DecrementEffect, UnMergeEffect
    <3>2. CASE EndTask(t)
      BY <1>1, <3>1, <3>2, EndTaskEffect, QuietExclusion
    <3>3. CASE Stay /\ \E step \in RasterSteps : Goto(t, step)
      BY <1>1, <3>1, <3>3, QuietExclusion DEF Stay, Goto
    <3>. QED BY <3>1, <3>2, <3>3
  <2>5. ASSUME NEW step \in {"decremented", "erased"}, UnMergeNowUnSafe(t, step)
        PROVE  Exclusion'
    <3>1. t = "platform" /\ merged' = FALSE /\ EndTask(t)
      BY <2>5, UnMergeNowEffect
    <3>2. /\ pc'["platform"] = "idle" /\ mergedBy' = mergedBy
          /\ pc'["raster"] \in RasterSteps => pc["raster"] \in RasterSteps
      BY <1>1, <3>1, EndTaskEffect
    <3>. QED BY <3>1, <3>2 DEF Exclusion
  <2>. QED BY <1>3, <2>1, <2>2, <2>3, <2>4, <2>5 DEF LeaseStep
<1>4. ASSUME NEW t \in Threads, RunsRasterTasks(t), NEW step, pc' = [pc EXCEPT ![t] = step],
             UNCHANGED <<merged, mergedBy>>
      PROVE  Exclusion'
  BY <1>1, <1>4 DEF RunsRasterTasks, Exclusion
<1>5. ASSUME NEW t \in Threads, NEW e \in Engines, BeginDraw(t, e) PROVE Exclusion'
  BY <1>4, <1>5 DEF BeginDraw, leaseVars
<1>6. ASSUME NEW t \in Threads, NEW e \in Engines, NEW kind \in {"create", "destroy"},
             BeginRasterTask(t, e, kind)
      PROVE  Exclusion'
  BY <1>4, <1>6 DEF BeginRasterTask, leaseVars
<1>7. CASE (\E e \in Engines : BeginViewChange(e)) \/ Disable
  BY <1>1, <1>7, QuietExclusion DEF BeginViewChange, Disable, leaseVars, Stay, Goto
<1>8. CASE ChooseThread
  <2>1. CASE merged
    BY <1>1, <1>8, <2>1 DEF ChooseThread, Goto, Stay, leaseVars, Exclusion
  <2>2. CASE EndTask("platform")
    BY <1>1, <1>8, <2>2, EndTaskEffect, QuietExclusion DEF ChooseThread, leaseVars
  <2>3. CASE Goto("platform", "wait") /\ Stay
    BY <1>1, <1>8, <2>3, QuietExclusion DEF ChooseThread, leaseVars, Goto, Stay
  <2>. QED BY <1>8, <2>1, <2>2, <2>3 DEF ChooseThread
<1>. QED BY <1>2, <1>3, <1>5, <1>6, <1>7, <1>8
         DEF Next, Drawing, ViewChanging, FrameStep, TearDownStep

-----------------------------------------------------------------------------
(* The lease outlasts the overlap *)

\* A step that takes no lease, and by which the platform thread begins no frame.
LEMMA QuietOverlap ==
    ASSUME LeaseInv, UNCHANGED leases, mergedBy' \in {mergedBy, nobody},
           mergedBy' = "raster" =>
               /\ pc'["raster"] \in {"recordLease"} \cup Drawn
               /\ pc["raster"] = "recordLease" => pc'["raster"] = "recordLease"
               /\ overlap' = overlap /\ engine'["raster"] = engine["raster"]
               /\ job'["platform"] = "draw" => job["platform"] = "draw"
    PROVE  OverlapCounted'
<1>1. mergedBy' # "platform"
  BY DEF LeaseInv, OverlapCounted, nobody
<1>2. SUFFICES ASSUME mergedBy' = "raster" PROVE OverlapCounted'
  BY <1>1 DEF OverlapCounted
<1>3. /\ mergedBy = "raster" /\ pc'["raster"] \in {"recordLease"} \cup Drawn
      /\ pc["raster"] = "recordLease" => pc'["raster"] = "recordLease"
      /\ overlap' = overlap /\ engine'["raster"] = engine["raster"]
      /\ job'["platform"] = "draw" => job["platform"] = "draw"
  BY <1>2 DEF nobody
<1>4. job'["platform"] = "draw" => overlap' >= 1
  BY <1>3 DEF LeaseInv, OverlapCounted
<1>5. ASSUME engine["raster"] \in DOMAIN leases, pc["raster"] # "recordLease"
      PROVE  leases[engine["raster"]] + overlap
                 >= LeaseTerm + (IF job'["platform"] = "draw" THEN 1 ELSE 0)
  <2>1. leases[engine["raster"]] + overlap
            >= LeaseTerm + (IF job["platform"] = "draw" THEN 1 ELSE 0)
    BY <1>3, <1>5 DEF LeaseInv, OverlapCounted
  <2>2. leases[engine["raster"]] \in Nat /\ overlap \in Nat /\ LeaseTerm \in Nat
    BY <1>5, LeaseAssumption DEF LeaseInv, LeasesTypeOK, JobsInv, ThreadsTypeOK
  <2>. QED BY <1>3, <2>1, <2>2
<1>. QED BY <1>1, <1>3, <1>4, <1>5 DEF OverlapCounted

\* The platform thread gives a lease back, or takes one out.
LEMMA PlatformGivesBack ==
    ASSUME LeaseInv, ShortOverlap,
           DecrementLeaseShared("platform") \/ UnMergeNowIfLastOneShared("platform")
    PROVE  OverlapCounted'
<1>. USE DEF ThreadsTypeOK
<1>1. /\ JobsInv /\ ThreadsTypeOK /\ LeasesTypeOK /\ OverlapCounted /\ JobsMatch
      /\ LeaseTerm \in Nat /\ MaxOverlap \in Nat /\ overlap \in 0 .. MaxOverlap
      /\ \A e \in DOMAIN leases : leases[e] \in Nat
  BY LeaseAssumption DEF LeaseInv, JobsInv, LeasesTypeOK
<1>2. pc["platform"] \in {"decrementShared", "unmergeShared"}
  BY DecrementEffect, UnMergeEffect
<1>3. pc["raster"] # "recordLease"
  BY <1>2 DEF LeaseInv, WritesApart
<1>4. /\ UNCHANGED <<engine, mergedBy>>
      /\ mergedBy = "raster" => overlap' = overlap
      /\ mergedBy = "raster" => pc'["raster"] = pc["raster"]
      /\ job'["platform"] = job["platform"] \/ job'["platform"] = "none"
  <2>1. EndTask("platform")
        \/ (Stay /\ \E step \in RasterSteps : Goto("platform", step))
    <3>1. "decremented" \in RasterSteps /\ "erased" \in RasterSteps
      OBVIOUS
    <3>. QED BY <3>1, DecrementEffect, UnMergeEffect
  <2>2. CASE EndTask("platform")
    BY <1>1, <2>2, EndTaskEffect DEF OverlapCounted
  <2>3. CASE Stay /\ \E step \in RasterSteps : Goto("platform", step)
    BY <1>1, <2>3 DEF Stay, Goto
  <2>. QED BY <2>1, <2>2, <2>3
<1>5. ASSUME mergedBy = "raster", engine["raster"] \in DOMAIN leases'
      PROVE  leases'[engine["raster"]] + overlap
                 >= LeaseTerm + (IF job'["platform"] = "draw" THEN 1 ELSE 0)
  <2>1. CASE DecrementLeaseShared("platform")
    <3>1. job["platform"] = "draw"
      BY <1>1, <2>1 DEF DecrementLeaseShared, JobsMatch
    <3>2. /\ engine["raster"] \in DOMAIN leases
          /\ leases'[engine["raster"]] = leases[engine["raster"]]
             \/ leases'[engine["raster"]] = leases[engine["raster"]] - 1
      BY <1>5, <2>1, DecrementEffect
    <3>3. leases[engine["raster"]] + overlap >= LeaseTerm + 1
      BY <1>1, <1>3, <1>5, <3>1, <3>2 DEF OverlapCounted
    <3>4. leases'[engine["raster"]] > 0 /\ leases'[engine["raster"]] + overlap >= LeaseTerm
      BY <1>1, <3>2, <3>3 DEF ShortOverlap
    <3>5. ~ AllZero(leases')
      BY <1>5, <3>4 DEF AllZero
    <3>6. job'["platform"] = "none"
      BY <1>1, <2>1, <3>5, DecrementEffect, EndTaskEffect
    <3>. QED BY <1>1, <3>2, <3>4, <3>6
  <2>2. CASE UnMergeNowIfLastOneShared("platform")
    <3>1. job["platform"] = "destroy"
      BY <1>1, <2>2 DEF UnMergeNowIfLastOneShared, JobsMatch
    <3>2. DOMAIN leases' = DOMAIN leases \ {engine["platform"]}
      BY <2>2, UnMergeEffect
    <3>3. /\ engine["raster"] \in DOMAIN leases
          /\ leases'[engine["raster"]] = leases[engine["raster"]]
      BY <1>5, <2>2, <3>2, UnMergeEffect
    <3>. QED BY <1>1, <1>3, <1>4, <1>5, <3>1, <3>3 DEF OverlapCounted
  <2>. QED BY <2>1, <2>2
<1>6. job'["platform"] = "draw" /\ mergedBy = "raster" => overlap' >= 1
  BY <1>1, <1>4 DEF OverlapCounted
<1>. QED BY <1>1, <1>4, <1>5, <1>6 DEF OverlapCounted

LEMMA LeaseStepsKeepOverlap ==
    ASSUME LeaseInv, ShortOverlap, NEW t \in Threads, LeaseStep(t)
    PROVE  OverlapCounted'
<1>. USE DEF ThreadsTypeOK
<1>1. /\ JobsInv /\ ThreadsTypeOK /\ LeasesTypeOK /\ OverlapCounted /\ JobsMatch
      /\ LeaseTerm \in Nat /\ overlap \in Nat /\ \A e \in DOMAIN leases : leases[e] \in Nat
  BY LeaseAssumption DEF LeaseInv, JobsInv, LeasesTypeOK
<1>2. CASE MergeWithLeaseShared(t)
  <2>1. job'["platform"] # "draw"
    BY <1>1, <1>2, MergeEffect DEF JobsMatch
  <2>. QED BY <1>2, <2>1, MergeEffect DEF OverlapCounted
<1>3. CASE RecordLease(t)
  <2>1. leases'[engine["raster"]] = LeaseTerm
    BY <1>3, RecordEffect, LeaseRecorded
  <2>2. /\ UNCHANGED <<engine, job, mergedBy, overlap>> /\ mergedBy = "raster"
        /\ pc'["raster"] = "drawn"
    BY <1>3, RecordEffect
  <2>3. job["platform"] = "draw" => overlap >= 1
    BY <1>1, <2>2 DEF OverlapCounted
  <2>. QED BY <1>1, <2>1, <2>2, <2>3 DEF OverlapCounted
<1>4. CASE ExtendLeaseToShared(t)
  <2>1. engine["platform"] \in mergers /\ t = "platform"
    BY <1>4, ExtendEffect DEF LeaseInv, JobsInv, ViewsTypeOK
  <2>2. /\ DOMAIN leases' = DOMAIN leases \cup {engine["platform"]}
        /\ leases'[engine["platform"]] = LeaseTerm
        /\ \A f \in DOMAIN leases \ {engine["platform"]} : leases'[f] = leases[f]
    BY <1>4, <2>1, ExtendEffect, LeaseRecorded
  <2>3. /\ UNCHANGED <<engine, job, mergedBy, overlap>> /\ job["platform"] = "draw"
        /\ pc'["raster"] = pc["raster"]
    BY <1>4, ExtendEffect
  <2>4. mergedBy = "raster" => overlap >= 1
    BY <1>1, <2>3 DEF OverlapCounted
  <2>5. ASSUME mergedBy = "raster", engine["raster"] \in DOMAIN leases',
               pc["raster"] # "recordLease"
        PROVE  leases'[engine["raster"]] + overlap >= LeaseTerm + 1
    <3>1. CASE engine["raster"] = engine["platform"]
      BY <1>1, <2>2, <2>4, <2>5, <3>1
    <3>2. CASE engine["raster"] # engine["platform"]
      BY <1>1, <2>2, <2>3, <2>5, <3>2 DEF OverlapCounted
    <3>. QED BY <3>1, <3>2
  <2>. QED BY <1>1, <2>3, <2>4, <2>5 DEF OverlapCounted
<1>5. CASE DecrementLeaseShared(t) \/ UnMergeNowIfLastOneShared(t)
  <2>1. CASE t = "platform"
    BY <1>5, <2>1, PlatformGivesBack
  <2>2. CASE t = "raster" /\ EndTask(t)
    BY <1>1, <2>2, EndTaskEffect DEF OverlapCounted, nobody
  <2>3. CASE t = "raster" /\ DecrementLeaseShared(t) /\ ~ EndTask(t)
    \* There was no lease, and no record of the engine.
    <3>1. /\ Goto(t, "decremented") /\ Stay /\ AllZero(leases') /\ ~ merged
          /\ pc[t] = "decrementShared" /\ DOMAIN leases' = DOMAIN leases
      BY <2>3, DecrementEffect
    <3>2. engine["raster"] \notin DOMAIN leases'
      <4>1. AllZero(leases)
        BY <3>1, LeasesTyped DEF LeaseInv
      <4>2. ASSUME engine["raster"] \in DOMAIN leases PROVE FALSE
        <5>1. leases[engine["raster"]] > 0 /\ leases[engine["raster"]] = 0
          BY <2>3, <4>1, <4>2, DecrementEffect DEF AllZero
        <5>. QED BY <5>1
      <4>. QED BY <3>1, <4>2
    <3>3. pc' = [pc EXCEPT !["raster"] = "decremented"]
      BY <2>3, <3>1 DEF Goto
    <3>. QED BY <1>1, <3>1, <3>2, <3>3 DEF Stay, OverlapCounted
  <2>4. CASE t = "raster" /\ UnMergeNowIfLastOneShared(t) /\ ~ EndTask(t)
    <3>1. pc[t] = "unmergeShared" /\ Stay
      BY <2>4, UnMergeEffect
    <3>. QED BY <1>1, <2>4, <3>1 DEF Stay, OverlapCounted
  <2>. QED BY <1>5, <2>1, <2>2, <2>3, <2>4
<1>6. ASSUME NEW step \in {"decremented", "erased"}, UnMergeNowUnSafe(t, step)
      PROVE  OverlapCounted'
  <2>1. t = "platform" /\ EndTask(t) /\ UNCHANGED leases
    BY <1>6, UnMergeNowEffect
  <2>. QED BY <1>1, <2>1, EndTaskEffect, QuietOverlap DEF OverlapCounted
<1>. QED BY <1>2, <1>3, <1>4, <1>5, <1>6 DEF LeaseStep

LEMMA OverlapStep ==
    ASSUME LeaseInv, ShortOverlap, Next
    PROVE  OverlapCounted'
<1>. USE DEF ThreadsTypeOK
<1>1. /\ JobsInv /\ ThreadsTypeOK /\ OverlapCounted /\ JobsMatch /\ mergedBy # "platform"
      /\ mergedBy = "raster" => pc["raster"] \in {"recordLease"} \cup Drawn
  BY DEF LeaseInv, JobsInv, OverlapCounted
<1>2. ASSUME NEW t \in Threads, FrameStep(t) \/ TearDownStep(t) \/ Enable(t), ~ LeaseStep(t)
      PROVE  OverlapCounted'
  <2>1. UNCHANGED leases
    BY <1>2 DEF leases, FrameStep, TearDownStep, Enable, LeaseStep, leaseVars, Draw, Preroll,
                GpuUnavailable, MergeWithLease, ExtendLeaseTo, DecrementLease, Teardown,
                UnMergeNowIfLastOne
  <2>2. CASE EndTask(t)
    <3>1. CASE t = "raster"
      BY <1>1, <2>1, <2>2, <3>1, EndTaskEffect, QuietOverlap DEF nobody
    <3>2. CASE t = "platform"
      BY <1>1, <2>1, <2>2, <3>2, EndTaskEffect, QuietOverlap
    <3>. QED BY <3>1, <3>2
  <2>3. CASE UNCHANGED <<engine, job, mergedBy, overlap>>
             /\ \E step \in RasterSteps : pc' = [pc EXCEPT ![t] = step]
    <3>1. ASSUME mergedBy = "raster"
          PROVE  /\ pc'["raster"] \in {"recordLease"} \cup Drawn
                 /\ pc["raster"] = "recordLease" => pc'["raster"] = "recordLease"
      <4>1. CASE t = "platform"
        BY <1>1, <2>3, <3>1, <4>1
      <4>2. CASE t = "raster"
        <5>1. DecrementLease(t)
          <6>1. pc[t] \in {"recordLease"} \cup Drawn
            BY <1>1, <3>1, <4>2
          <6>2. /\ ~ MergeWithLeaseShared(t) /\ ~ RecordLease(t) /\ ~ ExtendLeaseToShared(t)
                /\ ~ DecrementLeaseShared(t) /\ ~ UnMergeNowIfLastOneShared(t)
                /\ ~ UnMergeNowUnSafe(t, "decremented") /\ ~ UnMergeNowUnSafe(t, "erased")
            BY <1>2 DEF LeaseStep
          <6>3. /\ ~ Draw(t) /\ ~ Preroll(t) /\ ~ GpuUnavailable(t) /\ ~ MergeWithLease(t)
                /\ ~ ExtendLeaseTo(t) /\ ~ Enable(t) /\ ~ Teardown(t) /\ ~ UnMergeNowIfLastOne(t)
            BY <6>1 DEF Draw, Preroll, GpuUnavailable, MergeWithLease, ExtendLeaseTo, Enable,
                        Teardown, UnMergeNowIfLastOne
          <6>. QED BY <1>2, <6>2, <6>3, Zenon DEF FrameStep, TearDownStep
        <5>2. CASE Goto(t, "decrementShared")
          BY <1>1, <4>2, <5>1, <5>2 DEF Goto, DecrementLease
        <5>3. CASE EndTask(t)
          BY <2>3, <3>1, <4>2, <5>3 DEF EndTask, nobody
        <5>. QED BY <5>1, <5>2, <5>3 DEF DecrementLease
      <4>. QED BY <4>1, <4>2
    <3>. QED BY <2>1, <2>3, <3>1, QuietOverlap
  <2>. QED BY <1>2, <2>2, <2>3, StepOfTask
<1>3. ASSUME NEW t \in Threads, NEW e \in Engines, BeginDraw(t, e) PROVE OverlapCounted'
  <2>1. /\ pc[t] = "idle" /\ UNCHANGED <<leases, mergedBy>>
        /\ pc' = [pc EXCEPT ![t] = "draw"]
        /\ engine' = [engine EXCEPT ![t] = e]
        /\ job' = [job EXCEPT ![t] = "draw"]
        /\ mergedBy = nobody \/ overlap' = overlap + 1
    BY <1>3 DEF BeginDraw, RunsRasterTasks, leaseVars, leases
  <2>2. CASE mergedBy # "raster"
    BY <1>1, <2>1, <2>2 DEF OverlapCounted
  <2>3. CASE mergedBy = "raster"
    <3>1. t = "platform" /\ job["platform"] # "draw" /\ overlap \in Nat
      BY <1>1, <2>1, <2>3, LeaseAssumption DEF JobsMatch
    <3>2. overlap' = overlap + 1 /\ pc'["raster"] = pc["raster"]
          /\ engine'["raster"] = engine["raster"]
      BY <1>1, <2>1, <2>3, <3>1 DEF nobody
    <3>3. ASSUME engine["raster"] \in DOMAIN leases, pc["raster"] # "recordLease"
          PROVE  leases[engine["raster"]] + overlap' >= LeaseTerm + 1
      <4>1. leases[engine["raster"]] + overlap >= LeaseTerm
        BY <1>1, <2>3, <3>1, <3>3, LeaseAssumption DEF OverlapCounted
      <4>2. leases[engine["raster"]] \in Nat /\ LeaseTerm \in Nat
        BY <3>3, LeaseAssumption DEF LeaseInv, LeasesTypeOK
      <4>. QED BY <3>1, <3>2, <4>1, <4>2
    <3>4. overlap' >= 1
      BY <3>1, <3>2
    <3>. QED BY <1>1, <2>1, <2>3, <3>1, <3>2, <3>3, <3>4 DEF OverlapCounted
  <2>. QED BY <2>2, <2>3
<1>4. ASSUME NEW t \in Threads, NEW e \in Engines, NEW kind \in {"create", "destroy"},
             BeginRasterTask(t, e, kind)
      PROVE  OverlapCounted'
  <2>1. /\ pc[t] = "idle" /\ UNCHANGED <<leases, mergedBy, overlap>>
        /\ pc' = [pc EXCEPT ![t] = "enable"]
        /\ engine' = [engine EXCEPT ![t] = e]
        /\ job' = [job EXCEPT ![t] = kind]
    BY <1>4 DEF BeginRasterTask, RunsRasterTasks, leaseVars, leases
  <2>2. mergedBy = "raster" => t = "platform"
    BY <1>1, <2>1
  <2>. QED BY <1>1, <2>1, <2>2, QuietOverlap
<1>5. CASE (\E e \in Engines : BeginViewChange(e)) \/ Disable
  BY <1>1, <1>5, QuietOverlap
     DEF BeginViewChange, Disable, leaseVars, leases, Stay, Goto
<1>6. CASE ChooseThread
  <2>1. UNCHANGED leases
    BY <1>6 DEF ChooseThread, leaseVars, leases
  <2>2. CASE EndTask("platform")
    BY <1>1, <2>1, <2>2, EndTaskEffect, QuietOverlap
  <2>3. CASE Stay /\ \E step : Goto("platform", step)
    BY <1>1, <2>1, <2>3, QuietOverlap DEF Goto, Stay
  <2>. QED BY <1>6, <2>2, <2>3 DEF ChooseThread
<1>. QED BY <1>2, <1>3, <1>4, <1>5, <1>6, LeaseStepsKeepOverlap
         DEF Next, Drawing, ViewChanging, FrameStep, TearDownStep

-----------------------------------------------------------------------------
(* What a thread has checked still holds *)

\* A step by which no thread goes further, and that leaves alone what was checked.
LEMMA QuietChecks ==
    ASSUME LeaseInv, UNCHANGED <<surface_, mergers, enabled_>>,
           \A s \in Threads : \/ pc'[s] \notin FrameSteps \cup TearingDown
                              \/ pc'[s] = pc[s] /\ engine'[s] = engine[s]
    PROVE  ChecksStillHold'
BY DEF LeaseInv, ChecksStillHold

\* A thread that goes on in a frame or a tear-down has seen what the step asks for.
LEMMA GoingOnChecks ==
    ASSUME LeaseInv, NEW t \in Threads, NEW step \in FrameSteps \cup TearingDown,
           pc' = [pc EXCEPT ![t] = step], UNCHANGED <<engine, surface_, mergers, enabled_>>,
           step \in FrameSteps <=> pc[t] \in FrameSteps,
           step \in TearingDown => pc[t] \in TearingDown,
           step \in Undecided => engine[t] \in surface_,
           step \in {"merge", "mergeShared", "recordLease"} => t = "raster",
           step \in {"extend", "extendShared"} => t = "platform"
    PROVE  ChecksStillHold'
BY DEF LeaseInv, ChecksStillHold, JobsInv, ThreadsTypeOK

LEMMA FrameKeepsChecks ==
    ASSUME LeaseInv, NEW t \in Threads, FrameStep(t)
    PROVE  ChecksStillHold'
<1>1. /\ JobsInv /\ pc[t] \in FrameSteps
      /\ UNCHANGED <<engine, enabled_, surface_, mergers>>
  BY FrameEffect DEF LeaseInv
<1>2. CASE EndTask(t)
  BY <1>1, <1>2, EndTaskEffect, QuietChecks
<1>3. CASE Goto(t, "drawn") \/ Goto(t, "decrementShared")
  BY <1>1, <1>3, GoingOnChecks DEF Goto
<1>4. CASE Draw(t)
  BY <1>1, <1>2, <1>4, GoingOnChecks DEF Draw, Goto
<1>5. ASSUME pc[t] = "preroll"
      PROVE  engine[t] \in surface_ /\ (t = "platform" <=> IsMerged)
  <2>1. engine[t] \in surface_ /\ (t = "platform" <=> merged)
    BY <1>5 DEF LeaseInv, ChecksStillHold, Exclusion, OverlapCounted
  <2>2. ASSUME merged PROVE SharedUnlocked
    BY <1>5, <2>1, <2>2 DEF SharedUnlocked, BetweenWrites, LeaseInv, WritesApart, ChecksStillHold
  <2>3. merged <=> IsMerged
    BY <2>2 DEF LeaseInv, LeasesMatchMerge, LeasesTypeOK, IsMerged
  <2>. QED BY <2>1, <2>3
<1>6. CASE Preroll(t)
  <2>1. CASE Goto(t, "merge") /\ ~ IsMerged
    BY <1>1, <1>5, <1>6, <2>1, GoingOnChecks DEF Preroll, Goto
  <2>2. CASE Goto(t, "extend") /\ IsMerged
    BY <1>1, <1>5, <1>6, <2>2, GoingOnChecks DEF Preroll, Goto
  <2>. QED BY <1>3, <1>6, <2>1, <2>2 DEF Preroll
<1>7. CASE MergeWithLease(t) \/ ExtendLeaseTo(t)
  <2>1. CASE Goto(t, "mergeShared") /\ pc[t] = "merge"
    BY <1>1, <2>1, GoingOnChecks DEF Goto, LeaseInv, ChecksStillHold
  <2>2. CASE Goto(t, "extendShared") /\ pc[t] = "extend"
    BY <1>1, <2>2, GoingOnChecks DEF Goto, LeaseInv, ChecksStillHold
  <2>. QED BY <1>3, <1>7, <2>1, <2>2 DEF MergeWithLease, ExtendLeaseTo
<1>8. CASE MergeWithLeaseShared(t)
  <2>1. t = "raster" /\ pc[t] = "mergeShared" /\ engine[t] \in surface_
    BY <1>8, MergeEffect DEF LeaseInv, ChecksStillHold
  <2>2. CASE Goto(t, "recordLease")
    BY <1>1, <2>1, <2>2, GoingOnChecks DEF Goto
  <2>. QED BY <1>3, <1>8, <2>2 DEF MergeWithLeaseShared
<1>9. CASE DecrementLeaseShared(t) /\ ~ EndTask(t)
  <2>1. pc' = [pc EXCEPT ![t] = "decremented"]
    BY <1>9 DEF DecrementLeaseShared, UnMergeIfAllZero, Goto
  <2>. QED BY <1>1, <2>1, GoingOnChecks
<1>. QED BY <1>2, <1>3, <1>4, <1>6, <1>7, <1>8, <1>9
         DEF FrameStep, GpuUnavailable, RecordLease, ExtendLeaseToShared,
             DecrementLease, UnMergeNowUnSafe

LEMMA ChecksStep ==
    ASSUME LeaseInv, Next
    PROVE  ChecksStillHold'
<1>. USE DEF ThreadsTypeOK
<1>1. JobsInv /\ ThreadsTypeOK /\ JobsMatch /\ ChecksStillHold /\ OneDestroy
  BY DEF LeaseInv, JobsInv
<1>2. ASSUME NEW t \in Threads, NEW e \in Engines, BeginDraw(t, e) PROVE ChecksStillHold'
  BY <1>1, <1>2 DEF BeginDraw, leaseVars, viewVars, ChecksStillHold
<1>3. ASSUME NEW t \in Threads, TearDownStep(t) PROVE ChecksStillHold'
  <2>1. /\ pc[t] \in TearingDown /\ UNCHANGED <<engine, enabled_, surface_, mergers>>
    BY <1>1, <1>3, TearDownEffect
  <2>2. CASE EndTask(t)
    BY <1>1, <2>1, <2>2, EndTaskEffect, QuietChecks
  <2>3. CASE \E step \in TearingDown : Goto(t, step)
    BY <2>1, <2>3, GoingOnChecks DEF Goto
  <2>. QED BY <1>3, <2>2, <2>3
           DEF TearDownStep, Teardown, UnMergeNowIfLastOne, UnMergeNowIfLastOneShared,
               UnMergeIfAllZero, UnMergeNowUnSafe
<1>4. ASSUME NEW t \in Threads, NEW e \in Engines, NEW kind \in {"create", "destroy"},
             BeginRasterTask(t, e, kind)
      PROVE  ChecksStillHold'
  BY <1>1, <1>4, QuietChecks DEF BeginRasterTask, leaseVars
<1>5. CASE \E e \in Engines : BeginViewChange(e)
  BY <1>1, <1>5, QuietChecks DEF BeginViewChange, leaseVars
<1>6. CASE ChooseThread
  <2>1. UNCHANGED <<surface_, mergers, enabled_, engine>>
    BY <1>6 DEF ChooseThread, leaseVars, Stay, EndTask
  <2>2. CASE EndTask("platform")
    BY <1>1, <2>1, <2>2, EndTaskEffect, QuietChecks
  <2>3. CASE Goto("platform", "enable") \/ Goto("platform", "wait")
    BY <1>1, <2>1, <2>3, QuietChecks DEF Goto
  <2>. QED BY <1>6, <2>2, <2>3 DEF ChooseThread
<1>7. CASE Disable
  \* A tear-down on the raster thread has the platform thread wait.
  <2>1. pc["platform"] = "disable" /\ pc["raster"] \notin TearingDown
    BY <1>1, <1>7 DEF Disable, JobsMatch, OneDestroy
  <2>2. /\ pc' = [pc EXCEPT !["platform"] = "choose"]
        /\ UNCHANGED <<engine, surface_, mergers>>
    BY <1>7 DEF Disable, Goto, Stay, viewVars
  <2>. QED BY <1>1, <2>1, <2>2 DEF ChecksStillHold
<1>8. ASSUME NEW t \in Threads, Enable(t) PROVE ChecksStillHold'
  <2>1. \A s \in Threads \ {t} :
           \/ pc[s] \notin RasterSteps \ Drawn
           \/ pc[s] = "recordLease" /\ engine[s] # engine[t]
    BY <1>8, OneRasterTask DEF Enable, Unlocked, Locked, BetweenWrites
  <2>2. /\ UNCHANGED engine /\ mergers \subseteq mergers'
        /\ enabled_' = (enabled_ \/ engine[t] \in mergers)
        /\ surface_ \ {engine[t]} \subseteq surface_'
    BY <1>8 DEF Enable, EndTask, Stay
  <2>3. CASE job[t] = "create"
    <3>1. EndTask(t)
      BY <1>8, <2>3 DEF Enable
    <3>2. \A s \in Threads : pc'[s] = "idle" \/ (s # t /\ pc'[s] = pc[s])
      BY <1>1, <3>1, EndTaskEffect
    <3>. QED BY <1>1, <2>1, <2>2, <3>2 DEF ChecksStillHold
  <2>4. CASE job[t] # "create"
    <3>1. pc' = [pc EXCEPT ![t] = "teardown"] /\ UNCHANGED mergers
      BY <1>8, <2>4 DEF Enable, Goto
    <3>. QED BY <1>1, <2>1, <2>2, <3>1 DEF ChecksStillHold
  <2>. QED BY <2>3, <2>4
<1>. QED BY <1>2, <1>3, <1>4, <1>5, <1>6, <1>7, <1>8, FrameKeepsChecks
         DEF Next, Drawing, ViewChanging, FrameStep, TearDownStep

-----------------------------------------------------------------------------
(* No lease without a surface *)

\* A step that takes no lease, no surface away, and ends no tear-down.
LEMMA QuietTornDown ==
    ASSUME LeaseInv, surface_ \subseteq surface_',
           \A e \in DOMAIN leases' : leases'[e] > 0 => e \in DOMAIN leases /\ leases[e] > 0,
           \A s \in Threads : job[s] = "destroy" => job'[s] = "destroy" /\ engine'[s] = engine[s]
    PROVE  TornDownHoldsNoLease'
BY DEF LeaseInv, TornDownHoldsNoLease, leases

\* When a tear-down ends, its engine's record is gone or holds no frame.
LEMMA TearDownLeavesNoLease ==
    ASSUME LeaseInv, NEW t \in Threads, TearDownStep(t)
    PROVE  TornDownHoldsNoLease'
<1>1. /\ JobsInv /\ OneDestroy /\ JobsMatch /\ TornDownHoldsNoLease /\ LeasesTypeOK
      /\ \A e \in DOMAIN leases : leases[e] \in Nat
  BY DEF LeaseInv, JobsInv, LeasesTypeOK
<1>2. /\ pc[t] \in TearingDown /\ job[t] = "destroy"
      /\ UNCHANGED <<engine, surface_, mergers, enabled_>>
  BY <1>1, TearDownEffect
<1>3. CASE ~ EndTask(t)
  <2>1. UNCHANGED job /\ (UNCHANGED leases \/ AllZero(leases'))
    BY <1>3 DEF TearDownStep, Teardown, UnMergeNowIfLastOne, UnMergeNowIfLastOneShared,
                UnMergeIfAllZero, UnMergeNowUnSafe, leaseVars, leases, Stay
  <2>2. CASE AllZero(leases')
    BY <2>2 DEF AllZero, TornDownHoldsNoLease, leases
  <2>. QED BY <1>2, <2>1, <2>2, QuietTornDown
<1>4. CASE EndTask(t)
  <2>1. \A e \in DOMAIN leases : leases[e] > 0 => e \in surface_ \/ e = engine[t]
    <3>1. CASE t = "raster"
      BY <1>1, <1>2, <3>1 DEF OneDestroy, TornDownHoldsNoLease, leases
    <3>2. CASE t = "platform"
      <4>1. job["raster"] # "destroy"
        BY <1>1, <1>2, <3>2 DEF OneDestroy
      <4>. QED BY <1>1, <3>2, <4>1 DEF TornDownHoldsNoLease, leases
    <3>. QED BY <3>1, <3>2
  <2>2. \A e \in DOMAIN leases' :
           e \in DOMAIN leases /\ leases'[e] = leases[e] /\ (leases[e] > 0 => e # engine[t])
    <3>1. CASE UnMergeNowIfLastOneShared(t)
      <4>1. DOMAIN leases' = DOMAIN leases \ {engine[t]}
        BY <3>1, UnMergeEffect
      <4>. QED BY <3>1, <4>1, UnMergeEffect
    <3>2. CASE Teardown(t) /\ pc[t] = "teardown"
      <4>1. UNCHANGED leases
        BY <3>2 DEF Teardown, leaseVars, leases
      <4>2. ~ (engine[t] \in mergers /\ IsMerged)
        BY <1>4, <3>2, EndTaskEffect, <1>1 DEF Teardown, Goto, JobsInv, ThreadsTypeOK
      <4>3. engine[t] \in DOMAIN leases => ~ (leases[engine[t]] > 0)
        BY <1>1, <4>2 DEF IsMerged, AllZero, leases, LeasesTypeOK
      <4>. QED BY <4>1, <4>3
    <3>3. CASE UnMergeNowIfLastOne(t)
      <4>1. UNCHANGED leases
        BY <3>3 DEF UnMergeNowIfLastOne, leaseVars, leases
      <4>2. ~ enabled_
        BY <1>1, <1>4, <3>3, EndTaskEffect
           DEF UnMergeNowIfLastOne, Goto, JobsInv, ThreadsTypeOK
      <4>3. engine[t] \notin mergers
        BY <1>2, <4>2 DEF LeaseInv, ChecksStillHold
      <4>. QED BY <1>1, <4>1, <4>3 DEF LeasesTypeOK
    <3>4. CASE UnMergeNowUnSafe(t, "erased")
      <4>1. AllZero(leases) /\ UNCHANGED leases
        BY <3>4, UnMergeNowEffect
      <4>. QED BY <1>1, <4>1 DEF AllZero
    <3>. QED BY <3>1, <3>2, <3>3, <3>4 DEF TearDownStep, Teardown
  <2>. QED BY <1>2, <2>1, <2>2 DEF TornDownHoldsNoLease, leases
<1>. QED BY <1>3, <1>4

LEMMA TornDownStep ==
    ASSUME LeaseInv, ShortOverlap, Next
    PROVE  TornDownHoldsNoLease'
<1>. USE DEF ThreadsTypeOK
<1>1. /\ JobsInv /\ ThreadsTypeOK /\ JobsMatch /\ TornDownHoldsNoLease
      /\ \A e \in DOMAIN leases : leases[e] \in Nat
  BY DEF LeaseInv, JobsInv, LeasesTypeOK
<1>2. ASSUME NEW t \in Threads, FrameStep(t), ~ LeaseStep(t) PROVE TornDownHoldsNoLease'
  <2>1. UNCHANGED leases
    BY <1>2 DEF leases, FrameStep, LeaseStep, leaseVars, Draw, Preroll,
                GpuUnavailable, MergeWithLease, ExtendLeaseTo, DecrementLease
  <2>2. UNCHANGED <<surface_, engine>> /\ job[t] = "draw"
        /\ \A s \in Threads \ {t} : job'[s] = job[s]
    BY <1>1, <1>2, FrameEffect
  <2>. QED BY <2>1, <2>2, QuietTornDown
<1>3. ASSUME NEW t \in Threads, RecordLease(t) \/ ExtendLeaseToShared(t)
      PROVE  TornDownHoldsNoLease'
  <2>1. UNCHANGED <<surface_, mergers, engine, job>>
    BY <1>3 DEF RecordLease, ExtendLeaseToShared, viewVars, Stay
  <2>2. /\ leases' = WithLease(engine[t], LeaseTerm)
        /\ engine[t] \in surface_ /\ engine[t] \in mergers
    BY <1>3, RecordEffect, ExtendEffect DEF LeaseInv, JobsInv, ViewsTypeOK
  <2>3. /\ DOMAIN leases' = DOMAIN leases \cup {engine[t]}
        /\ \A f \in DOMAIN leases \ {engine[t]} : leases'[f] = leases[f]
    BY <2>2, LeaseRecorded
  <2>. QED BY <1>1, <2>1, <2>2, <2>3 DEF TornDownHoldsNoLease, leases
<1>11. ASSUME NEW t \in Threads, MergeWithLeaseShared(t) \/ UnMergeNowUnSafe(t, "decremented")
       PROVE  TornDownHoldsNoLease'
  <2>1. UNCHANGED leases
    BY <1>11, MergeEffect, UnMergeNowEffect
  <2>2. UNCHANGED <<surface_, engine>> /\ job[t] = "draw"
        /\ \A s \in Threads \ {t} : job'[s] = job[s]
    BY <1>1, <1>11, FrameEffect DEF FrameStep
  <2>. QED BY <2>1, <2>2, QuietTornDown
<1>4. ASSUME NEW t \in Threads, DecrementLeaseShared(t) PROVE TornDownHoldsNoLease'
  <2>1. UNCHANGED <<surface_, engine>> /\ job[t] = "draw"
        /\ \A s \in Threads \ {t} : job'[s] = job[s]
    BY <1>1, <1>4, FrameEffect DEF FrameStep
  <2>2. DOMAIN leases' = DOMAIN leases
    BY <1>4, DecrementEffect
  <2>3. \A e \in DOMAIN leases : leases'[e] > 0 => leases[e] > 0
    BY <1>1, <1>4, DecrementEffect
  <2>. QED BY <2>1, <2>2, <2>3, QuietTornDown
<1>5. ASSUME NEW t \in Threads, NEW e \in Engines, BeginDraw(t, e) PROVE TornDownHoldsNoLease'
  <2>1. job[t] # "destroy"
    BY <1>1, <1>5 DEF BeginDraw, RunsRasterTasks, JobsMatch
  <2>. QED BY <1>1, <1>5, <2>1, QuietTornDown DEF BeginDraw, leaseVars, viewVars, leases
<1>6. ASSUME NEW t \in Threads, NEW e \in Engines, NEW kind \in {"create", "destroy"},
             BeginRasterTask(t, e, kind)
      PROVE  TornDownHoldsNoLease'
  <2>1. job[t] # "destroy"
    BY <1>1, <1>6 DEF BeginRasterTask, RunsRasterTasks, JobsMatch
  <2>. QED BY <1>1, <1>6, <2>1, QuietTornDown DEF BeginRasterTask, leaseVars, leases
<1>7. ASSUME NEW e \in Engines, BeginViewChange(e) PROVE TornDownHoldsNoLease'
  <2>1. job["platform"] # "destroy"
    BY <1>1, <1>7 DEF BeginViewChange, JobsMatch
  <2>. QED BY <1>1, <1>7, <2>1, QuietTornDown DEF BeginViewChange, leaseVars, leases
<1>8. CASE Disable
  BY <1>8, QuietTornDown DEF Disable, Stay, viewVars, leases
<1>9. CASE ChooseThread
  <2>1. UNCHANGED <<leases, surface_, engine>>
    BY <1>9 DEF ChooseThread, leaseVars, leases, Stay, EndTask
  <2>2. CASE EndTask("platform") /\ job["platform"] = "create"
    BY <2>1, <2>2, QuietTornDown DEF EndTask
  <2>3. CASE Stay
    BY <2>1, <2>3, QuietTornDown DEF Stay
  <2>. QED BY <1>9, <2>2, <2>3 DEF ChooseThread
<1>10. ASSUME NEW t \in Threads, Enable(t) PROVE TornDownHoldsNoLease'
  <2>1. UNCHANGED <<leases, engine>> /\ job[t] \in {"create", "destroy"}
    BY <1>1, <1>10 DEF Enable, leases, Stay, EndTask, JobsMatch
  <2>2. CASE job[t] = "create"
    BY <1>10, <2>1, <2>2, QuietTornDown DEF Enable, EndTask
  <2>3. CASE job[t] = "destroy"
    <3>1. surface_' = surface_ \ {engine[t]} /\ UNCHANGED job
      BY <1>10, <2>3 DEF Enable, Stay
    <3>. QED BY <1>1, <2>1, <2>3, <3>1 DEF TornDownHoldsNoLease, leases
  <2>. QED BY <2>1, <2>2, <2>3
<1>. QED BY <1>2, <1>3, <1>4, <1>5, <1>6, <1>7, <1>8, <1>9, <1>10, <1>11,
            TearDownLeavesNoLease
         DEF Next, Drawing, ViewChanging, FrameStep, TearDownStep, LeaseStep

-----------------------------------------------------------------------------
(* Between the two writes *)

\* A step on nobody's lease: where the raster thread has yet to record its lease, no
\* frame of the platform thread goes on and no tear-down un-merges.
LEMMA OthersKeepApart ==
    ASSUME LeaseInv, Next, \A t \in Threads : ~ LeaseStep(t)
    PROVE  WritesApart'
<1>. USE DEF ThreadsTypeOK
<1>1. JobsInv /\ ThreadsTypeOK /\ JobsMatch /\ WritesApart /\ mergedBy # "platform"
  BY DEF LeaseInv, JobsInv, OverlapCounted
<1>2. UNCHANGED <<leases, merged>>
  BY OthersKeepLeases
<1>3. \A s \in Threads : pc'[s] \in BetweenWrites => pc[s] = pc'[s]
  BY <1>1, OthersKeepWrites
<1>4. \A t \in Threads : pc'[t] \in {"decremented", "erased"} =>
          AllZero(leases') /\ (merged' <=> t = "platform")
  BY <1>1, <1>2, <1>3 DEF WritesApart, BetweenWrites
<1>5. ASSUME pc'["raster"] = "recordLease"
      PROVE  /\ merged' /\ mergedBy' = "raster" /\ AllZero(leases')
             /\ pc'["platform"] \notin Undecided \cup Drawn \cup UnMerging
  <2>1. /\ pc["raster"] = "recordLease" /\ merged /\ mergedBy = "raster" /\ AllZero(leases)
        /\ pc["platform"] \notin Undecided \cup Drawn \cup UnMerging
    BY <1>1, <1>3, <1>5 DEF WritesApart, BetweenWrites
  <2>2. merged' /\ AllZero(leases') /\ ~ IsMerged
    BY <1>2, <2>1 DEF IsMerged, leases
  <2>3. ASSUME NEW t \in Threads, FrameStep(t) \/ TearDownStep(t)
        PROVE  mergedBy' = mergedBy /\ pc'["platform"] \notin Undecided \cup Drawn \cup UnMerging
    <3>1. /\ ~ MergeWithLeaseShared(t) /\ ~ RecordLease(t) /\ ~ ExtendLeaseToShared(t)
          /\ ~ DecrementLeaseShared(t) /\ ~ UnMergeNowIfLastOneShared(t)
          /\ ~ UnMergeNowUnSafe(t, "decremented") /\ ~ UnMergeNowUnSafe(t, "erased")
      BY DEF LeaseStep
    <3>2. Draw(t) \/ Teardown(t)
      <4>1. pc[t] \in {"recordLease", "draw", "teardown"}
        BY <1>1, <2>1, <2>3, FrameEffect, TearDownEffect
      <4>2. /\ ~ Preroll(t) /\ ~ GpuUnavailable(t) /\ ~ MergeWithLease(t) /\ ~ DecrementLease(t)
            /\ ~ ExtendLeaseTo(t) /\ ~ UnMergeNowIfLastOne(t)
        BY <4>1 DEF Preroll, GpuUnavailable, MergeWithLease, DecrementLease, ExtendLeaseTo,
                    UnMergeNowIfLastOne
      <4>. QED BY <2>3, <3>1, <4>2, Zenon DEF FrameStep, TearDownStep
    <3>3. t = "platform" /\ EndTask(t)
      BY <2>1, <2>2, <3>2 DEF Draw, Teardown
    <3>. QED BY <1>1, <3>3, EndTaskEffect
  <2>4. ASSUME NEW t \in Threads, Enable(t)
        PROVE  mergedBy' = mergedBy /\ pc'["platform"] \notin Undecided \cup Drawn \cup UnMerging
    <3>1. t = "platform"
      BY <2>1, <2>4 DEF Enable
    <3>. QED BY <1>1, <2>4, <3>1 DEF Enable, EndTask, Goto, Stay
  <2>5. ASSUME NEW t \in Threads, NEW e \in Engines, BeginDraw(t, e)
        PROVE  mergedBy' = mergedBy /\ pc'["platform"] \notin Undecided \cup Drawn \cup UnMerging
    BY <1>1, <2>1, <2>5 DEF BeginDraw
  <2>6. ASSUME NEW t \in Threads, NEW e \in Engines, NEW kind \in {"create", "destroy"},
               BeginRasterTask(t, e, kind)
        PROVE  mergedBy' = mergedBy /\ pc'["platform"] \notin Undecided \cup Drawn \cup UnMerging
    BY <1>1, <2>1, <2>6 DEF BeginRasterTask
  <2>7. CASE (\E e \in Engines : BeginViewChange(e)) \/ Disable
    BY <1>1, <2>1, <2>2, <2>7 DEF BeginViewChange, Disable, Goto, Stay
  <2>8. CASE ChooseThread
    BY <1>1, <2>1, <2>2, <2>8 DEF ChooseThread, Goto, Stay, EndTask
  <2>. QED BY <2>1, <2>2, <2>3, <2>4, <2>5, <2>6, <2>7, <2>8
           DEF Next, Drawing, ViewChanging, FrameStep, TearDownStep
<1>. QED BY <1>4, <1>5 DEF WritesApart

LEMMA WritesStep ==
    ASSUME LeaseInv, ShortOverlap, Next
    PROVE  WritesApart'
<1>. USE DEF ThreadsTypeOK
<1>1. JobsInv /\ ThreadsTypeOK /\ JobsMatch /\ WritesApart
  BY DEF LeaseInv, JobsInv
<1>2. CASE \A t \in Threads : ~ LeaseStep(t)
  BY <1>2, OthersKeepApart
<1>3. ASSUME NEW t \in Threads, MergeWithLeaseShared(t) PROVE WritesApart'
  BY <1>3, MergeEffect DEF WritesApart, BetweenWrites
<1>4. ASSUME NEW t \in Threads, RecordLease(t) \/ ExtendLeaseToShared(t) PROVE WritesApart'
  <2>1. CASE RecordLease(t)
    <3>1. pc'["raster"] = "drawn" /\ pc'["platform"] \notin {"decremented", "erased"}
      BY <2>1, RecordEffect DEF LeaseInv, WritesApart
    <3>. QED BY <3>1 DEF WritesApart
  <2>2. CASE ExtendLeaseToShared(t)
    <3>1. pc'["platform"] = "drawn" /\ pc'["raster"] \notin BetweenWrites
      BY <2>2, ExtendEffect DEF SharedUnlocked
    <3>. QED BY <3>1 DEF WritesApart, BetweenWrites
  <2>. QED BY <1>4, <2>1, <2>2
<1>5. ASSUME NEW t \in Threads, DecrementLeaseShared(t) \/ UnMergeNowIfLastOneShared(t)
      PROVE  WritesApart'
  <2>1. /\ SharedUnlocked /\ UNCHANGED merged
        /\ \/ /\ AllZero(leases') /\ (merged <=> t = "platform")
              /\ \E step \in {"decremented", "erased"} : pc' = [pc EXCEPT ![t] = step]
           \/ EndTask(t)
    BY <1>5, DecrementEffect, UnMergeEffect DEF Goto
  <2>2. CASE EndTask(t)
    <3>1. \A s \in Threads : pc'[s] \notin BetweenWrites
      BY <1>1, <2>1, <2>2 DEF EndTask, SharedUnlocked, BetweenWrites
    <3>. QED BY <3>1 DEF WritesApart, BetweenWrites
  <2>3. CASE /\ AllZero(leases') /\ (merged <=> t = "platform")
             /\ \E step \in {"decremented", "erased"} : pc' = [pc EXCEPT ![t] = step]
    BY <1>1, <2>1, <2>3 DEF WritesApart, SharedUnlocked, BetweenWrites
  <2>. QED BY <2>1, <2>2, <2>3
<1>6. ASSUME NEW t \in Threads, NEW step \in {"decremented", "erased"}, UnMergeNowUnSafe(t, step)
      PROVE  WritesApart'
  <2>1. /\ t = "platform" /\ pc[t] = step /\ merged' = FALSE /\ EndTask(t)
        /\ AllZero(leases) /\ UNCHANGED leases
    BY <1>6, UnMergeNowEffect
  <2>2. pc["raster"] # "recordLease" /\ pc'["platform"] = "idle"
    BY <1>1, <2>1, EndTaskEffect DEF WritesApart
  <2>3. pc'["raster"] \in {pc["raster"], "idle"}
    BY <1>1, <2>1, EndTaskEffect
  <2>. QED BY <2>1, <2>2, <2>3 DEF WritesApart
<1>. QED BY <1>2, <1>3, <1>4, <1>5, <1>6 DEF LeaseStep

-----------------------------------------------------------------------------
(* The map of leases and the table of task queues *)

LEMMA LeaseInvInit == Init => LeaseInv
<1>. SUFFICES ASSUME Init PROVE LeaseInv
  OBVIOUS
<1>1. /\ DOMAIN leases = {} /\ merged = FALSE /\ enabled_ = TRUE /\ posted = {}
      /\ mergers = {} /\ mergedBy = nobody
      /\ \A t \in Threads : pc[t] = "idle" /\ job[t] = "none"
  BY DEF Init, leases
<1>2. LeasesTypeOK /\ LeasesMatchMerge /\ TornDownHoldsNoLease
  BY <1>1 DEF Init, LeasesTypeOK, LeasesMatchMerge, IsMerged, AllZero, TornDownHoldsNoLease, leases
<1>3. OneDestroy /\ Exclusion /\ OverlapCounted /\ ChecksStillHold /\ WritesApart
  BY <1>1 DEF OneDestroy, Exclusion, OverlapCounted, ChecksStillHold, WritesApart, nobody
<1>. QED BY <1>2, <1>3, JobsInvInit DEF LeaseInv

LEMMA LeaseInvStep ==
    ASSUME ShortOverlap
    PROVE  LeaseInv /\ [Next]_vars => LeaseInv'
<1>. SUFFICES ASSUME LeaseInv, [Next]_vars PROVE LeaseInv'
  OBVIOUS
<1>1. JobsInv'
  BY JobsInvStep DEF LeaseInv
<1>2. CASE Next
  <2>1. JobsInv /\ OneDestroy
    BY DEF LeaseInv
  <2>. QED BY <1>1, <1>2, <2>1, LeasesStep, OneDestroyStep, ExclusionStep, OverlapStep, ChecksStep,
              WritesStep, TornDownStep DEF LeaseInv
<1>3. CASE UNCHANGED vars
  <2>1. LeasesTypeOK' /\ LeasesMatchMerge' /\ TornDownHoldsNoLease'
    BY <1>3 DEF LeaseInv, vars, leaseVars, viewVars, threadVars, leases, LeasesTypeOK,
                LeasesMatchMerge, SharedUnlocked, IsMerged, AllZero, TornDownHoldsNoLease
  <2>2. OneDestroy' /\ Exclusion' /\ OverlapCounted' /\ ChecksStillHold' /\ WritesApart'
    BY <1>3 DEF LeaseInv, vars, leaseVars, viewVars, threadVars, leases, OneDestroy,
                Exclusion, OverlapCounted, ChecksStillHold, WritesApart, AllZero
  <2>. QED BY <1>1, <2>1, <2>2 DEF LeaseInv
<1>. QED BY <1>2, <1>3

LEMMA LeaseInvAlways ==
    ASSUME ShortOverlap
    PROVE  Spec => []LeaseInv
BY LeaseInvInit, LeaseInvStep, PTL DEF Spec

\* The map of leases, which IsOnRasterizingThread trusts, and the table of queues,
\* which the loops obey, agree but for the time between the two writes of a call, and
\* then the map says that the threads are apart; so no frame goes on yielding.  This
\* holds as long as fewer than LeaseTerm - 1 frames begin on the platform thread while
\* the raster thread ends the frame that merged: a lease that ran out meanwhile would
\* be extended without a merge (shared_thread_merger.cc lines 28-31, 69-71,
\* raster_thread_merger.cc lines 96-104).
THEOREM LeasesAlwaysMatchMerge == ShortOverlap => (Spec => []LeasesMatchMerge)
<1>. SUFFICES ASSUME ShortOverlap PROVE Spec => []LeasesMatchMerge
  OBVIOUS
<1>1. LeaseInv => LeasesMatchMerge
  BY DEF LeaseInv
<1>2. Spec => []LeaseInv
  BY LeaseInvAlways
<1>. QED BY <1>1, <1>2, PTL

\* No frame is drawn on one thread while the other is in a frame that it has not
\* drawn, merging included; with the same bound on the frames that begin meanwhile
\* (rasterizer.cc lines 247-251).
THEOREM OneThreadAlwaysDraws == ShortOverlap => (Spec => []OneThreadDraws)
<1>. SUFFICES ASSUME ShortOverlap PROVE Spec => []OneThreadDraws
  OBVIOUS
<1>1. LeaseInv => OneThreadDraws
  <2>. SUFFICES ASSUME LeaseInv, NEW s \in Threads, NEW t \in Threads,
                       pc[s] \in Undecided, pc[t] \in Undecided
                PROVE  s = t
    BY DEF OneThreadDraws
  <2>1. s = t \/ pc[s] = "recordLease" \/ pc[t] = "recordLease"
    BY OneRasterTask
  <2>. QED BY <2>1 DEF LeaseInv, WritesApart, ChecksStillHold
<1>2. Spec => []LeaseInv
  BY LeaseInvAlways
<1>. QED BY <1>1, <1>2, PTL

\* An engine whose surface is gone, and that no tear-down is working on, holds no
\* lease: it cannot keep the others' threads merged (rasterizer.cc lines 137-142).
THEOREM TornDownNeverHoldsLease == ShortOverlap => (Spec => []TornDownHoldsNoLease)
<1>. SUFFICES ASSUME ShortOverlap PROVE Spec => []TornDownHoldsNoLease
  OBVIOUS
<1>1. LeaseInv => TornDownHoldsNoLease
  BY DEF LeaseInv
<1>2. Spec => []LeaseInv
  BY LeaseInvAlways
<1>. QED BY <1>1, <1>2, PTL

-----------------------------------------------------------------------------
(* The mutex of a merger, and the lease that a frame gives back *)

\* The shared merger's part of two calls overlaps only for two engines.
MutexExcludes ==
    \A s, t \in Threads :
        s # t /\ pc[s] \in Locked /\ pc[t] \in Locked => engine[s] # engine[t]

RecordsTypeOK ==
    /\ DOMAIN leases \subseteq Engines
    /\ \A e \in DOMAIN leases : leases[e] \in Nat

\* What DecrementLease has seen before it calls the shared merger.
LeaseSeen == \A t \in Threads : pc[t] = "decrementShared" => IsMerged

OneEngine == \A e, f \in Engines : e = f

LockInv == JobsInv /\ MutexExcludes /\ RecordsTypeOK
GiveBackInv == LockInv /\ LeaseSeen

\* A thread takes the mutex of its engine's merger only when it is free.
LEMMA LockEffect ==
    ASSUME JobsInv, Next, NEW s \in Threads, pc'[s] \in Locked
    PROVE  /\ engine'[s] = engine[s]
           /\ \/ pc[s] \in Locked
              \/ /\ Unlocked(engine[s])
                 /\ \A t \in Threads \ {s} : pc'[t] = pc[t]
<1>. USE DEF Locked, BetweenWrites
<1>1. ThreadsTypeOK /\ JobsMatch
  BY DEF JobsInv
<1>2. ASSUME NEW t \in Threads, FrameStep(t)
      PROVE  pc[s] \in Locked \/ (s = t /\ Unlocked(engine[s]))
  <2>1. CASE s = t
    <3>1. ~ EndTask(t)
      BY <2>1 DEF EndTask
    <3>. QED BY <1>1, <1>2, <2>1, <3>1
             DEF ThreadsTypeOK, FrameStep, Goto, Draw, Preroll, GpuUnavailable, MergeWithLease,
                 MergeWithLeaseShared, RecordLease, ExtendLeaseTo, ExtendLeaseToShared,
                 DecrementLease, DecrementLeaseShared, UnMergeIfAllZero, UnMergeNowUnSafe
  <2>2. CASE s # t
    BY <1>2, <2>2, FrameEffect
  <2>. QED BY <2>1, <2>2
<1>3. ASSUME NEW t \in Threads, TearDownStep(t)
      PROVE  pc[s] \in Locked \/ (s = t /\ Unlocked(engine[s]) /\ ~ EndTask(t))
  <2>1. CASE s = t
    <3>1. ~ EndTask(t)
      BY <2>1 DEF EndTask
    <3>. QED BY <1>1, <1>3, <2>1, <3>1
             DEF ThreadsTypeOK, TearDownStep, Goto, Teardown, UnMergeNowIfLastOne,
                 UnMergeNowIfLastOneShared, UnMergeIfAllZero, UnMergeNowUnSafe
  <2>2. CASE s # t
    BY <1>3, <2>2, TearDownEffect
  <2>. QED BY <2>1, <2>2
<1>4. CASE \E t \in Threads : FrameStep(t)
  BY <1>2, <1>4, FrameEffect
<1>5. CASE \E t \in Threads : TearDownStep(t)
  <2>1. PICK t \in Threads : TearDownStep(t)
    BY <1>5
  <2>2. engine' = engine
    BY <2>1, TearDownEffect
  <2>3. CASE pc[s] \in Locked
    BY <2>2, <2>3
  <2>4. CASE s = t /\ Unlocked(engine[s]) /\ ~ EndTask(t)
    BY <2>1, <2>2, <2>4, TearDownEffect
  <2>. QED BY <1>3, <2>1, <2>3, <2>4
<1>6. CASE \E t \in Threads : \/ \E e \in Engines : BeginDraw(t, e)
                              \/ \E e \in Engines, kind \in {"create", "destroy"} :
                                    BeginRasterTask(t, e, kind)
  BY <1>1, <1>6 DEF ThreadsTypeOK, BeginDraw, BeginRasterTask
<1>7. CASE (\E e \in Engines : BeginViewChange(e)) \/ Disable
  BY <1>1, <1>7 DEF ThreadsTypeOK, BeginViewChange, Disable, Goto, Stay
<1>8. CASE ChooseThread
  BY <1>1, <1>8 DEF ThreadsTypeOK, ChooseThread, Goto, Stay, EndTask
<1>9. CASE \E t \in Threads : Enable(t)
  BY <1>1, <1>9 DEF ThreadsTypeOK, Enable, Goto, Stay, EndTask
<1>. QED BY <1>4, <1>5, <1>6, <1>7, <1>8, <1>9
         DEF Next, Drawing, ViewChanging, FrameStep, TearDownStep

LEMMA MutexStep ==
    ASSUME JobsInv, MutexExcludes, Next
    PROVE  MutexExcludes'
<1>1. SUFFICES ASSUME NEW s \in Threads, NEW t \in Threads, s # t,
                      pc'[s] \in Locked, pc'[t] \in Locked
               PROVE  engine'[s] # engine'[t]
  BY DEF MutexExcludes
<1>2. engine'[s] = engine[s] /\ engine'[t] = engine[t]
  BY <1>1, LockEffect
<1>3. CASE pc[s] \in Locked /\ pc[t] \in Locked
  BY <1>1, <1>2, <1>3 DEF MutexExcludes
<1>4. CASE pc[s] \notin Locked
  BY <1>1, <1>2, <1>4, LockEffect DEF Unlocked
<1>5. CASE pc[t] \notin Locked
  BY <1>1, <1>2, <1>5, LockEffect DEF Unlocked
<1>. QED BY <1>3, <1>4, <1>5

LEMMA RecordsStep ==
    ASSUME JobsInv, RecordsTypeOK, Next
    PROVE  RecordsTypeOK'
<1>1. \A t \in Threads : engine[t] \in Engines
  BY DEF JobsInv, ThreadsTypeOK
<1>2. ASSUME NEW e \in Engines, NEW term \in Nat, leases' = WithLease(e, term)
      PROVE  RecordsTypeOK'
  BY <1>2 DEF WithLease, RecordsTypeOK, leases
<1>3. CASE \A t \in Threads : ~ LeaseStep(t)
  BY <1>3, OthersKeepLeases DEF RecordsTypeOK
<1>4. ASSUME NEW t \in Threads,
             \/ MergeWithLeaseShared(t) \/ RecordLease(t) \/ ExtendLeaseToShared(t)
             \/ \E step \in {"decremented", "erased"} : UnMergeNowUnSafe(t, step)
      PROVE  RecordsTypeOK'
  <2>1. leases' = leases \/ leases' = WithLease(engine[t], LeaseTerm)
    BY <1>4 DEF MergeWithLeaseShared, RecordLease, ExtendLeaseToShared, UnMergeNowUnSafe, leases
  <2>2. CASE leases' = leases
    BY <2>2 DEF RecordsTypeOK
  <2>. QED BY <1>1, <1>2, <2>1, <2>2, LeaseAssumption
<1>5. ASSUME NEW t \in Threads, DecrementLeaseShared(t) PROVE RecordsTypeOK'
  <2>1. CASE engine[t] \in DOMAIN leases
    <3>1. leases[engine[t]] > 0 /\ leases' = WithLease(engine[t], leases[engine[t]] - 1)
      BY <1>5, <2>1 DEF DecrementLeaseShared, UnMergeIfAllZero, leases
    <3>2. leases[engine[t]] - 1 \in Nat
      BY <2>1, <3>1 DEF RecordsTypeOK
    <3>. QED BY <1>1, <1>2, <3>1, <3>2
  <2>2. CASE engine[t] \notin DOMAIN leases
    BY <1>5, <2>2 DEF DecrementLeaseShared, UnMergeIfAllZero, RecordsTypeOK, leases
  <2>. QED BY <2>1, <2>2
<1>6. ASSUME NEW t \in Threads, UnMergeNowIfLastOneShared(t) PROVE RecordsTypeOK'
  BY <1>6 DEF UnMergeNowIfLastOneShared, UnMergeIfAllZero, WithoutLease, RecordsTypeOK, leases
<1>. QED BY <1>3, <1>4, <1>5, <1>6 DEF LeaseStep

\* With one engine the mutex excludes every other change of the leases.
LEMMA LeaseSeenStep ==
    ASSUME OneEngine, LockInv, LeaseSeen, Next
    PROVE  LeaseSeen'
<1>1. JobsInv /\ ThreadsTypeOK /\ MutexExcludes
  BY DEF LockInv, JobsInv
<1>2. SUFFICES ASSUME NEW s \in Threads, pc'[s] = "decrementShared" PROVE IsMerged'
  BY DEF LeaseSeen
<1>3. ASSUME NEW t \in Threads, LeaseStep(t) PROVE FALSE
  <2>1. pc[t] \in Locked /\ pc'[t] # "decrementShared"
    BY <1>1, <1>3 DEF LeaseStep, Locked, BetweenWrites, ThreadsTypeOK, MergeWithLeaseShared,
                      RecordLease, ExtendLeaseToShared, DecrementLeaseShared,
                      UnMergeNowIfLastOneShared, UnMergeIfAllZero, UnMergeNowUnSafe,
                      Goto, EndTask
  <2>2. s # t /\ pc'[s] \in Locked
    BY <1>2, <2>1 DEF Locked
  <2>3. engine[s] = engine[t]
    BY <1>1 DEF OneEngine, ThreadsTypeOK
  <2>4. pc[s] \in Locked
    BY <1>1, <2>1, <2>2, <2>3, LockEffect DEF Unlocked
  <2>. QED BY <1>1, <2>1, <2>2, <2>3, <2>4 DEF MutexExcludes
<1>4. leases' = leases
  BY <1>3, OthersKeepLeases
<1>5. IsMerged' <=> IsMerged
  BY <1>4 DEF IsMerged, AllZero, leases
<1>6. CASE pc[s] = "decrementShared"
  BY <1>5, <1>6 DEF LeaseSeen
<1>7. CASE pc[s] # "decrementShared"
  <2>1. CASE \E t \in Threads : FrameStep(t)
    <3>1. FrameStep(s)
      BY <1>1, <1>2, <1>7, <2>1, FrameEffect
    <3>2. ~ EndTask(s)
      BY <1>2 DEF EndTask
    <3>3. IsMerged
      BY <1>1, <1>2, <1>7, <3>1, <3>2
         DEF ThreadsTypeOK, FrameStep, Goto, Draw, Preroll, GpuUnavailable, MergeWithLease,
             MergeWithLeaseShared, RecordLease, ExtendLeaseTo, ExtendLeaseToShared,
             DecrementLease, DecrementLeaseShared, UnMergeIfAllZero, UnMergeNowUnSafe
    <3>. QED BY <1>5, <3>3
  <2>2. CASE \E t \in Threads : TearDownStep(t)
    BY <1>1, <1>2, <1>7, <2>2, TearDownEffect
  <2>3. CASE \E t \in Threads : \/ \E e \in Engines : BeginDraw(t, e)
                                \/ \E e \in Engines, kind \in {"create", "destroy"} :
                                      BeginRasterTask(t, e, kind)
                                \/ Enable(t)
    BY <1>1, <1>2, <1>7, <2>3 DEF ThreadsTypeOK, BeginDraw, BeginRasterTask, Enable, Goto, EndTask
  <2>4. CASE (\E e \in Engines : BeginViewChange(e)) \/ Disable \/ ChooseThread
    BY <1>1, <1>2, <1>7, <2>4 DEF ThreadsTypeOK, BeginViewChange, Disable, ChooseThread, Goto, EndTask
  <2>. QED BY <2>1, <2>2, <2>3, <2>4 DEF Next, Drawing, ViewChanging, FrameStep, TearDownStep
<1>. QED BY <1>6, <1>7

LEMMA GiveBackInit == Init => GiveBackInv
<1>. SUFFICES ASSUME Init PROVE GiveBackInv
  OBVIOUS
<1>1. DOMAIN leases = {} /\ \A t \in Threads : pc[t] = "idle"
  BY DEF Init, leases
<1>. QED BY <1>1, JobsInvInit DEF GiveBackInv, LockInv, MutexExcludes, RecordsTypeOK, LeaseSeen,
                                      Locked, BetweenWrites

LEMMA GiveBackStep ==
    ASSUME OneEngine
    PROVE  GiveBackInv /\ [Next]_vars => GiveBackInv'
<1>. SUFFICES ASSUME GiveBackInv, [Next]_vars PROVE GiveBackInv'
  OBVIOUS
<1>1. JobsInv'
  BY JobsInvStep DEF GiveBackInv, LockInv
<1>2. CASE Next
  BY <1>1, <1>2, MutexStep, RecordsStep, LeaseSeenStep DEF GiveBackInv, LockInv
<1>3. CASE UNCHANGED vars
  BY <1>1, <1>3 DEF GiveBackInv, LockInv, MutexExcludes, RecordsTypeOK, LeaseSeen, leases,
                    IsMerged, AllZero, vars, leaseVars, threadVars
<1>. QED BY <1>2, <1>3

\* With one engine a frame that gives its lease back finds one, as the check of
\* shared_thread_merger.cc lines 59-61 has it, whatever LeaseTerm is and however long
\* the threads overlap: only a second engine can use it up between IsMerged and the call.
THEOREM OneEngineFindsLease == OneEngine => (Spec => []DecrementFindsLease)
<1>. SUFFICES ASSUME OneEngine PROVE Spec => []DecrementFindsLease
  OBVIOUS
<1>1. GiveBackInv => DecrementFindsLease
  <2>. SUFFICES ASSUME GiveBackInv, NEW t \in Threads, pc[t] = "decrementShared",
                       engine[t] \in DOMAIN leases
                PROVE  leases[engine[t]] > 0
    BY DEF DecrementFindsLease, leases
  <2>1. PICK e \in DOMAIN leases : leases[e] # 0
    BY DEF GiveBackInv, LeaseSeen, IsMerged, AllZero, leases
  <2>2. leases[e] \in Nat /\ e = engine[t]
    BY <2>1 DEF GiveBackInv, LockInv, RecordsTypeOK, OneEngine
  <2>. QED BY <2>1, <2>2
<1>2. Spec => []GiveBackInv
  BY GiveBackInit, GiveBackStep, PTL DEF Spec
<1>. QED BY <1>1, <1>2, PTL

=============================================================================
