----------------------------- MODULE GpuAccess -----------------------------
(***************************************************************************)
(* Access to the GPU on iOS: fml::SyncSwitch says whether the GPU is       *)
(* disabled, the platform thread turns it as the application goes to the   *)
(* background and back, and work that finds the GPU disabled is stored in  *)
(* the ContextMTL until the switch's observer flushes it.                  *)
(*                                                                         *)
(* Image decodes and snapshots store their task inside of Execute, with    *)
(* the switch's shared lock held; image encodes store it after Execute.    *)
(* SetSwitch is only called by the platform thread (shell.cc:2415), and    *)
(* the observer is there from the creation of the context.                 *)
(***************************************************************************)
EXTENDS Naturals, Sequences, FiniteSets

CONSTANTS
    Uploads,                \* image decodes and snapshots
    Encodes,                \* image encodes
    kMaxTasksAwaitingGPU    \* how many tasks a context stores

ASSUME GpuAssumption ==
    /\ Uploads \cap Encodes = {}
    /\ kMaxTasksAwaitingGPU \in Nat \ {0}

VARIABLES
    value_,                 \* SyncSwitch::value_, the GPU is disabled
    tasks_awaiting_gpu_,    \* the tasks a context has stored
    request,                \* request[k]: where the work k is
    answers,                \* answers[k]: how often k's callback was called
    observer,               \* what the platform thread does: "idle", "notify" the
                            \* observer, "flush" the stored tasks
    flushing                \* the tasks it has taken to flush

gpuVars == <<value_, tasks_awaiting_gpu_, request, answers, observer, flushing>>

Requests == Uploads \cup Encodes

\* Steps of a request that hold the switch's shared lock: the handler that uses
\* the GPU, and the handler that stores the task.
Readers == {k \in Requests : request[k] \in {"using", "storing"}}

GpuTypeOK ==
    /\ value_ \in BOOLEAN
    /\ tasks_awaiting_gpu_ \in Seq(Requests)
    /\ request \in [Requests -> {"new", "using", "storing", "refused", "stored",
                                 "retry", "answered"}]
    /\ answers \in [Requests -> Nat]
    /\ observer \in {"idle", "notify", "flush"}
    /\ flushing \in Seq(Requests)

GpuInit ==
    /\ value_ \in BOOLEAN
    /\ tasks_awaiting_gpu_ = <<>>
    /\ request = [k \in Requests |-> "new"]
    /\ answers = [k \in Requests |-> 0]
    /\ observer = "idle"
    /\ flushing = <<>>

-----------------------------------------------------------------------------
(* Requests, on the worker, IO and raster threads *)

\* Execute takes the shared lock and picks the handler; the one of an encode only
\* notes that the GPU is unavailable, and lets the lock go.
Execute(k) ==
    /\ request[k] = "new"
    /\ request' = [request EXCEPT ![k] =
                      IF ~ value_ THEN "using"
                      ELSE IF k \in Uploads THEN "storing" ELSE "refused"]
    /\ UNCHANGED <<value_, tasks_awaiting_gpu_, answers, observer, flushing>>

\* The work is done with the GPU, and Execute returns.
FinishWork(k) ==
    /\ request[k] = "using"
    /\ request' = [request EXCEPT ![k] = "answered"]
    /\ answers' = [answers EXCEPT ![k] = @ + 1]
    /\ UNCHANGED <<value_, tasks_awaiting_gpu_, observer, flushing>>

\* Mutant: the task that does not fit is not taken out of the queue.
StoreTaskForGPU_Mutation(k) ==
    LET queue == Append(tasks_awaiting_gpu_, k)
        failed == IF Len(queue) > kMaxTasksAwaitingGPU THEN {Head(queue)} ELSE {}
    IN  /\ request[k] \in {"storing", "refused"}
        /\ tasks_awaiting_gpu_' = queue
        /\ request' = [j \in Requests |->
               IF j \in failed THEN "answered" ELSE IF j = k THEN "stored" ELSE request[j]]
        /\ answers' = [j \in Requests |-> IF j \in failed THEN answers[j] + 1 ELSE answers[j]]
        /\ UNCHANGED <<value_, observer, flushing>>

\* The task goes to the end of the queue, and the oldest one, if it does not fit,
\* fails.  The store of an upload ends its Execute.
StoreTaskForGPU(k) ==
    LET queue == Append(tasks_awaiting_gpu_, k)
        failed == IF Len(queue) > kMaxTasksAwaitingGPU THEN {Head(queue)} ELSE {}
    IN  /\ request[k] \in {"storing", "refused"}
        /\ tasks_awaiting_gpu_' = IF failed = {} THEN queue ELSE Tail(queue)
        /\ request' = [j \in Requests |->
               IF j \in failed THEN "answered" ELSE IF j = k THEN "stored" ELSE request[j]]
        /\ answers' = [j \in Requests |-> IF j \in failed THEN answers[j] + 1 ELSE answers[j]]
        /\ UNCHANGED <<value_, observer, flushing>>

\* The retry of an encode that was posted to the raster thread; if the GPU is gone
\* again, it fails.
Retry(k) ==
    /\ request[k] = "retry"
    /\ IF value_
       THEN /\ request' = [request EXCEPT ![k] = "answered"]
            /\ answers' = [answers EXCEPT ![k] = @ + 1]
       ELSE request' = [request EXCEPT ![k] = "using"] /\ UNCHANGED answers
    /\ UNCHANGED <<value_, tasks_awaiting_gpu_, observer, flushing>>

-----------------------------------------------------------------------------
(* The platform thread *)

\* Mutant: the switch turns without waiting for those who hold the shared lock.
SetSwitch_Mutation(disabled) ==
    /\ observer = "idle"
    /\ value_' = disabled
    /\ observer' = "notify"
    /\ UNCHANGED <<tasks_awaiting_gpu_, request, answers, flushing>>

\* SetGpuAvailability: the switch turns when nobody holds the shared lock.
SetSwitch(disabled) ==
    /\ observer = "idle"
    /\ Readers = {}
    /\ value_' = disabled
    /\ observer' = "notify"
    /\ UNCHANGED <<tasks_awaiting_gpu_, request, answers, flushing>>

\* The observer is told; if the GPU is available, it swaps the queue out.
OnSyncSwitchUpdate ==
    /\ observer = "notify"
    /\ IF value_
       THEN UNCHANGED <<tasks_awaiting_gpu_, flushing>> /\ observer' = "idle"
       ELSE /\ flushing' = tasks_awaiting_gpu_
            /\ tasks_awaiting_gpu_' = <<>>
            /\ observer' = "flush"
    /\ UNCHANGED <<value_, request, answers>>

\* The next task is run in Execute.  Only this thread turns the switch, so the GPU
\* is still there; an encode of the raster thread posts its retry.
FlushNext ==
    /\ observer = "flush"
    /\ flushing # <<>>
    /\ flushing' = Tail(flushing)
    /\ \/ /\ request' = [request EXCEPT ![Head(flushing)] = "answered"]
          /\ answers' = [answers EXCEPT ![Head(flushing)] = @ + 1]
       \/ /\ Head(flushing) \in Encodes
          /\ request' = [request EXCEPT ![Head(flushing)] = "retry"]
          /\ UNCHANGED answers
    /\ UNCHANGED <<value_, tasks_awaiting_gpu_, observer>>

EndFlush ==
    /\ observer = "flush"
    /\ flushing = <<>>
    /\ observer' = "idle"
    /\ UNCHANGED <<value_, tasks_awaiting_gpu_, request, answers, flushing>>

RequestStep(k) == Execute(k) \/ FinishWork(k) \/ StoreTaskForGPU(k) \/ Retry(k)

ObserverStep == OnSyncSwitchUpdate \/ FlushNext \/ EndFlush

GpuNext ==
    \/ \E k \in Requests : RequestStep(k)
    \/ \E disabled \in BOOLEAN : SetSwitch(disabled)
    \/ ObserverStep

GpuFairness ==
    /\ \A k \in Requests : WF_gpuVars(RequestStep(k))
    /\ WF_gpuVars(ObserverStep)

GpuSpec == GpuInit /\ [][GpuNext]_gpuVars

-----------------------------------------------------------------------------
(* Properties *)

\* Each request is answered once: not again by a later flush, nor by a failure after
\* it was run, and not at all while it waits (context_mtl.mm:392-445).
AnsweredOnce ==
    \A k \in Requests : answers[k] = IF request[k] = "answered" THEN 1 ELSE 0

\* With the GPU available and the observer done, no decode or snapshot is left in
\* the queue, whenever it looked at the switch (image_decoder_impeller.cc:584-609).
NoUploadStranded ==
    ~ value_ /\ observer = "idle" =>
        \A i \in DOMAIN tasks_awaiting_gpu_ : tasks_awaiting_gpu_[i] \notin Uploads

\* The same of image encodes, which promise a retry "when the GPU becomes available
\* again" (image_encoding_impeller.cc:84-86).
NoEncodeStranded ==
    ~ value_ /\ observer = "idle" =>
        \A i \in DOMAIN tasks_awaiting_gpu_ : tasks_awaiting_gpu_[i] \notin Encodes
=============================================================================
