---------------------------- MODULE FramePipeline ----------------------------
(***************************************************************************)
(* flutter::Pipeline<FrameItem>: a queue between one producer and one      *)
(* consumer, bounded by the semaphore empty_ and announced by the          *)
(* semaphore available_.  The two semaphores and the queue are changed one *)
(* after the other, never together: each change is an action here, and the *)
(* threads of module Frames put them in order.  The counter inflight_ is   *)
(* only traced, and left out.                                              *)
(***************************************************************************)
EXTENDS Integers, Sequences

CONSTANT Depth    \* how many frames may be reserved, waiting or drawn at once

ASSUME DepthAssumption == Depth \in Nat \ {0}

VARIABLES
    empty_,      \* the semaphore of free slots
    available_,  \* the semaphore of waiting items
    queue_       \* the items

pipelineVars == <<empty_, available_, queue_>>

PipelineInit ==
    /\ empty_ = Depth
    /\ available_ = 0
    /\ queue_ = <<>>

-----------------------------------------------------------------------------
(* Producers *)

\* Produce and ProduceIfEmpty reserve a slot alike.
Produce ==
    /\ empty_ > 0
    /\ empty_' = empty_ - 1
    /\ UNCHANGED <<available_, queue_>>

ProduceFails == empty_ = 0 /\ UNCHANGED pipelineVars

Push(item) ==
    /\ queue_' = Append(queue_, item)
    /\ UNCHANGED <<empty_, available_>>

\* Mutant: waiting items are not looked for.
PushIfEmpty_Always(item) == Push(item)

\* ProducerCommitIfEmpty pushes onto an empty queue only ...
PushIfEmpty(item) == queue_ = <<>> /\ Push(item)

\* Mutant: the slot stays taken.
Bail_KeepsSlot == queue_ # <<>> /\ UNCHANGED pipelineVars

\* Mutant: the consumer is told of an item.
Bail_Signals ==
    /\ queue_ # <<>>
    /\ empty_' = empty_ + 1
    /\ available_' = available_ + 1
    /\ UNCHANGED queue_

\* ... or gives the slot back.
Bail ==
    /\ queue_ # <<>>
    /\ empty_' = empty_ + 1
    /\ UNCHANGED <<available_, queue_>>

SignalAvailable ==
    /\ available_' = available_ + 1
    /\ UNCHANGED <<empty_, queue_>>

-----------------------------------------------------------------------------
(* Consumers *)

\* Mutant: the semaphore goes below zero.
TakeAvailable_Unchecked ==
    /\ available_' = available_ - 1
    /\ UNCHANGED <<empty_, queue_>>

TakeAvailable ==
    /\ available_ > 0
    /\ available_' = available_ - 1
    /\ UNCHANGED <<empty_, queue_>>

NoneAvailable == available_ = 0 /\ UNCHANGED pipelineVars

Pop(item) ==
    /\ queue_ # <<>>
    /\ item = Head(queue_)
    /\ queue_' = Tail(queue_)
    /\ UNCHANGED <<empty_, available_>>

\* After the consumer has returned.
Release ==
    /\ empty_' = empty_ + 1
    /\ UNCHANGED <<available_, queue_>>

=============================================================================
