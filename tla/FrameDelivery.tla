---------------------------- MODULE FrameDelivery ----------------------------
(***************************************************************************)
(* What the frame pipeline promises: committed frames are rasterised one   *)
(* at a time in the order they were committed, no frame twice unless its   *)
(* rasterisation asked for a retry, and a frame that is retried never      *)
(* overtakes, or follows, a newer one.                                     *)
(***************************************************************************)
EXTENDS Naturals, Sequences

CONSTANTS Items, Depth

VARIABLES
    waiting,     \* the committed frames
    rasterizing  \* the frame that is being drawn, if any

vars == <<waiting, rasterizing>>

Init == waiting = <<>> /\ rasterizing = {}

Commit(f) ==
    /\ Len(waiting) < Depth
    /\ waiting' = Append(waiting, f)
    /\ UNCHANGED rasterizing

Start ==
    /\ rasterizing = {}
    /\ waiting # <<>>
    /\ rasterizing' = {Head(waiting)}
    /\ waiting' = Tail(waiting)

Finish ==
    /\ rasterizing # {}
    /\ rasterizing' = {}
    /\ UNCHANGED waiting

Retry ==
    /\ waiting = <<>>
    /\ \E f \in rasterizing : waiting' = <<f>>
    /\ rasterizing' = {}

Next == (\E f \in Items : Commit(f)) \/ Start \/ Finish \/ Retry

Spec == Init /\ [][Next]_vars

=============================================================================
