---------------------------- MODULE MCTaskQueues ----------------------------
(* Model values and symmetry for TLC's run of TaskQueues. *)
EXTENDS TaskQueues, TLC

CONSTANTS platform, raster, ui, k1

MCQueues == {platform, raster, ui}
MCKeys == {k1}
MCClosures == {"work"}

\* Nothing in the table tells one queue from another.
QueueSymmetry == Permutations(MCQueues)
=============================================================================
