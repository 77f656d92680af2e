---------------------------- MODULE MCThreadMerger ----------------------------
(* One, two or three engines of a group on one pair of threads.             *)
EXTENDS ThreadMerger
=============================================================================
