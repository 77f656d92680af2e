------------------------------ MODULE MCFrames ------------------------------
(* Frames with one view, or two, and every interleaving of the UI thread,   *)
(* the platform's vsync and the raster thread.                              *)
EXTENDS Frames
=============================================================================
