--------------------------- MODULE MCMessageLoops ---------------------------
(* Model values for TLC's runs of MessageLoops. *)
EXTENDS MessageLoops

CONSTANTS platform, ui, k1

MCQueues == {platform, ui}
MCPausable == {ui}
MCKeys == {k1}
NoKeys == {}
MCClosures == {"work", "resume", "quit"}
=============================================================================
