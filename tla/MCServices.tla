----------------------------- MODULE MCServices -----------------------------
(* The components in Services, with the sizes of MCWindowResize.            *)
EXTENDS Services, MCWindowResize
=============================================================================
