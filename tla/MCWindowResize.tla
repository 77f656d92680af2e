--------------------------- MODULE MCWindowResize ---------------------------
(* Model values for TLC's runs of WindowResize.                             *)
EXTENDS WindowResize

Tall == [width |-> 1, height |-> 2]
Wide == [width |-> 2, height |-> 1]
Minimized == [width |-> 0, height |-> 0]

MCSizes == {Tall, Wide, Minimized}
=============================================================================
