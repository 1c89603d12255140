--------------------------- MODULE MCSessionWorker --------------------------
(* One session, three submissions against a backlog of one, two callers of *)
(* Stop: the backlog fills, Stop races every step of RunSerial, and the    *)
(* second Stop meets the once at every stage.                              *)
EXTENDS SessionWorker

CONSTANTS t1, t2, t3, c1, c2, none

MCTask == {t1, t2, t3}
MCStopper == {c1, c2}
=============================================================================
