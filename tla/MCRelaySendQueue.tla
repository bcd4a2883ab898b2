-------------------------- MODULE MCRelaySendQueue --------------------------
(* Instances of RelaySendQueue: two requests of one machine.               *)
EXTENDS RelaySendQueue, TLC

CONSTANTS r1, r2

MCReqs == {r1, r2}
=============================================================================
