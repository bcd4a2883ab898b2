---------------------------- MODULE MCDeployLock ----------------------------
(* Instances of DeployLock: two wrappers and a worker of the scheduler. *)
EXTENDS DeployLock, TLC

CONSTANTS w1, w2, k

MCHolders == {w1, w2, k}
=============================================================================
