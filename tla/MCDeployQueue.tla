---------------------------- MODULE MCDeployQueue ----------------------------
(* Instances of DeployQueue for TLC.                                       *)
EXTENDS DeployQueue
=============================================================================
