------------------------------ MODULE MCPidFile ------------------------------
(* Instances of PidFile for TLC.                                           *)
EXTENDS PidFile, TLC

Interchangeable == Permutations(Procs)
=============================================================================
