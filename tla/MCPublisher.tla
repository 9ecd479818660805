----------------------------- MODULE MCPublisher -----------------------------
(* Instances of Publisher for TLC.                                         *)
EXTENDS Publisher, TLC

Interchangeable == Permutations(Files) \cup Permutations(Vers) \cup Permutations(Deployers)
=============================================================================
