------------------------------ MODULE MCFleet ------------------------------
(* Instances of Fleet for TLC.                                             *)
EXTENDS Fleet, TLC

CONSTANTS e1, e2, i1, i2

\* One environment, or two of different versions.
SomeStaged == {[e \in Envs |-> IF e = e1 THEN i1 ELSE id] : id \in {None, i2}}
=============================================================================
