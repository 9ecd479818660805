------------------------------ MODULE MCAgent ------------------------------
(* Instances of Agent for TLC.                                             *)
EXTENDS Agent, TLC

CONSTANTS e1, e2

\* No environment name begins with another one and "_".
MCDistinctNames == {<<e, e>> : e \in Envs}

\* The names prod and prod_x: the directories of the second begin with "prod_".
MCPrefixNames == MCDistinctNames \cup {<<e1, e2>>}

CodeIdSymmetry == Permutations(CodeIds)
=============================================================================
