---------------------------- MODULE MCProvenance ----------------------------
(* Instances of Provenance for TLC.                                        *)
EXTENDS Provenance, TLC

CONSTANTS c1, c2, m1, m2, i1, i2

\* The second commit changes nothing that is deployed, nor do the modules of
\* the first; with other modules the second is another version.
SealsOf ==
    [s \in {c1, c2} \X {m1, m2} |-> IF s = <<c2, m2>> THEN i2 ELSE i1]

FirstOf == <<c1, m1>>

Interchangeable == Permutations(Envs) \cup Permutations(Publishers)
=============================================================================
