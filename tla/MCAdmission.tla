----------------------------- MODULE MCAdmission -----------------------------
(* Instances of Admission for TLC.                                         *)
EXTENDS Admission, TLC

CONSTANTS compiler, stranger, ca, master

\* A compiler by its role, and an agent of the same CA that is not one.
ChainsOf == [p \in Peers |-> {p, ca}]
RolesOf == [p \in Peers |-> IF p = compiler THEN master ELSE NoRole]

Stamps == [v \in 1 .. MaxVersions |-> v]

\* Nobody is revoked, or the authority of both.
SomeLists == {{}, {ca}}

Interchangeable == Permutations(Tasks)
=============================================================================
