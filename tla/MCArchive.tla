----------------------------- MODULE MCArchive -----------------------------
(* Instances of Archive for TLC.                                           *)
EXTENDS Archive, TLC

CONSTANTS a, c, d, git, x, y, z, Most

\* "a" < "a/c" < "a/git" < "c" < "d"
PathsInOrder == << <<a>>, <<a, c>>, <<a, git>>, <<c>>, <<d>> >>

SizeOf == [v \in {x, y, z} |-> IF v = z THEN 2 ELSE 1]

\* To a neighbour, to one above, and out of the tree by way of a name in it.
SomeTargets ==
    {[abs |-> FALSE, steps |-> <<c>>],
     [abs |-> FALSE, steps |-> <<Up, c>>],
     [abs |-> TRUE, steps |-> <<c>>]}

Interchangeable == Permutations({x, y})

SomeTrees ==
    {t \in [Paths -> Nodes] :
        WellFormed(t) /\ Cardinality({p \in Paths : t[p] # Gone}) <= Most}
=============================================================================
