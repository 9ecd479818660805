---------------------------- MODULE CacheContract ----------------------------
(***************************************************************************)
(* What a compiler promises about the environment cache of its OpenVox     *)
(* Server, without files, processes or failures: a version is deployed     *)
(* only while a flush of its environment is owed, and the flush stops      *)
(* being owed only when the server holds nothing else than what is         *)
(* deployed.  Agent implements it (Agent!KeepsContract).                   *)
(***************************************************************************)
CONSTANTS Envs, CodeIds, None

Ids == CodeIds \cup {None}

VARIABLES
    deployed,   \* the version code-id reports for each environment
    cached,     \* the version the server compiles
    owed        \* the environments whose flush is owed

vars == <<deployed, cached, owed>>

Init ==
    /\ deployed = [e \in Envs |-> None]
    /\ cached = [e \in Envs |-> None]
    /\ owed = {}

\* A flush is owed from before the version changes.
Owe(e) ==
    /\ owed' = owed \cup {e}
    /\ UNCHANGED <<deployed, cached>>

Deploy(e, id) ==
    /\ e \in owed
    /\ deployed' = [deployed EXCEPT ![e] = id]
    /\ UNCHANGED <<cached, owed>>

\* The server caches what is deployed, and keeps it.
Compile(e) ==
    /\ cached[e] = None
    /\ cached' = [cached EXCEPT ![e] = deployed[e]]
    /\ UNCHANGED <<deployed, owed>>

\* The server drops environments of its cache; a failed flush may still do
\* so, and leaves the flush owed.
Expire(E) ==
    /\ cached' = [e \in Envs |-> IF e \in E THEN None ELSE cached[e]]
    /\ owed' \in {owed, owed \cup E}
    /\ UNCHANGED deployed

Settle(e) ==
    /\ e \in owed
    /\ cached[e] \in {None, deployed[e]}
    /\ owed' = owed \ {e}
    /\ UNCHANGED <<deployed, cached>>

\* Nothing cached, nothing owed.
Reboot ==
    /\ cached' = [e \in Envs |-> None]
    /\ owed' \in SUBSET owed
    /\ UNCHANGED deployed

Next ==
    \/ \E e \in Envs : Owe(e) \/ Compile(e) \/ Settle(e)
    \/ \E e \in Envs, id \in Ids : Deploy(e, id)
    \/ \E E \in SUBSET Envs : Expire(E)
    \/ Reboot

Spec == Init /\ [][Next]_vars

\* The server never compiles a tree other than the deployed one unless its
\* flush is owed.
Honest == \A e \in Envs : cached[e] \in {None, deployed[e]} \/ e \in owed
=============================================================================
