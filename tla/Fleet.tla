------------------------------- MODULE Fleet -------------------------------
(***************************************************************************)
(* The fleet view: what the publisher knows of each compiler               *)
(* (internal/publish/peers.go, the handlers of publish.go), composed with  *)
(* the agents that report to it (Once, reportServing and serving of        *)
(* internal/agent/agent.go) and with what `codavox compilers` prints.      *)
(*                                                                         *)
(* A compiler's report rides on its poll.  The handler stores the report   *)
(* and counts the poll in two critical sections; a handler whose client    *)
(* died or timed out runs on beside the handler of that client's next      *)
(* poll, so what the view holds is in the order of the handlers.           *)
(*                                                                         *)
(* The publisher's store is here as agents see it: a basedir that r10k     *)
(* changes, and reseals in one step, some of which fail in part (Publisher *)
(* has their steps).  What it no longer advertises, agents prune.          *)
(***************************************************************************)
EXTENDS Integers, FiniteSets

CONSTANTS
    Compilers,      \* nodes that run an agent
    Operators,      \* authorized certificates that only ask: curl, health checks
    Envs,
    CodeIds,
    None,
    Staged,         \* what the basedir may hold at first
    Lines,          \* a client's connections, numbered
    MaxPairs,       \* how many environments fit in maxServingHeader
    Faults,         \* what may go wrong: "kill", "timeout", "fail", "restart", "seal"
    MaxFaults,      \* how often in all
    MaxDeploys      \* how often r10k changes an environment

FaultKinds == {"kill", "timeout", "fail", "restart", "seal"}

ASSUME FleetAssumption ==
    /\ Compilers \cap Operators = {} /\ None \notin CodeIds
    /\ Staged \subseteq [Envs -> CodeIds \cup {None}]
    /\ IsFiniteSet(Envs) /\ Lines \subseteq Nat /\ None \notin Lines
    /\ MaxPairs \in Nat /\ MaxFaults \in Nat /\ MaxDeploys \in Nat
    /\ Faults \subseteq FaultKinds

VARIABLES
    tree,           \* the version each environment has in the basedir, if it is there
    current,        \* Store.Environments: the version of each environment
    links,          \* each compiler's environment symlinks
    agent,          \* each agent: where Once is, and its locals
    calls,          \* the requests for /v1/environments, and where their handler is
    seen,           \* Peers.seen: who has an entry
    serving,        \* peerState.serving
    fetched,        \* peerState.fetched
    been,           \* history: all that each compiler's links have been
    dropped,        \* history: environments purged, or not sealed by a new publisher
    deploys,
    faults

view == <<seen, serving, fetched>>
versions == <<tree, current, dropped>>
bounds == <<deploys, faults>>
vars == <<tree, current, links, agent, calls, seen, serving, fetched, been,
          dropped, deploys, faults>>

\* Connections of one client are alike: a request takes the first that is free.
FirstFree(c) ==
    {i \in Lines : /\ calls[<<c, i>>].at = "free"
                   /\ \A j \in Lines : j < i => calls[<<c, j>>].at # "free"}

Clients == Compilers \cup Operators
Ids == CodeIds \cup {None}
Maps == [Envs -> Ids]
Nothing == [e \in Envs |-> None]
Named(m) == {e \in Envs : m[e] # None}

Resting == [at |-> "idle", want |-> Nothing, todo |-> {}, moved |-> FALSE,
            line |-> None, env |-> None]
Free == [at |-> "free", report |-> Nothing]

Init ==
    /\ tree \in Staged /\ current = tree
    /\ links = [c \in Compilers |-> Nothing]
    /\ agent = [c \in Compilers |-> Resting]
    /\ calls = [l \in Clients \X Lines |-> Free]
    /\ seen = {}
    /\ serving = [c \in Clients |-> Nothing]
    /\ fetched = [c \in Clients |-> Nothing]
    /\ been = [c \in Compilers |-> {Nothing}]
    /\ dropped = {}
    /\ deploys = 0
    /\ faults = 0

Fault(kind) ==
    /\ kind \in Faults /\ faults < MaxFaults
    /\ faults' = faults + 1
    /\ UNCHANGED deploys

-----------------------------------------------------------------------------
(* The publisher.                                                          *)

\* r10k changes an environment, makes one or purges one.
Deploy(e, id) ==
    /\ deploys < MaxDeploys /\ tree[e] # id
    /\ tree' = [tree EXCEPT ![e] = id]
    /\ dropped' = IF id = None THEN dropped \cup {e} ELSE dropped
    /\ deploys' = deploys + 1
    /\ UNCHANGED <<current, links, agent, calls, view, been, faults>>

\* What a reseal publishes that starts from `last` and cannot seal F.
Sealed(last, F) == [e \in Envs |-> IF e \in F THEN last[e] ELSE tree[e]]

\* A mutant of Reseal: what fails is not carried forward.
ResealDrops(F) ==
    /\ IF F = {} THEN UNCHANGED bounds ELSE Fault("seal")
    /\ current' = Sealed(Nothing, F)
    /\ UNCHANGED <<tree, dropped, links, agent, calls, view, been>>

\* A reseal.  The environments it cannot seal keep their last version.
Reseal(F) ==
    /\ IF F = {} THEN UNCHANGED bounds ELSE Fault("seal")
    /\ current' = Sealed(current, F)
    /\ UNCHANGED <<tree, dropped, links, agent, calls, view, been>>

\* A new publisher: the view was in memory, and so were the versions, of which
\* there are none to keep for an environment that its first reseal cannot seal.
Restart(F) ==
    /\ Fault("restart")
    /\ F # {} => "seal" \in Faults
    /\ current' = Sealed(Nothing, F)
    /\ dropped' = dropped \cup F
    /\ seen' = {}
    /\ serving' = [c \in Clients |-> Nothing]
    /\ fetched' = [c \in Clients |-> Nothing]
    /\ calls' = [l \in Clients \X Lines |-> Free]
    /\ UNCHANGED <<tree, links, agent, been>>

\* ParseServing: an oversized report is dropped whole.
Parsed(report) ==
    IF Cardinality(Named(report)) > MaxPairs THEN Nothing ELSE report

\* A mutant of ObserveServing: a report adds to the last one.
ObserveServingMerged(c, i) ==
    LET report == Parsed(calls[<<c, i>>].report) IN
    /\ calls[<<c, i>>].at = "sent"
    /\ calls' = [calls EXCEPT ![<<c, i>>].at = "noted"]
    /\ IF report = Nothing
       THEN UNCHANGED <<seen, serving>>
       ELSE /\ seen' = seen \cup {c}
            /\ serving' = [serving EXCEPT ![c] = [e \in Envs |->
                              IF report[e] = None THEN @[e] ELSE report[e]]]
    /\ UNCHANGED <<versions, links, agent, fetched, been, bounds>>

\* handleEnvironments, first: the report, which admits the compiler to the view.
ObserveServing(c, i) ==
    LET report == Parsed(calls[<<c, i>>].report) IN
    /\ calls[<<c, i>>].at = "sent"
    /\ calls' = [calls EXCEPT ![<<c, i>>].at = "noted"]
    /\ IF report = Nothing
       THEN UNCHANGED <<seen, serving>>
       ELSE /\ seen' = seen \cup {c}
            /\ serving' = [serving EXCEPT ![c] = report]
    /\ UNCHANGED <<versions, links, agent, fetched, been, bounds>>

\* A mutant of ObservePoll: a poll makes an entry.
ObservePollCreates(c, i) ==
    /\ calls[<<c, i>>].at = "noted"
    /\ calls' = [calls EXCEPT ![<<c, i>>].at = "counted"]
    /\ seen' = seen \cup {c}
    /\ UNCHANGED <<versions, links, agent, serving, fetched, been, bounds>>

\* handleEnvironments, then: the poll, of a compiler already known.  Its time
\* and its count, which nothing here depends on, are left out.
ObservePoll(c, i) ==
    /\ calls[<<c, i>>].at = "noted"
    /\ calls' = [calls EXCEPT ![<<c, i>>].at = "counted"]
    /\ UNCHANGED <<versions, links, agent, view, been, bounds>>

\* A mutant of Answer: every environment is synced, advertised or not.
AnswerAll(c, i) ==
    /\ calls[<<c, i>>].at = "counted"
    /\ calls' = [calls EXCEPT ![<<c, i>>] = Free]
    /\ agent' =
         IF c \notin Compilers \/ agent[c].line # i THEN agent
         ELSE [agent EXCEPT ![c] =
                 IF @.at = "telling" THEN Resting
                 ELSE [@ EXCEPT !.at = "working", !.want = current,
                                !.todo = Envs, !.line = None]]
    /\ UNCHANGED <<versions, links, view, been, bounds>>

\* serveEnvironments: the versions of this moment, to whoever still listens.
\* The answer to reportServing's poll is discarded.
Answer(c, i) ==
    /\ calls[<<c, i>>].at = "counted"
    /\ calls' = [calls EXCEPT ![<<c, i>>] = Free]
    /\ agent' =
         IF c \notin Compilers \/ agent[c].line # i THEN agent
         ELSE [agent EXCEPT ![c] =
                 IF @.at = "telling" THEN Resting
                 ELSE [@ EXCEPT !.at = "working", !.want = current,
                                !.todo = Named(current), !.line = None]]
    /\ UNCHANGED <<versions, links, view, been, bounds>>

-----------------------------------------------------------------------------
(* A client.                                                               *)

Send(c, i, report) ==
    calls' = [calls EXCEPT ![<<c, i>>] = [at |-> "sent", report |-> report]]

\* An operator asks which versions are current, once at a time.
OperatorPolls(o) ==
    /\ \A i \in Lines : calls[<<o, i>>].at = "free"
    /\ \E i \in FirstFree(o) : Send(o, i, Nothing)
    /\ UNCHANGED <<versions, links, agent, view, been, bounds>>

\* A mutant of Poll: only reportServing reports.
PollSilent(c) ==
    /\ agent[c].at = "idle"
    /\ \E i \in FirstFree(c) :
          /\ Send(c, i, Nothing)
          /\ agent' = [agent EXCEPT ![c].at = "asking", ![c].line = i]
    /\ UNCHANGED <<versions, links, view, been, bounds>>

\* fetchEnvironments: the poll, with what serving() reads off the links.
Poll(c) ==
    /\ agent[c].at = "idle"
    /\ \E i \in FirstFree(c) :
          /\ Send(c, i, links[c])
          /\ agent' = [agent EXCEPT ![c].at = "asking", ![c].line = i]
    /\ UNCHANGED <<versions, links, view, been, bounds>>

\* The connection breaks, or the client's timeout ends the wait: the poll
\* fails.  The request may not have arrived; if it has, its handler runs on.
PollFails(c) ==
    LET i == agent[c].line IN
    /\ agent[c].at \in {"asking", "telling"}
    /\ \/ calls[<<c, i>>].at = "free" /\ UNCHANGED <<calls, bounds>>
       \/ Fault("timeout") /\ UNCHANGED calls
       \/ /\ Fault("timeout") /\ calls[<<c, i>>].at = "sent"
          /\ calls' = [calls EXCEPT ![<<c, i>>] = Free]
    /\ agent' = [agent EXCEPT ![c] = Resting]
    /\ UNCHANGED <<versions, links, view, been>>

\* sync of an environment already current.
Skip(c, e) ==
    /\ agent[c].at = "working" /\ e \in agent[c].todo
    /\ links[c][e] = agent[c].want[e]
    /\ agent' = [agent EXCEPT ![c].todo = @ \ {e}]
    /\ UNCHANGED <<versions, links, calls, view, been, bounds>>

\* sync of one that is not: serveArtifact finds the artifact while the version
\* is current, and records the fetch; what follows can still fail.
Fetch(c, e) ==
    /\ agent[c].at = "working" /\ e \in agent[c].todo
    /\ links[c][e] # agent[c].want[e]
    /\ current[e] = agent[c].want[e]
    /\ seen' = seen \cup {c}
    /\ fetched' = [fetched EXCEPT ![c][e] = agent[c].want[e]]
    /\ agent' = [agent EXCEPT ![c].at = "unpacking", ![c].env = e]
    /\ UNCHANGED <<versions, links, calls, serving, been, bounds>>

\* The version is no longer current: 404, and the environment has failed.
NotFound(c, e) ==
    /\ agent[c].at = "working" /\ e \in agent[c].todo
    /\ links[c][e] # agent[c].want[e]
    /\ current[e] # agent[c].want[e]
    /\ agent' = [agent EXCEPT ![c].todo = @ \ {e}]
    /\ UNCHANGED <<versions, links, calls, view, been, bounds>>

Relink(c, m) ==
    /\ links' = [links EXCEPT ![c] = m]
    /\ been' = [been EXCEPT ![c] = @ \cup {m}]

\* The archive verifies and the link moves, or it does not verify.
Swap(c) ==
    LET e == agent[c].env IN
    /\ agent[c].at = "unpacking"
    /\ Relink(c, [links[c] EXCEPT ![e] = agent[c].want[e]])
    /\ agent' = [agent EXCEPT ![c].at = "working", ![c].todo = @ \ {e},
                              ![c].moved = TRUE, ![c].env = None]
    /\ UNCHANGED <<versions, calls, view, bounds>>

SyncFails(c) ==
    /\ agent[c].at = "unpacking" /\ Fault("fail")
    /\ agent' = [agent EXCEPT ![c].at = "working", ![c].todo = @ \ {agent[c].env},
                              ![c].env = None]
    /\ UNCHANGED <<versions, links, calls, view, been>>

\* prune: links the publisher does not advertise go, unless it advertises none.
Prune(c) ==
    LET kept == [e \in Envs |-> IF agent[c].want[e] = None THEN None ELSE links[c][e]]
        m == IF agent[c].want = Nothing THEN links[c] ELSE kept IN
    /\ agent[c].at = "working" /\ agent[c].todo = {}
    /\ Relink(c, m)
    /\ agent' = [agent EXCEPT ![c].at = "done", ![c].moved = @ \/ m # links[c]]
    /\ UNCHANGED <<versions, calls, view, bounds>>

\* reportServing, when something moved and there is something to report.
Tell(c) ==
    /\ agent[c].at = "done" /\ agent[c].moved /\ links[c] # Nothing
    /\ \E i \in FirstFree(c) :
          /\ Send(c, i, links[c])
          /\ agent' = [agent EXCEPT ![c].at = "telling", ![c].line = i]
    /\ UNCHANGED <<versions, links, view, been, bounds>>

Rest(c) ==
    /\ agent[c].at = "done" /\ (~agent[c].moved \/ links[c] = Nothing)
    /\ agent' = [agent EXCEPT ![c] = Resting]
    /\ UNCHANGED <<versions, links, calls, view, been, bounds>>

\* The agent is killed, and started again: its requests are the publisher's.
Kill(c) ==
    /\ agent[c].at # "idle" /\ Fault("kill")
    /\ agent' = [agent EXCEPT ![c] = Resting]
    /\ UNCHANGED <<versions, links, calls, view, been>>

-----------------------------------------------------------------------------
Handle(c, i) == ObserveServing(c, i) \/ ObservePoll(c, i) \/ Answer(c, i)

AgentStep(c) ==
    \/ Poll(c) \/ PollFails(c)
    \/ \E e \in Envs : Skip(c, e) \/ Fetch(c, e) \/ NotFound(c, e)
    \/ Swap(c) \/ SyncFails(c) \/ Prune(c) \/ Tell(c) \/ Rest(c)

Next ==
    \/ \E e \in Envs, id \in Ids : Deploy(e, id)
    \/ \E F \in SUBSET Named(tree) : Reseal(F) \/ Restart(F)
    \/ \E c \in Clients, i \in Lines : Handle(c, i)
    \/ \E o \in Operators : OperatorPolls(o)
    \/ \E c \in Compilers : AgentStep(c) \/ Kill(c)

Spec == Init /\ [][Next]_vars

\* The publisher runs the handlers of the requests that arrived, and each agent
\* goes on and polls again after its interval.
FairSpec ==
    /\ Spec
    /\ \A c \in Clients, i \in Lines : WF_vars(Handle(c, i))
    /\ \A c \in Compilers : WF_vars(AgentStep(c))

-----------------------------------------------------------------------------
(* Properties.                                                             *)

AgentTypes ==
    [at : {"idle", "asking", "working", "unpacking", "done", "telling"},
     want : Maps, todo : SUBSET Envs, moved : BOOLEAN,
     line : Lines \cup {None}, env : Envs \cup {None}]

TypeOK ==
    /\ tree \in Maps /\ current \in Maps /\ dropped \subseteq Envs
    /\ links \in [Compilers -> Maps]
    /\ agent \in [Compilers -> AgentTypes]
    /\ \A c \in Compilers : agent[c].todo \subseteq Named(agent[c].want)
    /\ calls \in [Clients \X Lines ->
                    [at : {"free", "sent", "noted", "counted"}, report : Maps]]
    /\ seen \subseteq Clients
    /\ serving \in [Clients -> Maps]
    /\ fetched \in [Clients -> Maps]
    /\ been \in [Compilers -> SUBSET Maps]
    /\ deploys \in 0 .. MaxDeploys /\ faults \in 0 .. MaxFaults

\* What the view says a compiler serves is all that the compiler served at one
\* moment: never a mixture of two reports, nor what it was only seen to fetch
\* or told to serve, through kills, timeouts and handlers that overlap.
ServingWasReal ==
    \A c \in Compilers : serving[c] \in been[c]

\* An entry is earned by what only a compiler does: everyone listed has reported
\* or fetched since the publisher started, and no operator is listed.
EntryIsEarned ==
    \A c \in seen : /\ c \in Compilers
                    /\ serving[c] # Nothing \/ fetched[c] # Nothing

\* Once nothing is deployed and nothing goes wrong any more, every compiler
\* serves what is published, and the view says so: no old report, lost report or
\* restart of the publisher leaves it wrong for good.
FleetSettles ==
    <>[](\A c \in Compilers :
            current # Nothing => links[c] = current /\ serving[c] = current)

\* An environment leaves a compiler only when r10k purged it or a new publisher
\* could not seal it: no reseal that fails, no answer that comes late, no 404
\* and no kill makes an agent prune what is still published.
PrunedWasDropped ==
    [][\A c \in Compilers, e \in Envs :
          (links[c][e] # None /\ links'[c][e] = None) => e \in dropped]_vars

(* Statements of the comments that the code does not keep.                 *)

\* "Dropping it instead would unpublish working code because of an unrelated
\* failure, and every polling compiler would see the environment vanish": an
\* environment that is in the basedir stays on every compiler that has it.
StagedIsKept ==
    [][\A c \in Compilers, e \in Envs :
          (links[c][e] # None /\ links'[c][e] = None) => tree[e] = None]_vars

\* compilersQuery: "a report is as old as that compiler's last poll, which
\* last_poll states": when a poll is recorded as the last one, what is shown as
\* served is what that poll reported.
ReportIsOfLastPoll ==
    [][\A c \in seen, i \in Lines :
          (calls[<<c, i>>].at = "noted" /\ calls'[<<c, i>>].at = "counted") =>
              serving[c] = calls[<<c, i>>].report]_vars
=============================================================================
