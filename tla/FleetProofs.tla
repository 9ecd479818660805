----------------------------- MODULE FleetProofs -----------------------------
(***************************************************************************)
(* Theorems about Fleet, for any compilers, operators, environments,       *)
(* versions, faults and bounds.                                            *)
(***************************************************************************)
EXTENDS Fleet, TLAPS

USE FleetAssumption DEF view, versions, bounds, vars

-----------------------------------------------------------------------------
(* Types.                                                                  *)

CallTypes == [at : {"free", "sent", "noted", "counted"}, report : Maps]

LEMMA Blanks ==
    /\ Nothing \in Maps /\ Named(Nothing) = {}
    /\ Resting \in AgentTypes /\ Resting.todo = {}
    /\ Free \in CallTypes /\ Free.report = Nothing
<1>1. Nothing \in Maps /\ Named(Nothing) = {}
  BY DEF Nothing, Maps, Ids, Named
<1>2. QED
  BY <1>1 DEF Resting, AgentTypes, Free, CallTypes

\* A report is kept whole or not at all.
LEMMA ParsedWhole == \A r : Parsed(r) \in {r, Nothing}
  BY DEF Parsed

\* The agent's part of the type invariant.
AgentOK ==
    /\ agent \in [Compilers -> AgentTypes]
    /\ \A c \in Compilers : agent[c].todo \subseteq Named(agent[c].want)

CallsOK == calls \in [Clients \X Lines -> CallTypes]

LEMMA InitType == Init => TypeOK
  BY Blanks DEF Init, TypeOK, AgentTypes, CallTypes, Clients, Maps, Ids

\* One agent moves on.
LEMMA AgentMoves ==
    ASSUME AgentOK, NEW c \in Compilers, NEW a \in AgentTypes,
           a.todo \subseteq Named(a.want), agent' = [agent EXCEPT ![c] = a]
    PROVE AgentOK'
  BY DEF AgentOK

\* One request moves on.
LEMMA CallMoves ==
    ASSUME CallsOK, NEW c \in Clients, NEW i \in Lines, NEW r \in CallTypes,
           calls' = [calls EXCEPT ![<<c, i>>] = r]
    PROVE CallsOK'
  BY DEF CallsOK

LEMMA NextType == TypeOK /\ [Next]_vars => TypeOK'
<1>1. SUFFICES ASSUME TypeOK, [Next]_vars PROVE TypeOK'
  OBVIOUS
<1> USE <1>1
<1>a. /\ AgentOK /\ CallsOK
      /\ \A c \in Compilers : /\ agent[c] \in AgentTypes
                              /\ agent[c].todo \subseteq Named(agent[c].want)
      /\ \A c \in Clients, i \in Lines : calls[<<c, i>>] \in CallTypes
  BY DEF TypeOK, AgentOK, CallsOK, CallTypes
<1>2. CASE UNCHANGED vars
  BY <1>2 DEF TypeOK
<1>3. ASSUME NEW e \in Envs, NEW id \in Ids, Deploy(e, id) PROVE TypeOK'
  BY <1>3 DEF Deploy, TypeOK, Maps
<1>4. ASSUME NEW F \in SUBSET Named(tree), Reseal(F) \/ Restart(F) PROVE TypeOK'
  <2>1. Sealed(current, F) \in Maps /\ Sealed(Nothing, F) \in Maps
    BY Blanks DEF Sealed, TypeOK, Maps
  <2>2. deploys' \in 0 .. MaxDeploys /\ faults' \in 0 .. MaxFaults
    BY <1>4 DEF Reseal, Restart, Fault, TypeOK
  <2>3. CASE Reseal(F)
    BY <2>1, <2>2, <2>3 DEF Reseal, TypeOK
  <2>4. CASE Restart(F)
    <3>1. CallsOK'
      BY <2>4, Blanks DEF Restart, CallsOK
    <3>2. F \subseteq Envs
      BY DEF Named
    <3>3. /\ current' \in Maps /\ dropped' \subseteq Envs /\ seen' \subseteq Clients
          /\ serving' \in [Clients -> Maps] /\ fetched' \in [Clients -> Maps]
      BY <2>1, <2>4, <3>2, Blanks DEF Restart, TypeOK
    <3>4. QED
      BY <2>2, <2>4, <3>1, <3>3 DEF Restart, TypeOK, CallsOK, CallTypes
  <2>5. QED
    BY <1>4, <2>3, <2>4
<1>5. ASSUME NEW c \in Clients, NEW i \in Lines, ObserveServing(c, i) PROVE TypeOK'
  <2>1. CallsOK'
    BY <1>5, <1>a, CallMoves DEF ObserveServing, CallsOK, CallTypes
  <2>2. Parsed(calls[<<c, i>>].report) \in Maps
    BY <1>a, Blanks, ParsedWhole DEF CallTypes
  <2>3. seen' \subseteq Clients /\ serving' \in [Clients -> Maps]
    BY <1>5, <2>2 DEF ObserveServing, TypeOK
  <2>4. QED
    BY <1>5, <2>1, <2>3 DEF ObserveServing, TypeOK, CallsOK, CallTypes
<1>6. ASSUME NEW c \in Clients, NEW i \in Lines, ObservePoll(c, i) PROVE TypeOK'
  <2>1. CallsOK'
    BY <1>6, <1>a DEF ObservePoll, CallsOK, CallTypes
  <2>2. QED
    BY <1>6, <2>1 DEF ObservePoll, TypeOK, CallsOK, CallTypes
<1>7. ASSUME NEW c \in Clients, NEW i \in Lines, Answer(c, i) PROVE TypeOK'
  <2>1. CallsOK'
    BY <1>7, Blanks DEF Answer, TypeOK, CallsOK, CallTypes
  <2>2. AgentOK'
    <3>1. CASE agent' = agent
      BY <1>a, <3>1 DEF AgentOK
    <3>2. CASE agent' # agent
      <4>1. c \in Compilers
        BY <1>7, <3>2 DEF Answer
      <4>2. \/ agent' = [agent EXCEPT ![c] = Resting]
            \/ agent' = [agent EXCEPT ![c] =
                 [agent[c] EXCEPT !.at = "working", !.want = current,
                                  !.todo = Named(current), !.line = None]]
        BY <1>7, <3>2, <1>a DEF Answer, AgentOK
      <4>3. Named(current) \subseteq Envs /\ current \in Maps
        BY DEF Named, TypeOK
      <4> DEFINE a == [agent[c] EXCEPT !.at = "working", !.want = current,
                                       !.todo = Named(current), !.line = None]
      <4>4. a \in AgentTypes
        BY <1>a, <4>1, <4>3 DEF AgentTypes
      <4>5. a.todo = Named(a.want)
        BY <1>a, <4>1 DEF AgentTypes
      <4>6. agent' = [agent EXCEPT ![c] = Resting] \/ agent' = [agent EXCEPT ![c] = a]
        BY <4>2
      <4> HIDE DEF a
      <4>7. QED
        BY <1>a, <4>1, <4>4, <4>5, <4>6, Blanks, AgentMoves
    <3>3. QED
      BY <3>1, <3>2
  <2>3. QED
    BY <1>7, <2>1, <2>2 DEF Answer, TypeOK, AgentOK, CallsOK, CallTypes
<1>8. ASSUME NEW o \in Operators, OperatorPolls(o) PROVE TypeOK'
  <2>1. PICK i \in Lines : Send(o, i, Nothing)
    BY <1>8 DEF OperatorPolls, FirstFree
  <2>2. CallsOK'
    BY <2>1, <1>a, Blanks DEF Send, Clients, CallsOK, CallTypes
  <2>3. QED
    BY <1>8, <2>2 DEF OperatorPolls, TypeOK, CallsOK, CallTypes
<1>9. ASSUME NEW c \in Compilers, AgentStep(c) \/ Kill(c) PROVE TypeOK'
  <2>1. /\ agent[c] \in AgentTypes /\ agent[c].todo \subseteq Named(agent[c].want)
        /\ links[c] \in Maps /\ c \in Clients /\ agent[c].want \in Maps
    BY <1>a DEF TypeOK, Clients, AgentTypes
  <2>2. CASE Poll(c)
    <3>1. PICK i \in Lines :
            /\ Send(c, i, links[c])
            /\ agent' = [agent EXCEPT ![c].at = "asking", ![c].line = i]
      BY <2>2 DEF Poll, FirstFree
    <3>2. CallsOK'
      BY <3>1, <2>1, <1>a DEF Send, CallsOK, CallTypes
    <3>3. AgentOK'
      BY <3>1, <2>1, <1>a DEF AgentOK, AgentTypes
    <3>4. QED
      BY <2>2, <3>2, <3>3 DEF Poll, TypeOK, AgentOK, CallsOK, CallTypes
  <2>3. CASE PollFails(c)
    <3>1. AgentOK'
      BY <2>3, <1>a, Blanks DEF PollFails, AgentOK
    <3>2. CallsOK'
      BY <2>3, <1>a, Blanks DEF PollFails, CallsOK
    <3>3. deploys' \in 0 .. MaxDeploys /\ faults' \in 0 .. MaxFaults
      BY <2>3 DEF PollFails, Fault, TypeOK
    <3>4. QED
      BY <2>3, <3>1, <3>2, <3>3 DEF PollFails, TypeOK, AgentOK, CallsOK, CallTypes
  <2>4. ASSUME NEW e \in Envs, Skip(c, e) PROVE TypeOK'
    <3>1. AgentOK'
      BY <2>4, <2>1, <1>a DEF Skip, AgentOK, AgentTypes
    <3>2. QED
      BY <2>4, <3>1 DEF Skip, TypeOK, AgentOK
  <2>5. ASSUME NEW e \in Envs, Fetch(c, e) PROVE TypeOK'
    <3>1. AgentOK'
      BY <2>5, <2>1, <1>a DEF Fetch, AgentOK, AgentTypes
    <3>2. agent[c].want[e] \in Ids
      BY <2>1 DEF Maps
    <3>3. fetched' \in [Clients -> Maps] /\ seen' \subseteq Clients
      BY <2>5, <2>1, <3>2 DEF Fetch, TypeOK, Maps
    <3>4. QED
      BY <2>5, <3>1, <3>3 DEF Fetch, TypeOK, AgentOK
  <2>6. ASSUME NEW e \in Envs, NotFound(c, e) PROVE TypeOK'
    <3>1. AgentOK'
      BY <2>6, <2>1, <1>a DEF NotFound, AgentOK, AgentTypes
    <3>2. QED
      BY <2>6, <3>1 DEF NotFound, TypeOK, AgentOK
  <2>7. CASE Swap(c)
    <3>1. AgentOK'
      <4>1. agent' = [agent EXCEPT ![c] =
              [agent[c] EXCEPT !.at = "working", !.todo = @ \ {agent[c].env},
                               !.moved = TRUE, !.env = None]]
        BY <2>7, <1>a DEF Swap, AgentOK
      <4>2. [agent[c] EXCEPT !.at = "working", !.todo = @ \ {agent[c].env},
                             !.moved = TRUE, !.env = None] \in AgentTypes
        BY <2>1 DEF AgentTypes
      <4>3. QED
        BY <1>a, <2>1, <4>1, <4>2, AgentMoves DEF AgentTypes
    <3>2. [links[c] EXCEPT ![agent[c].env] = agent[c].want[agent[c].env]] \in Maps
      BY <2>1 DEF Maps
    <3>3. links' \in [Compilers -> Maps] /\ been' \in [Compilers -> SUBSET Maps]
      BY <2>7, <3>2 DEF Swap, Relink, TypeOK
    <3>4. QED
      BY <2>7, <3>1, <3>3 DEF Swap, TypeOK, AgentOK
  <2>8. CASE SyncFails(c)
    <3>1. AgentOK'
      <4>1. agent' = [agent EXCEPT ![c] =
              [agent[c] EXCEPT !.at = "working", !.todo = @ \ {agent[c].env},
                               !.env = None]]
        BY <2>8, <1>a DEF SyncFails, AgentOK
      <4>2. [agent[c] EXCEPT !.at = "working", !.todo = @ \ {agent[c].env},
                             !.env = None] \in AgentTypes
        BY <2>1 DEF AgentTypes
      <4>3. QED
        BY <1>a, <2>1, <4>1, <4>2, AgentMoves DEF AgentTypes
    <3>2. QED
      BY <2>8, <3>1 DEF SyncFails, Fault, TypeOK, AgentOK
  <2>9. CASE Prune(c)
    <3>1. PICK m \in Maps : Relink(c, m) /\ agent' = [agent EXCEPT
                 ![c].at = "done", ![c].moved = @ \/ m # links[c]]
      BY <2>9, <2>1 DEF Prune, Maps, Ids
    <3>2. AgentOK'
      BY <3>1, <2>1, <1>a DEF AgentOK, AgentTypes
    <3>3. links' \in [Compilers -> Maps] /\ been' \in [Compilers -> SUBSET Maps]
      BY <3>1 DEF Relink, TypeOK
    <3>4. QED
      BY <2>9, <3>2, <3>3 DEF Prune, TypeOK, AgentOK
  <2>10. CASE Tell(c)
    <3>1. PICK i \in Lines :
            /\ Send(c, i, links[c])
            /\ agent' = [agent EXCEPT ![c].at = "telling", ![c].line = i]
      BY <2>10 DEF Tell, FirstFree
    <3>2. CallsOK'
      BY <3>1, <2>1, <1>a DEF Send, CallsOK, CallTypes
    <3>3. AgentOK'
      BY <3>1, <2>1, <1>a DEF AgentOK, AgentTypes
    <3>4. QED
      BY <2>10, <3>2, <3>3 DEF Tell, TypeOK, AgentOK, CallsOK, CallTypes
  <2>11. CASE Rest(c)
    <3>1. AgentOK'
      BY <2>11, <1>a, Blanks DEF Rest, AgentOK
    <3>2. QED
      BY <2>11, <3>1 DEF Rest, TypeOK, AgentOK
  <2>12. CASE Kill(c)
    <3>1. AgentOK'
      BY <2>12, <1>a, Blanks DEF Kill, AgentOK
    <3>2. QED
      BY <2>12, <3>1 DEF Kill, Fault, TypeOK, AgentOK
  <2>13. QED
    BY <1>9, <2>2, <2>3, <2>4, <2>5, <2>6, <2>7, <2>8, <2>9, <2>10, <2>11, <2>12
    DEF AgentStep
<1>10. QED
  BY <1>2, <1>3, <1>4, <1>5, <1>6, <1>7, <1>8, <1>9 DEF Next, Handle

\* Every state is of its types, and an agent syncs only what was advertised.
THEOREM TypeSafe == Spec => []TypeOK
<1>1. Init => TypeOK
  BY InitType
<1>2. TypeOK /\ [Next]_vars => TypeOK'
  BY NextType
<1>3. QED
  BY <1>1, <1>2, PTL DEF Spec

-----------------------------------------------------------------------------
(* Where a report comes from.                                              *)

\* All that is reported, in flight or in the view, has been served; operators
\* report nothing.
Told ==
    /\ \A c \in Compilers :
          /\ Nothing \in been[c] /\ links[c] \in been[c] /\ serving[c] \in been[c]
          /\ \A i \in Lines : calls[<<c, i>>].report \in been[c]
    /\ \A o \in Operators, i \in Lines : calls[<<o, i>>].report = Nothing

\* An entry has a report or a fetch, and is not an operator's.
Earned == EntryIsEarned

SourceInv == Told /\ Earned

LEMMA InitSource == Init => SourceInv
<1>1. SUFFICES ASSUME Init PROVE SourceInv
  OBVIOUS
<1>2. Told
  BY <1>1, Blanks DEF Init, Told, Clients
<1>3. Earned
  BY <1>1 DEF Init, Earned, EntryIsEarned
<1>4. QED
  BY <1>2, <1>3 DEF SourceInv

\* A step that moves no link and stores no report keeps the invariant when what
\* it sends is so.
LEMMA QuietTold ==
    ASSUME TypeOK, Told, UNCHANGED <<links, serving, been>>,
           \A c \in Compilers, i \in Lines : calls'[<<c, i>>].report \in been[c],
           \A o \in Operators, i \in Lines : calls'[<<o, i>>].report = Nothing
    PROVE Told'
  BY DEF Told

\* The links of a compiler move.
LEMMA RelinkTold ==
    ASSUME TypeOK, Told, NEW c \in Compilers, NEW m, Relink(c, m),
           UNCHANGED <<calls, serving>>
    PROVE Told'
<1>1. /\ links'[c] = m /\ been'[c] = been[c] \cup {m}
      /\ \A d \in Compilers \ {c} : links'[d] = links[d] /\ been'[d] = been[d]
  BY DEF Relink, TypeOK
<1>2. \A d \in Compilers : been[d] \subseteq been'[d] /\ links'[d] \in been'[d]
  BY <1>1 DEF Told
<1>3. QED
  BY <1>2 DEF Told

\* A request is sent.
LEMMA SendTold ==
    ASSUME TypeOK, Told, NEW c \in Clients, NEW i \in Lines, NEW r, Send(c, i, r),
           c \in Compilers => r \in been[c], c \in Operators => r = Nothing,
           UNCHANGED <<links, serving, been>>
    PROVE Told'
<1>1. \A d \in Clients, j \in Lines :
        calls'[<<d, j>>] = IF d = c /\ j = i THEN [at |-> "sent", report |-> r]
                           ELSE calls[<<d, j>>]
  BY DEF Send, TypeOK
<1>2. \A d \in Clients, j \in Lines :
        \/ d = c /\ calls'[<<d, j>>].report = r
        \/ calls'[<<d, j>>] = calls[<<d, j>>]
  <2>1. TAKE d \in Clients, j \in Lines
  <2>2. CASE d = c /\ j = i
    BY <1>1, <2>2
  <2>3. CASE ~(d = c /\ j = i)
    BY <1>1, <2>3
  <2>4. QED
    BY <2>2, <2>3
<1>3. \A d \in Compilers, j \in Lines : calls'[<<d, j>>].report \in been[d]
  BY <1>2 DEF Told, Clients
<1>4. \A o \in Operators, j \in Lines : calls'[<<o, j>>].report = Nothing
  BY <1>2 DEF Told, Clients
<1>5. QED
  BY <1>3, <1>4, QuietTold

LEMMA NextTold == TypeOK /\ Told /\ [Next]_vars => Told'
<1>1. SUFFICES ASSUME TypeOK, Told, [Next]_vars PROVE Told'
  OBVIOUS
<1> USE <1>1
<1>2. ASSUME UNCHANGED <<links, calls, serving, been>> PROVE Told'
  BY <1>2 DEF Told
<1>3. CASE UNCHANGED vars
  BY <1>2, <1>3
<1>4. ASSUME NEW e \in Envs, NEW id \in Ids, Deploy(e, id) PROVE Told'
  BY <1>2, <1>4 DEF Deploy
<1>12. ASSUME NEW F \in SUBSET Named(tree), Reseal(F) PROVE Told'
  BY <1>2, <1>12 DEF Reseal
<1>5. ASSUME NEW F \in SUBSET Named(tree), Restart(F) PROVE Told'
  <2>1. \A c \in Clients, i \in Lines : calls'[<<c, i>>].report = Nothing
    BY <1>5, Blanks DEF Restart
  <2>2. \A c \in Compilers : serving'[c] = Nothing
    BY <1>5 DEF Restart, Clients
  <2>3. QED
    BY <1>5, <2>1, <2>2 DEF Restart, Told, Clients
<1>6. ASSUME NEW c \in Clients, NEW i \in Lines, ObserveServing(c, i) PROVE Told'
  <2>1. \A d \in Clients, j \in Lines :
          calls'[<<d, j>>].report = calls[<<d, j>>].report
    BY <1>6 DEF ObserveServing, TypeOK
  <2>2. \A d \in Compilers : serving'[d] \in been[d]
    <3>1. \A d \in Compilers : serving'[d] \in {serving[d], calls[<<d, i>>].report}
      BY <1>6, ParsedWhole DEF ObserveServing, TypeOK, Clients
    <3>2. QED
      BY <3>1 DEF Told
  <2>3. QED
    BY <1>6, <2>1, <2>2 DEF ObserveServing, Told, Clients
<1>7. ASSUME NEW c \in Clients, NEW i \in Lines, ObservePoll(c, i) PROVE Told'
  <2>1. \A d \in Clients, j \in Lines :
          calls'[<<d, j>>].report = calls[<<d, j>>].report
    BY <1>7 DEF ObservePoll, TypeOK
  <2>2. QED
    BY <1>7, <2>1 DEF ObservePoll, Told, Clients
<1>8. ASSUME NEW c \in Clients, NEW i \in Lines, Answer(c, i) PROVE Told'
  <2>1. \A d \in Clients, j \in Lines :
          calls'[<<d, j>>].report \in {Nothing, calls[<<d, j>>].report}
    BY <1>8, Blanks DEF Answer, TypeOK
  <2>2. QED
    BY <1>8, <2>1 DEF Answer, Told, Clients
<1>9. ASSUME NEW o \in Operators, OperatorPolls(o) PROVE Told'
  <2>1. PICK i \in Lines : Send(o, i, Nothing)
    BY <1>9 DEF OperatorPolls, FirstFree
  <2>2. o \in Clients /\ o \notin Compilers
    BY DEF Clients
  <2>3. UNCHANGED <<links, serving, been>>
    BY <1>9 DEF OperatorPolls
  <2>4. QED
    BY <2>1, <2>2, <2>3, SendTold
<1>10. ASSUME NEW c \in Compilers, AgentStep(c) \/ Kill(c) PROVE Told'
  <2>1. c \in Clients /\ c \notin Operators /\ links[c] \in been[c]
    BY DEF Clients, Told
  <2>2. CASE Poll(c) \/ Tell(c)
    <3>1. PICK i \in Lines : Send(c, i, links[c])
      BY <2>2 DEF Poll, Tell, FirstFree
    <3>2. UNCHANGED <<links, serving, been>>
      BY <2>2 DEF Poll, Tell
    <3>3. QED
      BY <2>1, <3>1, <3>2, SendTold
  <2>3. CASE PollFails(c)
    <3>1. UNCHANGED <<links, serving, been>>
      BY <2>3 DEF PollFails
    <3>2. calls' = calls \/ calls' = [calls EXCEPT ![<<c, agent[c].line>>] = Free]
      BY <2>3 DEF PollFails
    <3>3. \A d \in Clients, j \in Lines :
            calls'[<<d, j>>].report \in {Nothing, calls[<<d, j>>].report}
      BY <3>2, Blanks DEF TypeOK
    <3>4. QED
      BY <3>1, <3>3 DEF Told, Clients
  <2>4. ASSUME NEW e \in Envs, Skip(c, e) \/ Fetch(c, e) \/ NotFound(c, e) PROVE Told'
    BY <1>2, <2>4 DEF Skip, Fetch, NotFound
  <2>5. CASE Swap(c) \/ Prune(c)
    <3>1. /\ UNCHANGED <<calls, serving>>
          /\ \E m : Relink(c, m)
      BY <2>5 DEF Swap, Prune
    <3>2. QED
      BY <3>1, RelinkTold
  <2>6. CASE SyncFails(c) \/ Rest(c) \/ Kill(c)
    BY <1>2, <2>6 DEF SyncFails, Rest, Kill
  <2>7. QED
    BY <1>10, <2>2, <2>3, <2>4, <2>5, <2>6 DEF AgentStep
<1>11. QED
  BY <1>3, <1>4, <1>5, <1>6, <1>7, <1>8, <1>9, <1>10, <1>12 DEF Next, Handle

LEMMA NextEarned == TypeOK /\ Told /\ Earned /\ [Next]_vars => Earned'
<1>1. SUFFICES ASSUME TypeOK, Told, Earned, [Next]_vars PROVE Earned'
  OBVIOUS
<1> USE <1>1
<1>2. ASSUME UNCHANGED view PROVE Earned'
  BY <1>2 DEF Earned, EntryIsEarned
<1>3. ASSUME NEW F \in SUBSET Named(tree), Reseal(F) \/ Restart(F) PROVE Earned'
  BY <1>2, <1>3 DEF Reseal, Restart, Earned, EntryIsEarned
<1>4. ASSUME NEW c \in Clients, NEW i \in Lines, ObserveServing(c, i) PROVE Earned'
  <2>1. CASE Parsed(calls[<<c, i>>].report) = Nothing
    BY <1>2, <1>4, <2>1 DEF ObserveServing
  <2>2. CASE Parsed(calls[<<c, i>>].report) # Nothing
    <3>1. c \in Compilers
      BY <2>2, ParsedWhole DEF Told, Clients
    <3>2. /\ seen' = seen \cup {c} /\ serving'[c] # Nothing /\ fetched' = fetched
          /\ \A d \in Clients \ {c} : serving'[d] = serving[d]
      BY <1>4, <2>2 DEF ObserveServing, TypeOK
    <3>3. QED
      BY <3>1, <3>2 DEF Earned, EntryIsEarned, TypeOK
  <2>3. QED
    BY <2>1, <2>2
<1>5. ASSUME NEW c \in Compilers, NEW e \in Envs, Fetch(c, e) PROVE Earned'
  <2>1. agent[c].want \in Maps /\ agent[c].want[e] # None /\ c \in Clients
    BY <1>5 DEF Fetch, TypeOK, AgentTypes, Named, Clients
  <2>2. /\ seen' = seen \cup {c} /\ serving' = serving
        /\ fetched'[c] = [fetched[c] EXCEPT ![e] = agent[c].want[e]]
        /\ fetched[c] \in Maps
        /\ \A d \in Clients \ {c} : fetched'[d] = fetched[d]
    BY <1>5, <2>1 DEF Fetch, TypeOK
  <2>3. fetched'[c][e] # None
    BY <2>1, <2>2 DEF Maps
  <2>4. fetched'[c] # Nothing
    BY <2>3 DEF Nothing
  <2>5. QED
    BY <2>2, <2>4 DEF Earned, EntryIsEarned, TypeOK
<1>6. CASE UNCHANGED vars
  BY <1>2, <1>6
<1>7. ASSUME NEW e \in Envs, NEW id \in Ids, Deploy(e, id) PROVE Earned'
  BY <1>2, <1>7 DEF Deploy
<1>8. ASSUME NEW c \in Clients, NEW i \in Lines, ObservePoll(c, i) \/ Answer(c, i)
      PROVE Earned'
  BY <1>2, <1>8 DEF ObservePoll, Answer
<1>9. ASSUME NEW o \in Operators, OperatorPolls(o) PROVE Earned'
  BY <1>2, <1>9 DEF OperatorPolls
<1>10. ASSUME NEW c \in Compilers, AgentStep(c) \/ Kill(c) PROVE Earned'
  <2>1. ASSUME NEW e \in Envs, Skip(c, e) \/ NotFound(c, e) PROVE Earned'
    BY <1>2, <2>1 DEF Skip, NotFound
  <2>2. CASE Poll(c) \/ PollFails(c) \/ Tell(c) \/ Rest(c)
    BY <1>2, <2>2 DEF Poll, PollFails, Tell, Rest
  <2>3. CASE Swap(c) \/ SyncFails(c) \/ Prune(c) \/ Kill(c)
    BY <1>2, <2>3 DEF Swap, SyncFails, Prune, Kill
  <2>4. QED
    BY <1>5, <1>10, <2>1, <2>2, <2>3 DEF AgentStep
<1>11. QED
  BY <1>3, <1>4, <1>6, <1>7, <1>8, <1>9, <1>10 DEF Next, Handle

LEMMA SourceInvariant == Spec => []SourceInv
<1>1. Init => SourceInv
  BY InitSource
<1>2. TypeOK /\ SourceInv /\ [Next]_vars => SourceInv'
  BY NextTold, NextEarned DEF SourceInv
<1>3. QED
  BY <1>1, <1>2, TypeSafe, PTL DEF Spec

-----------------------------------------------------------------------------
(* Why an agent prunes.                                                    *)

\* e is published, or was dropped by r10k or by a new publisher.
Accounted(e) == current[e] # None \/ e \in dropped

\* What was ever linked or advertised is accounted for; what an agent will prune
\* at the end of its run was dropped.
DroppedInv ==
    /\ \A e \in Envs : (tree[e] = None /\ current[e] # None) => e \in dropped
    /\ \A c \in Compilers, e \in Envs :
          /\ links[c][e] # None \/ agent[c].want[e] # None => Accounted(e)
          /\ (/\ agent[c].at \in {"working", "unpacking"}
              /\ links[c][e] # None /\ agent[c].want[e] = None) => e \in dropped
    /\ \A c \in Compilers :
          agent[c].at = "unpacking" => agent[c].env \in Named(agent[c].want)

\* No step of the publisher takes from what is accounted for.
LEMMA StaysAccounted ==
    ASSUME TypeOK, DroppedInv,
           \/ UNCHANGED versions
           \/ \E e \in Envs, id \in Ids : Deploy(e, id)
           \/ \E F \in SUBSET Named(tree) : Reseal(F) \/ Restart(F)
    PROVE /\ dropped \subseteq dropped'
          /\ \A e \in Envs : Accounted(e) => Accounted(e)'
          /\ \A e \in Envs : (tree'[e] = None /\ current'[e] # None) => e \in dropped'
<1>1. CASE UNCHANGED versions
  BY <1>1 DEF DroppedInv, Accounted
<1>2. ASSUME NEW e \in Envs, NEW id \in Ids, Deploy(e, id)
      PROVE /\ dropped \subseteq dropped'
            /\ \A d \in Envs : Accounted(d) => Accounted(d)'
            /\ \A d \in Envs : (tree'[d] = None /\ current'[d] # None) => d \in dropped'
  BY <1>2 DEF Deploy, DroppedInv, Accounted, TypeOK, Maps
<1>3. ASSUME NEW F \in SUBSET Named(tree), Reseal(F) \/ Restart(F)
      PROVE /\ dropped \subseteq dropped'
            /\ \A d \in Envs : Accounted(d) => Accounted(d)'
            /\ \A d \in Envs : (tree'[d] = None /\ current'[d] # None) => d \in dropped'
  <2>1. \A d \in F : d \in Envs /\ tree[d] # None
    BY DEF Named
  <2>2. \A d \in Envs \ F : current'[d] = tree[d]
    BY <1>3 DEF Reseal, Restart, Sealed
  <2>3. \A d \in F : current'[d] = current[d] \/ d \in dropped'
    BY <1>3, <2>1 DEF Reseal, Restart, Sealed
  <2>4. dropped \subseteq dropped' /\ tree' = tree
    BY <1>3 DEF Reseal, Restart
  <2>5. QED
    BY <2>1, <2>2, <2>3, <2>4 DEF DroppedInv, Accounted
<1>4. QED
  BY <1>1, <1>2, <1>3

\* The publisher moves on, and no agent does.
LEMMA PublisherKeeps ==
    ASSUME TypeOK, DroppedInv, UNCHANGED <<links, agent>>,
           \/ UNCHANGED versions
           \/ \E e \in Envs, id \in Ids : Deploy(e, id)
           \/ \E F \in SUBSET Named(tree) : Reseal(F) \/ Restart(F)
    PROVE DroppedInv'
  BY StaysAccounted DEF DroppedInv

\* One agent moves on, and the publisher does not.
LEMMA AgentKeeps ==
    ASSUME TypeOK, DroppedInv, UNCHANGED versions, NEW c \in Compilers,
           NEW a, agent' = [agent EXCEPT ![c] = a],
           NEW m, links' = [links EXCEPT ![c] = m],
           \A e \in Envs :
              /\ m[e] # None \/ a.want[e] # None => Accounted(e)
              /\ (/\ a.at \in {"working", "unpacking"}
                  /\ m[e] # None /\ a.want[e] = None) => e \in dropped,
           a.at = "unpacking" => a.env \in Named(a.want)
    PROVE DroppedInv'
<1>1. /\ agent'[c] = a /\ links'[c] = m
      /\ \A d \in Compilers \ {c} : agent'[d] = agent[d] /\ links'[d] = links[d]
  BY DEF TypeOK
<1>2. \A e : Accounted(e)' <=> Accounted(e)
  BY DEF Accounted
<1>3. QED
  BY <1>1, <1>2 DEF DroppedInv

LEMMA InitDropped == Init => DroppedInv
  BY Blanks DEF Init, DroppedInv, Resting, Nothing

LEMMA NextDropped == TypeOK /\ DroppedInv /\ [Next]_vars => DroppedInv'
<1>1. SUFFICES ASSUME TypeOK, DroppedInv, [Next]_vars PROVE DroppedInv'
  OBVIOUS
<1> USE <1>1
<1>2. ASSUME UNCHANGED <<links, agent>>,
             \/ UNCHANGED versions
             \/ \E e \in Envs, id \in Ids : Deploy(e, id)
             \/ \E F \in SUBSET Named(tree) : Reseal(F) \/ Restart(F)
      PROVE DroppedInv'
  BY <1>2, PublisherKeeps
<1>3. CASE UNCHANGED vars
  BY <1>2, <1>3
<1>4. ASSUME NEW e \in Envs, NEW id \in Ids, Deploy(e, id) PROVE DroppedInv'
  BY <1>2, <1>4 DEF Deploy
<1>5. ASSUME NEW F \in SUBSET Named(tree), Reseal(F) \/ Restart(F) PROVE DroppedInv'
  BY <1>2, <1>5 DEF Reseal, Restart
<1>6. ASSUME NEW c \in Clients, NEW i \in Lines, ObserveServing(c, i) \/ ObservePoll(c, i)
      PROVE DroppedInv'
  BY <1>2, <1>6 DEF ObserveServing, ObservePoll
<1>7. ASSUME NEW o \in Operators, OperatorPolls(o) PROVE DroppedInv'
  BY <1>2, <1>7 DEF OperatorPolls
<1>8. \A c \in Compilers :
        /\ agent[c] \in AgentTypes /\ agent[c].todo \subseteq Named(agent[c].want)
        /\ links[c] \in Maps /\ agent[c].want \in Maps
        /\ agent = [agent EXCEPT ![c] = agent[c]] /\ links = [links EXCEPT ![c] = links[c]]
  BY DEF TypeOK, AgentTypes
<1>9. ASSUME NEW c \in Compilers, NEW a, agent' = [agent EXCEPT ![c] = a],
             UNCHANGED <<versions, links>>, a.want \in {agent[c].want, Nothing},
             a.at \in {"working", "unpacking"} =>
                agent[c].at \in {"working", "unpacking"} /\ a.want = agent[c].want,
             a.at = "unpacking" => a.env \in Named(a.want)
      PROVE DroppedInv'
  <2>1. \A e \in Envs :
          /\ links[c][e] # None \/ a.want[e] # None => Accounted(e)
          /\ (/\ a.at \in {"working", "unpacking"}
              /\ links[c][e] # None /\ a.want[e] = None) => e \in dropped
    BY <1>9 DEF DroppedInv, Nothing
  <2>2. links' = [links EXCEPT ![c] = links[c]]
    BY <1>8, <1>9
  <2>3. QED
    BY <1>9, <2>1, <2>2, AgentKeeps
<1>10. ASSUME NEW c \in Clients, NEW i \in Lines, Answer(c, i) PROVE DroppedInv'
  <2>1. CASE agent' = agent
    BY <1>2, <1>10, <2>1 DEF Answer
  <2>2. CASE agent' # agent
    <3>1. c \in Compilers
      BY <1>10, <2>2 DEF Answer
    <3>2. CASE agent' = [agent EXCEPT ![c] = Resting]
      BY <1>9, <1>10, <3>1, <3>2 DEF Answer, Resting
    <3>3. CASE agent' = [agent EXCEPT ![c] =
                 [agent[c] EXCEPT !.at = "working", !.want = current,
                                  !.todo = Named(current), !.line = None]]
      <4> DEFINE a == [agent[c] EXCEPT !.at = "working", !.want = current,
                                       !.todo = Named(current), !.line = None]
      <4>1. a.at = "working" /\ a.want = current
        BY <1>8, <3>1 DEF AgentTypes
      <4>2. \A e \in Envs :
              /\ links[c][e] # None \/ a.want[e] # None => Accounted(e)
              /\ (links[c][e] # None /\ a.want[e] = None) => e \in dropped
        BY <3>1, <4>1 DEF DroppedInv, Accounted
      <4>3. UNCHANGED versions /\ links' = [links EXCEPT ![c] = links[c]]
        BY <1>8, <1>10, <3>1 DEF Answer
      <4> HIDE DEF a
      <4>4. agent' = [agent EXCEPT ![c] = a]
        BY <3>3 DEF a
      <4>5. QED
        BY <3>1, <4>1, <4>2, <4>3, <4>4, AgentKeeps
    <3>4. QED
      BY <1>8, <1>10, <2>2, <3>1, <3>2, <3>3 DEF Answer, TypeOK
  <2>3. QED
    BY <2>1, <2>2
<1>11. ASSUME NEW c \in Compilers, AgentStep(c) \/ Kill(c) PROVE DroppedInv'
  <2> DEFINE A == agent[c]
  <2>1. A \in AgentTypes /\ A.todo \subseteq Named(A.want)
    BY <1>8
  <2>2. CASE Poll(c)
    <3>1. PICK i \in Lines : agent' = [agent EXCEPT ![c].at = "asking", ![c].line = i]
      BY <2>2 DEF Poll, FirstFree
    <3> DEFINE a == [A EXCEPT !.at = "asking", !.line = i]
    <3>2. agent' = [agent EXCEPT ![c] = a]
      BY <3>1 DEF TypeOK
    <3>3. a.at = "asking" /\ a.want = A.want
      BY <2>1 DEF AgentTypes
    <3> HIDE DEF a
    <3>4. QED
      BY <1>9, <2>2, <3>2, <3>3 DEF Poll
  <2>3. CASE Tell(c)
    <3>1. PICK i \in Lines : agent' = [agent EXCEPT ![c].at = "telling", ![c].line = i]
      BY <2>3 DEF Tell, FirstFree
    <3> DEFINE a == [A EXCEPT !.at = "telling", !.line = i]
    <3>2. agent' = [agent EXCEPT ![c] = a]
      BY <3>1 DEF TypeOK
    <3>3. a.at = "telling" /\ a.want = A.want
      BY <2>1 DEF AgentTypes
    <3> HIDE DEF a
    <3>4. QED
      BY <1>9, <2>3, <3>2, <3>3 DEF Tell
  <2>4. CASE PollFails(c) \/ Rest(c) \/ Kill(c)
    BY <1>9, <2>4 DEF PollFails, Rest, Kill, Resting
  <2>5. ASSUME NEW e \in Envs, Skip(c, e) \/ NotFound(c, e) PROVE DroppedInv'
    <3>1. agent' = [agent EXCEPT ![c] = [A EXCEPT !.todo = @ \ {e}]]
      BY <2>5, <1>8 DEF Skip, NotFound
    <3>2. A.at = "working"
      BY <2>5 DEF Skip, NotFound
    <3>3. QED
      BY <1>9, <2>1, <2>5, <3>1, <3>2 DEF Skip, NotFound, AgentTypes
  <2>6. ASSUME NEW e \in Envs, Fetch(c, e) PROVE DroppedInv'
    <3>1. agent' = [agent EXCEPT ![c] = [A EXCEPT !.at = "unpacking", !.env = e]]
      BY <2>6, <1>8 DEF Fetch
    <3>2. A.at = "working" /\ e \in Named(A.want)
      BY <2>1, <2>6 DEF Fetch
    <3>3. QED
      BY <1>9, <2>1, <2>6, <3>1, <3>2 DEF Fetch, AgentTypes
  <2>7. CASE SyncFails(c)
    <3>1. agent' = [agent EXCEPT ![c] = [A EXCEPT !.at = "working",
                                   !.todo = @ \ {A.env}, !.env = None]]
      BY <2>7, <1>8 DEF SyncFails
    <3>2. QED
      BY <1>9, <2>1, <2>7, <3>1 DEF SyncFails, AgentTypes
  <2>8. CASE Swap(c)
    <3> DEFINE m == [links[c] EXCEPT ![A.env] = A.want[A.env]]
               a == [A EXCEPT !.at = "working", !.todo = @ \ {A.env},
                              !.moved = TRUE, !.env = None]
    <3>1. agent' = [agent EXCEPT ![c] = a] /\ links' = [links EXCEPT ![c] = m]
      <4>1. links' = [links EXCEPT ![c] = m]
        BY <2>8 DEF Swap, Relink
      <4>2. agent' = [agent EXCEPT ![c] = a]
        BY <2>8, <1>8 DEF Swap
      <4>3. QED
        BY <4>1, <4>2
    <3>2. A.at = "unpacking" /\ A.env \in Named(A.want)
      BY <2>8 DEF Swap, DroppedInv
    <3>3. a.at = "working" /\ a.want = A.want
      BY <2>1 DEF AgentTypes
    <3>4. \A e \in Envs : m[e] = IF e = A.env THEN A.want[e] ELSE links[c][e]
      BY <1>8 DEF Maps
    <3>5. \A e \in Envs :
            /\ m[e] # None \/ a.want[e] # None => Accounted(e)
            /\ (m[e] # None /\ a.want[e] = None) => e \in dropped
      BY <3>2, <3>3, <3>4 DEF DroppedInv, Named
    <3> HIDE DEF a, m
    <3>6. QED
      BY <2>8, <3>1, <3>3, <3>5, AgentKeeps DEF Swap
  <2>9. CASE Prune(c)
    <3> DEFINE m == IF A.want = Nothing THEN links[c]
                    ELSE [e \in Envs |-> IF A.want[e] = None THEN None ELSE links[c][e]]
               a == [A EXCEPT !.at = "done", !.moved = @ \/ m # links[c]]
    <3>1. agent' = [agent EXCEPT ![c] = a] /\ links' = [links EXCEPT ![c] = m]
      <4>1. links' = [links EXCEPT ![c] = m]
        BY <2>9 DEF Prune, Relink
      <4> HIDE DEF m
      <4>2. agent' = [agent EXCEPT ![c].at = "done", ![c].moved = @ \/ m # links[c]]
        BY <2>9 DEF Prune, m
      <4>3. agent' = [agent EXCEPT ![c] = a]
        BY <4>2, <1>8
      <4>4. QED
        BY <4>1, <4>3
    <3>2. a.at = "done" /\ a.want = A.want
      BY <2>1 DEF AgentTypes
    <3>3. \A e \in Envs : m[e] # None => links[c][e] # None
      OBVIOUS
    <3>4. \A e \in Envs : m[e] # None \/ a.want[e] # None => Accounted(e)
      BY <3>2, <3>3 DEF DroppedInv
    <3> HIDE DEF a, m
    <3>5. QED
      BY <2>9, <3>1, <3>2, <3>4, AgentKeeps DEF Prune
  <2>10. QED
    BY <1>11, <2>2, <2>3, <2>4, <2>5, <2>6, <2>7, <2>8, <2>9 DEF AgentStep
<1>12. QED
  BY <1>3, <1>4, <1>5, <1>6, <1>7, <1>10, <1>11 DEF Next, Handle

-----------------------------------------------------------------------------
(* The theorems.                                                           *)

\* What the view shows a compiler as serving, the compiler served, all of it at
\* one moment.
THEOREM ViewWasReal == Spec => []ServingWasReal
<1>1. SourceInv => ServingWasReal
  BY DEF SourceInv, Told, ServingWasReal
<1>2. QED
  BY <1>1, SourceInvariant, PTL

\* Whoever is listed is a compiler that has reported or fetched.
THEOREM EntriesAreEarned == Spec => []EntryIsEarned
<1>1. SourceInv => EntryIsEarned
  BY DEF SourceInv, Earned
<1>2. QED
  BY <1>1, SourceInvariant, PTL

\* What leaves a compiler was purged, or a new publisher could not seal it.
THEOREM OnlyDroppedIsPruned == Spec => PrunedWasDropped
<1> DEFINE Drop == \A c \in Compilers, e \in Envs :
                     (links[c][e] # None /\ links'[c][e] = None) => e \in dropped
<1>1. TypeOK /\ DroppedInv /\ [Next]_vars => [Drop]_vars
  <2>1. SUFFICES ASSUME TypeOK, DroppedInv, Next, NEW c \in Compilers, NEW e \in Envs,
                        links[c][e] # None, links'[c][e] = None
                 PROVE e \in dropped
    OBVIOUS
  <2>2. CASE links' = links
    BY <2>1, <2>2
  <2>3. CASE links' # links
    <3>1. PICK d \in Compilers : Swap(d) \/ Prune(d)
      <4>1. PICK d \in Compilers : AgentStep(d)
        BY <2>1, <2>3 DEF Next, Deploy, Reseal, Restart, Handle, ObserveServing,
           ObservePoll, Answer, OperatorPolls, Kill
      <4>2. Swap(d) \/ Prune(d)
        BY <2>3, <4>1 DEF AgentStep, Poll, PollFails, Skip, Fetch, NotFound,
           SyncFails, Tell, Rest
      <4>3. QED
        BY <4>2
    <3>2. CASE Swap(d)
      <4>1. links' = [links EXCEPT ![d] =
                        [links[d] EXCEPT ![agent[d].env] = agent[d].want[agent[d].env]]]
        BY <3>2 DEF Swap, Relink
      <4>2. agent[d].want[agent[d].env] # None
        BY <2>1, <3>2 DEF Swap, DroppedInv, Named
      <4>3. links'[c][e] \in {links[c][e], agent[d].want[agent[d].env]}
        BY <2>1, <4>1 DEF TypeOK, Maps
      <4>4. QED
        BY <2>1, <4>2, <4>3
    <3>3. CASE Prune(d)
      <4> DEFINE m == IF agent[d].want = Nothing THEN links[d]
                      ELSE [b \in Envs |->
                              IF agent[d].want[b] = None THEN None ELSE links[d][b]]
      <4>1. links' = [links EXCEPT ![d] = m]
        BY <3>3 DEF Prune, Relink
      <4>2. agent[d].want[e] # None => m[e] = links[d][e]
        BY <2>1
      <4> HIDE DEF m
      <4>3. d = c /\ agent[c].want[e] = None
        BY <2>1, <4>1, <4>2 DEF TypeOK
      <4>4. QED
        BY <2>1, <3>3, <4>3 DEF Prune, DroppedInv
    <3>4. QED
      BY <3>1, <3>2, <3>3
  <2>4. QED
    BY <2>2, <2>3
<1>2. Spec => []DroppedInv
  <2>1. Init => DroppedInv
    BY InitDropped
  <2>2. TypeOK /\ DroppedInv /\ [Next]_vars => DroppedInv'
    BY NextDropped
  <2>3. QED
    BY <2>1, <2>2, TypeSafe, PTL DEF Spec
<1>3. QED
  BY <1>1, <1>2, TypeSafe, PTL DEF Spec, PrunedWasDropped
=============================================================================
