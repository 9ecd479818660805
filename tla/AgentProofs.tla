----------------------------- MODULE AgentProofs -----------------------------
(***************************************************************************)
(* Theorems about Agent, for any number of processes, environments and     *)
(* versions and any Keep, MinAge and AgeCap.                               *)
(***************************************************************************)
EXTENDS Agent, FiniteSetTheorems, TLAPS

\* Where a process is working on one environment.
InSync  == {"extract", "owe", "swap", "reap"}
AtCur   == InSync \cup {"unlink", "reapPruned", "clear"}

\* Inside the loops over environments: cur is an environment, and the loop of
\* sync runs over environments the fetched map holds.
LoopOK ==
    \A p \in Procs :
      /\ pc[p] \in AtCur => cur[p] \in Envs
      /\ pc[p] \in InSync => want[p][cur[p]] # None
      /\ pc[p] \in InSync \cup {"sync"} => \A e \in todo[p] : want[p][e] # None

TypeInv == TypeOK /\ LoopOK

USE ConstantsAssumption DEF Version, Ids, Ages, Where, InSync, AtCur

\* An age stays an age as time passes.
LEMMA OlderType == \A a \in Ages : Older(a) \in Ages
BY DEF Older

\* What Remove and RemovePartly leave is well typed.
LEMMA RemoveType ==
    ASSUME TypeOK, NEW R, Remove(R)
    PROVE  /\ present' \subseteq Version /\ torn' \subseteq present'
           /\ age' \in [Version -> Ages]
BY DEF TypeOK, Remove

\* The same for a removal that stops inside a directory.
LEMMA RemovePartlyType ==
    ASSUME TypeOK, NEW D, D \subseteq present, RemovePartly(D)
    PROVE  /\ present' \subseteq Version /\ torn' \subseteq present'
           /\ age' \in [Version -> Ages]
BY DEF TypeOK, RemovePartly

\* Only candidates are doomed.
LEMMA DoomedCandidates ==
    ASSUME NEW e, NEW current, NEW keep, NEW D \in Doomed(e, current, keep)
    PROVE  D \subseteq Candidates(e, current)
BY DEF Doomed

\* A reap sets out to remove nothing that is not on disk.
LEMMA ReapArgsPresent ==
    ASSUME NEW p, NEW D \in ReapArgs(p)
    PROVE  D \subseteq present
BY DoomedCandidates DEF ReapArgs, Candidates

\* A process that forgets everything is well typed and in no loop.
LEMMA ForgetType ==
    ASSUME TypeInv, NEW p \in Procs, Forget(p)
    PROVE  /\ pc' \in [Procs -> Where]
           /\ want' \in [Procs -> [Envs -> Ids]]
           /\ todo' \in [Procs -> SUBSET Envs]
           /\ cur' \in [Procs -> Envs \cup {None}]
           /\ problems' \in [Procs -> BOOLEAN]
           /\ pending' \in [Procs -> SUBSET Envs]
           /\ live' \subseteq Procs
           /\ tempAge' \in [Procs -> Ages]
           /\ LoopOK'
<1>1. Nothing \in [Envs -> Ids]
  BY DEF Nothing
<1>2. QED
  BY <1>1 DEF TypeInv, TypeOK, LoopOK, Forget

\* The types are right, and a loop over environments is at an environment.
LEMMA TypeInvariant == Spec => []TypeInv
<1>1. Init => TypeInv
  BY DEF Init, TypeInv, TypeOK, LoopOK, Nothing
<1>2. TypeInv /\ [Next]_vars => TypeInv'
  <2> SUFFICES ASSUME TypeInv, [Next]_vars PROVE TypeInv'
    OBVIOUS
  <2>1. CASE Tick
    BY <2>1, OlderType DEF TypeInv, TypeOK, LoopOK, Tick
  <2>2. ASSUME NEW e \in Envs, NEW id \in Ids, Publish(e, id) PROVE TypeInv'
    BY <2>2 DEF TypeInv, TypeOK, LoopOK, Publish, disk, srv, proc
  <2>3. ASSUME NEW e \in Envs, Compile(e) PROVE TypeInv'
    BY <2>3 DEF TypeInv, TypeOK, LoopOK, Compile, disk, proc
  <2>4. CASE ServerRestart
    BY <2>4 DEF TypeInv, TypeOK, LoopOK, ServerRestart, Nothing, disk, proc
  <2>5. CASE Reboot
    <3>1. Nothing \in [Envs -> Ids] /\ cache' = Nothing /\ want' = [p \in Procs |-> Nothing]
      BY <2>5 DEF Reboot, Nothing
    <3>2. /\ abandoned' \subseteq Ages /\ owedFiles' \subseteq Envs
          /\ UNCHANGED <<link, present, torn, age, stamped, advertised>>
      <4>1. /\ owedFiles' \in SUBSET owedFiles
            /\ abandoned' = abandoned \cup {tempAge[p] : p \in live}
            /\ UNCHANGED <<link, present, torn, age, stamped, advertised>>
        BY <2>5 DEF Reboot
      <4>2. \A p \in live : tempAge[p] \in Ages
        BY DEF TypeInv, TypeOK
      <4>3. abandoned \subseteq Ages /\ owedFiles \subseteq Envs
        BY DEF TypeInv, TypeOK
      <4>4. QED
        BY <4>1, <4>2, <4>3
    <3>3. /\ pc' \in [Procs -> Where] /\ todo' \in [Procs -> SUBSET Envs]
          /\ cur' \in [Procs -> Envs \cup {None}] /\ problems' \in [Procs -> BOOLEAN]
          /\ pending' \in [Procs -> SUBSET Envs] /\ live' \subseteq Procs
          /\ tempAge' \in [Procs -> Ages] /\ LoopOK'
      BY <2>5 DEF Reboot, LoopOK
    <3>4. QED
      BY <3>1, <3>2, <3>3 DEF TypeInv, TypeOK
  <2>6. ASSUME NEW p \in Procs, Step(p) PROVE TypeInv'
    <3>1. CASE Start(p)
      BY <3>1 DEF TypeInv, TypeOK, LoopOK, Start, disk, srv
    <3>2. CASE Stop(p)
      BY <3>2, ForgetType DEF TypeInv, TypeOK, Stop, disk, srv
    <3>3. CASE Kill(p)
      <4>1. /\ abandoned' \subseteq Ages
            /\ UNCHANGED <<link, present, torn, age, owedFiles, cache, stamped, advertised>>
        BY <3>3 DEF TypeInv, TypeOK, Kill, srv
      <4>2. Forget(p)
        BY <3>3 DEF Kill
      <4>3. /\ pc' \in [Procs -> Where] /\ want' \in [Procs -> [Envs -> Ids]]
            /\ todo' \in [Procs -> SUBSET Envs] /\ cur' \in [Procs -> Envs \cup {None}]
            /\ problems' \in [Procs -> BOOLEAN] /\ pending' \in [Procs -> SUBSET Envs]
            /\ live' \subseteq Procs /\ tempAge' \in [Procs -> Ages] /\ LoopOK'
        BY <4>2, ForgetType
      <4>4. QED
        BY <4>1, <4>3 DEF TypeInv, TypeOK
    <3>4. CASE Fetch(p)
      BY <3>4 DEF TypeInv, TypeOK, LoopOK, Fetch, Goto, Held, disk, srv
    <3>5. ASSUME NEW e \in Envs, Sync(p, e) PROVE TypeInv'
      <4>1. /\ UNCHANGED <<disk, srv, advertised, want, problems, pending>>
            /\ live' \subseteq Procs /\ tempAge' \in [Procs -> Ages]
        <5>1. UNCHANGED <<disk, srv, advertised, want, problems, pending>>
          BY <3>5 DEF Sync
        <5>2. \/ UNCHANGED <<live, tempAge>>
              \/ live' = live \cup {p} /\ tempAge' = [tempAge EXCEPT ![p] = 0]
          BY <3>5 DEF Sync
        <5>3. 0 \in Ages
          OBVIOUS
        <5>4. QED
          BY <5>1, <5>2, <5>3 DEF TypeInv, TypeOK
      <4>2. /\ pc[p] = "sync" /\ e \in todo[p]
            /\ todo' = [todo EXCEPT ![p] = @ \ {e}] /\ cur' = [cur EXCEPT ![p] = e]
            /\ \E next \in {"reap", "owe", "extract"} : pc' = [pc EXCEPT ![p] = next]
        BY <3>5 DEF Sync, Goto
      <4>3. TypeOK'
        BY <4>1, <4>2 DEF TypeInv, TypeOK, disk, srv
      <4>4. LoopOK'
        BY <4>1, <4>2 DEF TypeInv, TypeOK, LoopOK
      <4>5. QED
        BY <4>3, <4>4 DEF TypeInv
    <3>6. CASE Install(p)
      BY <3>6 DEF TypeInv, TypeOK, LoopOK, Install, Goto, srv
    <3>7. CASE DownloadFails(p)
      BY <3>7 DEF TypeInv, TypeOK, LoopOK, DownloadFails, SyncFailed, Goto, disk, srv
    <3>8. CASE Owe(p)
      <4>1. cur[p] \in Envs /\ pc' = [pc EXCEPT ![p] = "swap"]
        BY <3>8 DEF TypeInv, LoopOK, Owe, Goto
      <4>2. owedFiles' \subseteq Envs /\ pending' \in [Procs -> SUBSET Envs]
        <5>1. CASE PuppetServer
          BY <3>8, <4>1, <5>1 DEF TypeInv, TypeOK, Owe, OweFlush
        <5>2. CASE ~PuppetServer
          BY <3>8, <5>2 DEF TypeInv, TypeOK, Owe, OweFlush
        <5>3. QED
          BY <5>1, <5>2
      <4>3. UNCHANGED <<link, present, torn, age, abandoned, srv, advertised,
                        want, todo, cur, problems, live, tempAge>>
        BY <3>8 DEF Owe
      <4>4. TypeOK'
        BY <4>1, <4>2, <4>3 DEF TypeInv, TypeOK, srv
      <4>5. LoopOK'
        BY <3>8, <4>1, <4>3 DEF TypeInv, TypeOK, LoopOK, Owe
      <4>6. QED
        BY <4>4, <4>5 DEF TypeInv
    <3>9. CASE OweFails(p)
      BY <3>9 DEF TypeInv, TypeOK, LoopOK, OweFails, SyncFailed, Goto, disk, srv
    <3>10. CASE Swap(p)
      BY <3>10 DEF TypeInv, TypeOK, LoopOK, Swap, Goto, srv
    <3>11. CASE SwapFails(p)
      BY <3>11 DEF TypeInv, TypeOK, LoopOK, SwapFails, SyncFailed, Goto, disk, srv
    <3>12. CASE Reap(p)
      BY <3>12, RemoveType DEF TypeInv, TypeOK, LoopOK, Reap, AfterReap, AtReap, Goto, srv
    <3>13. CASE ReapFails(p)
      BY <3>13, RemovePartlyType, ReapArgsPresent
         DEF TypeInv, TypeOK, LoopOK, ReapFails, AfterReap, AtReap, Goto, srv
    <3>14. CASE KillInReap(p)
      BY <3>14, RemovePartlyType, ReapArgsPresent, ForgetType
         DEF TypeInv, TypeOK, KillInReap, srv
    <3>15. CASE Sweep(p)
      <4>1. /\ abandoned' \subseteq Ages /\ live' \subseteq Procs
            /\ tempAge' \in [Procs -> Ages]
        <5>1. abandoned' \subseteq Ages /\ live' \subseteq Procs
          BY <3>15 DEF TypeInv, TypeOK, Sweep
        <5>2. tempAge' = [q \in Procs |-> IF q \in live' THEN tempAge[q] ELSE 0]
          BY <3>15 DEF Sweep
        <5>3. QED
          BY <5>1, <5>2 DEF TypeInv, TypeOK
      <4>2. todo' \in [Procs -> SUBSET Envs] /\ pc' = [pc EXCEPT ![p] = "prune"]
        BY <3>15 DEF TypeInv, TypeOK, Sweep, Goto, Held
      <4>3. /\ UNCHANGED <<link, present, torn, age, owedFiles, srv, advertised,
                           want, cur, problems, pending>>
            /\ \A q \in Procs : q # p => todo'[q] = todo[q]
        BY <3>15 DEF TypeInv, TypeOK, Sweep
      <4>4. TypeOK'
        BY <4>1, <4>2, <4>3 DEF TypeInv, TypeOK, srv
      <4>5. LoopOK'
        BY <4>2, <4>3 DEF TypeInv, TypeOK, LoopOK
      <4>6. QED
        BY <4>4, <4>5 DEF TypeInv
    <3>16. ASSUME NEW e \in Envs, PruneOwe(p, e) PROVE TypeInv'
      <4>1. /\ UNCHANGED <<link, present, torn, age, abandoned, srv, advertised,
                           want, problems, live, tempAge>>
            /\ cur' = [cur EXCEPT ![p] = e] /\ pc' = [pc EXCEPT ![p] = "unlink"]
            /\ todo' = [todo EXCEPT ![p] = @ \ {e}]
        BY <3>16 DEF PruneOwe, Goto
      <4>2. owedFiles' \subseteq Envs /\ pending' \in [Procs -> SUBSET Envs]
        <5>1. CASE PuppetServer
          <6>1. /\ owedFiles' = owedFiles \cup {e}
                /\ pending' = [pending EXCEPT ![p] = @ \cup {e}]
            BY <3>16, <5>1 DEF PruneOwe, OweFlush
          <6>2. QED
            BY <6>1 DEF TypeInv, TypeOK
        <5>2. CASE ~PuppetServer
          BY <3>16, <5>2 DEF TypeInv, TypeOK, PruneOwe, OweFlush
        <5>3. QED
          BY <5>1, <5>2
      <4>3. TypeOK'
        BY <4>1, <4>2 DEF TypeInv, TypeOK, srv
      <4>4. LoopOK'
        BY <4>1 DEF TypeInv, TypeOK, LoopOK
      <4>5. QED
        BY <4>3, <4>4 DEF TypeInv
    <3>17. CASE Unlink(p)
      BY <3>17 DEF TypeInv, TypeOK, LoopOK, Unlink, Goto, srv
    <3>18. CASE PruneFails(p)
      <4>1. /\ UNCHANGED <<disk, srv, advertised, want, problems, pending, live, tempAge>>
            /\ cur' = [cur EXCEPT ![p] = None] /\ pc' = [pc EXCEPT ![p] = "prune"]
        BY <3>18 DEF PruneFails, Goto
      <4>2. /\ todo' \in [Procs -> SUBSET Envs]
            /\ \A q \in Procs : q # p => todo'[q] = todo[q]
        <5>1. todo \in [Procs -> SUBSET Envs]
          BY DEF TypeInv, TypeOK
        <5>2. CASE UNCHANGED todo
          BY <5>1, <5>2
        <5>3. ASSUME NEW e \in todo[p], todo' = [todo EXCEPT ![p] = @ \ {e}]
              PROVE  /\ todo' \in [Procs -> SUBSET Envs]
                     /\ \A q \in Procs : q # p => todo'[q] = todo[q]
          BY <5>1, <5>3
        <5>4. QED
          BY <3>18, <5>2, <5>3, Zenon DEF PruneFails
      <4>3. TypeOK'
        BY <4>1, <4>2 DEF TypeInv, TypeOK, disk, srv
      <4>4. LoopOK'
        BY <4>1, <4>2 DEF TypeInv, TypeOK, LoopOK
      <4>5. QED
        BY <4>3, <4>4 DEF TypeInv
    <3>19. CASE ListOwed(p)
      BY <3>19 DEF TypeInv, TypeOK, LoopOK, ListOwed, Goto, disk, srv
    <3>20. CASE ListOwedFails(p)
      BY <3>20 DEF TypeInv, TypeOK, LoopOK, ListOwedFails, Goto, disk, srv
    <3>21. ASSUME NEW e \in Envs, Flush(p, e) PROVE TypeInv'
      BY <3>21 DEF TypeInv, TypeOK, LoopOK, Flush, Goto, disk
    <3>22. ASSUME NEW e \in Envs, FlushFails(p, e) PROVE TypeInv'
      BY <3>22 DEF TypeInv, TypeOK, LoopOK, FlushFails
    <3>23. CASE Clear(p)
      BY <3>23 DEF TypeInv, TypeOK, LoopOK, Clear, Goto, srv
    <3>24. CASE Finish(p)
      <4>1. CASE p \in Daemons
        <5>1. Nothing \in [Envs -> Ids]
          BY DEF Nothing
        <5>2. /\ pc' = [pc EXCEPT ![p] = "idle"] /\ want' = [want EXCEPT ![p] = Nothing]
              /\ problems' = [problems EXCEPT ![p] = FALSE]
              /\ UNCHANGED <<todo, cur, pending, live, tempAge, disk, srv, advertised>>
          BY <3>24, <4>1 DEF Finish, Goto
        <5>3. TypeOK'
          BY <5>1, <5>2 DEF TypeInv, TypeOK, disk, srv
        <5>4. LoopOK'
          BY <5>2 DEF TypeInv, TypeOK, LoopOK
        <5>5. QED
          BY <5>3, <5>4 DEF TypeInv
      <4>2. CASE p \notin Daemons
        BY <3>24, <4>2, ForgetType DEF TypeInv, TypeOK, Finish, disk, srv
      <4>3. QED BY <4>1, <4>2
    <3>25. QED
      BY <2>6, <3>1, <3>2, <3>3, <3>4, <3>5, <3>6, <3>7, <3>8, <3>9, <3>10, <3>11, <3>12,
         <3>13, <3>14, <3>15, <3>16, <3>17, <3>18, <3>19, <3>20, <3>21, <3>22, <3>23, <3>24
         DEF Step
  <2>7. CASE UNCHANGED vars
    BY <2>7 DEF TypeInv, TypeOK, LoopOK, vars, disk, srv, proc
  <2>8. QED
    BY <2>1, <2>2, <2>3, <2>4, <2>5, <2>6, <2>7 DEF Next
<1>3. QED
  BY <1>1, <1>2, PTL DEF Spec

\* Every variable keeps its type.
THEOREM TypeCorrect == Spec => []TypeOK
<1>1. TypeInv => TypeOK
  BY DEF TypeInv
<1>2. QED
  BY <1>1, TypeInvariant, PTL
-----------------------------------------------------------------------------
(* The obligation to flush.  It may be lost where two processes overlap     *)
(* and one ends with a flush undone (see Agent, run lost_record); it is     *)
(* not where processes take turns, however they die, nor where they         *)
(* overlap and flushes succeed.                                             *)

SafeUse == ~Overlap \/ Faults \cap {"flush", "kill"} = {}

\* q has had its 204 for e and not yet cleared the record.
Clearing(q, e) == pc[q] = "clear" /\ cur[q] = e

\* q will flush e.
Holds(q, e) == e \in pending[q] /\ ~Clearing(q, e)

\* Stronger than StaleCacheIsOwed: a process about to clear the record of a
\* stale environment does not count, nor does the file it will remove.
OwedStrongly ==
    \A e \in Envs : Stale(e) =>
       \/ \E q \in Procs : Holds(q, e)
       \/ e \in owedFiles /\ \A q \in Procs : ~Clearing(q, e)

RecordedFirst ==
    PuppetServer => \A p \in Procs : pc[p] \in {"swap", "unlink"} => cur[p] \in pending[p]

NoServerNoDebt ==
    ~PuppetServer => /\ \A e \in Envs : cache[e] = None
                     /\ \A p \in Procs :
                          /\ pending[p] = {}
                          /\ pc[p] \in {"flush", "clear"} => todo[p] = {}

\* Processes that take turns: what is owed in memory is owed on disk.
Alone == \A p, q \in Procs : p # q => pc[p] = "off" \/ pc[q] = "off"

OnDisk ==
    \A p \in Procs :
      /\ pending[p] \subseteq owedFiles
      /\ pc[p] = "flush" => todo[p] \subseteq owedFiles
      /\ pc[p] = "clear" => todo[p] \subseteq owedFiles \ {cur[p]}

TakingTurns == ~Overlap => Alone /\ OnDisk

\* Flushes that succeed: nothing is pending between two Onces.
Paid ==
    Overlap => \A p \in Procs :
      /\ pc[p] = "idle" => pending[p] = {}
      /\ pc[p] = "flush" => pending[p] \subseteq todo[p]
      /\ pc[p] = "clear" => pending[p] \subseteq todo[p] \cup {cur[p]}

Off == \A p \in Procs : pc[p] = "off" => pending[p] = {}

OwedInv ==
    OwedStrongly /\ RecordedFirst /\ NoServerNoDebt /\ TakingTurns /\ Paid /\ Off

\* A step of p that touches no link, cache or record and does not leave or
\* enter the flush.
Quiet(p) ==
    /\ UNCHANGED <<link, cache, owedFiles, pending>>
    /\ pc[p] \notin {"off", "clear"}
    /\ \E w \in Where \ {"off", "idle", "swap", "unlink", "flush", "clear"} :
          pc' = [pc EXCEPT ![p] = w]
    /\ \A q \in Procs \ {p} : cur'[q] = cur[q] /\ todo'[q] = todo[q]

LEMMA QuietSafe ==
    ASSUME TypeInv, OwedInv, NEW p \in Procs, Quiet(p)
    PROVE  OwedInv'
<1>1. \A q \in Procs, e \in Envs : Clearing(q, e)' <=> Clearing(q, e)
  BY DEF Quiet, Clearing, TypeInv, TypeOK
<1>2. OwedStrongly'
  BY <1>1 DEF OwedInv, OwedStrongly, Stale, Holds, Quiet
<1>3. RecordedFirst' /\ NoServerNoDebt' /\ Off'
  BY DEF OwedInv, RecordedFirst, NoServerNoDebt, Off, Quiet, TypeInv, TypeOK
<1>4. TakingTurns'
  BY DEF OwedInv, TakingTurns, Alone, OnDisk, Quiet, TypeInv, TypeOK
<1>5. Paid'
  BY DEF OwedInv, Paid, Quiet, TypeInv, TypeOK
<1>6. QED
  BY <1>2, <1>3, <1>4, <1>5 DEF OwedInv

\* A process may end, at whatever step, when it is alone or owes nothing.
LEMMA EndSafe ==
    ASSUME TypeInv, OwedInv, NEW p \in Procs, Forget(p), pc[p] # "off",
           UNCHANGED <<link, cache, owedFiles>>,
           Overlap => pc[p] # "clear" /\ pending[p] = {}
    PROVE  OwedInv'
<1>1. /\ pc' = [pc EXCEPT ![p] = "off"] /\ pending' = [pending EXCEPT ![p] = {}]
      /\ cur' = [cur EXCEPT ![p] = None] /\ todo' = [todo EXCEPT ![p] = {}]
  BY DEF Forget
<1>2. OwedStrongly'
  <2> SUFFICES ASSUME NEW e \in Envs, Stale(e)
               PROVE  \/ \E q \in Procs : Holds(q, e)'
                      \/ e \in owedFiles' /\ \A q \in Procs : ~Clearing(q, e)'
    BY DEF OwedStrongly, Stale
  <2>1. \A q \in Procs \ {p} : /\ Holds(q, e)' <=> Holds(q, e)
                               /\ Clearing(q, e)' <=> Clearing(q, e)
    BY <1>1 DEF Holds, Clearing, TypeInv, TypeOK
  <2>2. ~Clearing(p, e)'
    BY <1>1 DEF Clearing, TypeInv, TypeOK
  <2>3. CASE Overlap
    BY <2>1, <2>2, <2>3 DEF OwedInv, OwedStrongly, Holds
  <2>4. CASE ~Overlap
    <3>1. \A q \in Procs \ {p} : pc[q] = "off" /\ pending[q] = {}
      BY <2>4 DEF OwedInv, TakingTurns, Alone, Off
    <3>2. e \in owedFiles
      BY <3>1, <2>4 DEF OwedInv, OwedStrongly, Holds, TakingTurns, OnDisk
    <3>3. QED
      BY <3>1, <3>2, <2>1, <2>2 DEF Clearing
  <2>5. QED
    BY <2>3, <2>4
<1>3. RecordedFirst' /\ NoServerNoDebt' /\ Off'
  BY <1>1 DEF OwedInv, RecordedFirst, NoServerNoDebt, Off, TypeInv, TypeOK
<1>4. TakingTurns'
  BY <1>1 DEF OwedInv, TakingTurns, Alone, OnDisk, TypeInv, TypeOK
<1>5. Paid'
  BY <1>1 DEF OwedInv, Paid, TypeInv, TypeOK
<1>6. QED
  BY <1>2, <1>3, <1>4, <1>5 DEF OwedInv

\* Owing a flush is safe in any loop, and lets the link move.
LEMMA OweSafe ==
    ASSUME TypeInv, OwedInv, NEW p \in Procs, NEW e \in Envs,
           OweFlush(p, e), pc[p] \in {"owe", "prune"},
           \E w \in {"swap", "unlink"} : pc' = [pc EXCEPT ![p] = w],
           cur' = [cur EXCEPT ![p] = e], \A q \in Procs \ {p} : todo'[q] = todo[q],
           UNCHANGED <<link, cache>>
    PROVE  OwedInv'
<1> USE DEF TypeInv, TypeOK
<1>1. /\ \A q \in Procs \ {p} : pending'[q] = pending[q]
      /\ pending[p] \subseteq pending'[p] /\ pending'[p] \subseteq pending[p] \cup {e}
      /\ PuppetServer => e \in pending'[p]
      /\ ~PuppetServer => pending'[p] = pending[p]
      /\ owedFiles \subseteq owedFiles' /\ pending'[p] \ pending[p] \subseteq owedFiles'
  <2>1. CASE PuppetServer
    BY <2>1 DEF OweFlush
  <2>2. CASE ~PuppetServer
    BY <2>2 DEF OweFlush
  <2>3. QED
    BY <2>1, <2>2
<1>2. \A q \in Procs, f \in Envs : Clearing(q, f)' <=> Clearing(q, f)
  BY DEF Clearing
<1>3. OwedStrongly'
  BY <1>1, <1>2 DEF OwedInv, OwedStrongly, Stale, Holds
<1>4. RecordedFirst' /\ NoServerNoDebt' /\ Off'
  BY <1>1 DEF OwedInv, RecordedFirst, NoServerNoDebt, Off
<1>5. TakingTurns'
  BY <1>1 DEF OwedInv, TakingTurns, Alone, OnDisk
<1>6. Paid'
  BY <1>1 DEF OwedInv, Paid
<1>7. QED
  BY <1>3, <1>4, <1>5, <1>6 DEF OwedInv

\* Every step of a process keeps the obligation.
LEMMA ProcessSafe ==
    ASSUME SafeUse, TypeInv, OwedInv, NEW p \in Procs, Step(p)
    PROVE  OwedInv'
<1> USE DEF TypeInv, TypeOK, LoopOK
<1>1. CASE Start(p)
  <2>1. pc[p] = "off" /\ pc' = [pc EXCEPT ![p] = "idle"]
    BY <1>1 DEF Start
  <2>2. UNCHANGED <<link, cache, owedFiles, pending, cur, todo>>
    BY <1>1 DEF Start, disk, srv
  <2>3. OwedStrongly' /\ RecordedFirst' /\ NoServerNoDebt' /\ Off'
    BY <2>1, <2>2 DEF OwedInv, OwedStrongly, Stale, Holds, Clearing, RecordedFirst,
                      NoServerNoDebt, Off
  <2>4. TakingTurns'
    BY <1>1, <2>1, <2>2 DEF OwedInv, TakingTurns, Alone, OnDisk, Start
  <2>5. Paid'
    BY <2>1, <2>2 DEF OwedInv, Paid, Off
  <2>6. QED
    BY <2>3, <2>4, <2>5 DEF OwedInv
<1>2. CASE Stop(p)
  BY <1>2, EndSafe DEF Stop, OwedInv, Paid, disk, srv
<1>3. CASE Kill(p)
  BY <1>3, EndSafe DEF Kill, SafeUse, srv
<1>4. CASE KillInReap(p)
  BY <1>4, EndSafe DEF KillInReap, AtReap, SafeUse, srv
<1>5. CASE Fetch(p)
  <2>1. /\ UNCHANGED <<link, cache, owedFiles, pending>>
        /\ pc[p] = "idle"
        /\ pc' = [pc EXCEPT ![p] = "sync"]
        /\ \A q \in Procs \ {p} : cur'[q] = cur[q] /\ todo'[q] = todo[q]
    BY <1>5 DEF Fetch, Goto, disk, srv
  <2>2. Quiet(p)
    BY <2>1 DEF Quiet
  <2>3. QED
    BY <2>2, QuietSafe
<1>6. ASSUME NEW e \in Envs, Sync(p, e) PROVE OwedInv'
  <2>1. /\ UNCHANGED <<link, cache, owedFiles, pending>>
        /\ pc[p] = "sync"
        /\ \E w \in {"reap", "owe", "extract"} : pc' = [pc EXCEPT ![p] = w]
        /\ \A q \in Procs \ {p} : cur'[q] = cur[q] /\ todo'[q] = todo[q]
    BY <1>6 DEF Sync, Goto, disk, srv
  <2>2. Quiet(p)
    BY <2>1 DEF Quiet
  <2>3. QED
    BY <2>2, QuietSafe
<1>7. CASE Install(p)
  <2>1. /\ UNCHANGED <<link, cache, owedFiles, pending>>
        /\ pc[p] = "extract"
        /\ pc' = [pc EXCEPT ![p] = "owe"]
        /\ UNCHANGED <<cur, todo>>
    BY <1>7 DEF Install, Goto, srv
  <2>2. Quiet(p)
    BY <2>1 DEF Quiet
  <2>3. QED
    BY <2>2, QuietSafe
<1>8. CASE DownloadFails(p) \/ OweFails(p) \/ SwapFails(p)
  <2>1. /\ UNCHANGED <<link, cache, owedFiles, pending, todo>>
        /\ pc[p] \in {"extract", "owe", "swap"}
        /\ pc' = [pc EXCEPT ![p] = "sync"] /\ cur' = [cur EXCEPT ![p] = None]
    BY <1>8 DEF DownloadFails, OweFails, SwapFails, SyncFailed, Goto, disk, srv
  <2>2. Quiet(p)
    BY <2>1 DEF Quiet
  <2>3. QED
    BY <2>2, QuietSafe
<1>9. CASE Reap(p) \/ ReapFails(p)
  <2>1. /\ UNCHANGED <<link, cache, owedFiles, pending, todo>>
        /\ pc[p] \in {"reap", "reapPruned"}
        /\ pc' = [pc EXCEPT ![p] = IF pc[p] = "reap" THEN "sync" ELSE "prune"]
        /\ cur' = [cur EXCEPT ![p] = None]
    BY <1>9 DEF Reap, ReapFails, AtReap, AfterReap, Goto, srv
  <2>2. Quiet(p)
    BY <2>1 DEF Quiet
  <2>3. QED
    BY <2>2, QuietSafe
<1>10. CASE Sweep(p)
  <2>1. /\ UNCHANGED <<link, cache, owedFiles, pending>>
        /\ pc[p] = "sync"
        /\ pc' = [pc EXCEPT ![p] = "prune"]
        /\ \A q \in Procs \ {p} : cur'[q] = cur[q] /\ todo'[q] = todo[q]
    BY <1>10 DEF Sweep, Goto, srv
  <2>2. Quiet(p)
    BY <2>1 DEF Quiet
  <2>3. QED
    BY <2>2, QuietSafe
<1>11. CASE PruneFails(p)
  <2>1. /\ UNCHANGED <<link, cache, owedFiles, pending>>
        /\ pc[p] \in {"prune", "unlink"}
        /\ pc' = [pc EXCEPT ![p] = "prune"]
        /\ \A q \in Procs \ {p} : cur'[q] = cur[q] /\ todo'[q] = todo[q]
    BY <1>11 DEF PruneFails, Goto, disk, srv
  <2>2. Quiet(p)
    BY <2>1 DEF Quiet
  <2>3. QED
    BY <2>2, QuietSafe
<1>12. CASE Owe(p)
  <2>1. /\ pc[p] = "owe" /\ cur[p] \in Envs /\ pc' = [pc EXCEPT ![p] = "swap"]
        /\ UNCHANGED <<link, cache, todo, cur>>
    BY <1>12 DEF Owe, Goto, srv
  <2>2. QED
    BY <1>12, <2>1, OweSafe DEF Owe
<1>13. ASSUME NEW e \in Envs, PruneOwe(p, e) PROVE OwedInv'
  <2>1. /\ pc[p] = "prune" /\ pc' = [pc EXCEPT ![p] = "unlink"]
        /\ cur' = [cur EXCEPT ![p] = e] /\ todo' = [todo EXCEPT ![p] = @ \ {e}]
        /\ UNCHANGED <<link, cache>>
    BY <1>13 DEF PruneOwe, Goto, srv
  <2>2. QED
    BY <1>13, <2>1, OweSafe DEF PruneOwe
<1>14. CASE Swap(p) \/ Unlink(p)
  <2>1. /\ pc[p] \in {"swap", "unlink"} /\ cur[p] \in Envs
        /\ \E w \in {"reap", "reapPruned"} : pc' = [pc EXCEPT ![p] = w]
        /\ \E id : link' = [link EXCEPT ![cur[p]] = id]
        /\ UNCHANGED <<cache, owedFiles, pending, cur, todo>>
    BY <1>14 DEF Swap, Unlink, Goto, srv
  <2>2. OwedStrongly'
    <3> SUFFICES ASSUME NEW e \in Envs, Stale(e)'
                 PROVE  \/ \E q \in Procs : Holds(q, e)'
                        \/ e \in owedFiles' /\ \A q \in Procs : ~Clearing(q, e)'
      BY DEF OwedStrongly
    <3>1. CASE e = cur[p]
      <4>1. PuppetServer
        BY <2>1 DEF OwedInv, NoServerNoDebt, Stale
      <4>2. Holds(p, e)'
        BY <2>1, <3>1, <4>1 DEF OwedInv, RecordedFirst, Holds, Clearing
      <4>3. QED
        BY <4>2
    <3>2. CASE e # cur[p]
      BY <2>1, <3>2 DEF OwedInv, OwedStrongly, Stale, Holds, Clearing
    <3>3. QED
      BY <3>1, <3>2
  <2>3. RecordedFirst' /\ NoServerNoDebt' /\ Off' /\ TakingTurns' /\ Paid'
    BY <2>1 DEF OwedInv, RecordedFirst, NoServerNoDebt, Off, TakingTurns, Alone, OnDisk, Paid
  <2>4. QED
    BY <2>2, <2>3 DEF OwedInv
<1>15. CASE ListOwed(p) \/ ListOwedFails(p)
  <2>1. /\ pc[p] = "prune" /\ pc' = [pc EXCEPT ![p] = "flush"]
        /\ UNCHANGED <<link, cache, owedFiles, pending, cur>>
    BY <1>15 DEF ListOwed, ListOwedFails, Goto, disk, srv
  <2>2. /\ \A q \in Procs \ {p} : todo'[q] = todo[q]
        /\ pending[p] \subseteq todo'[p] /\ todo'[p] \subseteq pending[p] \cup owedFiles
        /\ ~PuppetServer => todo'[p] = {}
    BY <1>15 DEF ListOwed, ListOwedFails, OwedInv, NoServerNoDebt
  <2>3. OwedStrongly' /\ RecordedFirst' /\ NoServerNoDebt' /\ Off'
    BY <2>1, <2>2 DEF OwedInv, OwedStrongly, Stale, Holds, Clearing, RecordedFirst,
                      NoServerNoDebt, Off
  <2>4. TakingTurns' /\ Paid'
    BY <2>1, <2>2 DEF OwedInv, TakingTurns, Alone, OnDisk, Paid
  <2>5. QED
    BY <2>3, <2>4 DEF OwedInv
<1>16. ASSUME NEW e \in Envs, Flush(p, e) PROVE OwedInv'
  <2>1. /\ pc[p] = "flush" /\ e \in todo[p] /\ pc' = [pc EXCEPT ![p] = "clear"]
        /\ cache' = [cache EXCEPT ![e] = None] /\ cur' = [cur EXCEPT ![p] = e]
        /\ todo' = [todo EXCEPT ![p] = @ \ {e}]
        /\ UNCHANGED <<link, owedFiles, pending>>
    BY <1>16 DEF Flush, Goto, disk
  <2>2. OwedStrongly'
    BY <2>1 DEF OwedInv, OwedStrongly, Stale, Holds, Clearing
  <2>3. RecordedFirst' /\ NoServerNoDebt' /\ Off' /\ TakingTurns' /\ Paid'
    BY <2>1 DEF OwedInv, RecordedFirst, NoServerNoDebt, Off, TakingTurns, Alone, OnDisk, Paid
  <2>4. QED
    BY <2>2, <2>3 DEF OwedInv
<1>17. ASSUME NEW e \in Envs, FlushFails(p, e) PROVE OwedInv'
  <2>1. /\ pc[p] = "flush" /\ e \in todo[p] /\ "flush" \in Faults
        /\ \A f \in Envs : cache'[f] \in {None, cache[f]}
        /\ cache' \in [Envs -> Ids]
        /\ todo' = [todo EXCEPT ![p] = @ \ {e}]
        /\ pending' = [pending EXCEPT ![p] = @ \cup {e}]
        /\ owedFiles \subseteq owedFiles' /\ owedFiles' \subseteq owedFiles \cup {e}
        /\ UNCHANGED <<link, pc, cur>>
    BY <1>17 DEF FlushFails
  <2>2. ~Overlap
    BY <2>1 DEF SafeUse
  <2>3. PuppetServer
    BY <2>1 DEF OwedInv, NoServerNoDebt
  <2>4. OwedStrongly'
    BY <2>1 DEF OwedInv, OwedStrongly, Stale, Holds, Clearing
  <2>5. RecordedFirst' /\ NoServerNoDebt' /\ Off'
    BY <2>1, <2>3 DEF OwedInv, RecordedFirst, NoServerNoDebt, Off
  <2>6. TakingTurns' /\ Paid'
    BY <2>1, <2>2 DEF OwedInv, TakingTurns, Alone, OnDisk, Paid
  <2>7. QED
    BY <2>4, <2>5, <2>6 DEF OwedInv
<1>18. CASE Clear(p)
  <2>1. /\ pc[p] = "clear" /\ cur[p] \in Envs /\ pc' = [pc EXCEPT ![p] = "flush"]
        /\ cur' = [cur EXCEPT ![p] = None]
        /\ pending' = [pending EXCEPT ![p] = @ \ {cur[p]}]
        /\ owedFiles \ {cur[p]} \subseteq owedFiles' /\ owedFiles' \subseteq owedFiles
        /\ UNCHANGED <<link, cache, todo>>
    BY <1>18 DEF Clear, Goto, srv
  <2>2. OwedStrongly'
    <3> SUFFICES ASSUME NEW e \in Envs, Stale(e)
                 PROVE  \/ \E q \in Procs : Holds(q, e)'
                        \/ e \in owedFiles' /\ \A q \in Procs : ~Clearing(q, e)'
      BY <2>1 DEF OwedStrongly, Stale
    <3>1. CASE e = cur[p]
      <4>1. PICK q \in Procs : Holds(q, e)
        BY <2>1, <3>1 DEF OwedInv, OwedStrongly, Clearing
      <4>2. q # p /\ Holds(q, e)'
        BY <2>1, <3>1, <4>1 DEF Holds, Clearing
      <4>3. QED
        BY <4>2
    <3>2. CASE e # cur[p]
      BY <2>1, <3>2 DEF OwedInv, OwedStrongly, Holds, Clearing
    <3>3. QED
      BY <3>1, <3>2
  <2>3. RecordedFirst' /\ NoServerNoDebt' /\ Off'
    BY <2>1 DEF OwedInv, RecordedFirst, NoServerNoDebt, Off
  <2>4. TakingTurns'
    <3>1. CASE Overlap
      BY <3>1 DEF TakingTurns
    <3>2. CASE ~Overlap
      <4>1. \A q \in Procs \ {p} : pc[q] = "off" /\ pending[q] = {}
        BY <2>1, <3>2 DEF OwedInv, TakingTurns, Alone, Off
      <4>2. Alone'
        BY <2>1, <4>1 DEF Alone
      <4>3. OnDisk'
        BY <2>1, <3>2, <4>1 DEF OwedInv, TakingTurns, OnDisk
      <4>4. QED
        BY <4>2, <4>3 DEF TakingTurns
    <3>3. QED
      BY <3>1, <3>2
  <2>5. Paid'
    BY <2>1 DEF OwedInv, Paid
  <2>6. QED
    BY <2>2, <2>3, <2>4, <2>5 DEF OwedInv
<1>19. CASE Finish(p)
  <2>1. pc[p] = "flush" /\ todo[p] = {} /\ UNCHANGED <<link, cache, owedFiles>>
    BY <1>19 DEF Finish, disk, srv
  <2>2. CASE p \in Daemons
    <3>1. pc' = [pc EXCEPT ![p] = "idle"] /\ UNCHANGED <<todo, cur, pending>>
      BY <1>19, <2>2 DEF Finish, Goto
    <3>2. OwedStrongly' /\ RecordedFirst' /\ NoServerNoDebt' /\ Off'
      BY <2>1, <3>1 DEF OwedInv, OwedStrongly, Stale, Holds, Clearing, RecordedFirst,
                        NoServerNoDebt, Off
    <3>3. TakingTurns' /\ Paid'
      BY <2>1, <3>1 DEF OwedInv, TakingTurns, Alone, OnDisk, Paid
    <3>4. QED
      BY <3>2, <3>3 DEF OwedInv
  <2>3. CASE p \notin Daemons
    BY <1>19, <2>1, <2>3, EndSafe DEF Finish, OwedInv, Paid
  <2>4. QED
    BY <2>2, <2>3
<1>20. QED
  BY <1>1, <1>2, <1>3, <1>4, <1>5, <1>6, <1>7, <1>8, <1>9, <1>10, <1>11, <1>12, <1>13, <1>14,
     <1>15, <1>16, <1>17, <1>18, <1>19 DEF Step

\* A compile caches what the link names, and owes nothing.
LEMMA CompileSafe ==
    ASSUME TypeInv, OwedInv, NEW e \in Envs, Compile(e)
    PROVE  OwedInv'
<1>1. UNCHANGED <<link, owedFiles, pending, pc, cur, todo>>
  BY DEF Compile, disk, proc
<1>2. cache' = IF cache[e] = None /\ PuppetServer
               THEN [cache EXCEPT ![e] = link[e]] ELSE cache
  BY DEF Compile
<1>3. \A f \in Envs : Stale(f)' => Stale(f)
  BY <1>1, <1>2 DEF Stale, TypeInv, TypeOK
<1>4. OwedStrongly'
  BY <1>1, <1>3 DEF OwedInv, OwedStrongly, Holds, Clearing
<1>5. RecordedFirst' /\ TakingTurns' /\ Paid' /\ Off'
  BY <1>1 DEF OwedInv, RecordedFirst, TakingTurns, Alone, OnDisk, Paid, Off
<1>6. NoServerNoDebt'
  <2>1. CASE PuppetServer
    BY <2>1 DEF NoServerNoDebt
  <2>2. CASE ~PuppetServer
    BY <1>1, <1>2, <2>2 DEF OwedInv, NoServerNoDebt
  <2>3. QED
    BY <2>1, <2>2
<1>7. QED
  BY <1>4, <1>5, <1>6 DEF OwedInv

\* The obligation to flush is kept, in memory and on disk, by every step.
LEMMA OwedInvariant ==
    ASSUME SafeUse PROVE Spec => []OwedInv
<1>1. Init => OwedInv
  BY DEF Init, OwedInv, OwedStrongly, RecordedFirst, NoServerNoDebt, TakingTurns, Alone,
         OnDisk, Paid, Off, Stale, Nothing
<1>2. TypeInv /\ OwedInv /\ [Next]_vars => OwedInv'
  <2> SUFFICES ASSUME TypeInv, OwedInv, [Next]_vars PROVE OwedInv'
    OBVIOUS
  <2> USE DEF OwedInv, OwedStrongly, RecordedFirst, NoServerNoDebt, TakingTurns, Alone,
              OnDisk, Paid, Off, Stale, Holds, Clearing
  <2>1. CASE Tick
    BY <2>1 DEF Tick
  <2>2. ASSUME NEW e \in Envs, NEW id \in Ids, Publish(e, id) PROVE OwedInv'
    BY <2>2 DEF Publish, disk, srv, proc
  <2>3. ASSUME NEW e \in Envs, Compile(e) PROVE OwedInv'
    BY <2>3, CompileSafe
  <2>4. CASE ServerRestart
    BY <2>4 DEF ServerRestart, Nothing, disk, proc
  <2>5. CASE Reboot
    BY <2>5 DEF Reboot, Nothing
  <2>6. CASE \E p \in Procs : Step(p)
    BY <2>6, ProcessSafe
  <2>7. CASE UNCHANGED vars
    BY <2>7 DEF vars, disk, srv, proc
  <2>8. QED
    BY <2>1, <2>2, <2>3, <2>4, <2>5, <2>6, <2>7 DEF Next
<1>3. QED
  BY <1>1, <1>2, TypeInvariant, PTL DEF Spec

\* A stale cache is owed a flush, whatever fails, where processes take turns;
\* and where they overlap, as long as flushes succeed and none is killed.
THEOREM StaleIsOwed ==
    ASSUME SafeUse PROVE Spec => []StaleCacheIsOwed
<1>1. OwedInv => StaleCacheIsOwed
  BY DEF OwedInv, OwedStrongly, Holds, StaleCacheIsOwed
<1>2. QED
  BY <1>1, OwedInvariant, PTL
-----------------------------------------------------------------------------
(* The version a link names.  It may be reaped where two processes overlap, *)
(* or where one environment's name begins with another's and "_"; it is not *)
(* where processes take turns over distinct names, however they die.        *)

DistinctNames == \A pair \in Prefixed : pair[1] = pair[2]

LinkInv ==
    /\ Alone
    /\ CurrentPresent
    /\ \A p \in Procs :
         /\ pc[p] \in {"owe", "swap"} => <<cur[p], want[p][cur[p]]>> \in present
         /\ pc[p] = "reap" => link[cur[p]] = want[p][cur[p]]
         /\ pc[p] = "reapPruned" => link[cur[p]] = None

\* No reap dooms the version a link names.
LEMMA LinksSpared ==
    ASSUME DistinctNames, TypeInv, LinkInv, NEW p \in Procs, AtReap(p),
           NEW D \in ReapArgs(p), NEW e \in Envs, link[e] # None
    PROVE  <<e, link[e]>> \notin D
<1> SUFFICES ASSUME <<e, link[e]>> \in D PROVE FALSE
  OBVIOUS
<1>1. PICK current : /\ <<e, link[e]>> \in Candidates(cur[p], current)
                     /\ \/ pc[p] = "reap" /\ current = want[p][cur[p]]
                        \/ pc[p] = "reapPruned" /\ current = None
  BY DoomedCandidates DEF ReapArgs, AtReap
<1>2. <<e, link[e]>> # <<cur[p], current>>
  BY <1>1 DEF Candidates
<1>3. e = cur[p]
  <2>1. <<cur[p], <<e, link[e]>>[1]>> \in Prefixed
    BY <1>1 DEF Candidates
  <2>2. QED
    BY <2>1 DEF DistinctNames
<1>4. QED
  BY <1>1, <1>2, <1>3 DEF LinkInv

\* A step that keeps links and versions, and does not go to a place of LinkInv.
LEMMA StillSafe ==
    ASSUME TypeInv, LinkInv, NEW p \in Procs, pc[p] # "off",
           \E w \in Where \ {"owe", "swap", "reap", "reapPruned"} : pc' = [pc EXCEPT ![p] = w],
           \A q \in Procs \ {p} : cur'[q] = cur[q] /\ want'[q] = want[q],
           UNCHANGED <<link, present>>
    PROVE  LinkInv'
BY DEF LinkInv, Alone, CurrentPresent, TypeInv, TypeOK

\* A removal of doomed versions, whole or not, whatever the process does next.
LEMMA ReapSafe ==
    ASSUME DistinctNames, TypeInv, LinkInv, NEW p \in Procs, AtReap(p),
           NEW D \in ReapArgs(p), present \ D \subseteq present', present' \subseteq present,
           \E w \in {"off", "sync", "prune"} : pc' = [pc EXCEPT ![p] = w],
           \A q \in Procs \ {p} : cur'[q] = cur[q] /\ want'[q] = want[q],
           UNCHANGED link
    PROVE  LinkInv'
<1>1. CurrentPresent'
  BY LinksSpared DEF LinkInv, CurrentPresent
<1>2. \A q \in Procs \ {p} : pc[q] = "off" /\ pc'[q] = "off"
  BY DEF LinkInv, Alone, AtReap, TypeInv, TypeOK
<1>3. QED
  BY <1>1, <1>2 DEF LinkInv, Alone, TypeInv, TypeOK

\* A link to a version that is there, or the removal of a link.
LEMMA RelinkSafe ==
    ASSUME TypeInv, LinkInv, NEW p \in Procs, NEW w, NEW id \in Ids,
           cur[p] \in Envs, pc[p] # "off",
           link' = [link EXCEPT ![cur[p]] = id], pc' = [pc EXCEPT ![p] = w],
           \/ w = "reap" /\ id = want[p][cur[p]] /\ <<cur[p], id>> \in present
           \/ w = "reapPruned" /\ id = None,
           UNCHANGED <<present, want, cur>>
    PROVE  LinkInv'
<1>1. \A q \in Procs \ {p} : pc[q] = "off" /\ pc'[q] = "off"
  BY DEF LinkInv, Alone, TypeInv, TypeOK
<1>2. CurrentPresent'
  BY DEF LinkInv, CurrentPresent, TypeInv, TypeOK
<1>3. QED
  BY <1>1, <1>2 DEF LinkInv, Alone, TypeInv, TypeOK

\* The version a link names is on disk at every step, and so is the one it is
\* about to name.
LEMMA LinkInvariant ==
    ASSUME ~Overlap, DistinctNames PROVE Spec => []LinkInv
<1>1. Init => LinkInv
  BY DEF Init, LinkInv, Alone, CurrentPresent, Nothing
<1>2. TypeInv /\ LinkInv /\ [Next]_vars => LinkInv'
  <2> SUFFICES ASSUME TypeInv, LinkInv, [Next]_vars PROVE LinkInv'
    OBVIOUS
  <2>1. CASE Tick \/ ServerRestart
        \/ (\E e \in Envs, id \in Ids : Publish(e, id)) \/ (\E e \in Envs : Compile(e))
        \/ UNCHANGED vars
    <3>1. UNCHANGED <<link, present, pc, cur, want>>
      BY <2>1 DEF Tick, ServerRestart, Publish, Compile, vars, disk, proc
    <3>2. QED
      BY <3>1 DEF LinkInv, Alone, CurrentPresent
  <2>2. CASE Reboot
    BY <2>2 DEF Reboot, LinkInv, Alone, CurrentPresent
  <2>3. ASSUME NEW p \in Procs, Step(p) PROVE LinkInv'
    <3> USE DEF TypeInv, TypeOK
    <3>1. CASE Start(p)
      BY <3>1 DEF Start, LinkInv, Alone, CurrentPresent, disk
    <3>2. CASE Stop(p) \/ Kill(p)
      BY <3>2, StillSafe DEF Stop, Kill, Forget, disk
    <3>3. CASE Fetch(p)
      BY <3>3, StillSafe DEF Fetch, Goto, disk
    <3>4. ASSUME NEW e \in Envs, Sync(p, e) PROVE LinkInv'
      <4>1. /\ pc[p] = "sync" /\ cur' = [cur EXCEPT ![p] = e]
            /\ UNCHANGED <<link, present, want>>
        BY <3>4 DEF Sync, disk
      <4>2. \/ link[e] = want[p][e] /\ pc' = [pc EXCEPT ![p] = "reap"]
            \/ <<e, want[p][e]>> \in present /\ pc' = [pc EXCEPT ![p] = "owe"]
            \/ pc' = [pc EXCEPT ![p] = "extract"]
        BY <3>4 DEF Sync, Goto
      <4>3. \A q \in Procs \ {p} : pc[q] = "off"
        BY <4>1 DEF LinkInv, Alone
      <4>4. cur'[p] = e /\ \A q \in Procs \ {p} : pc'[q] = "off"
        BY <4>1, <4>2, <4>3
      <4>5. Alone' /\ CurrentPresent'
        BY <4>1, <4>4 DEF LinkInv, Alone, CurrentPresent
      <4>6. CASE link[e] = want[p][e] /\ pc' = [pc EXCEPT ![p] = "reap"]
        BY <4>1, <4>4, <4>5, <4>6 DEF LinkInv
      <4>7. CASE <<e, want[p][e]>> \in present /\ pc' = [pc EXCEPT ![p] = "owe"]
        BY <4>1, <4>4, <4>5, <4>7 DEF LinkInv
      <4>8. CASE pc' = [pc EXCEPT ![p] = "extract"]
        BY <4>1, <4>4, <4>5, <4>8 DEF LinkInv
      <4>9. QED
        BY <4>2, <4>6, <4>7, <4>8
    <3>5. CASE Install(p)
      <4>1. /\ pc[p] = "extract" /\ pc' = [pc EXCEPT ![p] = "owe"]
            /\ present' = present \cup {<<cur[p], want[p][cur[p]]>>}
            /\ UNCHANGED <<link, want, cur>>
        BY <3>5 DEF Install, Goto
      <4>2. QED
        BY <4>1 DEF LinkInv, Alone, CurrentPresent
    <3>6. CASE DownloadFails(p) \/ OweFails(p) \/ SwapFails(p)
      BY <3>6, StillSafe DEF DownloadFails, OweFails, SwapFails, SyncFailed, Goto, disk
    <3>7. CASE Owe(p)
      <4>1. /\ pc[p] = "owe" /\ pc' = [pc EXCEPT ![p] = "swap"]
            /\ UNCHANGED <<link, present, want, cur>>
        BY <3>7 DEF Owe, Goto
      <4>2. QED
        BY <4>1 DEF LinkInv, Alone, CurrentPresent
    <3>8. CASE Swap(p)
      <4>1. /\ pc[p] = "swap" /\ pc' = [pc EXCEPT ![p] = "reap"]
            /\ link' = [link EXCEPT ![cur[p]] = want[p][cur[p]]]
            /\ UNCHANGED <<present, want, cur>>
        BY <3>8 DEF Swap, Goto
      <4>2. cur[p] \in Envs /\ <<cur[p], want[p][cur[p]]>> \in present
        BY <4>1 DEF LinkInv, LoopOK
      <4>3. QED
        BY <4>1, <4>2, RelinkSafe
    <3>9. CASE Unlink(p)
      BY <3>9, RelinkSafe DEF Unlink, Goto, LoopOK
    <3>10. CASE Reap(p)
      <4>1. PICK D \in ReapArgs(p) : Remove(D)
        BY <3>10 DEF Reap
      <4>2. QED
        BY <3>10, <4>1, ReapSafe DEF Reap, Remove, AfterReap, Goto
    <3>11. CASE ReapFails(p)
      <4>1. PICK D \in ReapArgs(p) : RemovePartly(D)
        BY <3>11 DEF ReapFails
      <4>2. QED
        BY <3>11, <4>1, ReapSafe DEF ReapFails, RemovePartly, AfterReap, Goto
    <3>12. CASE KillInReap(p)
      <4>1. PICK D \in ReapArgs(p) : RemovePartly(D)
        BY <3>12 DEF KillInReap
      <4>2. QED
        BY <3>12, <4>1, ReapSafe DEF KillInReap, RemovePartly, Forget
    <3>13. CASE Sweep(p)
      BY <3>13, StillSafe DEF Sweep, Goto
    <3>14. ASSUME NEW e \in Envs, PruneOwe(p, e) PROVE LinkInv'
      BY <3>14, StillSafe DEF PruneOwe, Goto
    <3>15. CASE PruneFails(p)
      BY <3>15, StillSafe DEF PruneFails, Goto, disk
    <3>16. CASE ListOwed(p) \/ ListOwedFails(p)
      BY <3>16, StillSafe DEF ListOwed, ListOwedFails, Goto, disk
    <3>17. ASSUME NEW e \in Envs, Flush(p, e) PROVE LinkInv'
      BY <3>17, StillSafe DEF Flush, Goto, disk
    <3>18. ASSUME NEW e \in Envs, FlushFails(p, e) PROVE LinkInv'
      BY <3>18 DEF FlushFails, LinkInv, Alone, CurrentPresent
    <3>19. CASE Clear(p)
      BY <3>19, StillSafe DEF Clear, Goto
    <3>20. CASE Finish(p)
      <4>1. pc[p] = "flush" /\ UNCHANGED <<link, present>>
        BY <3>20 DEF Finish, disk
      <4>2. CASE p \in Daemons
        <5>1. /\ pc' = [pc EXCEPT ![p] = "idle"]
              /\ want' = [want EXCEPT ![p] = Nothing] /\ UNCHANGED cur
          BY <3>20, <4>2 DEF Finish, Goto
        <5>2. \A q \in Procs \ {p} : cur'[q] = cur[q] /\ want'[q] = want[q]
          BY <5>1 DEF TypeInv, TypeOK
        <5>3. QED
          BY <4>1, <5>1, <5>2, StillSafe
      <4>3. CASE p \notin Daemons
        <5>1. /\ pc' = [pc EXCEPT ![p] = "off"]
              /\ want' = [want EXCEPT ![p] = Nothing] /\ cur' = [cur EXCEPT ![p] = None]
          BY <3>20, <4>3 DEF Finish, Forget
        <5>2. \A q \in Procs \ {p} : cur'[q] = cur[q] /\ want'[q] = want[q]
          BY <5>1 DEF TypeInv, TypeOK
        <5>3. QED
          BY <4>1, <5>1, <5>2, StillSafe
      <4>4. QED
        BY <4>2, <4>3
    <3>21. QED
      BY <2>3, <3>1, <3>2, <3>3, <3>4, <3>5, <3>6, <3>7, <3>8, <3>9, <3>10, <3>11, <3>12,
         <3>13, <3>14, <3>15, <3>16, <3>17, <3>18, <3>19, <3>20 DEF Step
  <2>4. QED
    BY <2>1, <2>2, <2>3 DEF Next
<1>3. QED
  BY <1>1, <1>2, TypeInvariant, PTL DEF Spec

\* An environment link resolves, whatever the publisher, the clock and the
\* faults do, where processes take turns over distinct names.
THEOREM LinksResolve ==
    ASSUME ~Overlap, DistinctNames PROVE Spec => []CurrentPresent
<1>1. LinkInv => CurrentPresent
  BY DEF LinkInv
<1>2. QED
  BY <1>1, LinkInvariant, PTL
-----------------------------------------------------------------------------
(* Extractions in progress, told from abandoned ones by age alone.          *)

LiveInv ==
    \A p \in Procs :
      /\ pc[p] = "extract" => p \in live
      /\ p \in live => tempAge[p] <= DownloadTimeout

\* A step of p that touches no extraction and does not begin one.
LEMMA NoExtraction ==
    ASSUME TypeInv, LiveInv, NEW p \in Procs, UNCHANGED <<live, tempAge>>,
           \E w \in Where \ {"extract"} : pc' = [pc EXCEPT ![p] = w]
    PROVE  LiveInv'
BY DEF LiveInv, TypeInv, TypeOK

\* A step with which p's extraction is over.
LEMMA ExtractionOver ==
    ASSUME TypeInv, LiveInv, NEW p \in Procs, live' = live \ {p},
           tempAge' = [tempAge EXCEPT ![p] = 0],
           \E w \in Where \ {"extract"} : pc' = [pc EXCEPT ![p] = w]
    PROVE  LiveInv'
BY DEF LiveInv, TypeInv, TypeOK

\* Where downloads are over before MinAge, no sweep, of any process, takes an
\* extraction whose process is still writing it.
THEOREM ExtractionsKept ==
    ASSUME DownloadTimeout < MinAge PROVE Spec => []LiveExtractionKept
<1>1. Init => LiveInv
  BY DEF Init, LiveInv
<1>2. TypeInv /\ LiveInv /\ [Next]_vars => LiveInv'
  <2> SUFFICES ASSUME TypeInv, LiveInv, [Next]_vars PROVE LiveInv'
    OBVIOUS
  <2>1. CASE Tick
    <3>1. /\ \A p \in live : tempAge[p] < DownloadTimeout
          /\ tempAge' = [p \in Procs |-> IF p \in live THEN Older(tempAge[p]) ELSE tempAge[p]]
          /\ UNCHANGED <<pc, live>>
      BY <2>1 DEF Tick
    <3>2. ASSUME NEW p \in live PROVE tempAge'[p] <= DownloadTimeout
      <4>1. p \in Procs /\ tempAge[p] \in Ages /\ tempAge[p] < DownloadTimeout
        BY <3>1 DEF TypeInv, TypeOK
      <4>2. tempAge'[p] = Older(tempAge[p])
        BY <3>1, <4>1
      <4>3. QED
        BY <4>1, <4>2 DEF Older
    <3>3. QED
      BY <3>1, <3>2 DEF LiveInv
  <2>2. CASE \/ ServerRestart \/ UNCHANGED vars
             \/ \E e \in Envs, id \in Ids : Publish(e, id)
             \/ \E e \in Envs : Compile(e)
    BY <2>2 DEF ServerRestart, Publish, Compile, LiveInv, vars, proc
  <2>3. CASE Reboot
    BY <2>3 DEF Reboot, LiveInv
  <2>4. ASSUME NEW p \in Procs, Step(p) PROVE LiveInv'
    <3>1. CASE Start(p)
      BY <3>1, NoExtraction DEF Start
    <3>2. CASE Stop(p) \/ Kill(p) \/ KillInReap(p)
      BY <3>2, ExtractionOver DEF Stop, Kill, KillInReap, Forget
    <3>3. CASE Fetch(p)
      BY <3>3, NoExtraction DEF Fetch, Goto
    <3>4. ASSUME NEW e \in Envs, Sync(p, e) PROVE LiveInv'
      <4>1. \/ UNCHANGED <<live, tempAge>> /\ pc' = [pc EXCEPT ![p] = "reap"]
            \/ UNCHANGED <<live, tempAge>> /\ pc' = [pc EXCEPT ![p] = "owe"]
            \/ /\ live' = live \cup {p} /\ tempAge' = [tempAge EXCEPT ![p] = 0]
               /\ pc' = [pc EXCEPT ![p] = "extract"]
        BY <3>4 DEF Sync, Goto
      <4>2. CASE live' = live \cup {p} /\ tempAge' = [tempAge EXCEPT ![p] = 0]
                 /\ pc' = [pc EXCEPT ![p] = "extract"]
        BY <4>2 DEF LiveInv, TypeInv, TypeOK
      <4>3. QED
        BY <4>1, <4>2, NoExtraction
    <3>5. CASE Install(p) \/ DownloadFails(p)
      BY <3>5, ExtractionOver DEF Install, DownloadFails, SyncFailed, Goto
    <3>6. CASE Owe(p) \/ OweFails(p) \/ Swap(p) \/ SwapFails(p)
      BY <3>6, NoExtraction DEF Owe, OweFails, Swap, SwapFails, SyncFailed, Goto
    <3>7. CASE Reap(p) \/ ReapFails(p)
      BY <3>7, NoExtraction DEF Reap, ReapFails, AfterReap, Goto
    <3>8. CASE Sweep(p)
      <4>1. /\ live' = {q \in live : tempAge[q] < MinAge}
            /\ tempAge' = [q \in Procs |-> IF q \in live' THEN tempAge[q] ELSE 0]
            /\ pc' = [pc EXCEPT ![p] = "prune"]
        BY <3>8 DEF Sweep, Goto
      <4>2. live' = live
        BY <4>1 DEF LiveInv, TypeInv, TypeOK
      <4>3. QED
        BY <4>1, <4>2 DEF LiveInv, TypeInv, TypeOK
    <3>9. ASSUME NEW e \in Envs, PruneOwe(p, e) PROVE LiveInv'
      BY <3>9, NoExtraction DEF PruneOwe, Goto
    <3>10. CASE Unlink(p) \/ PruneFails(p)
      BY <3>10, NoExtraction DEF Unlink, PruneFails, Goto
    <3>11. CASE ListOwed(p) \/ ListOwedFails(p)
      BY <3>11, NoExtraction DEF ListOwed, ListOwedFails, Goto
    <3>12. ASSUME NEW e \in Envs, Flush(p, e) PROVE LiveInv'
      BY <3>12, NoExtraction DEF Flush, Goto
    <3>13. ASSUME NEW e \in Envs, FlushFails(p, e) PROVE LiveInv'
      BY <3>13 DEF FlushFails, LiveInv
    <3>14. CASE Clear(p)
      BY <3>14, NoExtraction DEF Clear, Goto
    <3>15. CASE Finish(p)
      BY <3>15, NoExtraction, ExtractionOver DEF Finish, Forget, Goto
    <3>16. QED
      BY <2>4, <3>1, <3>2, <3>3, <3>4, <3>5, <3>6, <3>7, <3>8, <3>9, <3>10, <3>11, <3>12,
         <3>13, <3>14, <3>15 DEF Step
  <2>5. QED
    BY <2>1, <2>2, <2>3, <2>4 DEF Next
<1>3. LiveInv => LiveExtractionKept
  BY DEF LiveInv, LiveExtractionKept
<1>4. QED
  BY <1>1, <1>2, <1>3, TypeInvariant, PTL DEF Spec
-----------------------------------------------------------------------------
(* What a reap leaves.                                                      *)

\* Versions come to the disk one by one.
LEMMA DiskFinite == Spec => []IsFiniteSet(present)
<1> DEFINE Finite == IsFiniteSet(present)
<1>1. Init => Finite
  BY FS_EmptySet DEF Init
<1>2. Finite /\ [Next]_vars => Finite'
  <2> SUFFICES ASSUME Finite, [Next]_vars PROVE IsFiniteSet(present')
    OBVIOUS
  <2>1. \/ present' \subseteq present
        \/ \E p \in Procs : present' = present \cup {<<cur[p], want[p][cur[p]]>>}
    <3>1. CASE ~\E p \in Procs : Step(p)
      BY <3>1 DEF Next, Tick, Publish, Compile, ServerRestart, Reboot, vars, disk
    <3>2. ASSUME NEW p \in Procs, Step(p)
          PROVE  \/ present' \subseteq present
                 \/ present' = present \cup {<<cur[p], want[p][cur[p]]>>}
      <4>1. CASE Install(p)
        BY <4>1 DEF Install
      <4>2. CASE Reap(p) \/ ReapFails(p) \/ KillInReap(p)
        BY <4>2 DEF Reap, ReapFails, KillInReap, Remove, RemovePartly
      <4>3. CASE ~(Install(p) \/ Reap(p) \/ ReapFails(p) \/ KillInReap(p))
        BY <3>2, <4>3 DEF Step, Start, Stop, Kill, Fetch, Sync, DownloadFails, Owe, OweFails,
           Swap, SwapFails, Sweep, PruneOwe, Unlink, PruneFails, ListOwed, ListOwedFails,
           Flush, FlushFails, Clear, Finish, disk
      <4>4. QED
        BY <4>1, <4>2, <4>3
    <3>3. QED
      BY <3>1, <3>2
  <2>2. QED
    BY <2>1, FS_Subset, FS_AddElement
<1>3. QED
  BY <1>1, <1>2, PTL DEF Spec

\* A version that a reap removes has Keep newer ones besides the current one,
\* and the reap leaves them.
LEMMA NewerStay ==
    ASSUME DistinctNames, TypeInv, LinkInv, IsFiniteSet(present), NEW p \in Procs, AtReap(p),
           NEW D \in ReapArgs(p), present \ D \subseteq present', present' \subseteq present,
           NEW v \in present \ present', link[v[1]] # None
    PROVE  LET newer == {w \in present' : w[1] = v[1] /\ age[w] <= age[v]}
           IN Cardinality(newer \ {<<v[1], link[v[1]]>>}) >= Keep
<1> DEFINE e == cur[p]
           newer == {w \in present' : w[1] = v[1] /\ age[w] <= age[v]}
           rest == newer \ {<<v[1], link[v[1]]>>}
<1>1. PICK current, keep :
        /\ D \in Doomed(e, current, keep)
        /\ \/ pc[p] = "reap" /\ current = want[p][e] /\ keep = Keep
           \/ pc[p] = "reapPruned" /\ current = None
  BY DEF ReapArgs, AtReap
<1> DEFINE C == Candidates(e, current)
<1>2. PICK K \in SUBSET C : Newest(K, C, keep) /\ D = {w \in C \ K : age[w] >= MinAge}
  BY <1>1 DEF Doomed
<1>3. v \in D /\ \A w \in C : w[1] = e
  BY <1>2 DEF Candidates, DistinctNames
<1>4. v[1] = e /\ v \in C \ K
  BY <1>2, <1>3
<1>5. current = link[e] /\ keep = Keep
  BY <1>1, <1>4 DEF LinkInv
<1>6. IsFiniteSet(C) /\ C \subseteq present
  BY FS_Subset DEF Candidates
<1>7. Cardinality(K) = Keep
  <2>1. Cardinality(K) \in Nat /\ Cardinality(C) \in Nat /\ Cardinality(K) # Cardinality(C)
    BY <1>4, <1>6, FS_Subset, FS_CardinalityType
  <2>2. QED
    BY <1>2, <1>5, <2>1 DEF Newest
<1>8. K \subseteq rest
  <2>1. ASSUME NEW w \in K PROVE w \in rest
    <3>1. w \in present' /\ w[1] = v[1]
      BY <1>2, <1>3, <1>4, <1>6
    <3>2. age[w] <= age[v]
      BY <1>2, <1>4 DEF Newest
    <3>3. w # <<v[1], link[v[1]]>>
      BY <1>4, <1>5 DEF Candidates
    <3>4. QED
      BY <3>1, <3>2, <3>3
  <2>2. QED
    BY <2>1
<1>9. IsFiniteSet(rest)
  BY FS_Subset
<1>10. Cardinality(K) <= Cardinality(rest)
  BY <1>8, <1>9, FS_Subset
<1>11. QED
  BY <1>7, <1>9, <1>10, FS_CardinalityType

\* While an environment is deployed, a reap of its versions leaves Keep newer
\* than any it removes, whole or cut short, whatever the order of equal ages.
THEOREM KeepIsHonoured ==
    ASSUME ~Overlap, DistinctNames PROVE Spec => KeepHonoured
<1> DEFINE Kept(v) ==
      LET newer == {w \in present' : w[1] = v[1] /\ age[w] <= age[v]}
      IN Cardinality(newer \ {<<v[1], link[v[1]]>>}) >= Keep
<1>1. TypeInv /\ LinkInv /\ IsFiniteSet(present) /\ [Next]_vars =>
        [\A v \in present \ present' : link[v[1]] # None => Kept(v)]_vars
  <2> SUFFICES ASSUME TypeInv, LinkInv, IsFiniteSet(present), Next,
                      NEW v \in present \ present', link[v[1]] # None
               PROVE  Kept(v)
    OBVIOUS
  <2>1. PICK p \in Procs : Reap(p) \/ ReapFails(p) \/ KillInReap(p)
    <3>1. PICK p \in Procs : Step(p)
      BY DEF Next, Tick, Publish, Compile, ServerRestart, Reboot, disk
    <3>2. Reap(p) \/ ReapFails(p) \/ KillInReap(p)
      BY <3>1 DEF Step, Start, Stop, Kill, Fetch, Sync, Install, DownloadFails, Owe, OweFails,
         Swap, SwapFails, Sweep, PruneOwe, Unlink, PruneFails, ListOwed, ListOwedFails,
         Flush, FlushFails, Clear, Finish, disk
    <3>3. QED
      BY <3>2
  <2>2. AtReap(p) /\ \E D \in ReapArgs(p) : present \ D \subseteq present' /\ present' \subseteq present
    BY <2>1 DEF Reap, ReapFails, KillInReap, Remove, RemovePartly
  <2>3. QED
    BY <2>2, NewerStay
<1>2. QED
  BY <1>1, TypeInvariant, LinkInvariant, DiskFinite, PTL DEF Spec, KeepHonoured
-----------------------------------------------------------------------------
(* What CacheContract promises, for any environments and versions: a        *)
(* theorem of the contract alone, over variables of its own.                *)

VARIABLES deployed, cached, owed

Promise == INSTANCE CacheContract

PromiseTypeInv ==
    /\ deployed \in [Envs -> Ids]
    /\ cached \in [Envs -> Ids]
    /\ owed \subseteq Envs

\* Whatever is deployed, compiled, flushed or lost, a tree other than the
\* deployed one is compiled only while its flush is owed.
THEOREM AlwaysHonest == Promise!Spec => []Promise!Honest
<1> DEFINE Inv == PromiseTypeInv /\ Promise!Honest
<1> USE DEF PromiseTypeInv, Promise!Ids, Promise!Honest
<1>1. Promise!Init => Inv
  BY DEF Promise!Init
<1>2. Inv /\ [Promise!Next]_(Promise!vars) => Inv'
  <2> SUFFICES ASSUME Inv, [Promise!Next]_(Promise!vars) PROVE Inv'
    OBVIOUS
  <2>1. ASSUME NEW e \in Envs, Promise!Owe(e) \/ Promise!Compile(e) \/ Promise!Settle(e)
        PROVE  Inv'
    BY <2>1 DEF Promise!Owe, Promise!Compile, Promise!Settle
  <2>2. ASSUME NEW e \in Envs, NEW id \in Ids, Promise!Deploy(e, id) PROVE Inv'
    BY <2>2 DEF Promise!Deploy
  <2>3. ASSUME NEW E \in SUBSET Envs, Promise!Expire(E) PROVE Inv'
    BY <2>3 DEF Promise!Expire
  <2>4. CASE Promise!Reboot
    BY <2>4 DEF Promise!Reboot
  <2>5. CASE UNCHANGED Promise!vars
    BY <2>5 DEF Promise!vars
  <2>6. QED
    BY <2>1, <2>2, <2>3, <2>4, <2>5 DEF Promise!Next
<1>3. QED
  BY <1>1, <1>2, PTL DEF Promise!Spec
-----------------------------------------------------------------------------
(* Agent implements CacheContract: every step of a process, of the server   *)
(* or of the machine is a step of the contract or changes nothing of it.    *)

\* What Contract is told is owed.
Owed == {e \in Envs : e \in owedFiles \/ \E p \in Procs : e \in pending[p]}

ContractUntouched == UNCHANGED link /\ UNCHANGED cache /\ Owed' = Owed

\* A process that ends, with nothing pending or with all of it on disk, leaves
\* what is owed as it is.
LEMMA EndKeepsOwed ==
    ASSUME TypeInv, OwedInv, NEW p \in Procs, Forget(p),
           UNCHANGED <<link, cache, owedFiles>>, Overlap => pending[p] = {}
    PROVE  ContractUntouched
<1>1. pending' = [pending EXCEPT ![p] = {}]
  BY DEF Forget
<1>2. pending[p] \subseteq owedFiles
  BY DEF OwedInv, TakingTurns, OnDisk
<1>3. QED
  BY <1>1, <1>2 DEF ContractUntouched, Owed, TypeInv, TypeOK

\* oweFlush owes one environment.
LEMMA OweFlushOwes ==
    ASSUME TypeInv, PuppetServer, NEW p \in Procs, NEW e \in Envs, OweFlush(p, e),
           UNCHANGED <<link, cache>>
    PROVE  Contract!Owe(e)
<1>1. /\ owedFiles' = owedFiles \cup {e}
      /\ pending' = [pending EXCEPT ![p] = @ \cup {e}]
  BY DEF OweFlush
<1>2. Owed' = Owed \cup {e}
  BY <1>1 DEF Owed, TypeInv, TypeOK
<1>3. QED
  BY <1>2 DEF Contract!Owe, Owed

\* A step of a process, seen by the contract.
LEMMA ProcessKeepsContract ==
    ASSUME SafeUse, PuppetServer, TypeInv, OwedInv, NEW p \in Procs, Step(p)
    PROVE  Contract!Next \/ ContractUntouched
<1> USE DEF ContractUntouched
<1>1. CASE Stop(p)
  BY <1>1, EndKeepsOwed DEF Stop, OwedInv, Paid, disk, srv
<1>2. CASE Kill(p) \/ KillInReap(p)
  BY <1>2, EndKeepsOwed DEF Kill, KillInReap, SafeUse, srv
<1>3. CASE \/ Start(p) \/ Fetch(p) \/ Install(p) \/ DownloadFails(p) \/ OweFails(p)
           \/ SwapFails(p) \/ Reap(p) \/ ReapFails(p) \/ Sweep(p) \/ PruneFails(p)
           \/ ListOwed(p) \/ ListOwedFails(p) \/ \E e \in Envs : Sync(p, e)
  <2>1. UNCHANGED <<link, cache, owedFiles, pending>>
    BY <1>3 DEF Start, Fetch, Install, DownloadFails, OweFails, SwapFails, SyncFailed, Reap,
       ReapFails, Sweep, PruneFails, ListOwed, ListOwedFails, Sync, disk, srv
  <2>2. QED
    BY <2>1 DEF Owed
<1>4. CASE Owe(p)
  <2>1. cur[p] \in Envs /\ OweFlush(p, cur[p]) /\ UNCHANGED <<link, cache>>
    BY <1>4 DEF Owe, TypeInv, LoopOK, srv
  <2>2. QED
    BY <2>1, OweFlushOwes DEF Contract!Next
<1>5. ASSUME NEW e \in Envs, PruneOwe(p, e) PROVE Contract!Next
  <2>1. OweFlush(p, e) /\ UNCHANGED <<link, cache>>
    BY <1>5 DEF PruneOwe, srv
  <2>2. QED
    BY <2>1, OweFlushOwes DEF Contract!Next
<1>6. CASE Swap(p) \/ Unlink(p)
  <2>1. cur[p] \in Envs /\ cur[p] \in Owed
    BY <1>6 DEF Swap, Unlink, TypeInv, LoopOK, OwedInv, RecordedFirst, Owed
  <2>2. PICK id \in Ids : link' = [link EXCEPT ![cur[p]] = id]
    BY <1>6, <2>1 DEF Swap, Unlink, TypeInv, TypeOK
  <2>3. UNCHANGED <<cache, owedFiles, pending>>
    BY <1>6 DEF Swap, Unlink, srv
  <2>4. UNCHANGED cache /\ Owed' = Owed
    BY <2>3 DEF Owed
  <2>5. Contract!Deploy(cur[p], id)
    BY <2>1, <2>2, <2>4 DEF Contract!Deploy, Owed
  <2>6. QED
    BY <2>1, <2>5 DEF Contract!Next, Contract!Ids
<1>7. ASSUME NEW e \in Envs, Flush(p, e) PROVE Contract!Next
  <2>1. cache' = [cache EXCEPT ![e] = None] /\ UNCHANGED <<link, owedFiles, pending>>
    BY <1>7 DEF Flush, disk
  <2>2. cache' = [f \in Envs |-> IF f \in {e} THEN None ELSE cache[f]]
    BY <2>1 DEF TypeInv, TypeOK
  <2>3. Owed' = Owed /\ UNCHANGED link
    BY <2>1 DEF Owed
  <2>4. Contract!Expire({e})
    BY <2>2, <2>3 DEF Contract!Expire, Owed
  <2>5. QED
    BY <2>4 DEF Contract!Next
<1>8. ASSUME NEW e \in Envs, FlushFails(p, e) PROVE Contract!Next
  <2>1. /\ cache' \in {cache, [cache EXCEPT ![e] = None]}
        /\ pending' = [pending EXCEPT ![p] = @ \cup {e}]
        /\ owedFiles \subseteq owedFiles' /\ owedFiles' \subseteq owedFiles \cup {e}
        /\ UNCHANGED link
    BY <1>8 DEF FlushFails
  <2>2. Owed' = Owed \cup {e}
    BY <2>1 DEF Owed, TypeInv, TypeOK
  <2>3. CASE cache' = cache
    <3>1. Contract!Owe(e)
      BY <2>1, <2>2, <2>3 DEF Contract!Owe, Owed
    <3>2. QED
      BY <3>1 DEF Contract!Next
  <2>4. CASE cache' = [cache EXCEPT ![e] = None]
    <3>1. cache' = [f \in Envs |-> IF f \in {e} THEN None ELSE cache[f]]
      BY <2>4 DEF TypeInv, TypeOK
    <3>2. Contract!Expire({e})
      BY <2>1, <2>2, <3>1 DEF Contract!Expire, Owed
    <3>3. QED
      BY <3>2 DEF Contract!Next
  <2>5. QED
    BY <2>1, <2>3, <2>4
<1>9. CASE Clear(p)
  <2>0. PICK e \in Envs : e = cur[p]
    BY <1>9 DEF Clear, TypeInv, LoopOK
  <2>1. /\ pc[p] = "clear" /\ UNCHANGED <<link, cache>>
        /\ pending' = [pending EXCEPT ![p] = @ \ {e}]
        /\ owedFiles \ {e} \subseteq owedFiles' /\ owedFiles' \subseteq owedFiles
    BY <1>9, <2>0 DEF Clear, srv
  <2>2. Owed' = Owed \/ Owed' = Owed \ {e}
    BY <2>1 DEF Owed, TypeInv, TypeOK
  <2>3. CASE Owed' # Owed
    <3>1. e \in Owed /\ e \notin Owed' /\ Owed' = Owed \ {e}
      BY <2>2, <2>3
    <3>2. ~Stale(e)
      <4>1. SUFFICES ASSUME Stale(e) PROVE FALSE
        OBVIOUS
      <4>2. PICK q \in Procs : Holds(q, e)
        BY <2>0, <2>1, <4>1 DEF OwedInv, OwedStrongly, Clearing
      <4>3. q # p /\ e \in pending'[q]
        BY <2>0, <2>1, <4>2 DEF Holds, Clearing, TypeInv, TypeOK
      <4>4. QED
        BY <2>1, <3>1, <4>3 DEF Owed
    <3>3. Contract!Settle(e)
      BY <2>1, <3>1, <3>2 DEF Contract!Settle, Owed, Stale
    <3>4. QED
      BY <3>3 DEF Contract!Next
  <2>4. QED
    BY <2>1, <2>3
<1>10. CASE Finish(p)
  <2>1. pc[p] = "flush" /\ todo[p] = {} /\ UNCHANGED <<link, cache, owedFiles>>
    BY <1>10 DEF Finish, disk, srv
  <2>2. CASE p \in Daemons
    BY <1>10, <2>1, <2>2 DEF Finish, Owed
  <2>3. CASE p \notin Daemons
    BY <1>10, <2>1, <2>3, EndKeepsOwed DEF Finish, OwedInv, Paid
  <2>4. QED
    BY <2>2, <2>3
<1>11. QED
  BY <1>1, <1>2, <1>3, <1>4, <1>5, <1>6, <1>7, <1>8, <1>9, <1>10 DEF Step

\* The node keeps the promise of CacheContract where a server caches and the
\* obligation to flush is kept: the same conditions as StaleIsOwed.
THEOREM ContractKept ==
    ASSUME SafeUse, PuppetServer PROVE Spec => KeepsContract
<1>1. Init => Contract!Init
  BY DEF Init, Contract!Init, Nothing
<1>2. TypeInv /\ OwedInv /\ [Next]_vars => [Contract!Next]_(Contract!vars)
  <2> SUFFICES ASSUME TypeInv, OwedInv, [Next]_vars
               PROVE  Contract!Next \/ ContractUntouched
    BY DEF Contract!vars, ContractUntouched, Owed
  <2>1. CASE \/ Tick \/ UNCHANGED vars
             \/ \E e \in Envs, id \in Ids : Publish(e, id)
    BY <2>1 DEF Tick, Publish, vars, disk, srv, proc, ContractUntouched, Owed
  <2>2. ASSUME NEW e \in Envs, Compile(e) PROVE Contract!Next \/ ContractUntouched
    <3>1. UNCHANGED <<link, owedFiles, pending>>
      BY <2>2 DEF Compile, disk, proc
    <3>2. UNCHANGED link /\ Owed' = Owed
      BY <3>1 DEF Owed
    <3>3. CASE cache[e] = None
      <4>1. cache' = [cache EXCEPT ![e] = link[e]]
        BY <2>2, <3>3 DEF Compile
      <4>2. Contract!Compile(e)
        BY <3>2, <3>3, <4>1 DEF Contract!Compile, Owed
      <4>3. QED
        BY <4>2 DEF Contract!Next
    <3>4. CASE cache[e] # None
      BY <2>2, <3>2, <3>4 DEF Compile, ContractUntouched
    <3>5. QED
      BY <3>3, <3>4
  <2>3. CASE ServerRestart
    <3>1. cache' = [e \in Envs |-> None] /\ UNCHANGED <<link, owedFiles, pending>>
      BY <2>3 DEF ServerRestart, Nothing, disk, proc
    <3>2. UNCHANGED link /\ Owed' = Owed
      BY <3>1 DEF Owed
    <3>3. Contract!Expire(Envs)
      BY <3>1, <3>2 DEF Contract!Expire, Owed
    <3>4. QED
      BY <3>3 DEF Contract!Next
  <2>4. CASE Reboot
    <3>1. cache' = [e \in Envs |-> None] /\ UNCHANGED link
      BY <2>4 DEF Reboot, Nothing
    <3>2. Owed' \subseteq Owed
      BY <2>4 DEF Reboot, Owed
    <3>3. Contract!Reboot
      BY <3>1, <3>2 DEF Contract!Reboot, Owed
    <3>4. QED
      BY <3>3 DEF Contract!Next
  <2>5. ASSUME NEW p \in Procs, Step(p) PROVE Contract!Next \/ ContractUntouched
    BY <2>5, ProcessKeepsContract
  <2>6. QED
    BY <2>1, <2>2, <2>3, <2>4, <2>5 DEF Next
<1>3. QED
  BY <1>1, <1>2, TypeInvariant, OwedInvariant, PTL DEF Spec, KeepsContract, Contract!Spec
-----------------------------------------------------------------------------
(* A Once that returns no error.                                            *)

Arrived(p, e) == want[p][e] # None => link[e] = want[p][e]

\* How far p is, as long as it has met no problem: the environments the loop of
\* sync is through with are at their version, prune takes up none of them, and
\* what is stale is still to be flushed.
CleanOf(p) ==
    ~problems[p] =>
      /\ pc[p] \in {"sync", "reap"} => \A e \in Envs \ todo[p] : Arrived(p, e)
      /\ pc[p] \in {"extract", "owe", "swap"} =>
            \A e \in Envs \ (todo[p] \cup {cur[p]}) : Arrived(p, e)
      /\ pc[p] \in {"prune", "unlink", "reapPruned", "flush", "clear"} =>
            \A e \in Envs : Arrived(p, e)
      /\ pc[p] \in {"prune", "unlink", "reapPruned"} => \A e \in todo[p] : want[p][e] = None
      /\ pc[p] = "unlink" => want[p][cur[p]] = None
      /\ pc[p] \in {"flush", "clear"} => \A e \in Envs : Stale(e) => e \in todo[p]

CleanInv == \A p \in Procs : CleanOf(p)

\* Where processes take turns, a step of one has to keep only its own part.
LEMMA OthersRest ==
    ASSUME ~Overlap, OwedInv, NEW p \in Procs, pc[p] # "off",
           \A q \in Procs \ {p} : pc'[q] = pc[q],
           CleanOf(p)'
    PROVE  CleanInv'
<1>1. ASSUME NEW q \in Procs \ {p} PROVE CleanOf(q)'
  <2>1. pc'[q] = "off"
    BY DEF OwedInv, TakingTurns, Alone
  <2>2. QED
    BY <2>1 DEF CleanOf
<1>2. QED
  BY <1>1 DEF CleanInv

\* A step of a process.
LEMMA ProcessStaysClean ==
    ASSUME ~Overlap, TypeInv, OwedInv, CleanInv, NEW p \in Procs, Step(p)
    PROVE  CleanInv'
<1> USE DEF CleanOf, Arrived
<1>0. CleanOf(p) /\ TypeOK
  BY DEF CleanInv, TypeInv
<1>1. CASE Start(p)
  <2>1. \A q \in Procs : pc[q] = "off"
    BY <1>1 DEF Start
  <2>2. \A q \in Procs : pc'[q] \in {"off", "idle"}
    BY <1>0, <1>1, <2>1 DEF Start, TypeOK
  <2>3. QED
    BY <2>2 DEF CleanInv
<1> SUFFICES ASSUME ~Start(p), pc[p] # "off", \A q \in Procs \ {p} : pc'[q] = pc[q]
             PROVE  CleanOf(p)'
  <2>1. CASE ~Start(p)
    <3>1. pc[p] # "off"
      BY <2>1 DEF Step, Start, Stop, Kill, Fetch, Sync, Install, DownloadFails, Owe, OweFails,
         Swap, SwapFails, Reap, ReapFails, KillInReap, AtReap, Sweep, PruneOwe, Unlink, PruneFails,
         ListOwed, ListOwedFails, Flush, FlushFails, Clear, Finish
    <3>2. UNCHANGED pc \/ \E w \in Where : pc' = [pc EXCEPT ![p] = w]
      BY <2>1 DEF Step, Stop, Kill, Fetch, Sync, Install, DownloadFails, Owe, OweFails,
         Swap, SwapFails, SyncFailed, Reap, ReapFails, AfterReap, KillInReap, Sweep, PruneOwe,
         Unlink, PruneFails, ListOwed, ListOwedFails, Flush, FlushFails, Clear, Finish,
         Goto, Forget
    <3>3. \A q \in Procs \ {p} : pc'[q] = pc[q]
      BY <1>0, <3>2 DEF TypeOK
    <3>4. QED
      BY <2>1, <3>1, <3>3, OthersRest
  <2>2. QED
    BY <1>1, <2>1
<1>2. CASE Stop(p) \/ Kill(p) \/ KillInReap(p)
  <2>1. pc'[p] = "off"
    BY <1>0, <1>2 DEF Stop, Kill, KillInReap, Forget, TypeOK
  <2>2. QED
    BY <2>1
<1>3. CASE Fetch(p)
  <2>1. /\ pc'[p] = "sync" /\ want'[p] = advertised /\ todo'[p] = Held(advertised)
    BY <1>0, <1>3 DEF Fetch, Goto, TypeOK
  <2>2. QED
    BY <2>1 DEF Held
<1>4. ASSUME NEW e \in Envs, Sync(p, e) PROVE CleanOf(p)'
  <2>1. /\ pc[p] = "sync" /\ UNCHANGED <<link, want, problems>>
        /\ todo'[p] = todo[p] \ {e} /\ cur'[p] = e
        /\ \/ pc'[p] = "reap" /\ link[e] = want[p][e]
           \/ pc'[p] \in {"owe", "extract"}
    BY <1>0, <1>4 DEF Sync, Goto, TypeOK, disk
  <2>2. QED
    BY <1>0, <2>1
<1>5. CASE Install(p) \/ Owe(p)
  <2>1. /\ pc[p] \in {"extract", "owe"} /\ pc'[p] \in {"owe", "swap"}
        /\ UNCHANGED <<link, want, todo, cur, problems>>
    BY <1>0, <1>5 DEF Install, Owe, Goto, TypeOK
  <2>2. QED
    BY <1>0, <2>1
<1>6. CASE DownloadFails(p) \/ OweFails(p) \/ SwapFails(p)
  <2>1. problems'[p] = TRUE
    BY <1>0, <1>6 DEF DownloadFails, OweFails, SwapFails, SyncFailed, TypeOK
  <2>2. QED
    BY <2>1
<1>7. CASE Swap(p)
  <2>1. /\ pc[p] = "swap" /\ pc'[p] = "reap" /\ cur[p] \in Envs
        /\ link' = [link EXCEPT ![cur[p]] = want[p][cur[p]]]
        /\ UNCHANGED <<want, todo, problems>>
    BY <1>0, <1>7 DEF Swap, Goto, TypeOK, TypeInv, LoopOK
  <2>2. QED
    BY <1>0, <2>1 DEF TypeOK
<1>8. CASE Reap(p) \/ ReapFails(p)
  <2>1. /\ \/ pc[p] = "reap" /\ pc'[p] = "sync"
           \/ pc[p] = "reapPruned" /\ pc'[p] = "prune"
        /\ UNCHANGED <<link, want, todo, problems>>
    BY <1>0, <1>8 DEF Reap, ReapFails, AtReap, AfterReap, Goto, TypeOK
  <2>2. QED
    BY <1>0, <2>1
<1>9. CASE Sweep(p)
  <2>1. /\ pc[p] = "sync" /\ todo[p] = {} /\ pc'[p] = "prune"
        /\ UNCHANGED <<link, want, problems>>
        /\ todo'[p] \subseteq Held(link) \ Held(want[p])
    BY <1>0, <1>9 DEF Sweep, Goto, TypeOK
  <2>2. QED
    BY <1>0, <2>1 DEF Held
<1>10. ASSUME NEW e \in Envs, PruneOwe(p, e) PROVE CleanOf(p)'
  <2>1. /\ pc[p] = "prune" /\ pc'[p] = "unlink" /\ e \in todo[p]
        /\ todo'[p] = todo[p] \ {e} /\ cur'[p] = e
        /\ UNCHANGED <<link, want, problems>>
    BY <1>0, <1>10 DEF PruneOwe, Goto, TypeOK
  <2>2. QED
    BY <1>0, <2>1
<1>11. CASE Unlink(p)
  <2>1. /\ pc[p] = "unlink" /\ pc'[p] = "reapPruned" /\ cur[p] \in Envs
        /\ link' = [link EXCEPT ![cur[p]] = None]
        /\ UNCHANGED <<want, todo, problems>>
    BY <1>0, <1>11 DEF Unlink, Goto, TypeOK, TypeInv, LoopOK
  <2>2. QED
    BY <1>0, <2>1 DEF TypeOK
<1>12. CASE PruneFails(p)
  <2>1. /\ pc[p] \in {"prune", "unlink"} /\ pc'[p] = "prune"
        /\ todo'[p] \subseteq todo[p] /\ UNCHANGED <<link, want, problems>>
    BY <1>0, <1>12 DEF PruneFails, Goto, TypeOK, disk
  <2>2. QED
    BY <1>0, <2>1
<1>13. CASE ListOwed(p)
  <2>1. /\ pc[p] = "prune" /\ pc'[p] = "flush" /\ UNCHANGED <<link, cache, want, problems>>
        /\ todo'[p] = IF PuppetServer THEN pending[p] \cup owedFiles ELSE {}
    BY <1>0, <1>13 DEF ListOwed, Goto, TypeOK, disk, srv
  <2>2. ASSUME NEW e \in Envs, Stale(e) PROVE e \in todo'[p]
    <3>1. PuppetServer
      BY <2>2 DEF OwedInv, NoServerNoDebt, Stale
    <3>2. \A q \in Procs : q # p => pending[q] = {}
      BY DEF OwedInv, TakingTurns, Alone, Off
    <3>3. e \in owedFiles \/ e \in pending[p]
      BY <2>2, <3>2 DEF OwedInv, OwedStrongly, Holds
    <3>4. QED
      BY <2>1, <3>1, <3>3
  <2>3. QED
    BY <1>0, <2>1, <2>2 DEF Stale
<1>14. CASE ListOwedFails(p) \/ \E e \in Envs : FlushFails(p, e)
  <2>1. problems'[p] = TRUE
    BY <1>0, <1>14 DEF ListOwedFails, FlushFails, TypeOK
  <2>2. QED
    BY <2>1
<1>15. ASSUME NEW e \in Envs, Flush(p, e) PROVE CleanOf(p)'
  <2>1. /\ pc[p] = "flush" /\ pc'[p] = "clear" /\ todo'[p] = todo[p] \ {e}
        /\ cache' = [cache EXCEPT ![e] = None] /\ UNCHANGED <<link, want, problems>>
    BY <1>0, <1>15 DEF Flush, Goto, TypeOK, disk
  <2>2. QED
    BY <1>0, <2>1 DEF Stale, TypeOK
<1>16. CASE Clear(p)
  <2>1. /\ pc[p] = "clear" /\ pc'[p] = "flush"
        /\ UNCHANGED <<link, cache, want, todo, problems>>
    BY <1>0, <1>16 DEF Clear, Goto, TypeOK, srv
  <2>2. QED
    BY <1>0, <2>1 DEF Stale
<1>17. CASE Finish(p)
  <2>1. pc'[p] \in {"idle", "off"}
    BY <1>0, <1>17 DEF Finish, Forget, Goto, TypeOK
  <2>2. QED
    BY <2>1
<1>18. QED
  BY <1>2, <1>3, <1>4, <1>5, <1>6, <1>7, <1>8, <1>9, <1>10, <1>11, <1>12, <1>13, <1>14,
     <1>15, <1>16, <1>17 DEF Step

\* Where processes take turns, a Once that returns no error has brought every
\* environment it fetched to its version and left no stale cache: its own, or
\* what any process before it left undone.
THEOREM CleanRunArrives ==
    ASSUME ~Overlap PROVE Spec => CleanRunConverges
<1>0. SafeUse
  BY DEF SafeUse
<1>1. Init => CleanInv
  BY DEF Init, CleanInv, CleanOf
<1>2. TypeInv /\ OwedInv /\ CleanInv /\ [Next]_vars => CleanInv'
  <2> SUFFICES ASSUME TypeInv, OwedInv, CleanInv, [Next]_vars PROVE CleanInv'
    OBVIOUS
  <2> USE DEF CleanInv, CleanOf, Arrived, Stale
  <2>1. CASE Tick \/ UNCHANGED vars \/ \E e \in Envs, id \in Ids : Publish(e, id)
    BY <2>1 DEF Tick, Publish, vars, disk, srv, proc
  <2>2. ASSUME NEW e \in Envs, Compile(e) PROVE CleanInv'
    <3>1. /\ UNCHANGED <<link, want, pc, todo, cur, problems>>
          /\ cache' = cache \/ cache' = [cache EXCEPT ![e] = link[e]]
      BY <2>2 DEF Compile, disk, proc
    <3>2. \A f \in Envs : Stale(f)' => Stale(f)
      BY <3>1 DEF TypeInv, TypeOK
    <3>3. QED
      BY <3>1, <3>2
  <2>3. CASE ServerRestart
    BY <2>3 DEF ServerRestart, Nothing, disk, proc
  <2>4. CASE Reboot
    BY <2>4 DEF Reboot
  <2>5. CASE \E p \in Procs : Step(p)
    BY <2>5, ProcessStaysClean
  <2>6. QED
    BY <2>1, <2>2, <2>3, <2>4, <2>5 DEF Next
<1>3. CleanInv /\ TypeInv =>
        [\A p \in Procs : Finish(p) /\ ~problems[p] =>
            \A e \in Held(want[p]) : link[e] = want[p][e] /\ ~Stale(e)]_vars
  BY DEF CleanInv, CleanOf, Arrived, Finish, Held
<1>4. QED
  BY <1>0, <1>1, <1>2, <1>3, TypeInvariant, OwedInvariant, PTL DEF Spec, CleanRunConverges
=============================================================================
