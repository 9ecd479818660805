------------------------------- MODULE Agent -------------------------------
(***************************************************************************)
(* The compiler side of codavox: internal/agent, with the paths of         *)
(* internal/layout.  One node runs one or more agent processes (the        *)
(* codavox-agent service and `codavox agent --once`), an OpenVox Server    *)
(* that caches environments, and a disk both share:                        *)
(*                                                                         *)
(*   environments/<env>        a symlink, `link`                           *)
(*   versions/<env>_<code_id>  unpacked trees: `present`, `torn`, `age`    *)
(*   versions/.<...>           extractions: `live`, `tempAge`, `abandoned` *)
(*   flush-owed/<env>          `owedFiles`                                 *)
(*                                                                         *)
(* A process runs Once: fetch the advertised versions, sync and reap each  *)
(* environment, sweep old extractions, prune, flush what is owed.  Steps   *)
(* of different processes, of the server and of the publisher interleave   *)
(* between any two accesses to shared state.  Only the last use of time    *)
(* matters to the code (an mtime against MinAge), so every directory has   *)
(* an age, counted in ticks up to AgeCap.                                  *)
(***************************************************************************)
EXTENDS Naturals, FiniteSets

CONSTANTS
    Procs,           \* agent processes of this node
    Daemons,         \* those that loop (Run); the others run Once and exit
    Overlap,         \* may two of them run at the same time?
    Envs, CodeIds,
    None,            \* no link, nothing cached, not advertised
    Prefixed,        \* <<e, f>>: a version directory of f starts with "e_"
    Keep, MinAge,    \* Config.Keep and Config.MinAge, as New leaves them
    AgeCap,          \* ages are counted up to here; 0 stops time
    DownloadTimeout, \* the http.Client's Timeout, in ticks
    Prune,           \* Config.Prune
    PuppetServer,    \* Config.PuppetServer is set: the server caches, the agent flushes
    Faults           \* what may go wrong on this node: "disk", "flush", "kill"

Version == Envs \X CodeIds
Ids     == CodeIds \cup {None}
Ages    == 0..AgeCap

ASSUME ConstantsAssumption ==
    /\ Daemons \subseteq Procs
    /\ None \notin CodeIds
    /\ Prefixed \subseteq Envs \X Envs /\ \A e \in Envs : <<e, e>> \in Prefixed
    /\ Keep \in Nat \ {0} /\ MinAge \in Nat \ {0}
    /\ AgeCap \in Nat /\ DownloadTimeout \in Nat
    /\ Prune \in BOOLEAN /\ PuppetServer \in BOOLEAN /\ Overlap \in BOOLEAN
    /\ Faults \subseteq {"disk", "flush", "kill"}

VARIABLES
    link,            \* link[e]: the code_id the environment link names, or None
    present,         \* the version directories on disk
    torn,            \* those that hold only part of their version
    age,             \* age[v]: ticks since the mtime of v's directory
    abandoned,       \* ages of the extractions whose process is gone
    owedFiles,       \* the environments with a file in flush-owed
    cache,           \* cache[e]: the version the server compiles without reading the link
    stamped,         \* stamped[v]: ticks since a catalog was last stamped with v
    advertised,      \* what the publisher advertises
    pc,              \* where each process stands in Once
    want,            \* the environments it fetched
    todo,            \* the environments its current loop has left
    cur,             \* the environment its current loop is at
    problems,        \* has this Once met something it must return as an error?
    pending,         \* Agent.pendingFlush
    live,            \* the processes whose extraction directory is on disk
    tempAge          \* its age

disk == <<link, present, torn, age, abandoned, owedFiles>>
srv  == <<cache, stamped>>
proc == <<pc, want, todo, cur, problems, pending, live, tempAge>>
vars == <<disk, srv, advertised, proc>>

Where == {"off", "idle", "sync", "extract", "owe", "swap", "reap",
          "prune", "unlink", "reapPruned", "flush", "clear"}

\* What the disk, the server, the publisher's answer and each process may hold.
TypeOK ==
    /\ link \in [Envs -> Ids]
    /\ present \subseteq Version
    /\ torn \subseteq present
    /\ age \in [Version -> Ages]
    /\ abandoned \subseteq Ages
    /\ owedFiles \subseteq Envs
    /\ cache \in [Envs -> Ids]
    /\ stamped \in [Version -> Ages]
    /\ advertised \in [Envs -> Ids]
    /\ pc \in [Procs -> Where]
    /\ want \in [Procs -> [Envs -> Ids]]
    /\ todo \in [Procs -> SUBSET Envs]
    /\ cur \in [Procs -> Envs \cup {None}]
    /\ problems \in [Procs -> BOOLEAN]
    /\ pending \in [Procs -> SUBSET Envs]
    /\ live \subseteq Procs
    /\ tempAge \in [Procs -> Ages]

Nothing == [e \in Envs |-> None]

Init ==
    /\ link = Nothing /\ present = {} /\ torn = {}
    /\ age = [v \in Version |-> 0]
    /\ abandoned = {} /\ owedFiles = {}
    /\ cache = Nothing
    /\ stamped = [v \in Version |-> AgeCap]
    /\ advertised = Nothing
    /\ pc = [p \in Procs |-> "off"]
    /\ want = [p \in Procs |-> Nothing]
    /\ todo = [p \in Procs |-> {}]
    /\ cur = [p \in Procs |-> None]
    /\ problems = [p \in Procs |-> FALSE]
    /\ pending = [p \in Procs |-> {}]
    /\ live = {} /\ tempAge = [p \in Procs |-> 0]

-----------------------------------------------------------------------------
(* The node around the agent.                                              *)

Older(a) == IF a < AgeCap THEN a + 1 ELSE AgeCap

\* Time passes.  A download is over DownloadTimeout after it began.
Tick ==
    /\ AgeCap > 0
    /\ \A p \in live : tempAge[p] < DownloadTimeout
    /\ age' = [v \in Version |-> IF v \in present THEN Older(age[v]) ELSE age[v]]
    /\ stamped' = [v \in Version |-> Older(stamped[v])]
    /\ abandoned' = {Older(a) : a \in abandoned}
    /\ tempAge' = [p \in Procs |-> IF p \in live THEN Older(tempAge[p]) ELSE tempAge[p]]
    /\ UNCHANGED <<link, present, torn, owedFiles, cache, advertised,
                   pc, want, todo, cur, problems, pending, live>>

\* The publisher advertises another version of an environment, or drops it.
Publish(e, id) ==
    /\ id # advertised[e]
    /\ advertised' = [advertised EXCEPT ![e] = id]
    /\ UNCHANGED <<disk, srv, proc>>

\* A catalog is compiled from the cached tree, else from the tree behind the
\* link, which the server then holds; code-id reads the link and stamps it.
Compile(e) ==
    /\ link[e] # None
    /\ cache[e] # None \/ <<e, link[e]>> \in present
    /\ cache' = IF cache[e] = None /\ PuppetServer
                THEN [cache EXCEPT ![e] = link[e]] ELSE cache
    /\ stamped' = [stamped EXCEPT ![<<e, link[e]>>] = 0]
    /\ UNCHANGED <<disk, advertised, proc>>

\* OpenVox Server restarts: its cache is empty.
ServerRestart ==
    /\ cache # Nothing
    /\ cache' = Nothing
    /\ UNCHANGED <<disk, stamped, advertised, proc>>

-----------------------------------------------------------------------------
(* Starting and ending a process.                                          *)

\* What a process that is not running holds.
Forget(p) ==
    /\ pc' = [pc EXCEPT ![p] = "off"]
    /\ want' = [want EXCEPT ![p] = Nothing]
    /\ todo' = [todo EXCEPT ![p] = {}]
    /\ cur' = [cur EXCEPT ![p] = None]
    /\ problems' = [problems EXCEPT ![p] = FALSE]
    /\ pending' = [pending EXCEPT ![p] = {}]
    /\ live' = live \ {p}
    /\ tempAge' = [tempAge EXCEPT ![p] = 0]

\* agentRun builds a new Agent: nothing is pending in memory.
Start(p) ==
    /\ pc[p] = "off"
    /\ Overlap \/ \A q \in Procs : pc[q] = "off"
    /\ pc' = [pc EXCEPT ![p] = "idle"]
    /\ UNCHANGED <<disk, srv, advertised, want, todo, cur, problems, pending, live, tempAge>>

\* The service is stopped between two polls, or a --once could not fetch.
Stop(p) ==
    /\ pc[p] = "idle"
    /\ Forget(p)
    /\ UNCHANGED <<disk, srv, advertised>>

\* The process dies anywhere: no deferred cleanup runs, its extraction stays.
Kill(p) ==
    /\ "kill" \in Faults
    /\ pc[p] \notin {"off", "idle"}
    /\ abandoned' = IF p \in live THEN abandoned \cup {tempAge[p]} ELSE abandoned
    /\ Forget(p)
    /\ UNCHANGED <<link, present, torn, age, owedFiles, srv, advertised>>

\* The machine goes down, taking the server's cache with it.  The files of
\* flush-owed are not fsynced, so any of them may be gone.
Reboot ==
    /\ "kill" \in Faults
    /\ cache' = Nothing
    /\ owedFiles' \in SUBSET owedFiles
    /\ abandoned' = abandoned \cup {tempAge[p] : p \in live}
    /\ pc' = [p \in Procs |-> "off"]
    /\ want' = [p \in Procs |-> Nothing]
    /\ todo' = [p \in Procs |-> {}]
    /\ cur' = [p \in Procs |-> None]
    /\ problems' = [p \in Procs |-> FALSE]
    /\ pending' = [p \in Procs |-> {}]
    /\ live' = {} /\ tempAge' = [p \in Procs |-> 0]
    /\ UNCHANGED <<link, present, torn, age, stamped, advertised>>

-----------------------------------------------------------------------------
(* Once: fetch and sync.                                                   *)

\* A process leaves its step for `next`; the rest of `proc` is unchanged
\* except what the action says of it.
Goto(p, next) == pc' = [pc EXCEPT ![p] = next]

\* The environments a fetched or advertised map holds.
Held(map) == {e \in Envs : map[e] # None}

\* fetchEnvironments answered: the loop over want starts.
Fetch(p) ==
    /\ pc[p] = "idle"
    /\ Goto(p, "sync")
    /\ want' = [want EXCEPT ![p] = advertised]
    /\ todo' = [todo EXCEPT ![p] = Held(advertised)]
    /\ UNCHANGED <<disk, srv, advertised, cur, problems, pending, live, tempAge>>

\* The head of sync: an environment already there goes to its reap, one whose
\* version is on disk to its swap, any other to its download.
Sync(p, e) ==
    /\ pc[p] = "sync" /\ e \in todo[p]
    /\ todo' = [todo EXCEPT ![p] = @ \ {e}]
    /\ cur' = [cur EXCEPT ![p] = e]
    /\ \/ /\ link[e] = want[p][e]
          /\ Goto(p, "reap")
          /\ UNCHANGED <<live, tempAge>>
       \/ /\ link[e] # want[p][e]
          /\ <<e, want[p][e]>> \in present
          /\ Goto(p, "owe")
          /\ UNCHANGED <<live, tempAge>>
       \/ /\ link[e] # want[p][e]
          /\ <<e, want[p][e]>> \notin present
          /\ Goto(p, "extract")
          /\ live' = live \cup {p}
          /\ tempAge' = [tempAge EXCEPT ![p] = 0]
    /\ UNCHANGED <<disk, srv, advertised, want, problems, pending>>

\* One environment failed: the loop goes on with the next, without a reap.
SyncFailed(p) ==
    /\ Goto(p, "sync")
    /\ cur' = [cur EXCEPT ![p] = None]
    /\ problems' = [problems EXCEPT ![p] = TRUE]
    /\ UNCHANGED <<want, todo, pending>>

\* The extraction verified and is renamed into place, where another process
\* may have been first.  The rename keeps the directory's mtime.
Install(p) ==
    LET v == <<cur[p], want[p][cur[p]]>> IN
    /\ pc[p] = "extract"
    /\ p \in live \/ v \in present
    /\ present' = present \cup {v}
    /\ age' = IF v \in present THEN age ELSE [age EXCEPT ![v] = tempAge[p]]
    /\ live' = live \ {p}
    /\ tempAge' = [tempAge EXCEPT ![p] = 0]
    /\ Goto(p, "owe")
    /\ UNCHANGED <<link, torn, abandoned, owedFiles, srv, advertised,
                   want, todo, cur, problems, pending>>

\* The artifact is not served, stops short, or is not what its code_id names.
DownloadFails(p) ==
    /\ pc[p] = "extract"
    /\ live' = live \ {p}
    /\ tempAge' = [tempAge EXCEPT ![p] = 0]
    /\ SyncFailed(p)
    /\ UNCHANGED <<disk, srv, advertised>>

\* Mutants of OweFlush: without the file, and without the entry.
OweFlushInMemory(p, e) ==
    /\ pending' = [pending EXCEPT ![p] = IF PuppetServer THEN @ \cup {e} ELSE @]
    /\ UNCHANGED owedFiles

OweFlushOnDisk(p, e) ==
    /\ owedFiles' = IF PuppetServer THEN owedFiles \cup {e} ELSE owedFiles
    /\ UNCHANGED pending

\* oweFlush: the file first, then the entry in memory.
OweFlush(p, e) ==
    IF PuppetServer
    THEN /\ owedFiles' = owedFiles \cup {e}
         /\ pending' = [pending EXCEPT ![p] = @ \cup {e}]
    ELSE UNCHANGED <<owedFiles, pending>>

Owe(p) ==
    /\ pc[p] = "owe"
    /\ OweFlush(p, cur[p])
    /\ Goto(p, "swap")
    /\ UNCHANGED <<link, present, torn, age, abandoned, srv, advertised,
                   want, todo, cur, problems, live, tempAge>>

\* A flush that cannot be recorded: the link must not move.
OweFails(p) ==
    /\ "disk" \in Faults /\ PuppetServer
    /\ pc[p] = "owe"
    /\ SyncFailed(p)
    /\ UNCHANGED <<disk, srv, advertised, live, tempAge>>

\* rename(2) repoints the link; nothing checks that the directory is still there.
Swap(p) ==
    /\ pc[p] = "swap"
    /\ link' = [link EXCEPT ![cur[p]] = want[p][cur[p]]]
    /\ Goto(p, "reap")
    /\ UNCHANGED <<present, torn, age, abandoned, owedFiles, srv, advertised,
                   want, todo, cur, problems, pending, live, tempAge>>

SwapFails(p) ==
    /\ "disk" \in Faults
    /\ pc[p] = "swap"
    /\ SyncFailed(p)
    /\ UNCHANGED <<disk, srv, advertised, live, tempAge>>

-----------------------------------------------------------------------------
(* Reaping.                                                                *)

\* A mutant of Candidates: the current version is not skipped.
CandidatesWithCurrent(e, current) == {v \in present : <<e, v[1]>> \in Prefixed}

\* What reapVersions looks at: the name of the directory against the prefix.
Candidates(e, current) ==
    {v \in present : <<e, v[1]>> \in Prefixed /\ v # <<e, current>>}

\* A mutant of Newest: sorted the other way.
Oldest(K, C, keep) ==
    /\ K \subseteq C
    /\ Cardinality(K) = IF keep < Cardinality(C) THEN keep ELSE Cardinality(C)
    /\ \A k \in K, c \in C \ K : age[k] >= age[c]

\* K is the newest `keep` of C; sort.Slice leaves the order of equals open.
Newest(K, C, keep) ==
    /\ K \subseteq C
    /\ Cardinality(K) = IF keep < Cardinality(C) THEN keep ELSE Cardinality(C)
    /\ \A k \in K, c \in C \ K : age[k] <= age[c]

\* The sets of directories reapVersions(e, current, keep) may set out to remove.
Doomed(e, current, keep) ==
    LET C == Candidates(e, current) IN
    {{v \in C \ K : age[v] >= MinAge} : K \in {K \in SUBSET C : Newest(K, C, keep)}}

\* A mutant of Remove: what is torn stays listed.
RemoveSome(R) ==
    /\ present' = present \ R
    /\ age' = [v \in Version |-> IF v \in R THEN 0 ELSE age[v]]
    /\ UNCHANGED torn

\* os.RemoveAll of every directory of R.
Remove(R) ==
    /\ present' = present \ R
    /\ torn' = torn \ R
    /\ age' = [v \in Version |-> IF v \in R THEN 0 ELSE age[v]]

\* The removals of D, newest first, stop after those of R, and perhaps inside
\* the next one, which then lost some of its entries and has a new mtime.
RemovePartly(D) ==
    \E R \in SUBSET D : \E T \in {{}} \cup {{v} : v \in D \ R} :
      /\ \A v \in R \cup T, w \in D \ (R \cup T) : age[v] <= age[w]
      /\ \A v \in R, w \in T : age[v] <= age[w]
      /\ present' = present \ R
      /\ torn' = (torn \ R) \cup T
      /\ age' = [v \in Version |-> IF v \in R \cup T THEN 0 ELSE age[v]]

\* The arguments of the reap a process is at, and where it goes on.
ReapArgs(p) ==
    IF pc[p] = "reap" THEN Doomed(cur[p], want[p][cur[p]], Keep)
                      ELSE Doomed(cur[p], None, 0)

AtReap(p)    == pc[p] \in {"reap", "reapPruned"}
AfterReap(p) == Goto(p, IF pc[p] = "reap" THEN "sync" ELSE "prune")

Reap(p) ==
    /\ AtReap(p)
    /\ \E D \in ReapArgs(p) : Remove(D)
    /\ AfterReap(p)
    /\ cur' = [cur EXCEPT ![p] = None]
    /\ UNCHANGED <<link, abandoned, owedFiles, srv, advertised,
                   want, todo, problems, pending, live, tempAge>>

\* The directory cannot be read or a removal fails: reapVersions returns, and
\* its caller only logs it.
ReapFails(p) ==
    /\ "disk" \in Faults
    /\ AtReap(p)
    /\ \E D \in ReapArgs(p) : RemovePartly(D)
    /\ AfterReap(p)
    /\ cur' = [cur EXCEPT ![p] = None]
    /\ UNCHANGED <<link, abandoned, owedFiles, srv, advertised,
                   want, todo, problems, pending, live, tempAge>>

\* The process dies inside a removal.
KillInReap(p) ==
    /\ "kill" \in Faults
    /\ AtReap(p)
    /\ \E D \in ReapArgs(p) : RemovePartly(D)
    /\ Forget(p)
    /\ UNCHANGED <<link, abandoned, owedFiles, srv, advertised>>

\* A mutant of Sweep: every dot-prefixed directory goes, whatever its age.
SweepAll(p) ==
    /\ pc[p] = "sync" /\ todo[p] = {}
    /\ abandoned' = {} /\ live' = {}
    /\ tempAge' = [q \in Procs |-> 0]
    /\ todo' = [todo EXCEPT ![p] = IF Prune /\ Held(want[p]) # {}
                                   THEN Held(link) \ Held(want[p]) ELSE {}]
    /\ Goto(p, "prune")
    /\ UNCHANGED <<link, present, torn, age, owedFiles, srv, advertised,
                   want, cur, problems, pending>>

\* reapStaleExtractions, by age alone and whoever owns the directory; then the
\* environments prune will remove, none when nothing is advertised.
Sweep(p) ==
    /\ pc[p] = "sync" /\ todo[p] = {}
    /\ abandoned' = {a \in abandoned : a < MinAge}
    /\ live' = {q \in live : tempAge[q] < MinAge}
    /\ tempAge' = [q \in Procs |-> IF q \in live' THEN tempAge[q] ELSE 0]
    /\ todo' = [todo EXCEPT ![p] = IF Prune /\ Held(want[p]) # {}
                                   THEN Held(link) \ Held(want[p]) ELSE {}]
    /\ Goto(p, "prune")
    /\ UNCHANGED <<link, present, torn, age, owedFiles, srv, advertised,
                   want, cur, problems, pending>>

-----------------------------------------------------------------------------
(* Pruning.                                                                *)

\* A mutant of PruneOwe: only a swap owes a flush.
PruneUnowed(p, e) ==
    /\ pc[p] = "prune" /\ e \in todo[p]
    /\ todo' = [todo EXCEPT ![p] = @ \ {e}]
    /\ cur' = [cur EXCEPT ![p] = e]
    /\ Goto(p, "unlink")
    /\ UNCHANGED <<disk, srv, advertised, want, problems, pending, live, tempAge>>

\* prune takes up the next environment: its flush is owed before its link goes.
PruneOwe(p, e) ==
    /\ pc[p] = "prune" /\ e \in todo[p]
    /\ todo' = [todo EXCEPT ![p] = @ \ {e}]
    /\ cur' = [cur EXCEPT ![p] = e]
    /\ OweFlush(p, e)
    /\ Goto(p, "unlink")
    /\ UNCHANGED <<link, present, torn, age, abandoned, srv, advertised,
                   want, problems, live, tempAge>>

\* pruneEnvironment: the link goes first, the versions by age.
Unlink(p) ==
    /\ pc[p] = "unlink"
    /\ link' = [link EXCEPT ![cur[p]] = None]
    /\ Goto(p, "reapPruned")
    /\ UNCHANGED <<present, torn, age, abandoned, owedFiles, srv, advertised,
                   want, todo, cur, problems, pending, live, tempAge>>

\* The record or the link's removal fails: logged, and on to the next.
PruneFails(p) ==
    /\ "disk" \in Faults
    /\ \/ /\ pc[p] = "prune" /\ PuppetServer
          /\ \E e \in todo[p] : todo' = [todo EXCEPT ![p] = @ \ {e}]
       \/ pc[p] = "unlink" /\ UNCHANGED todo
    /\ Goto(p, "prune")
    /\ cur' = [cur EXCEPT ![p] = None]
    /\ UNCHANGED <<disk, srv, advertised, want, problems, pending, live, tempAge>>

-----------------------------------------------------------------------------
(* Flushing.                                                               *)

\* A mutant of ListOwed: the files are never read.
ListOwedInMemory(p) ==
    /\ pc[p] = "prune" /\ todo[p] = {}
    /\ Goto(p, "flush")
    /\ todo' = [todo EXCEPT ![p] = pending[p]]
    /\ UNCHANGED <<disk, srv, advertised, want, cur, problems, pending, live, tempAge>>

\* flushPending gathers what memory and disk say is owed.
ListOwed(p) ==
    /\ pc[p] = "prune" /\ todo[p] = {}
    /\ Goto(p, "flush")
    /\ todo' = [todo EXCEPT ![p] = IF PuppetServer THEN pending[p] \cup owedFiles ELSE {}]
    /\ UNCHANGED <<disk, srv, advertised, want, cur, problems, pending, live, tempAge>>

\* An unreadable flush-owed leaves what memory says, and is an error of this Once.
ListOwedFails(p) ==
    /\ "disk" \in Faults /\ PuppetServer
    /\ pc[p] = "prune" /\ todo[p] = {}
    /\ Goto(p, "flush")
    /\ todo' = [todo EXCEPT ![p] = pending[p]]
    /\ problems' = [problems EXCEPT ![p] = TRUE]
    /\ UNCHANGED <<disk, srv, advertised, want, cur, pending, live, tempAge>>

\* The server expires the environment and answers 204.
Flush(p, e) ==
    /\ pc[p] = "flush" /\ e \in todo[p]
    /\ cache' = [cache EXCEPT ![e] = None]
    /\ todo' = [todo EXCEPT ![p] = @ \ {e}]
    /\ cur' = [cur EXCEPT ![p] = e]
    /\ Goto(p, "clear")
    /\ UNCHANGED <<disk, stamped, advertised, want, problems, pending, live, tempAge>>

\* A mutant of FlushFails: the record is cleared whatever the answer.
FlushFailsForgets(p, e) ==
    /\ "flush" \in Faults
    /\ pc[p] = "flush" /\ e \in todo[p]
    /\ todo' = [todo EXCEPT ![p] = @ \ {e}]
    /\ pending' = [pending EXCEPT ![p] = @ \ {e}]
    /\ owedFiles' = owedFiles \ {e}
    /\ problems' = [problems EXCEPT ![p] = TRUE]
    /\ UNCHANGED <<link, present, torn, age, abandoned, srv, advertised,
                   pc, want, cur, live, tempAge>>

\* Any other answer, or none, whatever the server did: still owed, and written
\* back to disk if the disk allows.
FlushFails(p, e) ==
    /\ "flush" \in Faults
    /\ pc[p] = "flush" /\ e \in todo[p]
    /\ cache' \in {cache, [cache EXCEPT ![e] = None]}
    /\ todo' = [todo EXCEPT ![p] = @ \ {e}]
    /\ pending' = [pending EXCEPT ![p] = @ \cup {e}]
    /\ \/ owedFiles' = owedFiles \cup {e}
       \/ "disk" \in Faults /\ UNCHANGED owedFiles
    /\ problems' = [problems EXCEPT ![p] = TRUE]
    /\ UNCHANGED <<link, present, torn, age, abandoned, stamped, advertised,
                   pc, want, cur, live, tempAge>>

\* After the 204: the entry in memory goes, then the file if it can.
Clear(p) ==
    /\ pc[p] = "clear"
    /\ pending' = [pending EXCEPT ![p] = @ \ {cur[p]}]
    /\ \/ owedFiles' = owedFiles \ {cur[p]}
       \/ "disk" \in Faults /\ UNCHANGED owedFiles
    /\ Goto(p, "flush")
    /\ cur' = [cur EXCEPT ![p] = None]
    /\ UNCHANGED <<link, present, torn, age, abandoned, srv, advertised,
                   want, todo, problems, live, tempAge>>

\* Once returns.  The service keeps what it owes in memory, --once exits.
Finish(p) ==
    /\ pc[p] = "flush" /\ todo[p] = {}
    /\ IF p \in Daemons
       THEN /\ Goto(p, "idle")
            /\ want' = [want EXCEPT ![p] = Nothing]
            /\ problems' = [problems EXCEPT ![p] = FALSE]
            /\ UNCHANGED <<todo, cur, pending, live, tempAge>>
       ELSE Forget(p)
    /\ UNCHANGED <<disk, srv, advertised>>

-----------------------------------------------------------------------------

Step(p) ==
    \/ Start(p) \/ Stop(p) \/ Kill(p) \/ Fetch(p)
    \/ \E e \in Envs : Sync(p, e)
    \/ Install(p) \/ DownloadFails(p)
    \/ Owe(p) \/ OweFails(p) \/ Swap(p) \/ SwapFails(p)
    \/ Reap(p) \/ ReapFails(p) \/ KillInReap(p) \/ Sweep(p)
    \/ \E e \in Envs : PruneOwe(p, e)
    \/ Unlink(p) \/ PruneFails(p)
    \/ ListOwed(p) \/ ListOwedFails(p)
    \/ \E e \in Envs : Flush(p, e) \/ FlushFails(p, e)
    \/ Clear(p) \/ Finish(p)

Next ==
    \/ Tick
    \/ \E e \in Envs, id \in Ids : Publish(e, id)
    \/ \E e \in Envs : Compile(e)
    \/ ServerRestart \/ Reboot
    \/ \E p \in Procs : Step(p)

Spec == Init /\ [][Next]_vars

\* A service that ended is started again: by systemd after a failure, after a stop
\* by whoever stopped it, or by nobody, of which no more can be said.  It goes on
\* with its Once; what may fail and is tried again and again succeeds at some
\* try.  Nothing is fair about the publisher, the server, the faults or the end
\* of a process.
Progress(p) ==
    /\ WF_vars(Start(p)) /\ WF_vars(Reap(p)) /\ WF_vars(Sweep(p))
    /\ WF_vars(Clear(p)) /\ WF_vars(Finish(p))
    /\ SF_vars(Fetch(p)) /\ SF_vars(Install(p)) /\ SF_vars(Owe(p)) /\ SF_vars(Swap(p))
    /\ SF_vars(Unlink(p)) /\ SF_vars(ListOwed(p))
    /\ \A e \in Envs : WF_vars(Sync(p, e)) /\ SF_vars(PruneOwe(p, e)) /\ SF_vars(Flush(p, e))

FairSpec == Spec /\ WF_vars(Tick) /\ \A p \in Daemons : Progress(p)

-----------------------------------------------------------------------------
(* What must hold.                                                         *)

Stale(e) == cache[e] \notin {None, link[e]}

\* A server that would compile a tree other than the one code-id names is owed
\* a flush, by a file on disk or by a process that is still running: nothing
\* forgets the obligation oweFlush takes on, in whatever step a process dies.
StaleCacheIsOwed ==
    \A e \in Envs : Stale(e) => e \in owedFiles \/ \E p \in Procs : e \in pending[p]

\* The node keeps the promise of CacheContract: what is owed is what a file or a
\* running process still says is owed.
Contract == INSTANCE CacheContract WITH
    deployed <- link, cached <- cache,
    owed <- {e \in Envs : e \in owedFiles \/ \E p \in Procs : e \in pending[p]}

KeepsContract == Contract!Spec

\* A reconciliation that returns no error leaves every environment it fetched
\* at the advertised version and no stale cache behind, whatever the processes
\* before it left undone.
CleanRunConverges ==
    [][\A p \in Procs : Finish(p) /\ ~problems[p] =>
          \A e \in Held(want[p]) : link[e] = want[p][e] /\ ~Stale(e)]_vars

\* An environment link resolves: no reap, of any environment by any process,
\* removes the version a link names, and no link moves to a version not there.
CurrentPresent ==
    \A e \in Envs : link[e] # None => <<e, link[e]>> \in present

\* ... and the tree behind it is the whole version its code_id names.
CurrentWhole ==
    \A e \in Envs : link[e] # None => <<e, link[e]>> \notin torn

\* An extraction still being written is never taken for an abandoned one.
LiveExtractionKept == \A p \in Procs : pc[p] = "extract" => p \in live

\* Reaping an environment that is still deployed leaves the Keep most recent
\* versions besides the current one: what goes has Keep newer ones staying.
KeepHonoured ==
    [][\A v \in present \ present' :
          link[v[1]] # None =>
            LET newer == {w \in present' : w[1] = v[1] /\ age[w] <= age[v]}
            IN Cardinality(newer \ {<<v[1], link[v[1]]>>}) >= Keep]_vars

\* A version a catalog was stamped with less than MinAge ago is on disk, so a
\* run that holds the catalog still finds its file content.
InFlightContentKept == \A v \in Version : stamped[v] < MinAge => v \in present

\* The versions of a pruned environment are all gone in the end, or the
\* environment is back.
PrunedVersionsGo ==
    \A e \in Envs :
      (link[e] = None) ~> (link[e] # None \/ \A id \in CodeIds : <<e, id>> \notin present)

Converged ==
    \A e \in Envs :
      /\ ~Stale(e)
      /\ advertised[e] # None => link[e] = advertised[e]
      /\ Prune /\ Held(advertised) # {} /\ advertised[e] = None => link[e] = None

\* Once the publisher's advertisement settles, the node settles on it: every
\* link, every pruned environment and the server's cache.
Converges == []<><<advertised' # advertised>>_vars \/ <>[]Converged
=============================================================================
