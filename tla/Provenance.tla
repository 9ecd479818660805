----------------------------- MODULE Provenance -----------------------------
(***************************************************************************)
(* internal/publish/provenance.go: the log that says which commit a sealed *)
(* version came from, as Reseal appends to it and as the commands          *)
(* `provenance` and `compilers` read it.  r10k is outside the process: it  *)
(* writes a tree, and at its end .r10k-deploy.json, where the publisher    *)
(* finds the commit.  A publisher keeps what it opened and what it         *)
(* recorded in memory; the commands read only the file.                    *)
(*                                                                         *)
(* A version is what a commit and the commits of its git modules resolve   *)
(* to, Seals[commit, modules]: several may resolve to the same.            *)
(***************************************************************************)
EXTENDS Naturals, Sequences

CONSTANTS
    Envs, Commits, Modules, CodeIds,
    Seals,        \* the code_id of a commit with its modules
    First,        \* the commit and modules every environment is at first
    Publishers,   \* processes on the node, of which one may hold the pid file
    None,
    MaxDeploys,   \* a bound: runs of r10k looked at
    MaxFailed,    \* a bound: appends of one process that may fail
    Faults        \* what may go wrong: "kill", "write", "short", "seal"

ASSUME ProvenanceAssumption ==
    /\ None \notin Commits \cup Modules \cup CodeIds \cup Publishers
    /\ None \notin [env : Envs, id : CodeIds, commit : Commits, mods : Modules]
    /\ Seals \in [Commits \X Modules -> CodeIds] /\ First \in Commits \X Modules
    /\ MaxDeploys \in Nat /\ MaxFailed \in Nat
    /\ Faults \subseteq {"kill", "write", "short", "seal"}

VARIABLES
    source,   \* source[e]: the commit and the modules whose tree is in the basedir
    noted,    \* the commit .r10k-deploy.json names, None where there is no record
    busy,     \* environments r10k has begun to write and not finished
    deploys,  \* runs of r10k so far
    file,     \* the lines of provenance.jsonl
    log,      \* Log.records of each publisher
    pc,       \* where each publisher is
    todo,     \* the environments its reseal has left
    cur,      \* the one it has sealed and not yet recorded
    next,     \* the map its reseal builds
    served,   \* the map it advertises
    owner,    \* the publisher that holds the pid file (see PidFile)
    settled,  \* history: environments r10k left alone since the publisher sealed them
    failed    \* history: the appends of this process that failed

tree == <<source, noted, busy, deploys>>
vars == <<tree, file, log, pc, todo, cur, next, served, owner, settled, failed>>

Entry  == [env : Envs, id : CodeIds, commit : Commits, mods : Modules]
Line   == [rec : Entry \cup {None}, ended : BOOLEAN]
Maps   == [Envs -> CodeIds \cup {None}]
Places == {"off", "sealing", "record", "claim", "idle"}
Nothing == [e \in Envs |-> None]

TypeOK ==
    /\ source \in [Envs -> Commits \X Modules]
    /\ noted \in [Envs -> Commits \cup {None}]
    /\ busy \subseteq Envs /\ deploys \in 0..MaxDeploys
    /\ file \in Seq(Line)
    /\ log \in [Publishers -> Seq(Entry)]
    /\ pc \in [Publishers -> Places]
    /\ todo \in [Publishers -> SUBSET Envs]
    /\ cur \in [Publishers -> Envs \cup {None}]
    /\ next \in [Publishers -> Maps] /\ served \in [Publishers -> Maps]
    /\ owner \in Publishers \cup {None}
    /\ settled \in [Publishers -> SUBSET Envs]
    /\ failed \in [Publishers -> 0..MaxFailed]

\* Branches of one commit are deployed, by r10k or by other means.
Init ==
    /\ source = [e \in Envs |-> First]
    /\ noted \in {[e \in Envs |-> id] : id \in {None, First[1]}}
    /\ busy = {} /\ deploys = 0 /\ file = <<>>
    /\ log = [p \in Publishers |-> <<>>]
    /\ pc = [p \in Publishers |-> "off"]
    /\ todo = [p \in Publishers |-> {}] /\ cur = [p \in Publishers |-> None]
    /\ next = [p \in Publishers |-> Nothing] /\ served = [p \in Publishers |-> Nothing]
    /\ owner = None
    /\ settled = [p \in Publishers |-> {}] /\ failed = [p \in Publishers |-> 0]

-----------------------------------------------------------------------------
(* The log.                                                                *)

\* The newest record of an environment and a code_id, by append order: what the
\* map `newest` indexes and what Lookup puts first.
Newest(recs, e, id) ==
    LET Of == {i \in DOMAIN recs : recs[i].env = e /\ recs[i].id = id}
    IN IF Of = {} THEN None ELSE recs[CHOOSE i \in Of : \A j \in Of : j <= i]

\* OpenLog parses every line or fails.
Readable(lines) == \A i \in DOMAIN lines : lines[i].rec # None

Parsed(lines) == [i \in DOMAIN lines |-> lines[i].rec]

\* What a command answers for a version: it opens the log of its own.
Answer(e, id) == IF Readable(file) THEN Newest(Parsed(file), e, id) ELSE None

\* A mutant of SameSource: the modules are not compared.
SameCommit(a, b) == a # None /\ a.commit = b.commit

\* Does the newest record of the key already name this commit and these modules?
SameSource(a, b) == a # None /\ a.commit = b.commit /\ a.mods = b.mods

\* O_APPEND writes `line` behind whatever is there: behind a line without its
\* newline, it becomes part of that line, which then does not parse.
Behind(line) ==
    LET n == Len(file) IN
    IF n > 0 /\ ~file[n].ended
    THEN [file EXCEPT ![n] = [rec |-> None, ended |-> line.ended]]
    ELSE Append(file, line)

-----------------------------------------------------------------------------
(* r10k.                                                                   *)

\* r10k touched e: what a publisher sealed of it may be out of date.
Touched(e) == settled' = [p \in Publishers |-> settled[p] \ {e}]

\* r10k brings e to a commit.  The record of the last deploy, if any, stays ...
Deploy(e, c, m) ==
    /\ deploys < MaxDeploys
    /\ deploys' = deploys + 1
    /\ source' = [source EXCEPT ![e] = <<c, m>>]
    /\ busy' = busy \cup {e}
    /\ Touched(e)
    /\ UNCHANGED <<noted, file, log, pc, todo, cur, next, served, owner, failed>>

\* ... until r10k writes .r10k-deploy.json at its end.
Finish(e) ==
    /\ e \in busy
    /\ busy' = busy \ {e}
    /\ noted' = [noted EXCEPT ![e] = source[e][1]]
    /\ Touched(e)
    /\ UNCHANGED <<source, deploys, file, log, pc, todo, cur, next, served, owner, failed>>

\* `r10k deploy module` resolves the modules again and leaves the record alone.
DeployModules(e, m) ==
    /\ deploys < MaxDeploys /\ e \notin busy
    /\ deploys' = deploys + 1
    /\ source' = [source EXCEPT ![e] = <<@[1], m>>]
    /\ Touched(e)
    /\ UNCHANGED <<noted, busy, file, log, pc, todo, cur, next, served, owner, failed>>

-----------------------------------------------------------------------------
(* The publisher.                                                          *)

Go(p, place) == pc' = [pc EXCEPT ![p] = place]

\* publishServe opens the log and begins its first reseal.  It does not start
\* on a log it cannot read.
Open(p) ==
    /\ pc[p] = "off" /\ Readable(file)
    /\ Go(p, "sealing")
    /\ log' = [log EXCEPT ![p] = Parsed(file)]
    /\ todo' = [todo EXCEPT ![p] = Envs]
    /\ failed' = [failed EXCEPT ![p] = 0]
    /\ UNCHANGED <<tree, file, cur, next, served, owner, settled>>

\* SIGHUP: another reseal.
Hup(p) ==
    /\ pc[p] = "idle"
    /\ Go(p, "sealing")
    /\ todo' = [todo EXCEPT ![p] = Envs]
    /\ next' = [next EXCEPT ![p] = Nothing]
    /\ settled' = [settled EXCEPT ![p] = {}]
    /\ UNCHANGED <<tree, file, log, cur, served, owner, failed>>

\* The next environment is hashed and its artifact is there.
Seal(p, e) ==
    /\ pc[p] = "sealing" /\ e \in todo[p]
    /\ Go(p, "record")
    /\ todo' = [todo EXCEPT ![p] = @ \ {e}]
    /\ cur' = [cur EXCEPT ![p] = e]
    /\ next' = [next EXCEPT ![p][e] = Seals[source[e]]]
    /\ settled' = [settled EXCEPT ![p] = @ \cup {e}]
    /\ UNCHANGED <<tree, file, log, served, owner, failed>>

\* It cannot be: its last version is carried forward, and nothing is recorded.
SealFails(p, e) ==
    /\ "seal" \in Faults
    /\ pc[p] = "sealing" /\ e \in todo[p]
    /\ todo' = [todo EXCEPT ![p] = @ \ {e}]
    /\ next' = [next EXCEPT ![p][e] = served[p][e]]
    /\ UNCHANGED <<tree, file, log, pc, cur, served, owner, settled, failed>>

\* What Reseal records of an environment: read from the tree once it is sealed.
Found(p) == [env |-> cur[p], id |-> next[p][cur[p]],
             commit |-> noted[cur[p]], mods |-> source[cur[p]][2]]

Recorded(p) ==
    /\ Go(p, "sealing")
    /\ cur' = [cur EXCEPT ![p] = None]
    /\ UNCHANGED <<tree, todo, next, served, owner, settled>>

\* Mutants of Known: any record of the key counts, not only its newest; and a
\* missing .r10k-deploy.json is recorded too.
KnownBefore(p) ==
    noted[cur[p]] = None \/ \E i \in DOMAIN log[p] : log[p][i] = Found(p)

KnownSource(p) == SameSource(Newest(log[p], cur[p], next[p][cur[p]]), Found(p))

\* Nothing to record: r10k left no record, or the newest one says the same.
Known(p) ==
    \/ noted[cur[p]] = None
    \/ SameSource(Newest(log[p], cur[p], next[p][cur[p]]), Found(p))

RecordNothing(p) ==
    /\ pc[p] = "record" /\ Known(p)
    /\ Recorded(p)
    /\ UNCHANGED <<file, log, failed>>

\* Log.Record: into memory, and a line behind the file.
Record(p) ==
    /\ pc[p] = "record" /\ ~Known(p)
    /\ log' = [log EXCEPT ![p] = Append(@, Found(p))]
    /\ file' = Behind([rec |-> Found(p), ended |-> TRUE])
    /\ Recorded(p)
    /\ UNCHANGED failed

\* The write fails, or only part of the line fits, with or without the last
\* brace; the record stays in memory and the error is dropped by Reseal.
AppendFails(p) ==
    /\ pc[p] = "record" /\ ~Known(p) /\ failed[p] < MaxFailed
    /\ log' = [log EXCEPT ![p] = Append(@, Found(p))]
    /\ \/ "write" \in Faults /\ UNCHANGED file
       \/ "short" \in Faults /\ \E r \in {None, Found(p)} :
              file' = Behind([rec |-> r, ended |-> FALSE])
    /\ failed' = [failed EXCEPT ![p] = @ + 1]
    /\ Recorded(p)

\* The map is swapped.  The first time, the pid file comes next.
Swap(p) ==
    /\ pc[p] = "sealing" /\ todo[p] = {}
    /\ served' = [served EXCEPT ![p] = next[p]]
    /\ Go(p, IF owner = p THEN "idle" ELSE "claim")
    /\ UNCHANGED <<tree, file, log, todo, cur, next, owner, settled, failed>>

\* What a publisher that is not running knows.
Forget(p) ==
    /\ Go(p, "off")
    /\ log' = [log EXCEPT ![p] = <<>>]
    /\ todo' = [todo EXCEPT ![p] = {}] /\ cur' = [cur EXCEPT ![p] = None]
    /\ next' = [next EXCEPT ![p] = Nothing] /\ served' = [served EXCEPT ![p] = Nothing]
    /\ settled' = [settled EXCEPT ![p] = {}] /\ failed' = [failed EXCEPT ![p] = 0]

\* AcquirePidFile, which a second publisher does not get past.
Claim(p) ==
    /\ pc[p] = "claim"
    /\ \/ /\ owner = None
          /\ owner' = p /\ Go(p, "idle")
          /\ UNCHANGED <<log, todo, cur, next, served, settled, failed>>
       \/ /\ owner # None
          /\ Forget(p) /\ UNCHANGED owner
    /\ UNCHANGED <<tree, file>>

\* The process ends, by SIGTERM while it listens or killed anywhere.
Ends(p) ==
    /\ pc[p] = "idle" \/ ("kill" \in Faults /\ pc[p] # "off")
    /\ Forget(p)
    /\ owner' = IF owner = p THEN None ELSE owner
    /\ UNCHANGED <<tree, file>>

-----------------------------------------------------------------------------
Next ==
    \/ \E e \in Envs, m \in Modules :
          DeployModules(e, m) \/ \E c \in Commits : Deploy(e, c, m)
    \/ \E e \in Envs : Finish(e)
    \/ \E p \in Publishers :
        \/ Open(p) \/ Hup(p) \/ RecordNothing(p) \/ Record(p) \/ AppendFails(p)
        \/ Swap(p) \/ Claim(p) \/ Ends(p)
        \/ \E e \in Envs : Seal(p, e) \/ SealFails(p, e)

Spec == Init /\ [][Next]_vars

-----------------------------------------------------------------------------
\* A publisher rests with a version of e that it sealed once r10k was done, and
\* r10k left its record there.
AtRest(p, e) ==
    pc[p] = "idle" /\ e \in settled[p] /\ e \notin busy /\ noted[e] # None

Deployed(p, e) == [env |-> e, id |-> served[p][e],
                   commit |-> source[e][1], mods |-> source[e][2]]

\* The newest record the publisher holds of a version it serves names the source
\* that version was deployed from, through branches reset to an earlier commit,
\* commits and modules that change nothing, reseals during a deploy, restarts
\* and writes that fail.
MemoryKnowsDeployed ==
    \A p \in Publishers, e \in Envs :
        AtRest(p, e) => Newest(log[p], e, served[p][e]) = Deployed(p, e)

\* What the commands report is what the publisher holds, unless one of its own
\* appends failed: no restart loses, repeats or reorders a record.
FileIsMemory ==
    \A p \in Publishers : pc[p] # "off" /\ failed[p] = 0 => Readable(file) /\ Parsed(file) = log[p]

\* "the newest record is what the fleet view and `codavox provenance` report as
\* the commit an environment is deployed from."
ReportsDeployed ==
    \A p \in Publishers, e \in Envs :
        AtRest(p, e) /\ failed[p] = 0 => Answer(e, served[p][e]) = Deployed(p, e)

\* "a partial write damages at most the last record": a line that is whole is
\* still found by a reader of the file.
PartialWriteCostsOne ==
    \A i \in DOMAIN file :
        file[i].rec # None => Answer(file[i].rec.env, file[i].rec.id) # None
=============================================================================
