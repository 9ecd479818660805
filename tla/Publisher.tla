------------------------------ MODULE Publisher ------------------------------
(***************************************************************************)
(* internal/publish (Store) and internal/deploy (Run): r10k writes the     *)
(* trees of the basedir file by file, deploy signals the publisher, and    *)
(* Reseal hashes every tree, archives it in a second reading, swaps the    *)
(* map that agents see and removes what the map no longer names.  Deploys  *)
(* take turns by a lock; the publisher does not take it.                   *)
(*                                                                         *)
(* A tree is the version of each of its files and its code_id is the tree  *)
(* itself: equal contents, equal ids.  A directory that is not there is    *)
(* the tree of files that are all Gone.                                    *)
(***************************************************************************)
EXTENDS Naturals, FiniteSets

CONSTANTS
    Envs, Files, Vers,   \* environments, files of a tree, versions of a file
    Gone, Unread,        \* no file there; a file not read yet
    NoEnv,
    Deployers,           \* processes that run deploys
    MaxDeploys,          \* a bound: deploys looked at
    MaxEnds,             \* a bound: ends of a publisher process looked at
    Waits,               \* the values of --wait in use
    Faults               \* what may go wrong

AllFaults == {"r10k", "seal", "archive", "deployer", "reload"}

ASSUME PublisherAssumption ==
    /\ Gone \notin Vers /\ Unread \notin Vers \cup {Gone} /\ NoEnv \notin Envs
    /\ Files # {} /\ MaxDeploys \in Nat /\ MaxEnds \in Nat
    /\ Waits \subseteq BOOLEAN /\ Faults \subseteq AllFaults

Trees  == [Files -> Vers \cup {Gone}]
Absent == [f \in Files |-> Gone]
Blank  == [f \in Files |-> Unread]
Nothing == [e \in Envs |-> Absent]
Writes == [env : Envs, file : Files, to : Vers \cup {Gone}]

VARIABLES
    tree,       \* the basedir
    artifacts,  \* the files of ArtifactDir: named by env and id, with a content
    dep,        \* what each deployer is doing
    deploys,    \* deploys begun so far
    at,         \* where the publisher is
    ready,      \* what it has done for SIGHUP: "no", "claimed" the pidfile, "armed"
    hup,        \* the channel of one signal
    pidfile,    \* "none", "live", or "stale" when its process is gone
    ends,       \* publisher processes that ended so far
    sealed,     \* Store.sealed: the id advertised for each environment
    failed,     \* the environments that the latest reseal reported as failed
    entries,    \* directories of this reseal not yet looked at
    env,        \* the one it is looking at
    got,        \* what this reading of its files found so far
    id,         \* its code_id
    next,       \* the map this reseal builds
    old,        \* the map it replaced
    told,       \* history: a SIGHUP was accepted since the last change of the tree
    torn        \* history: environments written while a reseal read them

pub  == <<entries, env, got, id, next, old>>
base == <<tree, artifacts>>
vars == <<tree, artifacts, dep, deploys, at, ready, hup, pidfile, ends, sealed,
          failed, entries, env, got, id, next, old, told, torn>>

\* The file of ArtifactPathFor, at most one.
Named(e, i) == {a \in artifacts : a.env = e /\ a.id = i}

Exists(e, i) == Named(e, i) # {}

\* Places of the publisher: "down" after a failure, "stopped" by SIGTERM and
\* "hupped" by SIGHUP, which are clean ends to systemd (Restart=on-failure).
Clean   == {"stopped", "hupped"}
Ended   == Clean \cup {"down"}
Places  == Ended \cup {"pick", "hash", "archive", "reap", "claim", "arm", "idle"}
Phases  == {"idle", "r10k", "orphan", "signal", "wait", "served"}

TypeOK ==
    /\ tree \in [Envs -> Trees]
    /\ artifacts \subseteq [env : Envs, id : Trees, content : Trees]
    /\ dep \in [Deployers -> [at : Phases, left : SUBSET Writes, wait : BOOLEAN,
                              envs : SUBSET Envs, ids : [Envs -> Trees]]]
    /\ deploys \in 0..MaxDeploys
    /\ at \in Places /\ ready \in {"no", "claimed", "armed"}
    /\ hup \in BOOLEAN
    /\ pidfile \in {"none", "live", "stale"}
    /\ ends \in 0..MaxEnds
    /\ sealed \in [Envs -> Trees] /\ next \in [Envs -> Trees] /\ old \in [Envs -> Trees]
    /\ failed \subseteq Envs /\ entries \subseteq Envs
    /\ env \in (IF at \in {"hash", "archive"} THEN Envs ELSE {NoEnv})
    /\ got \in [Files -> Vers \cup {Gone, Unread}] /\ id \in Trees
    /\ told \in [Envs -> BOOLEAN] /\ torn \subseteq Envs

Resting == [at |-> "idle", left |-> {}, wait |-> FALSE, envs |-> {}, ids |-> Nothing]

Init ==
    /\ tree = Nothing /\ artifacts = {}
    /\ dep = [d \in Deployers |-> Resting] /\ deploys = 0
    /\ at = "stopped" /\ ready = "no" /\ hup = FALSE /\ pidfile = "none" /\ ends = 0
    /\ sealed = Nothing /\ failed = {}
    /\ entries = {} /\ env = NoEnv /\ got = Blank /\ id = Absent
    /\ next = Nothing /\ old = Nothing
    /\ told = [e \in Envs |-> FALSE] /\ torn = {}

-----------------------------------------------------------------------------
(* The publisher's process.                                                *)

\* ReadDir and the start of Reseal's loop.
List ==
    /\ at' = "pick"
    /\ entries' = {e \in Envs : tree[e] # Absent}
    /\ next' = Nothing /\ failed' = {}
    /\ UNCHANGED <<env, got, id, old>>

\* publishServe up to its first Reseal, of an empty Store.
Start ==
    /\ at \in Ended
    /\ List
    /\ UNCHANGED <<base, dep, deploys, ready, hup, pidfile, ends, sealed, told, torn>>

\* The goroutine takes the signal and reseals.
Reseal ==
    /\ at = "idle" /\ hup
    /\ hup' = FALSE
    /\ List
    /\ UNCHANGED <<base, dep, deploys, ready, pidfile, ends, sealed, told, torn>>

\* The basedir cannot be listed: the signal is used up, the failure is printed
\* and the old map stays.  A publisher that starts returns the error instead.
ResealFails ==
    /\ "seal" \in Faults
    /\ at = "idle" /\ hup
    /\ hup' = FALSE /\ failed' = Envs
    /\ UNCHANGED <<base, dep, deploys, at, ready, pidfile, ends, sealed, pub, told, torn>>

\* seal.CodeID begins to walk the next directory.
Pick(e) ==
    /\ at = "pick" /\ e \in entries
    /\ at' = "hash"
    /\ entries' = entries \ {e} /\ env' = e /\ got' = Blank
    /\ UNCHANGED <<base, dep, deploys, ready, hup, pidfile, ends, sealed, failed,
                   id, next, old, told, torn>>

\* One file is read, by the walk that hashes or by the one that archives.
Read(f) ==
    /\ at \in {"hash", "archive"} /\ got[f] = Unread
    /\ got' = [got EXCEPT ![f] = tree[env][f]]
    /\ UNCHANGED <<base, dep, deploys, at, ready, hup, pidfile, ends, sealed, failed,
                   entries, env, id, next, old, told, torn>>

\* A mutant of HasRead: an archive is installed before it is complete.
HasReadSome == \E f \in Files : got[f] # Unread

HasRead == \A f \in Files : got[f] # Unread

\* A mutant of CarryForward: the environment is dropped.
CarryNothing ==
    /\ failed' = failed \cup {env}
    /\ UNCHANGED next

\* carryForward: the failure is reported, the last good version is kept.
CarryForward ==
    /\ failed' = failed \cup {env}
    /\ next' = IF Exists(env, sealed[env])
               THEN [next EXCEPT ![env] = sealed[env]] ELSE next

\* The reading failed: a directory that vanished, or an entry that cannot be
\* hashed; a file that changed size, or a full disk, for the archive.
Fail ==
    /\ at \in {"hash", "archive"}
    /\ \/ HasRead /\ got = Absent
       \/ at = "hash" /\ "seal" \in Faults
       \/ at = "archive" /\ "archive" \in Faults
    /\ CarryForward
    /\ at' = "pick" /\ env' = NoEnv /\ got' = Blank /\ id' = Absent
    /\ UNCHANGED <<base, dep, deploys, ready, hup, pidfile, ends, sealed, entries,
                   old, told, torn>>

\* The artifact is reused when the id is the one served and the file is there.
Reuse(i) == sealed[env] = i /\ Exists(env, i)

\* Hashed: the id is known, and the tree is read again unless the file is reused.
Hashed ==
    /\ at = "hash" /\ HasRead /\ got # Absent
    /\ got' = Blank
    /\ IF Reuse(got)
       THEN /\ next' = [next EXCEPT ![env] = got]
            /\ at' = "pick" /\ env' = NoEnv /\ UNCHANGED id
       ELSE at' = "archive" /\ id' = got /\ UNCHANGED <<env, next>>
    /\ UNCHANGED <<base, dep, deploys, ready, hup, pidfile, ends, sealed, failed,
                   entries, old, told, torn>>

\* The temporary file is renamed over whatever had the name.
Install ==
    /\ at = "archive" /\ HasRead /\ got # Absent
    /\ artifacts' = (artifacts \ Named(env, id))
                        \cup {[env |-> env, id |-> id, content |-> got]}
    /\ next' = [next EXCEPT ![env] = id]
    /\ at' = "pick" /\ env' = NoEnv /\ got' = Blank /\ id' = Absent
    /\ UNCHANGED <<tree, dep, deploys, ready, hup, pidfile, ends, sealed, failed,
                   entries, old, told, torn>>

\* The map agents see is replaced, under the mutex.
Swap ==
    /\ at = "pick" /\ entries = {}
    /\ old' = sealed /\ sealed' = next
    /\ next' = Nothing
    /\ at' = "reap"
    /\ UNCHANGED <<base, dep, deploys, ready, hup, pidfile, ends, failed, entries, env,
                   got, id, told, torn>>

\* A mutant of Superseded: keeps nothing.
AllOld == {a \in artifacts : old[a.env] = a.id}

\* What reapArtifacts removes: the files of the old map the new one does not name.
Superseded == {a \in artifacts : old[a.env] = a.id /\ sealed[a.env] # a.id}

\* reapArtifacts, the end of Reseal.  The first one of a process is followed by
\* AcquirePidFile and signal.Notify.
Reap ==
    /\ at = "reap"
    /\ artifacts' = artifacts \ Superseded
    /\ old' = Nothing
    /\ at' = IF ready = "no" THEN "claim" ELSE "idle"
    /\ UNCHANGED <<tree, dep, deploys, ready, hup, pidfile, ends, sealed, failed, entries,
                   env, got, id, next, told, torn>>

Claim ==
    /\ at = "claim"
    /\ at' = "arm" /\ ready' = "claimed" /\ pidfile' = "live"
    /\ UNCHANGED <<base, dep, deploys, hup, ends, sealed, failed, pub, told, torn>>

Arm ==
    /\ at = "arm"
    /\ at' = "idle" /\ ready' = "armed"
    /\ UNCHANGED <<base, dep, deploys, hup, pidfile, ends, sealed, failed, pub, told, torn>>

\* The process is gone, with everything in its memory.
Ends(how, file) ==
    /\ ends < MaxEnds
    /\ ends' = ends + 1
    /\ at' = how /\ ready' = "no" /\ hup' = FALSE
    /\ pidfile' = file
    /\ sealed' = Nothing /\ failed' = {}
    /\ entries' = {} /\ env' = NoEnv /\ got' = Blank /\ id' = Absent
    /\ next' = Nothing /\ old' = Nothing

Left == IF ready = "no" THEN pidfile ELSE "stale"

\* It fails or is killed, at any step.
Crash ==
    /\ at \notin Ended
    /\ Ends("down", Left)
    /\ UNCHANGED <<base, dep, deploys, told, torn>>

\* SIGTERM: Serve returns and the claim is released; before signal.NotifyContext,
\* which comes behind the claim, the default action ends the process.
Stop ==
    /\ at \notin Ended
    /\ \/ ready # "armed" /\ Ends("stopped", Left)
       \/ ready # "no" /\ Ends("stopped", "none")
    /\ UNCHANGED <<base, dep, deploys, told, torn>>

\* A mutant of Hup: no buffer, a signal during a reseal is lost.
HupUnbuffered ==
    \/ /\ ready = "armed"
       /\ hup' = (hup \/ at = "idle")
       /\ UNCHANGED <<at, ready, pidfile, ends, sealed, failed, pub>>
    \/ ready # "armed" /\ Ends("hupped", Left)

\* SIGHUP reaches the process: into the channel, where a second one merges, or,
\* before signal.Notify, to the default action, which ends the process.
Hup ==
    \/ /\ ready = "armed"
       /\ hup' = TRUE
       /\ UNCHANGED <<at, ready, pidfile, ends, sealed, failed, pub>>
    \/ ready # "armed" /\ Ends("hupped", Left)

\* systemctl reload, by an operator or by r10k's postrun, which systemd sends
\* to the main process whatever the pidfile says.
Reload ==
    /\ "reload" \in Faults
    /\ at \notin Ended
    /\ Hup
    /\ told' = [e \in Envs |-> TRUE]
    /\ UNCHANGED <<base, dep, deploys, torn>>

-----------------------------------------------------------------------------
(* Run, in each deployer's process.                                        *)

Locked == \E d \in Deployers : dep[d].at \in {"r10k", "signal", "wait", "served"}

\* git checks out the files that differ.
Changes(es, v) ==
    {w \in [env : es, file : Files, to : {v}] : tree[w.env][w.file] # v}

\* Run takes the lock and starts r10k, to bring es to v or, where v is Gone, to
\* purge environments whose branches are gone.
Begin(d, es, v, wait) ==
    /\ dep[d].at = "idle" /\ ~Locked
    /\ deploys < MaxDeploys
    /\ deploys' = deploys + 1
    /\ dep' = [dep EXCEPT ![d] = [Resting EXCEPT
                  !.at = "r10k", !.left = Changes(es, v), !.wait = wait, !.envs = es]]
    /\ UNCHANGED <<base, at, ready, hup, pidfile, ends, sealed, failed, pub, told, torn>>

\* r10k, or what is left of its process group, writes a file.
Write(d, w) ==
    /\ dep[d].at \in {"r10k", "orphan"} /\ w \in dep[d].left
    /\ dep' = [dep EXCEPT ![d].left = @ \ {w}]
    /\ tree' = [tree EXCEPT ![w.env][w.file] = w.to]
    /\ told' = [told EXCEPT ![w.env] = FALSE]
    /\ torn' = IF at \in {"hash", "archive"} /\ env = w.env THEN torn \cup {env} ELSE torn
    /\ UNCHANGED <<artifacts, deploys, at, ready, hup, pidfile, ends, sealed, failed, pub>>

\* r10k exits 0 and every tree is sealed for the report.
R10kOk(d) ==
    /\ dep[d].at = "r10k" /\ dep[d].left = {}
    /\ dep' = [dep EXCEPT ![d].at = "signal",
                  ![d].ids = [e \in Envs |-> IF e \in dep[d].envs THEN tree[e] ELSE Absent]]
    /\ UNCHANGED <<base, deploys, at, ready, hup, pidfile, ends, sealed, failed, pub, told, torn>>

\* r10k fails, times out or is interrupted; its process group is killed, the
\* trees stay where it got to, and nobody is signalled.
R10kFails(d) ==
    /\ "r10k" \in Faults
    /\ dep[d].at = "r10k"
    /\ dep' = [dep EXCEPT ![d] = Resting]
    /\ UNCHANGED <<base, deploys, at, ready, hup, pidfile, ends, sealed, failed, pub, told, torn>>

\* What there is to wait for: the environments that were sealed.
Awaited(d) == {e \in dep[d].envs : dep[d].ids[e] # Absent}

\* SignalPublisher reaches a process, and Run returns or goes on to wait.
Signal(d) ==
    /\ dep[d].at = "signal" /\ pidfile = "live"
    /\ Hup
    /\ told' = [e \in Envs |-> TRUE]
    /\ dep' = [dep EXCEPT ![d] = IF dep[d].wait
                  THEN [dep[d] EXCEPT !.at = "wait", !.envs = Awaited(d)] ELSE Resting]
    /\ UNCHANGED <<base, deploys, torn>>

\* No pidfile, or one whose process is gone: Run returns an error.
SignalFails(d) ==
    /\ dep[d].at = "signal" /\ pidfile # "live"
    /\ dep' = [dep EXCEPT ![d] = Resting]
    /\ UNCHANGED <<base, deploys, at, ready, hup, pidfile, ends, sealed, failed, pub, told, torn>>

\* waitServing finds the file of one environment.
Found(d, e) ==
    /\ dep[d].at = "wait" /\ e \in dep[d].envs
    /\ Exists(e, dep[d].ids[e])
    /\ dep' = [dep EXCEPT ![d].envs = @ \ {e}]
    /\ UNCHANGED <<base, deploys, at, ready, hup, pidfile, ends, sealed, failed, pub, told, torn>>

\* All are reported as serving.
Served(d) ==
    /\ dep[d].at = "wait" /\ dep[d].envs = {}
    /\ dep' = [dep EXCEPT ![d].at = "served"]
    /\ UNCHANGED <<base, deploys, at, ready, hup, pidfile, ends, sealed, failed, pub, told, torn>>

\* Run returns: after its report, or at its timeout.
Return(d) ==
    /\ dep[d].at \in {"wait", "served"}
    /\ dep' = [dep EXCEPT ![d] = Resting]
    /\ UNCHANGED <<base, deploys, at, ready, hup, pidfile, ends, sealed, failed, pub, told, torn>>

\* The deploying process is killed: the lock goes with it, r10k does not.
KillDeployer(d) ==
    /\ "deployer" \in Faults
    /\ dep[d].at # "idle" /\ dep[d].at # "orphan"
    /\ dep' = [dep EXCEPT ![d] = IF dep[d].at = "r10k"
                  THEN [Resting EXCEPT !.at = "orphan", !.left = dep[d].left]
                  ELSE Resting]
    /\ UNCHANGED <<base, deploys, at, ready, hup, pidfile, ends, sealed, failed, pub, told, torn>>

\* The orphan ends, done or not.
OrphanEnds(d) ==
    /\ dep[d].at = "orphan"
    /\ dep' = [dep EXCEPT ![d] = Resting]
    /\ UNCHANGED <<base, deploys, at, ready, hup, pidfile, ends, sealed, failed, pub, told, torn>>

-----------------------------------------------------------------------------
ResealStep ==
    \/ \E e \in Envs : Pick(e)
    \/ \E f \in Files : Read(f)
    \/ Hashed \/ Install \/ Swap \/ Reap

Next ==
    \/ Start \/ Reseal \/ ResealFails \/ ResealStep \/ Fail \/ Claim \/ Arm
    \/ Crash \/ Stop \/ Reload
    \/ \E d \in Deployers :
        \/ \E es \in SUBSET Envs \ {{}}, v \in Vers \cup {Gone}, wait \in Waits :
               Begin(d, es, v, wait)
        \/ \E w \in dep[d].left : Write(d, w)
        \/ R10kOk(d) \/ R10kFails(d)
        \/ Signal(d) \/ SignalFails(d)
        \/ \E e \in Envs : Found(d, e)
        \/ Served(d) \/ Return(d)
        \/ KillDeployer(d) \/ OrphanEnds(d)

Spec == Init /\ [][Next]_vars

\* The publisher's own steps are taken, and systemd (Restart=on-failure) starts
\* it again after a failure.  After a clean end somebody may, or nobody does.
Restart == at = "down" /\ Start

FairSpec ==
    /\ Spec
    /\ WF_vars(Restart) /\ WF_vars(Reseal) /\ WF_vars(ResealStep)
    /\ WF_vars(Fail) /\ WF_vars(Claim) /\ WF_vars(Arm)

-----------------------------------------------------------------------------
(* Safety, of every interleaving.                                          *)

\* Every version in the map agents poll has its artifact on disk, through
\* reaping, carrying forward, reverted trees and files left by an earlier
\* process: serveArtifact's "no longer available" is only a race of one request.
AdvertisedOnDisk == \A e \in Envs : sealed[e] # Absent => Exists(e, sealed[e])

AtRest(e) == told[e] /\ at = "idle" /\ ~hup

\* No signal is lost, not in the channel of one, not during a reseal and not over
\* a restart: once the publisher rests, a tree that was signalled and not
\* touched since is the advertised one, or was reported as a failure.
SignalledIsSealed ==
    \A e \in Envs : AtRest(e) => sealed[e] = tree[e] \/ e \in failed

\* While a process lives an environment leaves the map only if its directory is
\* gone (carryForward); one that cannot be sealed stays at its last version.
KeepsLastGood ==
    [][\A e \in Envs :
          sealed[e] # Absent /\ sealed'[e] = Absent => e \notin failed \/ at' \in Ended]_vars

\* What SignalledIsSealed does not say: the artifact that agents download under
\* the id is that tree, so that they do not refuse it.
Servable(e) ==
    AtRest(e) /\ e \notin failed /\ tree[e] # Absent =>
        \E a \in Named(e, sealed[e]) : a.content = tree[e]

\* So it is after failed and killed deploys, failed seals and restarts, but for
\* an environment once written between the two readings of one reseal.
ServableUnlessTorn == \A e \in Envs \ torn : Servable(e)

-----------------------------------------------------------------------------
(* What comments and documentation say.                                    *)

\* "What is left is exactly what a crashed r10k leaves [...] The next successful
\* deploy repairs it."
AlwaysRepaired == \A e \in Envs : Servable(e)

\* "no reseal ever observes a half-written deploy".
AdvertisedWhole ==
    \A e \in Envs : \E v \in Vers \cup {Gone} : sealed[e] = [f \in Files |-> v]

\* "the new version is sealed and servable" when --wait returns.
WaitedIsAdvertised ==
    \A d \in Deployers : \A e \in Envs :
        dep[d].at = "served" /\ dep[d].ids[e] # Absent => sealed[e] = dep[d].ids[e]

-----------------------------------------------------------------------------
(* What happens in the end.                                                *)

\* A tree that was signalled is served, reported as a failure by the reseal, or
\* overtaken by another change; or the publisher is left ended, in such a way.
ServedUnlessLeft(ways) ==
    \/ <>[](at \in ways)
    \/ \A e \in Envs : told[e] ~> (~told[e] \/ sealed[e] = tree[e] \/ e \in failed)

\* A deploy that returned without an error is served in the end, whatever signals
\* merge and whatever fails or is killed, unless the publisher has ended cleanly
\* and nobody starts it: if somebody does, its first reseal makes up for all.
DeployedIsServed == ServedUnlessLeft(Clean)

\* "Exiting 0 there would be exactly the failure this project exists to prevent":
\* nothing but an operator's stop keeps it from being served.
ExitZeroIsServed == ServedUnlessLeft({"stopped"})
=============================================================================
