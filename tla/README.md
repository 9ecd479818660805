# TLA+ for codavox

codavox deploys Puppet code: r10k stages a control repository on the primary,
a *publisher* seals every environment under a content-derived `code_id` and
serves it, and an *agent* on every compiler pulls it, moves an environment link
and flushes the cache of the OpenVox Server beside it. A *deploy-server* takes
deploy requests over HTTP. The promise behind all of it is one sentence of
`internal/layout`: the tree the server compiles and the `code_id` stamped on the
catalog are the same fact.

This directory holds TLA+ modules of that code, the TLC configurations that
check them on small instances, and proofs that TLAPS checks for every value of
the constants. `PROJECT.json` lists runs, mutants, findings, hazards, theorems,
and the source lines every definition stands for.

## Inventory

| Component | State | Operations | Hard parts | Must hold |
|---|---|---|---|---|
| agent (`internal/agent`) | environment links, version directories, extractions, `flush-owed`, `pendingFlush` | `Once`: fetch, sync, download, owe, swap, reap, sweep, prune, flush; `Run`, `--once` | two agents on one node, a crash at any step, failing disk and flush, age-based removal | the server never compiles a tree other than the one `code-id` names without a flush being owed; links resolve to whole versions; a clean run has converged |
| layout and code-id (`internal/layout`, `internal/content`) | none of its own | names, `Readlink`, validation | `<env>_<code_id>` is ambiguous | one source of truth |
| publisher (`internal/publish/publish.go`, `publishServe`) | `sealed` map, artifacts on disk, one pending SIGHUP | `Reseal`, SIGHUP loop, version map, artifact download, `reapArtifacts` | reseal while r10k writes, one environment failing, signals that merge, restart | no signal is lost; an advertised `code_id` has an artifact that is that tree |
| peers (`peers.go`) | last report and fetch of each compiler | `observe*`, `List` | late, lost and oversized reports, restarts of the publisher | the fleet view says of a compiler only what was once so, and comes to be right |
| pidfile (`pidfile.go`) | one file | claim, release | two publishers starting at once, stale claims | at most one live claim |
| provenance (`provenance.go`) | append-only log and its index | `OpenLog`, `Record`, `Lookup` | a failing or torn append, several commits of one content, a second process | the newest record of a version names what it was deployed from |
| deploy (`internal/deploy`) | lock file, r10k's process group | lock, r10k, seal, SIGHUP, `--wait` | timeouts, the lock against the asynchronous reseal | no reseal sees a half-written tree |
| deploy-server (`internal/deployserver`) | queue, records, order | submit, worker, wait, get, list | full queue, history at its limit, shutdown | an accepted deploy is run, in order, and remembered until then |
| revocation (`internal/puppetca`) | revoked set and file stamp | `check`, refresh, reload; `ServerTLS`, `guardPeer` | concurrent reloads, a file that changes under them, open connections | a revoked certificate is refused, and a cleared one is served, with bounded delay |
| seal, archive (`internal/seal`) | none | manifest, hash, tar | path and size limits | what is extracted is what was sealed |
| failure log, webhook, config, CLI | a counter; none | | | |

Interaction: deploy runs r10k in the basedir and sends SIGHUP to the publisher;
the publisher reseals and changes what it advertises; agents poll that map,
download artifacts over mutual TLS and report what they serve; the server reads
the link (directly, and through `codavox code-id`) and keeps its own cache until
the agent's `DELETE environment-cache`.

## Modules

| Module | Models |
|---|---|
| `Agent` | `internal/agent` with the paths of `internal/layout`, several agent processes, the OpenVox Server's cache, the publisher's answer, time, and faults |
| `CacheContract` | abstract: what a compiler promises about the server's cache |
| `AgentProofs` | the theorems of both, and that the first keeps the second |
| `MCAgent` | instances for TLC |
| `DeployQueue` | `internal/deployserver`: submit, worker, history, `waitFor`, shutdown of the process |
| `DeployQueueProofs`, `MCDeployQueue` | theorems and instance |
| `Publisher` | `Store.Reseal`, the publisher's process and its SIGHUP loop, `deploy.Run`, r10k and the basedir |
| `PublisherProofs`, `MCPublisher` | theorems and instances |
| `PidFile` | `internal/publish/pidfile.go` with the processes that claim and release |
| `PidFileProofs`, `MCPidFile` | theorems and instance |
| `Archive` | `internal/seal`: manifest, archive and extraction of one tree, with r10k changing it |
| `ArchiveProofs`, `MCArchive` | theorems and instance |
| `Provenance` | `internal/publish/provenance.go`: the log in the file and in each process's memory |
| `ProvenanceProofs`, `MCProvenance` | theorems and instance |
| `Admission` | `internal/puppetca` and `guardPeer`: who is served while the revocation list changes |
| `AdmissionProofs`, `MCAdmission` | theorems and instance |
| `Fleet` | `internal/publish/peers.go` and the HTTP handlers, composed with a store and with the agents that poll it, report to it and prune |
| `FleetProofs`, `MCFleet` | theorems and instance |

`Agent` and `Publisher` take their side of the protocol step by step and the other
side as given; `Fleet` composes the two coarsely, a reseal and an extraction being
one step each there. `Archive` opens what `Publisher` and `Agent` take as one fact,
that an artifact is the tree its name says or is refused.

### Agent

One agent process is `pc`, the local variables of `Once` that survive a step
(`want`, `todo`, `cur`, `problems`), its `pendingFlush` (`pending`) and its
extraction (`live`, `tempAge`). One action is one access to shared state:

| Code | Actions |
|---|---|
| `fetchEnvironments` | `Fetch`; a failed fetch changes nothing for the service and is `Stop` for `--once` |
| `sync` up to `Stat` | `Sync` (three disjuncts: converged, on disk, to be downloaded) |
| `download` | `Install`, `DownloadFails`; the extraction directory lives from `Sync` to either |
| `oweFlush` | `Owe`, `OweFails`; `OweFlush` is shared with `prune` |
| `swap` | `Swap`, `SwapFails` |
| `reap`, `reapVersions` | `Reap`, `ReapFails`, `KillInReap`, over `Candidates`, `Newest`, `Doomed`, `Remove`, `RemovePartly` |
| `reapStaleExtractions` and the head of `prune` | `Sweep` |
| `prune`, `pruneEnvironment` | `PruneOwe`, `Unlink`, `PruneFails`, then the reap with no current version |
| `flushPending` | `ListOwed`, `ListOwedFails`, `Flush`, `FlushFails`, `Clear` |
| return of `Once` | `Finish` |
| `agentRun`, SIGTERM, SIGKILL, power loss | `Start`, `Stop`, `Kill`, `KillInReap`, `Reboot` |

`Publish`, `Compile`, `ServerRestart` and `Tick` are the world around it.
Decisions worth knowing:

- *Time* is an age per directory in ticks, saturating at `AgeCap`, because the
  code compares an mtime with `MinAge` and sorts by it and does nothing else
  with time. Equal ages may be sorted in any order. An extraction's age counts
  from its creation, the worst case for the sweep; the rename keeps it.
- *A removal* may stop between two directories or inside one. `torn` holds the
  directories that lost entries.
- *A failed flush* may have expired the cache all the same.
- *A reboot* empties the server's cache and may lose any file of `flush-owed`
  (they are not fsynced, as `recordOwed` explains); renames and removals that
  were done stay done.
- *The server* caches an environment at its first compile and keeps it. A
  compile is atomic: a parse that straddles a swap is not modelled. With
  `PuppetServer` empty (`environment_timeout` 0) it caches nothing.
- *Names*: `Prefixed` says which environments' directories begin with which
  others' prefix; code_ids are model values.
- `readlink` and `Stat` of `sync` are one step. `reportServing` is one request
  that changes nothing here. The content of a version is abstracted to "the
  tree its code_id names" or "torn", since `download` verifies by resealing.
- `OweFlush` is one step although the file is written before the entry in
  memory: between the two the process has recorded and nothing has moved, which
  is a kill before or after.

### CacheContract

Three variables: what is deployed, what is cached, what is owed. A version is
deployed only while a flush is owed; the flush stops being owed only when the
cache agrees. `Agent!KeepsContract` maps it by `deployed <- link`,
`cached <- cache`, and `owed` to the environments a file *or a running process*
says are owed. It is a promise only with `PuppetServer` set.

### DeployQueue

The mutex makes `submit`, the two halves of `process` and `get` one step each
(`Submit`, `Begin`, `End`, `Answer` over `Found`); the channel receive is outside it
(`Receive`). `Deadline` is the moment `waitTimeout` of a caller is over (`late`), from
which `waitFor` returns whatever `get` finds. Deploys are named by the order of
acceptance. `Signal` and `Exit` are SIGTERM and the return of `main`. What r10k does
is the choice of `End`.

### Publisher

The two sides meet in the basedir, the artifact directory, the pidfile and one
signal, so they are one module. A tree is the version of each of its files, and
its `code_id` is the tree itself: equal contents, equal ids, as SHA-256 has it.

| Code | Actions |
|---|---|
| `publishServe` to its first reseal; `AcquirePidFile`; `signal.Notify` | `Start`, `Claim`, `Arm` |
| the SIGHUP goroutine, `ReadDir` | `Reseal`, `ResealFails`; `List` is shared with `Start` |
| the loop of `Reseal`: `seal.CodeID` | `Pick`, `Read` file by file, `Hashed` (with the test for reuse) |
| `materializeArtifact` | `Read` again, `Install` |
| `carryForward` | `Fail` |
| swap of `s.sealed`, `reapArtifacts` | `Swap`, `Reap` |
| SIGHUP, SIGTERM, any other end | `Hup` (in `Signal` and `Reload`), `Stop`, `Crash` |
| `deploy.Run`: lock and r10k | `Begin`, `Write` file by file, `R10kOk` (with `sealEnv`), `R10kFails` |
| `SignalPublisher` | `Signal`, `SignalFails` |
| `waitServing`, return | `Found`, `Served`, `Return` |
| death of the deploying process | `KillDeployer`, `OrphanEnds` |

- *The lock* is the guard of `Begin`: flock goes with its process, r10k does not,
  being a process group of its own, so an orphan may write beside the next deploy.
- *A file is read at one moment* in each reading. `WriteArchive` walks before it
  copies; a size that changed in between is an error (`Fail` with `"archive"`), and
  otherwise the bytes of the copy are what counts.
- *Ends* are of three kinds, since systemd tells them apart: `"down"` after a failure or
  a kill, which `Restart=on-failure` starts again, and `"stopped"` by SIGTERM and
  `"hupped"` by SIGHUP, which are clean ends and are left to whoever starts it. A signal
  before its `Notify` has the default action.
- *A reload* by an operator or by r10k's postrun hook can come at any time and goes
  to systemd's main process, so also to a publisher that has not claimed yet.
- *Two publishers* on one state directory are `PidFile`'s subject; here there is
  one at a time.
- `told` and `torn` are history: which trees were signalled and not touched since,
  and which environments were ever written while a reseal was reading them.

### PidFile

`open`, `write`, `read`, `remove` of `AcquirePidFile` are one action each, `Release`
is two. `since` and `raced` are history: the claims in force when a process
started, and whether two processes were ever inside `AcquirePidFile` together. A
process holds from its claim to its release; only one of them can listen.

### Archive

A path is a sequence of names and a tree gives every path a node; a `code_id` is the
manifest itself. The publisher and one agent take turns by nature, so `pc` is one
place; r10k's `Edit` comes between any two steps.

| Code | Actions and operators |
|---|---|
| `walk`, `Manifest`, `CodeID`, `normalizeMode` | `Covered`, `Entries`, `Sealable`, `LineOf`, `Manifest`, `Normal` |
| `Reseal` up to the artifact | `Seal` |
| `WriteArchive`: the second walk; `writeEntry` | `Walk`; `WriteEntry`, `WriteFails` over `Found`, `Opened`, `Reads` |
| `materializeArtifact`, the rename | `Install` |
| `download`, `extractEntry`, `checkLinkTarget`, `mkdirAllIn` | `Download`, `ExtractEntry`, `ExtractRefuses` over `Fits`, `Escapes`, `Placed`, `Landing` |
| verification | `Verify` |

- *A walk is one step.* Reading a tree file by file while it changes is `Publisher`'s
  subject. What is here is that the archive's files are opened again after its walk:
  a file may be gone, changed, or lead through a link. What is behind such a link is
  any node.
- *Order* is `Sorted`, the paths in the byte order of their strings, where `a-b` may
  come before `a/b`; directories are made as paths need them.
- *Limits* are constants; the umask of the agent chooses among the modes that
  normalise alike.
- *Bytes* are counted as the pairs of a file and an offset in it (`Held`), and the
  order of a listing by `Rank`, the place of a path among those listed: so both are
  facts about finite sets.
- Archives are those that `WriteArchive` makes.

### Provenance

| Code | Actions |
|---|---|
| `OpenLog` at the start of `publishServe` | `Open` |
| the loop of `Reseal`; `carryForward`; swap of the map | `Seal`, `SealFails`, `Swap` |
| `Log.Record` | `RecordNothing`, `Record`, `AppendFails` (nothing written, or a part) |
| `AcquirePidFile`, SIGHUP, any end | `Claim`, `Hup`, `Ends` |
| r10k, `r10k deploy module`, `.r10k-deploy.json` | `Deploy`, `DeployModules`, `Finish` |
| `provenance`, `compilers` | `Answer` |

A version is what a commit and its modules resolve to; `Seals` lets several resolve
to one. A line of the file is a record or not, and ended by a newline or not: an
append behind a line without one is glued to it. `Record` is one step, as
`O_APPEND` and one `write` make it. Remotes, times and the lookup by prefix are
left out.

### Admission

A goroutine is where it is in `check` and what it has read so far. `Stat`, `Compare`,
`Restat`, `Read`, `Store` and `Lookup` are each one access to the file or one critical
section; `Handshake`, `Request` and `Boot` begin it, `Verdict` and `Finish` end it.
`Install` changes the file to other contents, to something that cannot be used, or to
nothing. A restart loses everything but the file. `begun` and `amid` are history: how
far the file was when a goroutine, and those in flight beside it, began. Parsing and
signatures decide whether a version of the file is whole; they are not modelled
further. Certificates and their issuers are sets.

### Fleet

| Code | Actions |
|---|---|
| `fetchEnvironments` with `serving`; its failure | `Poll`, `PollFails` |
| `handleEnvironments`: `observeServing`, `observePoll`, the answer | `ObserveServing`, `ObservePoll`, `Answer` |
| `sync`, `download`, `serveArtifact` with `observeFetch` | `Skip`, `Fetch`, `NotFound`, `Swap`, `SyncFails` |
| `prune`, `reportServing`, the end of `Once` | `Prune`, `Tell`, `Rest` |
| `Reseal` with `carryForward`; a new publisher | `Reseal`, `Restart` over `Sealed` |
| r10k | `Deploy` |

- A client whose request failed does not stop the handler: `PollFails` frees the agent
  and leaves the request with the publisher, so handlers of one client overlap up to
  the number of `Lines`.
- The entry of a compiler is made by a report or a fetch, never by a poll, and an
  operator's `curl` reports nothing.
- `Prune` is `prune` with `--prune-environments`; an agent without it is one that
  keeps more. An empty answer prunes nothing.
- A reseal here is one step that fails for a set of environments; a new publisher has
  no last version to carry forward.
- `been` and `dropped` are history: what a compiler's links have been, and what r10k
  purged or a new publisher could not seal.
- Times and counts of polls are left out: nothing else in the program depends on them.

## Runs

All bounds are constants of the configuration; nothing else is bounded.

| Run | Question | Instance | Result |
|---|---|---|---|
| `MCAgent_crash` | is the flush owed through every failure? `StaleCacheIsOwed`, `CleanRunConverges`, `KeepsContract` | one service, 2 environments, 2 versions, all faults, no time | holds, 2.0 million states |
| `MCAgent_overlap` | two agents on one node: neither loses the flush the other owes (`KeepsContract`), and no sweep takes an extraction in progress (`LiveExtractionKept`) | service and `--once` together, 1 environment, 2 versions, `MinAge` 2 | holds while flushes succeed and nothing is killed |
| `MCAgent_retention` | `TypeOK`, `CurrentPresent`, `KeepHonoured` | 3 versions, `Keep` 1, `MinAge` 1, ages to 2, disk and kill faults | holds, 1.5 million states |
| `MCAgent_live` | `Converges` | 2 environments, disk and flush faults, pruning | holds under `FairSpec` |
| `MCDeployQueue` | `UnfinishedRetained`, `WaitersAreTold`, `InOrder`, `AcceptedEnds` | 4 submissions, queue 2, history 3 | holds |
| `MCPublisher_race` | `TypeOK`, `AdvertisedOnDisk`, `SignalledIsSealed`, `ServableUnlessTorn`, `KeepsLastGood` | 1 environment of 2 files in 2 versions, 2 deployers, 2 deploys, 1 end of the publisher, all faults | holds, 1.8 million states |
| `MCPublisher_live` | `DeployedIsServed` | 2 environments of 1 file, 1 deployer, 2 deploys, 2 ends, r10k and reseals fail | holds under `FairSpec`, 0.6 million states |
| `MCPidFile` | `TypeOK`, `ServingIsSignalable`, `IncumbentKept` | 4 processes, with or without a stale file | holds |
| `MCArchive` | `TypeOK`, `RoundTrip`, `ArchiveIsOfItsId`, `WithinLimits` | every tree of at most 3 nodes over 5 paths, 3 contents of 2 sizes, 3 modes, 1 edit | holds, 1.5 million states |
| `MCProvenance` | `TypeOK`, `MemoryKnowsDeployed`, `ReportsDeployed` | 2 environments, 2 commits with 2 sets of modules in 2 versions, 2 deploys, 1 failing append, 1 publisher with kills | holds, 1.9 million states |
| `MCAdmission` | `TypeOK`, `StampNeverOutruns`, `ServedOnARecentList`, `RevocationTakesHold`, `ClearedIsServedAgain` | 2 peers, 2 goroutines and the startup, 3 versions of the list, 1 restart | holds under `LiveSpec` |
| `MCFleet` | `TypeOK`, `ServingWasReal`, `EntryIsEarned`, `FleetSettles`, `PrunedWasDropped` | a compiler and an operator with 2 connections each, 2 environments, 1 deploy, 2 faults | holds under `FairSpec`, 0.6 million states |

These configurations are kept for running by hand. Each ends in a violation of the
claim named here, which a comment or a document of the repository makes and the code
does not keep:

| Configuration | Claim |
|---|---|
| `MCAgent_prefix`, `MCAgent_two_agents` | `CurrentPresent` |
| `MCAgent_torn` | `CurrentWhole` |
| `MCAgent_lost_record` | `StaleCacheIsOwed` |
| `MCAgent_inflight` | `InFlightContentKept` |
| `MCAgent_pruned` | `PrunedVersionsGo` |
| `MCDeployQueue_stop` | `StartedEnds` |
| `MCPublisher_stuck` | `AlwaysRepaired` |
| `MCPublisher_torn` | `AdvertisedWhole` |
| `MCPublisher_waited` | `WaitedIsAdvertised` |
| `MCPublisher_hup` | `ExitZeroIsServed` |
| `MCPidFile_winner` | `OneWinner` |
| `MCProvenance_second` | `ReportsDeployed` |
| `MCProvenance_torn` | `PartialWriteCostsOne` |
| `MCAdmission_late` | `OneRequestLate` |
| `MCAdmission_lastgood` | `LastGoodCopyServes` |
| `MCFleet_overlap`, `MCFleet_oversize` | `ReportIsOfLastPoll` |
| `MCFleet_vanish` | `StagedIsKept` |
| `MCArchive_portable` | `SealedIsReproducible` |

`MCProvenance_memory` holds: `FileIsMemory` is the fact that makes `ReportsDeployed`
follow from `MemoryKnowsDeployed`. In `MCAgent_overlap`, `KeepsContract` implies
`StaleCacheIsOwed`.

Why these bounds are enough to be interesting. Two versions are needed for a
stale cache, three for a version that is neither current nor kept. Two
environments are needed for the prefix, for pruning (an empty advertisement
prunes nothing) and for one loop to be at one environment while another is
owed. `Keep` 1 and `MinAge` 1 or 2 with ages up to 2 separate too young, old
enough and older. The crash run stops time (`AgeCap` 0), so nothing is reaped in
it: the obligation to flush does not depend on ages, and the retention run has
them. `DownloadTimeout` < `MinAge` in the overlap run is the code's 30 minutes
against the default 2 hours; `LiveExtractionKept` needs it, and an operator who
sets `--min-age` below the client's timeout loses it. For the queue, a full
queue, one deploy in the worker's hand and one more submission is the first
state in which the history overflows onto something unfinished.

Two files are the least that can be half written, and two versions the least
that can be mixed. A second deploy is needed to write under the reseal of the
first, a second deployer to be killed and leave an orphan beside the next deploy,
and one end of the publisher for everything that a restart forgets; a second one, in
`MCPublisher_live`, ends what was started after a clean end. Environments
meet only in the loop of `Reseal` and in the swap at its end; two of them with two
files and all faults are beyond TLC (more than 15 million states), so the race run
has one, `MCPublisher_live` and `MCPublisher_torn` have two, and the theorems have
any number. Four processes are one more than a claim, its removal by a late reader,
and a claim over that.

An archive needs a file above and one beside another, an excluded name, a link that
stays inside and two that do not, contents of one size and of two, modes that differ
and seal alike, and a tree on either side of both limits: three nodes at five paths
have all of it. Provenance needs two sources of one version and a way back, so two
deploys. Admission needs three versions of the list: one that clears a peer, one that
does not, and one that is unusable or comes after both; with two goroutines one can
store an old list over a new one. In Fleet a second connection is what lets an old
handler run beside a new one, two environments are what a mixture or a prune need,
and two faults are a restart whose reseal fails, or a timeout and a kill.

Symmetry is over `code_id`s in the agent's runs, over files, versions and
deployers in the publisher's, over processes in the pidfile's, over environments in
provenance's, over contents of one size in the archive's, and in no run with a
liveness property. Only the agent's runs check deadlock; in the others a
server that has exited, or has nothing left to do, stops.

### Disagreements with the documentation

Each of these configurations contradicts a sentence of the repository;
`PROJECT.json` quotes it under "findings". In short:

- `prefix`: reaping selects directories by the prefix `<env>_`, so an
  environment's reap removes other environments' versions, current ones
  included.
- `torn`: a kill inside a removal leaves part of a version where a rollback
  takes it for whole.
- `lost_record`: an agent's clearing of `flush-owed` can erase the record of
  another agent's later swap.
- `two_agents`: reap spares the version the process fetched, not the one the
  link names.
- `inflight`: the age guard counts from extraction, not from supersession.
- `pruned`: young versions of a pruned environment are never visited again.
- `stop`: SIGTERM does not wait for the running deploy.
- `stuck`: a tree is hashed and archived in two readings. What r10k writes in
  between ends up under the id of the first; a later deploy of the same content
  finds the file and reuses it, and every agent refuses it.
- `torn`, of `MCPublisher`: a reseal does see half-written deploys, when it runs on
  into the next one or belongs to a publisher that starts.
- `waited`: `deploy --wait` reports "serving" before the map that agents see has
  changed.
- `hup`: a SIGHUP between the pidfile and `signal.Notify` ends the publisher, which
  systemd takes for a clean exit, and the deploy that sent it has exited 0.
- `winner`: `O_EXCL` does not decide between two publishers that start together,
  since the file is empty at first and an empty file is stale.

- `second`: a publisher that will be refused by the pidfile has by then appended to
  the provenance log.
- `torn`, of `MCProvenance`: half a line makes the whole log unreadable, and the
  publisher does not start.
- `late`: one reload that was under way when the list changed may answer later
  requests on the old one.
- `lastgood`: with a list that became unusable, the last good copy is kept and not
  used.
- `overlap`, `oversize`: the report that is shown may be older than the last poll.
- `vanish`: what a restarted publisher cannot seal is gone from its map, and agents
  that prune remove it.
- `portable`: a tree with a link to a host path, or past the limits, is sealed and
  advertised, and no agent ever takes it.

One more has no run of its own: with `MaxHistory` not larger than `QueueDepth`
(`--history 64` or less; the default is 100 against 64) `submit` evicts records
that are still queued and the worker passes over them, so an accepted deploy is
silently not run. `MCDeployQueue.cfg` with `MaxHistory = 1` shows it on
`AcceptedEnds`, and the theorems about the queue assume the opposite by name.

## Fairness

`Agent!FairSpec` is about the service only. Weak fairness: somebody starts it again
after an end, and the steps of `Once` that cannot fail are taken. That start is an
assumption about the operator, not about systemd: `Restart=on-failure` starts a
service that failed, while the end in `MCAgent_live` is a clean `Stop`. A service that
is left stopped converges on nothing. Strong fairness: a fetch, a download, the
recording of a flush, a swap, a flush and the reading of `flush-owed` may fail, are
tried again at the next poll, and succeed at some try. Time passes. Nothing is assumed
of the publisher, of OpenVox Server's compiles and restarts, of the faults or of
stopping. `Converges` only speaks of behaviours in which the advertisement settles.
`DeployQueue!FairSpec`: the worker receives and begins, a deploy ends (`R10kTimeout`
bounds it), `waitFor` ends (it has a timeout). `Publisher!FairSpec`: the publisher
takes its own steps, and systemd starts it again after a failure (`Restart=on-failure`
in `packaging/systemd`). After a clean end, which SIGTERM and SIGHUP are, somebody may
start it and nothing says so, and that it does not end for ever is the bound
`MaxEnds`. So `DeployedIsServed` excepts the publisher that is left cleanly ended, and
only that: if it is ever started again, what was signalled before is served.
`ExitZeroIsServed`, which is what `deploy.go:242-247` promises, excepts an operator's
stop only; `MCPublisher_hup` violates it. Nothing is assumed of deploys or of faults,
since both begin where a signal was accepted.

`Admission!LiveSpec`: a goroutine that has begun runs on; nobody need connect and no
file need change. `Fleet!FairSpec`: the publisher runs the handlers of requests that
arrived, and an agent goes on and polls again; what disturbs them (deploys, faults)
is finite in number, and `FleetSettles` needs a report to fit (`MaxPairs` at least the
number of environments), which `MCFleet_oversize` is about. `Archive` and `Provenance`
state safety only.

## Proofs

| Theorem | Says | Assumes |
|---|---|---|
| `AgentProofs!TypeCorrect` | `[]TypeOK` | nothing |
| `AgentProofs!StaleIsOwed` | `[]StaleCacheIsOwed` | `SafeUse`: agents take turns, or flushes and processes do not fail |
| `AgentProofs!LinksResolve` | `[]CurrentPresent` | agents take turns, `DistinctNames` |
| `AgentProofs!ExtractionsKept` | `[]LiveExtractionKept` | `DownloadTimeout < MinAge` |
| `AgentProofs!KeepIsHonoured` | `KeepHonoured` | agents take turns, `DistinctNames` |
| `AgentProofs!CleanRunArrives` | `CleanRunConverges` | agents take turns |
| `AgentProofs!AlwaysHonest` | `CacheContract`: `[]Honest` | nothing |
| `AgentProofs!ContractKept` | `KeepsContract`: `Agent` implements `CacheContract` | `SafeUse`, `PuppetServer` |
| `DeployQueueProofs!TypeCorrect` | `[]TypeOK` | nothing |
| `DeployQueueProofs!UnfinishedKept` | `[]UnfinishedRetained` | `MaxHistory > QueueDepth` |
| `DeployQueueProofs!RunInOrder` | `[]InOrder` | `MaxHistory > QueueDepth` |
| `DeployQueueProofs!WaitersTold` | `[]WaitersAreTold` | `MaxHistory > QueueDepth` |
| `PublisherProofs!TypeCorrect` | `[]TypeOK` | nothing |
| `PublisherProofs!AdvertisedKept` | `[]AdvertisedOnDisk` | nothing |
| `PublisherProofs!SignalsKept` | `[]SignalledIsSealed` | nothing |
| `PublisherProofs!SignalledServable` | `[]ServableUnlessTorn` | nothing |
| `PublisherProofs!LastGoodKept` | `KeepsLastGood` | nothing |
| `PidFileProofs!TypeCorrect` | `[]TypeOK` | nothing |
| `PidFileProofs!Signalable` | `[]ServingIsSignalable` | nothing |
| `PidFileProofs!IncumbentsKept` | `IncumbentKept` | nothing |
| `AdmissionProofs!TypeSafe` | `[]TypeOK` | nothing |
| `AdmissionProofs!NeverOutruns` | `[]StampNeverOutruns` | `StampsDiffer` |
| `AdmissionProofs!RecentListServes` | `[]ServedOnARecentList` | `StampsDiffer` |
| `FleetProofs!TypeSafe` | `[]TypeOK` | nothing |
| `FleetProofs!ViewWasReal` | `[]ServingWasReal` | nothing |
| `FleetProofs!EntriesAreEarned` | `[]EntryIsEarned` | nothing |
| `FleetProofs!OnlyDroppedIsPruned` | `PrunedWasDropped` | nothing |
| `ProvenanceProofs!TypeSafe` | `[]TypeOK` | nothing |
| `ProvenanceProofs!MemoryKnows` | `[]MemoryKnowsDeployed` | nothing |
| `ProvenanceProofs!FileKept` | `[]FileIsMemory` | `WholeWrites`: one publisher, no write ends in the middle |
| `ProvenanceProofs!ReportsAreDeployed` | `[]ReportsDeployed` | `WholeWrites` |
| `ArchiveProofs!TypeSafe` | `[]TypeOK` | nothing |
| `ArchiveProofs!LimitsHold` | `[]WithinLimits` | nothing |
| `ArchiveProofs!Reproducible` | `[]ArchiveIsOfItsId` | nothing |
| `ArchiveProofs!ComesThrough` | `[]RoundTrip` | nothing |

"Nothing" is nothing beyond the assumptions a module makes of its own constants, which
TLC evaluates in its runs.

The assumptions are not for the prover's comfort: each rules out the
case in which a configuration kept by hand (or the history remark above) shows the
property to fail; for `KeepHonoured` those are `MCAgent_two_agents` and
`MCAgent_prefix`, and for `CleanRunConverges` the first of them, with the property in
place of `CurrentPresent`. `DownloadTimeout < MinAge` is the code's default and what the
overlap run has (see the bounds); `WholeWrites` rules out `MCProvenance_second`, and
`MCProvenance` with `"short"` among its faults, where a record glued to the end of a
torn one is lost. `PuppetServer` is what `CacheContract` is about: without it the agent
flushes nothing.

- *StaleIsOwed*. `StaleCacheIsOwed` is not inductive: at `swap` and `unlink` the
  link is about to move, so the flush must be owed already, and at `clear` the
  record is about to go, so the cache must agree already. `OwedInv` adds both,
  and for overlapping agents that a process between owing and the end of its
  flush loop holds the entry in its own memory, since the file may be cleared by
  another. `QuietSafe`, `OweSafe`, `EndSafe` and `CompileSafe` are the four ways a
  step can touch it.
- *LinksResolve*. `LinkInv` adds that the version a process is about to link is
  on disk (`owe`, `swap`), that the version `reap` spares is the link's, and that a
  pruned environment's link is gone before its versions are; `Alone` says that
  nobody else is at a step. `LinksSpared` is the fact about prefixes: with distinct
  names no candidate of one environment's reap is another's version.
- *ExtractionsKept*. `LiveInv`: an extraction whose process is still writing it is no
  older than `DownloadTimeout`, so a sweep, which takes `MinAge` and older, passes it by,
  whichever process sweeps.
- *KeepIsHonoured*. An action property, from `LinkInv`. `NewerStay`: what `reap` removes
  is past the first `Keep` of an order by age, those are newer or as old and stay, and
  none is the link's version; this holds of a reap cut short by a failing disk too.
- *ContractKept*. The mapping is `owed` = in the file or in some process's memory. Every
  step is shown to be one of the contract's or to leave it untouched (`ContractUntouched`);
  the steps that move a link or end an obligation need `OwedInv`.
- *CleanRunArrives*. `CleanInv` says how far a process without problems has come: the
  environments the loop is through with are at their version, those left to prune are
  not advertised, and what is stale is in the flush loop's list.
- *Queue*. `Numbered` says that the history is an interval of acceptance numbers
  ending at the latest, that the queue is its tail, and that the worker's hand is
  the number before it; `Progressed` says that what is before the hand has ended.
  From the two lengths the hand is still in the history when
  `MaxHistory > QueueDepth`. A record that `waitFor` does not find is therefore one that
  had ended and was pushed out by `MaxHistory` later ones (`WaitersTold`, by `CutIsOld`;
  `Answered`: who waits was accepted).
- *Publisher*. `DiskInv`: the map under construction names only files on disk too,
  and there is none while reaping, so a reap takes nothing that either map needs.
  `SeenInv` follows a signalled tree through a reseal: reported, still to come, read
  so far as it is, hashed as it is, or in the new map; a write ends it, and a
  signal pending promises another reseal. `WholeInv`: outside `torn` both readings
  saw the tree as it is, so every artifact is its name; with the two before it
  gives `ServableUnlessTorn`. `CarriedInv`: what failed and is in the map in force
  is in the map under construction.
- *PidFile*. `AloneInv`: without a race one process at most is claiming, the file is
  the claimer's or the holder's, and nobody holds while a stale file is about to be
  removed. `LaterInv`: a process that started after a claim and finds it in force is
  refused, so it never gets to a step that removes it.

- *Admission*. `AgeInv`: what a goroutine holds, and what is cached, is the list that
  had its stamp or a later one (`Held`, `CacheHeld`), no older than the goroutines in
  flight (`Overlap`), so a list looked up is from after the oldest of them (`LookedUp`).
  `StampsDiffer` says that no two versions of the file share an mtime and a size, which
  is what comparing stamps relies on.
- *Fleet*. `Told`: every report in flight or in the view is one of the maps the
  compiler's links have been, and operators report nothing; `Earned` follows the entries
  through fetches and reports. `DroppedInv`: what a compiler links or was told of is
  still advertised, still in the basedir, or dropped (`Accounted`); while it syncs, what
  it links and was not told of is dropped. `PublisherKeeps` and `AgentKeeps` are the two
  sides of the step.

- *Provenance*. `SealedIsKnown` (in the type invariant): what is about to be recorded was
  sealed. `MemoryInv`: r10k's record names what it deployed, the log a publisher holds
  ends, for every environment it has looked at, with that (`Remembers`), and one pass
  takes each environment once (`InPass`). `NewestAppend` is what an append does to every
  lookup: it changes the answer for its own key only. `FileInv`: the file has whole lines
  and, parsed, is the log in memory; the commands then report what memory knows.
- *Archive*. `FlatInv`: no entry lies where another needs a directory, in what is
  archived and still to be, so that the agent's directory stays a tree. `BudgetInv`: what
  is on disk was charged. `LeftAlone`: until something sealed changes, the tree is the
  one `id` was computed from, what is written followed by what is to be written is its
  listing, and no write fails. `UnpackInv`: what remains to unpack is the end of the
  archive, what is there is what came before, with modes that seal to the same line
  (`ModesComeBack`), and was charged for exactly that; so an archive is refused for its
  limits or its links only. That `Listed` has every path once and in order needs that
  ranks have no gaps: a least place where one is missed (`LeastNatural`, from
  well-foundedness), not induction over an operator.

Model-checked only: `Converges`, `AcceptedEnds`, `DeployedIsServed`,
`RevocationTakesHold`, `ClearedIsServedAgain` and `FleetSettles`. They are liveness under
fairness, which is out of the prover's reach. Every invariant and action property of the
passing runs, and the refinement of `CacheContract`, is a theorem.

## Not modelled

The bytes of archives, manifests, certificates and revocation lists; reading keys and
building TLS configurations; webhook signatures and formats and the check of secrets;
handlers that only answer (health, the list of compilers); `failureLog`, a counter
that decides how loudly a failure is logged; reuse of process ids; flags,
configuration files and output; `treegen` and `testca`, which are test fixtures.
`code-content` reads one file of one version directory, which is there or not.

A composition of `Agent` and `Publisher` with all their steps is beyond TLC; `Fleet` is
the coarse one.

## Plan

Written so far: all modules above, and the theorems about them. What could follow:

1. An abstract specification of the queue (accepted deploys are run once each, in order,
   and remembered until they end) with `DeployQueue` shown to implement it.
2. The same for the publisher: one map in force, replaced by whole maps, each entry
   servable.
3. What a signalled tree's reseal leaves on an agent, by composing the theorems of
   `Publisher` and `Agent` rather than by running both.

## Running

    tlc -config MCAgent_crash.cfg MCAgent
    tlapm AgentProofs.tla
