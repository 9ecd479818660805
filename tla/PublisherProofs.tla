--------------------------- MODULE PublisherProofs ---------------------------
(***************************************************************************)
(* Theorems about Publisher, for any environments, files, versions and     *)
(* deployers, every combination of faults and every bound.                 *)
(***************************************************************************)
EXTENDS Publisher, TLAPS

USE PublisherAssumption DEF vars, base, pub

-----------------------------------------------------------------------------
(* Types.                                                                  *)

DepTypes == [at : Phases, left : SUBSET Writes, wait : BOOLEAN,
             envs : SUBSET Envs, ids : [Envs -> Trees]]

LEMMA TreeFacts ==
    /\ Absent \in Trees /\ Nothing \in [Envs -> Trees] /\ Resting \in DepTypes
    /\ Blank \in [Files -> Vers \cup {Gone, Unread}]
<1>1. Absent \in Trees
  BY DEF Absent, Trees
<1>2. Nothing \in [Envs -> Trees]
  BY <1>1 DEF Nothing
<1>3. Resting \in DepTypes
  <2>1. {} \in SUBSET Writes /\ {} \in SUBSET Envs /\ "idle" \in Phases
    BY DEF Phases
  <2>2. QED
    BY <1>2, <2>1 DEF Resting, DepTypes
<1>4. Blank \in [Files -> Vers \cup {Gone, Unread}]
  BY DEF Blank
<1>5. QED
  BY <1>1, <1>2, <1>3, <1>4

\* A complete reading is a tree.
LEMMA ReadIsTree ==
    ASSUME TypeOK, HasRead PROVE got \in Trees
<1>1. \A f \in Files : got[f] \in Vers \cup {Gone}
  BY DEF TypeOK, HasRead
<1>2. got = [f \in Files |-> got[f]]
  BY DEF TypeOK
<1>3. QED
  BY <1>1, <1>2 DEF Trees

\* The part of TypeOK about the publisher's process and its pidfile.
ProcessTypes ==
    /\ at \in Places /\ ready \in {"no", "claimed", "armed"} /\ hup \in BOOLEAN
    /\ pidfile \in {"none", "live", "stale"} /\ ends \in 0..MaxEnds
    /\ sealed \in [Envs -> Trees] /\ next \in [Envs -> Trees] /\ old \in [Envs -> Trees]
    /\ failed \subseteq Envs /\ entries \subseteq Envs
    /\ env \in (IF at \in {"hash", "archive"} THEN Envs ELSE {NoEnv})
    /\ got \in [Files -> Vers \cup {Gone, Unread}] /\ id \in Trees

\* A process that ends leaves well-typed memory behind.
LEMMA EndsTypes ==
    ASSUME TypeOK, NEW how \in Ended, NEW file \in {"none", "live", "stale"}, Ends(how, file)
    PROVE  ProcessTypes'
<1>1. ends' \in 0..MaxEnds
  BY DEF TypeOK, Ends
<1>2. at' \in Places /\ at' \notin {"hash", "archive"}
  BY DEF Ends, Places, Ended, Clean
<1>3. QED
  BY <1>1, <1>2, TreeFacts DEF Ends, ProcessTypes

\* So does a SIGHUP, wherever it arrives.
LEMMA HupTypes ==
    ASSUME TypeOK, Hup
    PROVE  ProcessTypes'
<1>1. CASE ready = "armed" /\ hup' = TRUE /\ UNCHANGED <<at, ready, pidfile, ends, sealed, failed, pub>>
  BY <1>1 DEF TypeOK, ProcessTypes
<1>2. CASE Ends("hupped", Left)
  <2>1. "hupped" \in Ended /\ Left \in {"none", "live", "stale"}
    BY DEF Ended, Clean, Left, TypeOK
  <2>2. QED
    BY <1>2, <2>1, EndsTypes
<1>3. QED
  BY <1>1, <1>2 DEF Hup

LEMMA PublisherTypes ==
    ASSUME TypeOK, Start \/ Reseal \/ ResealFails \/ ResealStep \/ Fail \/ Claim \/ Arm \/ Crash \/ Stop \/ Reload
    PROVE  TypeOK'
<1>1. CASE Start
  BY <1>1, TreeFacts DEF TypeOK, Start, List, Places, Ended, Clean
<1>2. CASE Reseal \/ ResealFails
  BY <1>2, TreeFacts DEF TypeOK, Reseal, ResealFails, List, Places
<1>3. CASE \E e \in Envs : Pick(e)
  BY <1>3, TreeFacts DEF TypeOK, Pick, Places
<1>4. ASSUME NEW f \in Files, Read(f)
      PROVE  TypeOK'
  <2>1. env \in Envs => tree[env][f] \in Vers \cup {Gone}
    BY DEF TypeOK, Trees
  <2>2. QED
    BY <1>4, <2>1 DEF TypeOK, Read
<1>5. CASE Hashed
  BY <1>5, TreeFacts, ReadIsTree DEF TypeOK, Hashed, Places
<1>6. CASE Install
  BY <1>6, TreeFacts, ReadIsTree DEF TypeOK, Install, Places
<1>7. CASE Swap
  BY <1>7, TreeFacts DEF TypeOK, Swap, Places
<1>8. CASE Reap
  BY <1>8, TreeFacts DEF TypeOK, Reap, Places
<1>9. CASE Fail
  <2>1. env \in Envs /\ sealed[env] \in Trees
    BY <1>9 DEF TypeOK, Fail
  <2>2. next' \in [Envs -> Trees] /\ failed' \subseteq Envs
    BY <1>9, <2>1 DEF TypeOK, Fail, CarryForward
  <2>3. QED
    BY <1>9, <2>2, TreeFacts DEF TypeOK, Fail, Places
<1>10. CASE Claim \/ Arm
  BY <1>10 DEF TypeOK, Claim, Arm, Places
<1>11. CASE Crash
  <2>1. "down" \in Ended /\ Left \in {"none", "live", "stale"}
    BY DEF Ended, Clean, Left, TypeOK
  <2>2. QED
    BY <1>11, <2>1, EndsTypes DEF Crash, TypeOK, ProcessTypes
<1>12. CASE Stop
  <2>1. "stopped" \in Ended /\ Left \in {"none", "live", "stale"}
    BY DEF Ended, Clean, Left, TypeOK
  <2>2. ProcessTypes'
    BY <1>12, <2>1, EndsTypes DEF Stop
  <2>3. QED
    BY <1>12, <2>2 DEF Stop, TypeOK, ProcessTypes
<1>13. CASE Reload
  BY <1>13, HupTypes DEF Reload, TypeOK, ProcessTypes
<1>14. QED
  BY <1>1, <1>2, <1>3, <1>4, <1>5, <1>6, <1>7, <1>8, <1>9, <1>10, <1>11, <1>12, <1>13
     DEF ResealStep

\* What deployer d does next, given the parameters of one step.
Deployer(d) ==
    \/ \E es \in SUBSET Envs \ {{}}, v \in Vers \cup {Gone}, wait \in Waits :
           Begin(d, es, v, wait)
    \/ \E w \in dep[d].left : Write(d, w)
    \/ R10kOk(d) \/ R10kFails(d)
    \/ Signal(d) \/ SignalFails(d)
    \/ \E e \in Envs : Found(d, e)
    \/ Served(d) \/ Return(d)
    \/ KillDeployer(d) \/ OrphanEnds(d)

LEMMA DeployerTypes ==
    ASSUME TypeOK, NEW d \in Deployers, Deployer(d)
    PROVE  TypeOK'
<1>0. dep \in [Deployers -> DepTypes] /\ dep[d] \in DepTypes
  BY DEF TypeOK, DepTypes
<1>1. ASSUME NEW es \in SUBSET Envs, NEW v \in Vers \cup {Gone}, NEW wait \in Waits,
             Begin(d, es, v, wait)
      PROVE  TypeOK'
  <2>1. Changes(es, v) \subseteq Writes
    BY DEF Changes, Writes
  <2>2. dep'[d] \in DepTypes
    BY <1>0, <1>1, <2>1, TreeFacts DEF Begin, DepTypes, Resting, Phases
  <2>3. dep' \in [Deployers -> DepTypes]
    BY <1>0, <1>1, <2>2 DEF Begin
  <2>4. QED
    BY <1>1, <2>3 DEF Begin, TypeOK, DepTypes
<1>2. ASSUME NEW w \in dep[d].left, Write(d, w)
      PROVE  TypeOK'
  <2>1. w \in Writes
    BY <1>0 DEF DepTypes
  <2>2. tree' \in [Envs -> Trees]
    BY <1>2, <2>1 DEF Write, TypeOK, Trees, Writes
  <2>3. dep' \in [Deployers -> DepTypes]
    BY <1>0, <1>2 DEF Write, DepTypes
  <2>4. told' \in [Envs -> BOOLEAN]
    BY <1>2, <2>1 DEF Write, TypeOK, Writes
  <2>5. QED
    BY <1>2, <2>2, <2>3, <2>4 DEF Write, TypeOK, DepTypes
<1>3. CASE R10kOk(d)
  <2>1. [e \in Envs |-> IF e \in dep[d].envs THEN tree[e] ELSE Absent] \in [Envs -> Trees]
    BY TreeFacts DEF TypeOK
  <2>2. dep' \in [Deployers -> DepTypes]
    BY <1>0, <1>3, <2>1 DEF R10kOk, DepTypes, Phases
  <2>3. QED
    BY <1>3, <2>2 DEF R10kOk, TypeOK, DepTypes
<1>4. CASE R10kFails(d) \/ SignalFails(d) \/ Return(d) \/ OrphanEnds(d)
  <2>1. dep' = [dep EXCEPT ![d] = Resting]
    BY <1>4 DEF R10kFails, SignalFails, Return, OrphanEnds
  <2>2. dep' \in [Deployers -> DepTypes]
    BY <1>0, <2>1, TreeFacts
  <2>3. QED
    BY <1>4, <2>2 DEF R10kFails, SignalFails, Return, OrphanEnds, TypeOK, DepTypes
<1>5. CASE Signal(d)
  <2>1. [dep[d] EXCEPT !.at = "wait", !.envs = Awaited(d)] \in DepTypes
    BY <1>0 DEF DepTypes, Awaited, Phases
  <2>2. dep' \in [Deployers -> DepTypes]
    BY <1>0, <1>5, <2>1, TreeFacts DEF Signal
  <2>3. QED
    BY <1>5, <2>2, HupTypes DEF Signal, TypeOK, DepTypes, ProcessTypes
<1>6. ASSUME NEW e \in Envs, Found(d, e)
      PROVE  TypeOK'
  <2>1. dep' \in [Deployers -> DepTypes]
    BY <1>0, <1>6 DEF Found, DepTypes
  <2>2. QED
    BY <1>6, <2>1 DEF Found, TypeOK, DepTypes
<1>7. CASE Served(d)
  <2>1. dep' \in [Deployers -> DepTypes]
    BY <1>0, <1>7 DEF Served, DepTypes, Phases
  <2>2. QED
    BY <1>7, <2>1 DEF Served, TypeOK, DepTypes
<1>8. CASE KillDeployer(d)
  <2>1. [Resting EXCEPT !.at = "orphan", !.left = dep[d].left] \in DepTypes
    BY <1>0, TreeFacts DEF DepTypes, Resting, Phases
  <2>2. dep' \in [Deployers -> DepTypes]
    BY <1>0, <1>8, <2>1, TreeFacts DEF KillDeployer
  <2>3. QED
    BY <1>8, <2>2 DEF KillDeployer, TypeOK, DepTypes
<1>9. QED
  BY <1>1, <1>2, <1>3, <1>4, <1>5, <1>6, <1>7, <1>8 DEF Deployer

\* Next, as the publisher's steps and the deployers'.
LEMMA NextSteps ==
    Next <=> \/ Start \/ Reseal \/ ResealFails \/ ResealStep \/ Fail \/ Claim \/ Arm \/ Crash \/ Stop \/ Reload
             \/ \E d \in Deployers : Deployer(d)
BY DEF Next, Deployer

LEMMA TypeInit == Init => TypeOK
<1> SUFFICES ASSUME Init PROVE TypeOK
  OBVIOUS
<1>1. dep \in [Deployers -> DepTypes]
  BY TreeFacts DEF Init
<1>2. /\ at \in Places /\ ready \in {"no", "claimed", "armed"}
      /\ env \in (IF at \in {"hash", "archive"} THEN Envs ELSE {NoEnv})
  BY DEF Init, Places, Ended, Clean
<1>3. told \in [Envs -> BOOLEAN] /\ deploys \in 0..MaxDeploys /\ ends \in 0..MaxEnds
  BY DEF Init
<1>4. QED
  BY <1>1, <1>2, <1>3, TreeFacts DEF Init, TypeOK, DepTypes

LEMMA TypeStep == TypeOK /\ [Next]_vars => TypeOK'
<1>1. ASSUME TypeOK, Next PROVE TypeOK'
  BY <1>1, NextSteps, PublisherTypes, DeployerTypes
<1>2. ASSUME TypeOK, UNCHANGED vars PROVE TypeOK'
  BY <1>2 DEF TypeOK
<1>3. QED
  BY <1>1, <1>2

\* Every variable stays in its type, whatever the interleaving and the faults.
THEOREM TypeCorrect == Spec => []TypeOK
BY TypeInit, TypeStep, PTL DEF Spec
-----------------------------------------------------------------------------
(* Steps, by what they may change.                                         *)

\* Of a deployer's steps only Write touches a tree, and only Signal reaches the
\* publisher.
LEMMA DeployerFrame ==
    ASSUME NEW d \in Deployers, Deployer(d)
    PROVE  \/ \E w \in dep[d].left : Write(d, w)
           \/ Signal(d)
           \/ UNCHANGED <<base, at, ready, hup, sealed, failed, pub, told, torn>>
BY DEF Deployer, Begin, R10kOk, R10kFails, SignalFails, Found, Served, Return,
       KillDeployer, OrphanEnds

\* A SIGHUP is in the channel or has ended the process.
LEMMA HupFrame ==
    ASSUME Hup
    PROVE  \/ hup' = TRUE /\ UNCHANGED <<at, ready, sealed, failed, pub>>
           \/ at' \in Ended /\ sealed' = Nothing /\ next' = Nothing
BY DEF Hup, Ends, Ended, Clean

-----------------------------------------------------------------------------
(* Every advertised version is on disk.                                    *)

\* AdvertisedOnDisk, of the map that is being built as well; reapArtifacts runs
\* when there is none.
DiskInv ==
    /\ AdvertisedOnDisk
    /\ \A e \in Envs : next[e] # Absent => Exists(e, next[e])
    /\ at = "reap" => next = Nothing

\* A file of these has the name.
Has(files, e, i) == \E a \in files : a.env = e /\ a.id = i

LEMMA ExistsHas == \A e, i : Exists(e, i) <=> Has(artifacts, e, i)
BY DEF Exists, Named, Has

LEMMA InstallHas == Install => Has(artifacts', env, id)
<1> SUFFICES ASSUME Install PROVE Has(artifacts', env, id)
  OBVIOUS
<1> DEFINE new == [env |-> env, id |-> id, content |-> got]
<1>1. new \in artifacts'
  BY DEF Install
<1>2. new.env = env /\ new.id = id
  OBVIOUS
<1>3. QED
  BY <1>1, <1>2 DEF Has

\* A name on disk stays there through every step but a reap, which spares what
\* the map in force names.
LEMMA ExistsKept ==
    ASSUME Next, NEW e \in Envs, NEW i, Has(artifacts, e, i)
    PROVE  Has(artifacts', e, i) \/ (Reap /\ sealed[e] # i)
<1>1. CASE Install
  <2>1. CASE e = env /\ i = id
    BY <1>1, <2>1, InstallHas
  <2>2. CASE ~(e = env /\ i = id)
    <3>1. PICK a \in artifacts : a.env = e /\ a.id = i
      BY DEF Has
    <3>2. a \in artifacts'
      BY <1>1, <2>2, <3>1 DEF Install, Named
    <3>3. QED
      BY <3>1, <3>2 DEF Has
  <2>3. QED
    BY <2>1, <2>2
<1>2. CASE Reap
  <2>1. PICK a \in artifacts : a.env = e /\ a.id = i
    BY DEF Has
  <2>2. sealed[e] = i => a \in artifacts'
    BY <1>2, <2>1 DEF Reap, Superseded
  <2>3. QED
    BY <1>2, <2>1, <2>2 DEF Has
<1>3. CASE ~Install /\ ~Reap
  <2>1. artifacts' = artifacts
    <3>1. CASE \E d \in Deployers : Deployer(d)
      BY <3>1, DeployerFrame DEF Write, Signal
    <3>2. CASE Start \/ Reseal \/ ResealFails \/ ResealStep \/ Fail \/ Claim \/ Arm \/ Crash \/ Stop \/ Reload
      BY <1>3, <3>2 DEF Start, Reseal, ResealFails, ResealStep, Pick, Read, Hashed, Swap, Fail,
         Claim, Arm, Crash, Stop, Reload
    <3>3. QED
      BY <3>1, <3>2, NextSteps
  <2>2. QED
    BY <2>1 DEF Has
<1>4. QED
  BY <1>1, <1>2, <1>3

LEMMA DiskInit == Init => DiskInv
BY DEF Init, DiskInv, AdvertisedOnDisk, Nothing

LEMMA DiskStep ==
    ASSUME TypeOK, DiskInv, Next PROVE DiskInv'
<1>0. /\ \A e \in Envs : Nothing[e] = Absent
      /\ sealed \in [Envs -> Trees] /\ next \in [Envs -> Trees]
  BY DEF Nothing, TypeOK
<1> DEFINE Good(m) == \A e \in Envs : m[e] # Absent => Has(artifacts', e, m[e])
<1>1. Good(sealed)
  BY ExistsKept, ExistsHas DEF DiskInv, AdvertisedOnDisk
<1>2. Good(next)
  <2>1. CASE Reap
    BY <1>0, <2>1 DEF Reap, DiskInv
  <2>2. CASE ~Reap
    BY <2>2, ExistsKept, ExistsHas DEF DiskInv
  <2>3. QED
    BY <2>1, <2>2
<1>3. Good(Nothing)
  BY <1>0
<1>4. SUFFICES Good(sealed') /\ Good(next') /\ (at' = "reap" => next' = Nothing)
  BY DEF DiskInv, AdvertisedOnDisk, Exists, Named, Has
<1>5. CASE UNCHANGED <<at, sealed, next>>
  BY <1>1, <1>2, <1>5 DEF DiskInv
<1>6. CASE sealed' = Nothing /\ next' = Nothing
  BY <1>3, <1>6
<1>7. CASE Start \/ Reseal
  BY <1>1, <1>3, <1>7 DEF Start, Reseal, List
<1>8. CASE \E e \in Envs : Pick(e)
  BY <1>1, <1>2, <1>8 DEF Pick
<1>9. CASE ResealFails \/ \E f \in Files : Read(f)
  BY <1>5, <1>9 DEF Read, ResealFails
<1>10. CASE Hashed
  <2>1. env \in Envs
    BY <1>10 DEF Hashed, TypeOK
  <2>2. Reuse(got) => Has(artifacts', env, got)
    BY <1>10, ExistsHas DEF Reuse, Hashed
  <2>3. QED
    BY <1>0, <1>1, <1>2, <1>10, <2>1, <2>2 DEF Hashed
<1>11. CASE Install
  <2>1. env \in Envs
    BY <1>11 DEF Install, TypeOK
  <2>2. Has(artifacts', env, id)
    BY <1>11, InstallHas
  <2>3. Good(next')
    BY <1>0, <1>2, <1>11, <2>1, <2>2 DEF Install
  <2>4. QED
    BY <1>1, <1>11, <2>3 DEF Install
<1>12. CASE Fail
  <2>1. env \in Envs
    BY <1>12 DEF Fail, TypeOK
  <2>2. CASE Exists(env, sealed[env])
    <3>1. Has(artifacts', env, sealed[env])
      BY <1>12, <2>2, ExistsHas DEF Fail
    <3>2. QED
      BY <1>0, <1>1, <1>2, <1>12, <2>1, <2>2, <3>1 DEF Fail, CarryForward
  <2>3. CASE ~Exists(env, sealed[env])
    BY <1>1, <1>2, <1>12, <2>3 DEF Fail, CarryForward
  <2>4. QED
    BY <2>2, <2>3
<1>13. CASE Swap
  BY <1>2, <1>3, <1>13 DEF Swap
<1>14. CASE Reap
  BY <1>1, <1>3, <1>14 DEF Reap, DiskInv
<1>15. CASE Claim \/ Arm
  BY <1>1, <1>2, <1>15 DEF Claim, Arm
<1>16. CASE Crash \/ Stop
  BY <1>6, <1>16 DEF Crash, Stop, Ends
<1>17. CASE Hup
  <2>1. at' \in Ended => at' # "reap"
    BY DEF Ended, Clean
  <2>2. QED
    BY <1>5, <1>6, <1>17, HupFrame
<1>18. CASE \E d \in Deployers : Deployer(d)
  BY <1>5, <1>17, <1>18, DeployerFrame DEF Write, Signal
<1>19. QED
  BY <1>7, <1>8, <1>9, <1>10, <1>11, <1>12, <1>13, <1>14, <1>15, <1>16, <1>17, <1>18, NextSteps
     DEF ResealStep, Reload

\* The artifact of every advertised version is on disk, whatever else fails.
THEOREM AdvertisedKept == Spec => []AdvertisedOnDisk
<1>1. DiskInv /\ TypeOK /\ [Next]_vars => DiskInv'
  <2>1. ASSUME DiskInv, UNCHANGED vars PROVE DiskInv'
    BY <2>1 DEF DiskInv, AdvertisedOnDisk, Exists, Named
  <2>2. QED
    BY <2>1, DiskStep
<1>2. DiskInv => AdvertisedOnDisk
  BY DEF DiskInv
<1>3. QED
  BY <1>1, <1>2, DiskInit, TypeCorrect, PTL DEF Spec

-----------------------------------------------------------------------------
(* No signal is lost.                                                      *)

Working == {"pick", "hash", "archive"}

\* What has become, in a reseal, of a tree signalled before it began: it failed,
\* its turn is to come, it is being read and what was read is what is there, or
\* the new map has it.
Seen(e) ==
    \/ e \in failed
    \/ e \in entries
    \/ at = "hash" /\ env = e /\ \A f \in Files : got[f] \in {Unread, tree[e][f]}
    \/ at = "archive" /\ env = e /\ id = tree[e]
    \/ env # e /\ next[e] = tree[e]

\* SignalledIsSealed as it is on the way.
SeenInv ==
    \A e \in Envs : told[e] /\ ~hup =>
        /\ at \in Working => Seen(e)
        /\ at \notin Working \cup Ended => e \in failed \/ sealed[e] = tree[e]

LEMMA SeenInit == Init => SeenInv
BY DEF Init, SeenInv

\* A reseal begins with every tree to be looked at, or absent.
LEMMA ListSeen ==
    ASSUME TypeOK, List, at \notin Working, UNCHANGED tree
    PROVE  at' = "pick" /\ \A e \in Envs : Seen(e)'
<1>1. env = NoEnv
  BY DEF TypeOK, Working
<1>2. SUFFICES ASSUME NEW e \in Envs PROVE Seen(e)'
  BY DEF List
<1>3. CASE tree[e] = Absent
  <2>1. next'[e] = tree'[e] /\ env' # e
    BY <1>1, <1>3 DEF List, Nothing
  <2>2. QED
    BY <2>1 DEF Seen
<1>4. CASE tree[e] # Absent
  BY <1>4 DEF List, Seen
<1>5. QED
  BY <1>3, <1>4

\* What was read of a tree that did not change is the tree.
LEMMA ReadWhole ==
    ASSUME TypeOK, NEW e \in Envs, HasRead, \A f \in Files : got[f] \in {Unread, tree[e][f]}
    PROVE  got = tree[e]
<1>1. \A f \in Files : got[f] = tree[e][f]
  BY DEF HasRead
<1>2. got \in Trees /\ tree[e] \in Trees
  BY ReadIsTree DEF TypeOK
<1>3. QED
  BY <1>1, <1>2 DEF Trees

\* The steps of a reseal up to the swap of the map.
LEMMA WorkingSeen ==
    ASSUME TypeOK, NEW e \in Envs, at \in Working, Seen(e),
           \/ \E x \in Envs : Pick(x)
           \/ \E f \in Files : Read(f)
           \/ Hashed \/ Install \/ Fail
    PROVE  at' \in Working /\ Seen(e)'
<1>0. NoEnv # e /\ (at = "pick" => env = NoEnv)
  BY DEF TypeOK
<1>1. ASSUME NEW x \in Envs, Pick(x) PROVE at' \in Working /\ Seen(e)'
  <2>1. at' = "hash" /\ UNCHANGED <<tree, failed, next>> /\ env' = x
    BY <1>1 DEF Pick, Working
  <2>2. CASE x = e
    BY <1>1, <2>1, <2>2 DEF Pick, Seen, Working, Blank
  <2>3. CASE x # e
    BY <1>0, <1>1, <2>1, <2>3 DEF Pick, Seen, Working
  <2>4. QED
    BY <2>2, <2>3
<1>2. ASSUME NEW f \in Files, Read(f) PROVE at' \in Working /\ Seen(e)'
  <2>1. UNCHANGED <<tree, at, failed, entries, env, id, next>>
    BY <1>2 DEF Read
  <2>2. CASE at = "hash" /\ env = e /\ \A g \in Files : got[g] \in {Unread, tree[e][g]}
    <3>1. \A g \in Files : got'[g] \in {Unread, tree'[e][g]}
      BY <1>2, <2>1, <2>2 DEF Read, TypeOK
    <3>2. QED
      BY <2>1, <2>2, <3>1 DEF Seen, Working
  <2>3. CASE ~(at = "hash" /\ env = e /\ \A g \in Files : got[g] \in {Unread, tree[e][g]})
    BY <2>1, <2>3 DEF Seen
  <2>4. QED
    BY <2>2, <2>3
<1>3. CASE Hashed
  <2>1. at' \in Working /\ UNCHANGED <<tree, failed, entries>> /\ env \in Envs
    BY <1>3 DEF Hashed, Working, TypeOK
  <2>2. CASE env = e /\ \A f \in Files : got[f] \in {Unread, tree[e][f]}
    <3>1. got = tree[e]
      BY <1>3, <2>2, ReadWhole DEF Hashed
    <3>2. CASE Reuse(got)
      <4>1. next'[e] = tree'[e] /\ env' # e
        BY <1>0, <1>3, <2>1, <2>2, <3>1, <3>2 DEF Hashed, TypeOK
      <4>2. QED
        BY <2>1, <4>1 DEF Seen
    <3>3. CASE ~Reuse(got)
      BY <1>3, <2>1, <2>2, <3>1, <3>3 DEF Hashed, Seen
    <3>4. QED
      BY <3>2, <3>3
  <2>3. CASE env # e /\ next[e] = tree[e]
    <3>1. next'[e] = tree'[e] /\ env' # e
      BY <1>0, <1>3, <2>1, <2>3 DEF Hashed, TypeOK
    <3>2. QED
      BY <2>1, <3>1 DEF Seen
  <2>4. CASE e \in failed \/ e \in entries
    BY <2>1, <2>4 DEF Seen
  <2>5. QED
    BY <1>3, <2>2, <2>3, <2>4 DEF Seen, Hashed
<1>4. CASE Install
  <2>1. at' \in Working /\ UNCHANGED <<tree, failed, entries>> /\ env \in Envs /\ env' # e
    BY <1>0, <1>4 DEF Install, Working, TypeOK
  <2>2. CASE e \in failed \/ e \in entries
    BY <2>1, <2>2 DEF Seen
  <2>3. CASE (env = e /\ id = tree[e]) \/ (env # e /\ next[e] = tree[e])
    <3>1. next'[e] = tree'[e]
      BY <1>4, <2>1, <2>3 DEF Install, TypeOK
    <3>2. QED
      BY <2>1, <3>1 DEF Seen
  <2>4. QED
    BY <1>4, <2>2, <2>3 DEF Seen, Install
<1>5. CASE Fail
  <2>1. at' \in Working /\ UNCHANGED <<tree, entries>> /\ env \in Envs /\ env' # e
    BY <1>0, <1>5 DEF Fail, Working, TypeOK
  <2>2. CASE e \in failed \/ e = env
    BY <1>5, <2>1, <2>2 DEF Fail, CarryForward, Seen
  <2>3. CASE e \in entries
    BY <2>1, <2>3 DEF Seen
  <2>4. CASE env # e /\ next[e] = tree[e]
    <3>1. next'[e] = tree'[e]
      BY <1>5, <2>1, <2>4 DEF Fail, CarryForward, TypeOK
    <3>2. QED
      BY <2>1, <3>1 DEF Seen
  <2>5. QED
    BY <2>2, <2>3, <2>4 DEF Seen
<1>6. QED
  BY <1>1, <1>2, <1>3, <1>4, <1>5

LEMMA SeenStep ==
    ASSUME TypeOK, SeenInv, Next PROVE SeenInv'
<1> SUFFICES ASSUME NEW e \in Envs, told'[e], ~hup'
             PROVE  /\ at' \in Working => Seen(e)'
                    /\ at' \notin Working \cup Ended => e \in failed' \/ sealed'[e] = tree'[e]
  BY DEF SeenInv
<1>1. CASE Start \/ Reseal
  <2>1. List /\ at \notin Working /\ UNCHANGED tree
    BY <1>1 DEF Start, Reseal, Working, Ended, Clean
  <2>2. at' = "pick" /\ Seen(e)'
    BY <2>1, ListSeen
  <2>3. QED
    BY <2>2 DEF Working
<1>2. CASE (\E x \in Envs : Pick(x)) \/ (\E f \in Files : Read(f)) \/ Hashed \/ Install \/ Fail
  <2>1. UNCHANGED <<hup, told>> /\ at \in Working
    BY <1>2 DEF Pick, Read, Hashed, Install, Fail, Working
  <2>2. Seen(e)
    BY <2>1 DEF SeenInv
  <2>3. QED
    BY <1>2, <2>1, <2>2, WorkingSeen
<1>3. CASE Swap
  <2>1. UNCHANGED <<hup, told, tree, failed>> /\ at = "pick" /\ at' = "reap" /\ sealed' = next /\ entries = {}
    BY <1>3 DEF Swap
  <2>2. Seen(e)
    BY <2>1 DEF SeenInv, Working
  <2>3. e \in failed \/ next[e] = tree[e]
    BY <2>1, <2>2 DEF Seen
  <2>4. QED
    BY <2>1, <2>3 DEF Working
<1>4. CASE Reap \/ Claim \/ Arm
  <2>1. UNCHANGED <<hup, told, tree, failed, sealed>>
    BY <1>4 DEF Reap, Claim, Arm
  <2>2. at \notin Working \cup Ended /\ at' \notin Working
    BY <1>4 DEF Reap, Claim, Arm, Working, Ended, Clean
  <2>3. QED
    BY <2>1, <2>2 DEF SeenInv
<1>5. CASE at' \in Ended
  BY <1>5 DEF Ended, Clean, Working
<1>9. CASE ResealFails
  BY <1>9 DEF ResealFails, Working
<1>6. CASE Crash \/ Stop \/ Hup
  BY <1>5, <1>6, HupFrame DEF Crash, Stop, Ends, Ended, Clean
<1>7. ASSUME NEW d \in Deployers, Deployer(d)
      PROVE  /\ at' \in Working => Seen(e)'
             /\ at' \notin Working \cup Ended => e \in failed' \/ sealed'[e] = tree'[e]
  <2>1. ASSUME NEW w \in dep[d].left, Write(d, w)
        PROVE  UNCHANGED <<at, hup, sealed, failed, pub>> /\ told[e] /\ tree'[e] = tree[e]
    <3>1. w \in Writes
      BY <1>7 DEF TypeOK
    <3>2. w.env # e
      BY <2>1, <3>1 DEF Write, TypeOK, Writes
    <3>3. QED
      BY <2>1, <3>1, <3>2 DEF Write, TypeOK, Writes
  <2>2. CASE Signal(d)
    BY <1>6, <2>2 DEF Signal
  <2>3. CASE UNCHANGED <<at, hup, sealed, failed, pub>> /\ told[e] /\ tree'[e] = tree[e]
    BY <2>3 DEF SeenInv, Seen
  <2>4. QED
    BY <1>7, <2>1, <2>2, <2>3, DeployerFrame
<1>8. QED
  BY <1>1, <1>2, <1>3, <1>4, <1>6, <1>7, <1>9, NextSteps DEF ResealStep, Reload

\* Whatever interleaves: a signalled tree that nobody touched since is the
\* advertised one once the publisher rests, or was reported.
THEOREM SignalsKept == Spec => []SignalledIsSealed
<1>1. SeenInv /\ TypeOK /\ [Next]_vars => SeenInv'
  <2>1. ASSUME SeenInv, UNCHANGED vars PROVE SeenInv'
    BY <2>1 DEF SeenInv, Seen
  <2>2. QED
    BY <2>1, SeenStep
<1>2. SeenInv => SignalledIsSealed
  BY DEF SeenInv, SignalledIsSealed, AtRest, Working, Ended, Clean
<1>3. QED
  BY <1>1, <1>2, SeenInit, TypeCorrect, PTL DEF Spec

-----------------------------------------------------------------------------
(* What is signalled can be downloaded.                                    *)

\* Of an environment never written under a reseal's hands every artifact is what
\* its name says, since both readings see the tree as it is.
WholeInv ==
    \A e \in Envs \ torn :
        /\ \A a \in artifacts : a.env = e => a.content = a.id
        /\ at \in {"hash", "archive"} /\ env = e =>
               \A f \in Files : got[f] \in {Unread, tree[e][f]}
        /\ at = "archive" /\ env = e => id = tree[e]

LEMMA WholeInit == Init => WholeInv
BY DEF Init, WholeInv

LEMMA WholeStep ==
    ASSUME TypeOK, WholeInv, Next PROVE WholeInv'
<1>0. Blank = [f \in Files |-> Unread] /\ NoEnv \notin Envs
  BY DEF Blank
<1>1. CASE Start \/ Reseal \/ ResealFails \/ Swap \/ Claim \/ Arm
  BY <1>1 DEF Start, Reseal, ResealFails, List, Swap, Claim, Arm, WholeInv
<1>2. CASE \E x \in Envs : Pick(x)
  BY <1>0, <1>2 DEF Pick, WholeInv
<1>3. ASSUME NEW f \in Files, Read(f) PROVE WholeInv'
  BY <1>3 DEF Read, WholeInv, TypeOK
<1>4. CASE Hashed
  <2>1. ASSUME env \in Envs \ torn PROVE got = tree[env]
    BY <1>4, <2>1, ReadWhole DEF WholeInv, Hashed
  <2>2. QED
    BY <1>0, <1>4, <2>1 DEF Hashed, WholeInv
<1>5. CASE Install
  <2>1. ASSUME env \in Envs \ torn PROVE got = id
    <3>1. got = tree[env]
      BY <1>5, <2>1, ReadWhole DEF WholeInv, Install
    <3>2. QED
      BY <1>5, <2>1, <3>1 DEF WholeInv, Install
  <2> DEFINE new == [env |-> env, id |-> id, content |-> got]
  <2>2. \A a \in artifacts' : a \in artifacts \/ a = new
    BY <1>5 DEF Install
  <2>3. new.env = env /\ new.id = id /\ new.content = got
    OBVIOUS
  <2>4. \A e \in Envs \ torn : \A a \in artifacts' : a.env = e => a.content = a.id
    BY <2>1, <2>2, <2>3 DEF WholeInv
  <2>5. QED
    BY <1>5, <2>4 DEF Install, WholeInv
<1>6. CASE Fail
  BY <1>0, <1>6 DEF Fail, WholeInv
<1>7. CASE Reap
  BY <1>7 DEF Reap, WholeInv
<1>8. CASE UNCHANGED <<tree, artifacts, torn, at, env, got, id>>
  BY <1>8 DEF WholeInv
<1>9. CASE at' \in Ended /\ UNCHANGED <<tree, artifacts, torn>>
  BY <1>9 DEF WholeInv, Ended, Clean
<1>10. CASE Crash \/ Stop
  BY <1>9, <1>10 DEF Crash, Stop, Ends, Ended, Clean
<1>11. CASE Hup /\ UNCHANGED <<tree, artifacts, torn>>
  BY <1>8, <1>9, <1>11, HupFrame
<1>12. ASSUME NEW d \in Deployers, NEW w \in dep[d].left, Write(d, w) PROVE WholeInv'
  <2>1. w \in Writes
    BY DEF TypeOK
  <2>2. SUFFICES ASSUME NEW e \in Envs \ torn' PROVE
               /\ \A a \in artifacts' : a.env = e => a.content = a.id
               /\ at' \in {"hash", "archive"} /\ env' = e =>
                      \A f \in Files : got'[f] \in {Unread, tree'[e][f]}
               /\ at' = "archive" /\ env' = e => id' = tree'[e]
    BY DEF WholeInv
  <2>3. e \notin torn /\ UNCHANGED <<artifacts, at, env, got, id>>
    BY <1>12 DEF Write
  <2>4. at \in {"hash", "archive"} /\ env = e => tree'[e] = tree[e]
    <3>1. at \in {"hash", "archive"} /\ env = e => w.env # e
      BY <1>12 DEF Write
    <3>2. w.env # e => tree'[e] = tree[e]
      BY <1>12, <2>1 DEF Write, TypeOK, Writes
    <3>3. QED
      BY <3>1, <3>2
  <2>5. QED
    BY <2>3, <2>4 DEF WholeInv
<1>13. CASE \E d \in Deployers : Deployer(d)
  <2>1. ASSUME NEW d \in Deployers, Deployer(d), ~\E w \in dep[d].left : Write(d, w)
        PROVE  UNCHANGED <<tree, artifacts, torn>> /\ (Hup \/ UNCHANGED <<at, env, got, id>>)
    BY <2>1, DeployerFrame DEF Signal
  <2>2. QED
    BY <1>8, <1>11, <1>12, <1>13, <2>1
<1>14. QED
  BY <1>1, <1>2, <1>3, <1>4, <1>5, <1>6, <1>7, <1>10, <1>11, <1>13, NextSteps
     DEF ResealStep, Reload

\* What was signalled can be downloaded and verified, after any failures, kills
\* and restarts, but for an environment once written between two readings.
THEOREM SignalledServable == Spec => []ServableUnlessTorn
<1>1. WholeInv /\ TypeOK /\ [Next]_vars => WholeInv'
  <2>1. ASSUME WholeInv, UNCHANGED vars PROVE WholeInv'
    BY <2>1 DEF WholeInv
  <2>2. QED
    BY <2>1, WholeStep
<1>2. WholeInv /\ SignalledIsSealed /\ AdvertisedOnDisk => ServableUnlessTorn
  <2> SUFFICES ASSUME WholeInv, SignalledIsSealed, AdvertisedOnDisk, NEW e \in Envs \ torn,
                      AtRest(e), e \notin failed, tree[e] # Absent
               PROVE  \E a \in Named(e, sealed[e]) : a.content = tree[e]
    BY DEF ServableUnlessTorn, Servable
  <2>1. sealed[e] = tree[e]
    BY DEF SignalledIsSealed
  <2>2. PICK a \in Named(e, sealed[e]) : TRUE
    BY <2>1 DEF AdvertisedOnDisk, Exists
  <2>3. a.content = a.id /\ a.id = sealed[e]
    BY <2>2 DEF WholeInv, Named
  <2>4. QED
    BY <2>1, <2>2, <2>3
<1>3. QED
  BY <1>1, <1>2, WholeInit, TypeCorrect, SignalsKept, AdvertisedKept, PTL DEF Spec

-----------------------------------------------------------------------------
(* The last good version is kept.                                          *)

\* In the map being built an environment that failed has a version if it has one
\* in the map in force.
CarriedInv ==
    /\ at \in Working => \A e \in failed : sealed[e] # Absent => next[e] # Absent
    /\ at = "archive" => id # Absent

LEMMA CarriedInit == Init => CarriedInv
BY DEF Init, CarriedInv, Working

LEMMA CarriedStep ==
    ASSUME TypeOK, DiskInv, CarriedInv, Next PROVE CarriedInv'
<1>1. CASE Start \/ Reseal
  BY <1>1 DEF Start, Reseal, List, CarriedInv
<1>2. CASE (\E x \in Envs : Pick(x)) \/ (\E f \in Files : Read(f))
  BY <1>2 DEF Pick, Read, CarriedInv, Working
<1>3. CASE Hashed
  <2>1. \A e \in failed : next[e] # Absent => next'[e] # Absent
    BY <1>3 DEF Hashed, TypeOK
  <2>2. QED
    BY <1>3, <2>1 DEF Hashed, CarriedInv, Working
<1>4. CASE Install
  <2>1. \A e \in failed : next[e] # Absent => next'[e] # Absent
    BY <1>4 DEF Install, TypeOK, CarriedInv
  <2>2. QED
    BY <1>4, <2>1 DEF Install, CarriedInv, Working
<1>5. CASE Fail
  <2>1. env \in Envs /\ at \in Working /\ at' = "pick" /\ sealed' = sealed
    BY <1>5 DEF Fail, TypeOK, Working
  <2>2. failed' = failed \cup {env}
    BY <1>5 DEF Fail, CarryForward
  <2>3. sealed[env] # Absent => next'[env] # Absent
    BY <1>5, <2>1 DEF Fail, CarryForward, DiskInv, AdvertisedOnDisk, TypeOK
  <2>4. \A e \in failed \ {env} : next'[e] = next[e]
    BY <1>5, <2>1 DEF Fail, CarryForward, TypeOK
  <2>5. QED
    BY <2>1, <2>2, <2>3, <2>4 DEF CarriedInv
<1>6. CASE at' \notin Working
  BY <1>6 DEF CarriedInv, Working
<1>7. CASE ResealFails \/ Swap \/ Reap \/ Claim \/ Arm \/ Crash \/ Stop
  BY <1>6, <1>7 DEF ResealFails, Swap, Reap, Claim, Arm, Crash, Stop, Ends, Working
<1>8. CASE UNCHANGED <<at, sealed, failed, pub>>
  BY <1>8 DEF CarriedInv
<1>9. CASE Hup
  BY <1>6, <1>8, <1>9, HupFrame DEF Ended, Clean, Working
<1>10. CASE \E d \in Deployers : Deployer(d)
  BY <1>8, <1>9, <1>10, DeployerFrame DEF Write, Signal
<1>11. QED
  BY <1>1, <1>2, <1>3, <1>4, <1>5, <1>7, <1>9, <1>10, NextSteps DEF ResealStep, Reload

\* No reseal of a living process takes away an environment it could not seal.
THEOREM LastGoodKept == Spec => KeepsLastGood
<1> DEFINE Keep == \A e \in Envs :
        sealed[e] # Absent /\ sealed'[e] = Absent => e \notin failed \/ at' \in Ended
<1>1. CarriedInv /\ DiskInv /\ TypeOK /\ [Next]_vars => CarriedInv' /\ DiskInv'
  <2>1. ASSUME CarriedInv, DiskInv, UNCHANGED vars PROVE CarriedInv' /\ DiskInv'
    BY <2>1 DEF CarriedInv, DiskInv, AdvertisedOnDisk, Exists, Named
  <2>2. QED
    BY <2>1, CarriedStep, DiskStep
<1>2. CarriedInv /\ Next => Keep
  <2> SUFFICES ASSUME CarriedInv, Next, NEW e \in Envs, sealed[e] # Absent, sealed'[e] = Absent
               PROVE  e \notin failed \/ at' \in Ended
    OBVIOUS
  <2>1. CASE Swap
    BY <2>1 DEF Swap, CarriedInv, Working
  <2>2. CASE Start \/ Reseal \/ ResealFails \/ (\E x \in Envs : Pick(x))
             \/ (\E f \in Files : Read(f)) \/ Hashed \/ Install \/ Fail \/ Reap \/ Claim \/ Arm
    BY <2>2 DEF Start, Reseal, ResealFails, Pick, Read, Hashed, Install, Fail, Reap, Claim, Arm
  <2>3. CASE Crash \/ Stop \/ Hup
    BY <2>3, HupFrame DEF Crash, Stop, Ends, Ended, Clean
  <2>4. CASE \E d \in Deployers : Deployer(d)
    BY <2>3, <2>4, DeployerFrame DEF Write, Signal
  <2>5. QED
    BY <2>1, <2>2, <2>3, <2>4, NextSteps DEF ResealStep, Reload
<1>3. CarriedInv /\ [Next]_vars => [Keep]_vars
  BY <1>2
<1>4. QED
  BY <1>1, <1>3, CarriedInit, DiskInit, TypeCorrect, PTL DEF Spec, KeepsLastGood
=============================================================================
