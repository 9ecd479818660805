-------------------------- MODULE ProvenanceProofs --------------------------
(***************************************************************************)
(* Theorems about Provenance, for any environments, commits, modules,      *)
(* versions and publishers.                                                *)
(***************************************************************************)
EXTENDS Provenance, Integers, SequenceTheorems, WellFoundedInduction, TLAPS

\* A set of naturals that is not empty has a least element.
LEMMA LeastNatural ==
    ASSUME NEW S \in SUBSET Nat, S # {}
    PROVE  \E x \in S : \A y \in S : x <= y
<1>1. PICK x \in S : \A y \in S : <<y, x>> \notin OpToRel(<, Nat)
  BY NatLessThanWellFounded, WFMin
<1>2. \A y \in S : ~(y < x)
  BY <1>1 DEF OpToRel
<1>3. QED
  BY <1>2

\* One with a bound has a greatest.
LEMMA GreatestNatural ==
    ASSUME NEW S \in SUBSET Nat, S # {}, NEW n \in Nat, \A y \in S : y <= n
    PROVE  \E x \in S : \A y \in S : y <= x
<1> DEFINE Bounds == {k \in Nat : \A y \in S : y <= k}
<1>1. PICK k \in Bounds : \A m \in Bounds : k <= m
  BY LeastNatural
<1>2. k \in S
  <2>1. SUFFICES ASSUME k \notin S PROVE FALSE
    OBVIOUS
  <2>2. PICK y \in S : TRUE
    OBVIOUS
  <2>3. k # 0
    BY <2>1, <2>2
  <2>4. k - 1 \in Bounds
    BY <2>1, <2>3
  <2>5. QED
    BY <1>1, <2>4
<1>3. QED
  BY <1>2

-----------------------------------------------------------------------------
(* The log.                                                                *)

\* Newest answers a record of the log, of that key.
LEMMA NewestIsThere ==
    ASSUME NEW recs \in Seq(Entry), NEW e, NEW id, Newest(recs, e, id) # None
    PROVE  /\ Newest(recs, e, id) \in Entry
           /\ Newest(recs, e, id).env = e /\ Newest(recs, e, id).id = id
<1> DEFINE Of == {i \in DOMAIN recs : recs[i].env = e /\ recs[i].id = id}
<1>1. Of # {}
  BY DEF Newest
<1>2. Of \in SUBSET Nat /\ Len(recs) \in Nat /\ \A y \in Of : y <= Len(recs)
  OBVIOUS
<1>3. \E i \in Of : \A j \in Of : j <= i
  <2> HIDE DEF Of
  <2> QED
    BY <1>1, <1>2, GreatestNatural
<1> DEFINE last == CHOOSE i \in Of : \A j \in Of : j <= i
<1>4. last \in Of
  <2> HIDE DEF Of
  <2> QED
    BY <1>3
<1>5. Newest(recs, e, id) = recs[last]
  BY <1>1 DEF Newest
<1>6. QED
  BY <1>4, <1>5

\* Behind a log, a record is the newest of its key and of no other.
LEMMA NewestAppend ==
    ASSUME NEW recs \in Seq(Entry), NEW r \in Entry, NEW e, NEW id
    PROVE  Newest(Append(recs, r), e, id) =
             IF r.env = e /\ r.id = id THEN r ELSE Newest(recs, e, id)
<1> DEFINE more == Append(recs, r)
           Old == {i \in DOMAIN recs : recs[i].env = e /\ recs[i].id = id}
           All == {i \in DOMAIN more : more[i].env = e /\ more[i].id = id}
<1>1. /\ DOMAIN more = DOMAIN recs \cup {Len(recs) + 1}
      /\ more[Len(recs) + 1] = r /\ \A i \in DOMAIN recs : more[i] = recs[i]
  OBVIOUS
<1>2. CASE r.env = e /\ r.id = id
  <2> DEFINE n == Len(recs) + 1
  <2>1. n \in All /\ All \subseteq Nat /\ \A j \in All : j <= n
    BY <1>1, <1>2
  <2>2. (CHOOSE i \in All : \A j \in All : j <= i) = n
    <3> HIDE DEF All
    <3>1. \A i \in All : (\A j \in All : j <= i) => i = n
      BY <2>1
    <3>2. QED
      BY <2>1, <3>1
  <2>3. QED
    BY <1>1, <1>2, <2>1, <2>2 DEF Newest
<1>3. CASE ~(r.env = e /\ r.id = id)
  <2>1. All = Old
    BY <1>1, <1>3
  <2>2. Old = {} \/ (CHOOSE i \in Old : \A j \in Old : j <= i) \in DOMAIN recs
    <3>1. Old \in SUBSET Nat /\ Len(recs) \in Nat /\ \A y \in Old : y <= Len(recs)
      OBVIOUS
    <3>2. Old # {} => \E i \in Old : \A j \in Old : j <= i
      <4> HIDE DEF Old
      <4> QED
        BY <3>1, GreatestNatural
    <3>3. Old # {} => (CHOOSE i \in Old : \A j \in Old : j <= i) \in Old
      <4> HIDE DEF Old
      <4> QED
        BY <3>2
    <3>4. QED
      BY <3>3
  <2>3. QED
    <3> HIDE DEF Old, All
    <3>1. Newest(more, e, id) =
            IF All = {} THEN None ELSE more[CHOOSE i \in All : \A j \in All : j <= i]
      BY DEF Newest, All
    <3>2. Newest(recs, e, id) =
            IF Old = {} THEN None ELSE recs[CHOOSE i \in Old : \A j \in Old : j <= i]
      BY DEF Newest, Old
    <3>3. QED
      BY <1>1, <1>3, <2>1, <2>2, <3>1, <3>2
<1>4. QED
  BY <1>2, <1>3

\* A file that can be read is a sequence of records.
LEMMA ParsedRecords ==
    ASSUME NEW lines \in Seq(Line), Readable(lines)
    PROVE  Parsed(lines) \in Seq(Entry)
<1>1. ASSUME NEW i \in DOMAIN lines PROVE lines[i].rec \in Entry
  <2>1. lines[i] \in Line
    OBVIOUS
  <2>2. lines[i].rec \in Entry \cup {None}
    BY <2>1 DEF Line
  <2>3. QED
    BY <2>2 DEF Readable
<1>2. DOMAIN lines = 1 .. Len(lines) /\ Len(lines) \in Nat
  OBVIOUS
<1>3. QED
  BY <1>1, <1>2, IsASeq DEF Parsed

\* Lines stay lines.
LEMMA BehindLines ==
    ASSUME file \in Seq(Line), NEW line \in Line
    PROVE  Behind(line) \in Seq(Line)
<1> DEFINE n == Len(file)
<1>1. CASE n > 0 /\ ~file[n].ended
  <2>1. [rec |-> None, ended |-> line.ended] \in Line
    BY DEF Line
  <2>2. [file EXCEPT ![n] = [rec |-> None, ended |-> line.ended]] \in Seq(Line)
    BY <1>1, <2>1
  <2>3. QED
    BY <1>1, <2>2 DEF Behind
<1>2. CASE ~(n > 0 /\ ~file[n].ended)
  BY <1>2 DEF Behind
<1>3. QED
  BY <1>1, <1>2

-----------------------------------------------------------------------------
(* Types.                                                                  *)

\* What is about to be recorded was sealed.
SealedIsKnown ==
    \A p \in Publishers :
        pc[p] = "record" => cur[p] \in Envs /\ next[p][cur[p]] \in CodeIds

TypeInv == TypeOK /\ SealedIsKnown

\* What a publisher found is a record, wherever r10k left its own.
LEMMA FoundIsEntry ==
    ASSUME TypeInv, NEW p \in Publishers, pc[p] = "record", noted[cur[p]] # None
    PROVE  Found(p) \in Entry /\ Found(p) # None
<1>1. cur[p] \in Envs /\ next[p][cur[p]] \in CodeIds
  BY DEF TypeInv, SealedIsKnown
<1>2. noted[cur[p]] \in Commits /\ source[cur[p]] \in Commits \X Modules
  BY <1>1 DEF TypeInv, TypeOK
<1>3. source[cur[p]][2] \in Modules
  BY <1>2
<1>4. Found(p) \in Entry
  BY <1>1, <1>2, <1>3 DEF Found, Entry
<1>5. QED
  BY <1>4, ProvenanceAssumption DEF Entry

\* Steps of r10k keep the types ...
LEMMA TreesKeepTypes ==
    ASSUME TypeInv, NEW e \in Envs, NEW m \in Modules,
           DeployModules(e, m) \/ Finish(e) \/ \E c \in Commits : Deploy(e, c, m)
    PROVE  TypeInv'
<1> USE ProvenanceAssumption DEF TypeInv, TypeOK, Touched
<1>1. ASSUME NEW c \in Commits, Deploy(e, c, m) PROVE TypeInv'
  <2>1. UNCHANGED <<noted, file, log, pc, todo, cur, next, served, owner, failed>>
    BY <1>1 DEF Deploy
  <2>2. /\ source' \in [Envs -> Commits \X Modules] /\ busy' \subseteq Envs
        /\ deploys' \in 0 .. MaxDeploys
        /\ settled' \in [Publishers -> SUBSET Envs]
    BY <1>1 DEF Deploy
  <2>3. QED
    BY <2>1, <2>2 DEF SealedIsKnown
<1>2. CASE Finish(e)
  <2>1. UNCHANGED <<source, deploys, file, log, pc, todo, cur, next, served, owner, failed>>
    BY <1>2 DEF Finish
  <2>2. source[e][1] \in Commits
    OBVIOUS
  <2>3. /\ noted' \in [Envs -> Commits \cup {None}] /\ busy' \subseteq Envs
        /\ settled' \in [Publishers -> SUBSET Envs]
    BY <1>2, <2>2 DEF Finish
  <2>4. QED
    BY <2>1, <2>3 DEF SealedIsKnown
<1>3. CASE DeployModules(e, m)
  <2>1. UNCHANGED <<noted, busy, file, log, pc, todo, cur, next, served, owner, failed>>
    BY <1>3 DEF DeployModules
  <2>2. source[e][1] \in Commits
    OBVIOUS
  <2>3. /\ source' \in [Envs -> Commits \X Modules] /\ deploys' \in 0 .. MaxDeploys
        /\ settled' \in [Publishers -> SUBSET Envs]
    BY <1>3, <2>2 DEF DeployModules
  <2>4. QED
    BY <2>1, <2>3 DEF SealedIsKnown
<1>4. QED
  BY <1>1, <1>2, <1>3

\* ... and so do the publisher's.
LEMMA SealingKeepsTypes ==
    ASSUME TypeInv, NEW p \in Publishers,
           \/ Open(p) \/ Hup(p) \/ Swap(p)
           \/ \E e \in Envs : Seal(p, e) \/ SealFails(p, e)
    PROVE  TypeInv'
<1> USE DEF TypeInv, TypeOK
<1>1. CASE Open(p)
  <2>1. Parsed(file) \in Seq(Entry)
    BY <1>1, ParsedRecords DEF Open
  <2>2. QED
    BY <1>1, <2>1, ProvenanceAssumption DEF Open, Go, Places, tree, SealedIsKnown
<1>2. CASE Hup(p)
  <2>1. Nothing \in Maps
    BY DEF Nothing, Maps
  <2>2. QED
    BY <1>2, <2>1 DEF Hup, Go, Places, tree, SealedIsKnown
<1>3. ASSUME NEW e \in Envs, Seal(p, e) PROVE TypeInv'
  <2>1. Seals[source[e]] \in CodeIds
    BY ProvenanceAssumption
  <2>2. /\ next' \in [Publishers -> Maps]
        /\ next'[p][e] \in CodeIds /\ \A q \in Publishers \ {p} : next'[q] = next[q]
    BY <1>3, <2>1 DEF Seal, Maps
  <2>3. /\ cur' \in [Publishers -> Envs \cup {None}] /\ cur'[p] = e
        /\ \A q \in Publishers \ {p} : cur'[q] = cur[q] /\ pc'[q] = pc[q]
        /\ pc' \in [Publishers -> Places] /\ todo' \in [Publishers -> SUBSET Envs]
        /\ settled' \in [Publishers -> SUBSET Envs]
    BY <1>3 DEF Seal, Go, Places
  <2>4. UNCHANGED <<source, noted, busy, deploys, file, log, served, owner, failed>>
    BY <1>3 DEF Seal, tree
  <2>5. SealedIsKnown'
    BY <2>2, <2>3 DEF SealedIsKnown
  <2>6. QED
    BY <2>2, <2>3, <2>4, <2>5
<1>4. ASSUME NEW e \in Envs, SealFails(p, e) PROVE TypeInv'
  <2>1. next' \in [Publishers -> Maps] /\ \A q \in Publishers \ {p} : next'[q] = next[q]
    BY <1>4 DEF SealFails, Maps
  <2>2. todo' \in [Publishers -> SUBSET Envs] /\ pc[p] # "record"
    BY <1>4 DEF SealFails
  <2>3. UNCHANGED <<source, noted, busy, deploys, file, log, pc, cur, served, owner, settled, failed>>
    BY <1>4 DEF SealFails, tree
  <2>4. QED
    BY <2>1, <2>2, <2>3 DEF SealedIsKnown
<1>5. CASE Swap(p)
  BY <1>5 DEF Swap, Go, Places, tree, SealedIsKnown
<1>6. QED
  BY <1>1, <1>2, <1>3, <1>4, <1>5

LEMMA RecordingKeepsTypes ==
    ASSUME TypeInv, NEW p \in Publishers,
           RecordNothing(p) \/ Record(p) \/ AppendFails(p)
    PROVE  TypeInv'
<1> USE DEF TypeInv, TypeOK
<1>1. /\ UNCHANGED <<source, noted, busy, deploys, todo, next, served, owner, settled>>
      /\ pc' = [pc EXCEPT ![p] = "sealing"] /\ cur' = [cur EXCEPT ![p] = None]
  BY DEF RecordNothing, Record, AppendFails, Recorded, Go, tree
<1>2. /\ SealedIsKnown' /\ pc' \in [Publishers -> Places]
      /\ cur' \in [Publishers -> Envs \cup {None}]
  BY <1>1 DEF SealedIsKnown, Places
<1>3. CASE RecordNothing(p)
  BY <1>1, <1>2, <1>3 DEF RecordNothing
<1>4. CASE Record(p) \/ AppendFails(p)
  <2>1. pc[p] = "record" /\ noted[cur[p]] # None
    BY <1>4 DEF Record, AppendFails, Known
  <2>2. Found(p) \in Entry
    BY <2>1, FoundIsEntry
  <2>3. \A r \in {None, Found(p)} : \A b \in BOOLEAN : [rec |-> r, ended |-> b] \in Line
    BY <2>2 DEF Line
  <2>4. file' \in Seq(Line)
    <3>1. \/ file' = file
          \/ \E r \in {None, Found(p)}, b \in BOOLEAN :
                file' = Behind([rec |-> r, ended |-> b])
      BY <1>4 DEF Record, AppendFails
    <3>2. QED
      BY <2>3, <3>1, BehindLines
  <2>5. log' \in [Publishers -> Seq(Entry)]
    <3>1. log' = [log EXCEPT ![p] = Append(log[p], Found(p))]
      BY <1>4 DEF Record, AppendFails
    <3>2. Append(log[p], Found(p)) \in Seq(Entry)
      BY <2>2
    <3>3. QED
      BY <3>1, <3>2
  <2>6. failed' \in [Publishers -> 0 .. MaxFailed]
    <3>1. \/ UNCHANGED failed
          \/ failed[p] < MaxFailed /\ failed' = [failed EXCEPT ![p] = @ + 1]
      BY <1>4 DEF Record, AppendFails
    <3>2. failed[p] < MaxFailed => failed[p] + 1 \in 0 .. MaxFailed
      BY ProvenanceAssumption
    <3>3. QED
      BY <3>1, <3>2
  <2>7. QED
    BY <1>1, <1>2, <2>4, <2>5, <2>6
<1>5. QED
  BY <1>3, <1>4

LEMMA EndingKeepsTypes ==
    ASSUME TypeInv, NEW p \in Publishers, Claim(p) \/ Ends(p)
    PROVE  TypeInv'
<1> USE DEF TypeInv, TypeOK
<1>1. UNCHANGED <<source, noted, busy, deploys, file>>
  BY DEF Claim, Ends, tree
<1>2. owner' \in Publishers \cup {None}
  BY DEF Claim, Ends
<1>3. CASE Forget(p)
  <2>1. Nothing \in Maps /\ <<>> \in Seq(Entry) /\ 0 \in 0 .. MaxFailed
    BY ProvenanceAssumption DEF Nothing, Maps
  <2>2. QED
    BY <1>1, <1>2, <1>3, <2>1 DEF Forget, Go, Places, SealedIsKnown
<1>4. CASE Go(p, "idle") /\ UNCHANGED <<log, todo, cur, next, served, settled, failed>>
  BY <1>1, <1>2, <1>4 DEF Go, Places, SealedIsKnown
<1>5. QED
  BY <1>3, <1>4 DEF Claim, Ends

LEMMA TypeInvariant == Spec => []TypeInv
<1>1. Init => TypeInv
  <2> SUFFICES ASSUME Init PROVE TypeInv
    OBVIOUS
  <2>1. Nothing \in Maps /\ <<>> \in Seq(Entry) /\ <<>> \in Seq(Line) /\ 0 \in 0 .. MaxFailed
    BY ProvenanceAssumption DEF Nothing, Maps
  <2>2. First[1] \in Commits
    BY ProvenanceAssumption
  <2>3. QED
    BY <2>1, <2>2, ProvenanceAssumption
    DEF Init, TypeInv, TypeOK, SealedIsKnown, Places
<1>2. TypeInv /\ [Next]_vars => TypeInv'
  <2> SUFFICES ASSUME TypeInv, [Next]_vars PROVE TypeInv'
    OBVIOUS
  <2>1. CASE UNCHANGED vars
    BY <2>1 DEF vars, tree, TypeInv, TypeOK, SealedIsKnown
  <2>2. ASSUME NEW e \in Envs, NEW m \in Modules,
               DeployModules(e, m) \/ \E c \in Commits : Deploy(e, c, m)
        PROVE  TypeInv'
    BY <2>2, TreesKeepTypes
  <2>3. ASSUME NEW e \in Envs, Finish(e) PROVE TypeInv'
    <3>1. First[2] \in Modules
      BY ProvenanceAssumption
    <3>2. QED
      BY <2>3, <3>1, TreesKeepTypes
  <2>4. ASSUME NEW p \in Publishers, NEW e \in Envs, Seal(p, e) \/ SealFails(p, e)
        PROVE  TypeInv'
    BY <2>4, SealingKeepsTypes
  <2>5. ASSUME NEW p \in Publishers, Open(p) \/ Hup(p) \/ Swap(p)
        PROVE  TypeInv'
    BY <2>5, SealingKeepsTypes
  <2>6. ASSUME NEW p \in Publishers,
               \/ RecordNothing(p) \/ Record(p) \/ AppendFails(p) \/ Claim(p) \/ Ends(p)
        PROVE  TypeInv'
    BY <2>6, RecordingKeepsTypes, EndingKeepsTypes
  <2>7. QED
    BY <2>1, <2>2, <2>3, <2>4, <2>5, <2>6 DEF Next
<1>3. QED
  BY <1>1, <1>2, PTL DEF Spec

\* The variables keep their types: a publisher only records what it has sealed,
\* and what it reads of a file it can read are records.
THEOREM TypeSafe == Spec => []TypeOK
<1>1. TypeInv => TypeOK
  BY DEF TypeInv
<1>2. QED
  BY <1>1, TypeInvariant, PTL

-----------------------------------------------------------------------------
(* What a publisher holds.                                                 *)

\* r10k's record names what it deployed, outside a run of it.
NotedIsSource ==
    \A e \in Envs : e \notin busy /\ noted[e] # None => noted[e] = source[e][1]

\* A publisher has sealed e as it is, and looked for r10k's record there.
LookedAt(p, e) ==
    /\ e \in settled[p] /\ e \notin busy /\ noted[e] # None
    /\ ~(pc[p] = "record" /\ cur[p] = e)

Sealed(p, e) == [env |-> e, id |-> next[p][e],
                 commit |-> source[e][1], mods |-> source[e][2]]

Remembers(p) ==
    \A e \in Envs : LookedAt(p, e) => Newest(log[p], e, next[p][e]) = Sealed(p, e)

\* One pass over the environments at a time; the map it built is swapped.
InPass(p) ==
    /\ pc[p] = "off" => settled[p] = {}
    /\ pc[p] \in {"sealing", "record"} => settled[p] \cap todo[p] = {}
    /\ pc[p] \in {"claim", "idle"} => served[p] = next[p]

MemoryInv == NotedIsSource /\ \A p \in Publishers : Remembers(p) /\ InPass(p)

\* A process is not concerned by what another does with its own memory.
LEMMA OthersRemember ==
    ASSUME MemoryInv, UNCHANGED <<source, noted, busy>>, NEW q \in Publishers,
           pc'[q] = pc[q], settled'[q] = settled[q], todo'[q] = todo[q],
           cur'[q] = cur[q], next'[q] = next[q], served'[q] = served[q], log'[q] = log[q]
    PROVE  Remembers(q)' /\ InPass(q)'
<1>1. InPass(q)'
  BY DEF MemoryInv, InPass
<1>2. Remembers(q)'
  BY DEF MemoryInv, Remembers, LookedAt, Sealed
<1>3. QED
  BY <1>1, <1>2

\* r10k takes from what is settled what it touches.
LEMMA TreesKeepMemory ==
    ASSUME TypeInv, MemoryInv, NEW e \in Envs, NEW m \in Modules,
           DeployModules(e, m) \/ Finish(e) \/ \E c \in Commits : Deploy(e, c, m)
    PROVE  MemoryInv'
<1>1. /\ UNCHANGED <<log, pc, todo, cur, next, served>>
      /\ settled' = [p \in Publishers |-> settled[p] \ {e}]
      /\ \A d \in Envs \ {e} : /\ source'[d] = source[d] /\ noted'[d] = noted[d]
                               /\ d \in busy' <=> d \in busy
  BY DEF DeployModules, Finish, Deploy, Touched, TypeInv, TypeOK
<1>2. NotedIsSource'
  <2>1. CASE \E c \in Commits : Deploy(e, c, m)
    BY <1>1, <2>1 DEF Deploy, MemoryInv, NotedIsSource
  <2>2. CASE Finish(e)
    BY <1>1, <2>2 DEF Finish, MemoryInv, NotedIsSource, TypeInv, TypeOK
  <2>3. CASE DeployModules(e, m)
    <3>1. source'[e][1] = source[e][1] /\ noted' = noted /\ busy' = busy
      BY <2>3 DEF DeployModules, TypeInv, TypeOK
    <3>2. QED
      BY <1>1, <3>1 DEF MemoryInv, NotedIsSource
  <2>4. QED
    BY <2>1, <2>2, <2>3
<1>3. ASSUME NEW p \in Publishers PROVE Remembers(p)' /\ InPass(p)'
  <2>1. InPass(p)'
    BY <1>1 DEF MemoryInv, InPass
  <2>2. ASSUME NEW d \in Envs, LookedAt(p, d)'
        PROVE  (Newest(log[p], d, next[p][d]) = Sealed(p, d))'
    <3>1. d # e /\ LookedAt(p, d)
      BY <1>1, <2>2 DEF LookedAt
    <3>2. Newest(log[p], d, next[p][d]) = Sealed(p, d)
      BY <3>1 DEF MemoryInv, Remembers
    <3>3. QED
      BY <1>1, <3>1, <3>2 DEF Sealed
  <2>3. QED
    BY <2>1, <2>2 DEF Remembers
<1>4. QED
  BY <1>2, <1>3 DEF MemoryInv

\* What is recorded, or need not be, is the newest of its key.
LEMMA RecordingRemembers ==
    ASSUME TypeInv, MemoryInv, NEW p \in Publishers,
           RecordNothing(p) \/ Record(p) \/ AppendFails(p)
    PROVE  MemoryInv'
<1> DEFINE e == cur[p]
<1>1. /\ UNCHANGED <<source, noted, busy, todo, next, served, settled>>
      /\ pc[p] = "record"
      /\ pc' = [pc EXCEPT ![p] = "sealing"] /\ cur' = [cur EXCEPT ![p] = None]
      /\ \/ Known(p) /\ log' = log
         \/ ~Known(p) /\ log' = [log EXCEPT ![p] = Append(@, Found(p))]
  BY DEF RecordNothing, Record, AppendFails, Recorded, Go, tree
<1>2. NotedIsSource'
  BY <1>1 DEF MemoryInv, NotedIsSource
<1>3. ASSUME NEW q \in Publishers, q # p PROVE Remembers(q)' /\ InPass(q)'
  BY <1>1, <1>3, OthersRemember DEF TypeInv, TypeOK
<1>4. InPass(p)'
  BY <1>1 DEF MemoryInv, InPass, TypeInv, TypeOK
<1>5. log[p] \in Seq(Entry) /\ e \in Envs
  BY <1>1 DEF TypeInv, TypeOK, SealedIsKnown
<1>6. ASSUME NEW d \in Envs, LookedAt(p, d)'
      PROVE  (Newest(log[p], d, next[p][d]) = Sealed(p, d))'
  <2>1. d \in settled[p] /\ d \notin busy /\ noted[d] # None
    BY <1>1, <1>6 DEF LookedAt
  <2>2. noted[d] = source[d][1]
    BY <2>1 DEF MemoryInv, NotedIsSource
  <2>3. d # e => Newest(log[p], d, next[p][d]) = Sealed(p, d)
    BY <2>1 DEF LookedAt, MemoryInv, Remembers
  <2>4. d = e => Found(p) = Sealed(p, d)
    BY <2>2 DEF Found, Sealed
  <2>5. Newest(log'[p], d, next[p][d]) = Sealed(p, d)
    <3>1. CASE Known(p) /\ log' = log
      <4>1. CASE d = e
        <5>1. SameSource(Newest(log[p], e, next[p][e]), Found(p))
          BY <2>1, <3>1, <4>1 DEF Known
        <5>2. /\ Newest(log[p], e, next[p][e]) \in Entry
              /\ Newest(log[p], e, next[p][e]).env = e
              /\ Newest(log[p], e, next[p][e]).id = next[p][e]
          BY <1>5, <5>1, NewestIsThere DEF SameSource
        <5>3. Newest(log[p], e, next[p][e]) = Found(p)
          BY <5>1, <5>2 DEF SameSource, Found, Entry
        <5>4. QED
          BY <2>4, <3>1, <4>1, <5>3
      <4>2. QED
        BY <2>3, <3>1, <4>1
    <3>2. CASE ~Known(p) /\ log' = [log EXCEPT ![p] = Append(@, Found(p))]
      <4>1. Found(p) \in Entry
        BY <1>1, <3>2, FoundIsEntry DEF Known
      <4>2. log'[p] = Append(log[p], Found(p))
        BY <3>2 DEF TypeInv, TypeOK
      <4>3. Newest(log'[p], d, next[p][d]) =
              IF Found(p).env = d /\ Found(p).id = next[p][d]
              THEN Found(p) ELSE Newest(log[p], d, next[p][d])
        BY <1>5, <4>1, <4>2, NewestAppend
      <4>4. Found(p).env = e /\ Found(p).id = next[p][e]
        BY DEF Found
      <4>5. QED
        BY <2>3, <2>4, <4>3, <4>4
    <3>3. QED
      BY <1>1, <3>1, <3>2
  <2>6. QED
    BY <1>1, <2>5 DEF Sealed
<1>7. QED
  BY <1>2, <1>3, <1>4, <1>6 DEF MemoryInv, Remembers

\* A reseal begins with nothing settled and seals each environment once.
LEMMA SealingRemembers ==
    ASSUME TypeInv, MemoryInv, NEW p \in Publishers,
           \/ Open(p) \/ Hup(p) \/ Swap(p)
           \/ \E e \in Envs : Seal(p, e) \/ SealFails(p, e)
    PROVE  MemoryInv'
<1> USE DEF TypeInv, TypeOK
<1>1. UNCHANGED <<source, noted, busy>>
  BY DEF Open, Hup, Swap, Seal, SealFails, tree
<1>2. NotedIsSource'
  BY <1>1 DEF MemoryInv, NotedIsSource
<1>3. ASSUME NEW q \in Publishers, q # p PROVE Remembers(q)' /\ InPass(q)'
  <2>1. /\ pc'[q] = pc[q] /\ settled'[q] = settled[q] /\ todo'[q] = todo[q]
        /\ cur'[q] = cur[q] /\ next'[q] = next[q] /\ served'[q] = served[q]
        /\ log'[q] = log[q]
    BY <1>3 DEF Open, Hup, Swap, Seal, SealFails, Go
  <2>2. QED
    BY <1>1, <2>1, OthersRemember
<1>4. Remembers(p)' /\ InPass(p)'
  <2>1. CASE Open(p)
    <3>1. settled'[p] = {} /\ pc'[p] = "sealing"
      BY <2>1 DEF Open, Go, MemoryInv, InPass
    <3>2. QED
      BY <3>1 DEF Remembers, LookedAt, InPass
  <2>2. CASE Hup(p)
    <3>1. settled'[p] = {} /\ pc'[p] = "sealing"
      BY <2>2 DEF Hup, Go
    <3>2. QED
      BY <3>1 DEF Remembers, LookedAt, InPass
  <2>3. CASE Swap(p)
    <3>1. /\ pc[p] = "sealing" /\ pc'[p] \in {"idle", "claim"} /\ served'[p] = next'[p]
          /\ settled' = settled /\ next' = next /\ log' = log
      BY <2>3 DEF Swap, Go
    <3>2. QED
      BY <1>1, <3>1 DEF Remembers, LookedAt, Sealed, InPass, MemoryInv
  <2>4. ASSUME NEW e \in Envs, Seal(p, e) PROVE Remembers(p)' /\ InPass(p)'
    <3>1. /\ pc[p] = "sealing" /\ pc'[p] = "record" /\ cur'[p] = e /\ log' = log
          /\ settled'[p] = settled[p] \cup {e} /\ todo'[p] = todo[p] \ {e}
          /\ \A d \in Envs \ {e} : next'[p][d] = next[p][d]
      BY <2>4 DEF Seal, Go, Maps
    <3>2. ASSUME NEW d \in Envs, LookedAt(p, d)'
          PROVE  (Newest(log[p], d, next[p][d]) = Sealed(p, d))'
      <4>1. d # e /\ LookedAt(p, d)
        BY <1>1, <3>1, <3>2 DEF LookedAt
      <4>2. Newest(log[p], d, next[p][d]) = Sealed(p, d)
        BY <4>1 DEF MemoryInv, Remembers
      <4>3. QED
        BY <1>1, <3>1, <4>1, <4>2 DEF Sealed
    <3>3. QED
      BY <3>1, <3>2 DEF Remembers, InPass, MemoryInv
  <2>5. ASSUME NEW e \in Envs, SealFails(p, e) PROVE Remembers(p)' /\ InPass(p)'
    <3>1. /\ pc[p] = "sealing" /\ pc' = pc /\ cur' = cur /\ log' = log
          /\ settled' = settled /\ todo'[p] = todo[p] \ {e} /\ e \notin settled[p]
          /\ \A d \in Envs \ {e} : next'[p][d] = next[p][d]
      BY <2>5 DEF SealFails, Maps, MemoryInv, InPass
    <3>2. ASSUME NEW d \in Envs, LookedAt(p, d)'
          PROVE  (Newest(log[p], d, next[p][d]) = Sealed(p, d))'
      <4>1. d # e /\ LookedAt(p, d)
        BY <1>1, <3>1, <3>2 DEF LookedAt
      <4>2. Newest(log[p], d, next[p][d]) = Sealed(p, d)
        BY <4>1 DEF MemoryInv, Remembers
      <4>3. QED
        BY <1>1, <3>1, <4>1, <4>2 DEF Sealed
    <3>3. QED
      BY <3>1, <3>2 DEF Remembers, InPass, MemoryInv
  <2>6. QED
    BY <2>1, <2>2, <2>3, <2>4, <2>5
<1>5. QED
  BY <1>2, <1>3, <1>4 DEF MemoryInv

\* A publisher that ends holds nothing that could be wrong.
LEMMA EndingRemembers ==
    ASSUME TypeInv, MemoryInv, NEW p \in Publishers, Claim(p) \/ Ends(p)
    PROVE  MemoryInv'
<1> USE DEF TypeInv, TypeOK
<1>1. UNCHANGED <<source, noted, busy>>
  BY DEF Claim, Ends, tree
<1>2. NotedIsSource'
  BY <1>1 DEF MemoryInv, NotedIsSource
<1>3. ASSUME NEW q \in Publishers, q # p PROVE Remembers(q)' /\ InPass(q)'
  <2>1. /\ pc'[q] = pc[q] /\ settled'[q] = settled[q] /\ todo'[q] = todo[q]
        /\ cur'[q] = cur[q] /\ next'[q] = next[q] /\ served'[q] = served[q]
        /\ log'[q] = log[q]
    BY <1>3 DEF Claim, Ends, Forget, Go
  <2>2. QED
    BY <1>1, <2>1, OthersRemember
<1>4. CASE Forget(p)
  <2>1. pc'[p] = "off" /\ settled'[p] = {}
    BY <1>4 DEF Forget, Go
  <2>2. QED
    BY <1>2, <1>3, <2>1 DEF MemoryInv, Remembers, LookedAt, InPass
<1>5. CASE /\ pc[p] = "claim" /\ Go(p, "idle")
           /\ UNCHANGED <<log, todo, cur, next, served, settled, failed>>
  <2>1. pc'[p] = "idle"
    BY <1>5 DEF Go
  <2>2. Remembers(p)' /\ InPass(p)'
    BY <1>1, <1>5, <2>1 DEF MemoryInv, Remembers, LookedAt, Sealed, InPass
  <2>3. QED
    BY <1>2, <1>3, <2>2 DEF MemoryInv
<1>6. QED
  BY <1>4, <1>5 DEF Claim, Ends

LEMMA MemoryInvariant == Spec => []MemoryInv
<1>1. Init => MemoryInv
  BY DEF Init, MemoryInv, NotedIsSource, Remembers, LookedAt, InPass
<1>2. TypeInv /\ MemoryInv /\ [Next]_vars => MemoryInv'
  <2> SUFFICES ASSUME TypeInv, MemoryInv, [Next]_vars PROVE MemoryInv'
    OBVIOUS
  <2>1. CASE UNCHANGED vars
    BY <2>1 DEF vars, tree, MemoryInv, NotedIsSource, Remembers, LookedAt, Sealed, InPass
  <2>2. ASSUME NEW e \in Envs, NEW m \in Modules,
               DeployModules(e, m) \/ \E c \in Commits : Deploy(e, c, m)
        PROVE  MemoryInv'
    BY <2>2, TreesKeepMemory
  <2>3. ASSUME NEW e \in Envs, Finish(e) PROVE MemoryInv'
    <3>1. First[2] \in Modules
      BY ProvenanceAssumption
    <3>2. QED
      BY <2>3, <3>1, TreesKeepMemory
  <2>4. ASSUME NEW p \in Publishers,
               \/ Open(p) \/ Hup(p) \/ Swap(p)
               \/ \E e \in Envs : Seal(p, e) \/ SealFails(p, e)
        PROVE  MemoryInv'
    BY <2>4, SealingRemembers
  <2>5. ASSUME NEW p \in Publishers, RecordNothing(p) \/ Record(p) \/ AppendFails(p)
        PROVE  MemoryInv'
    BY <2>5, RecordingRemembers
  <2>6. ASSUME NEW p \in Publishers, Claim(p) \/ Ends(p) PROVE MemoryInv'
    BY <2>6, EndingRemembers
  <2>7. QED
    BY <2>1, <2>2, <2>3, <2>4, <2>5, <2>6 DEF Next
<1>3. QED
  BY <1>1, <1>2, TypeInvariant, PTL DEF Spec

\* The newest record a publisher holds of a version it serves names the source the
\* version was deployed from: whatever other publishers write, whatever of its
\* own writes and seals fails, and however often r10k and it are interrupted.
THEOREM MemoryKnows == Spec => []MemoryKnowsDeployed
<1>1. MemoryInv => MemoryKnowsDeployed
  BY DEF MemoryInv, MemoryKnowsDeployed, AtRest, Deployed, Remembers, LookedAt, Sealed, InPass
<1>2. QED
  BY <1>1, MemoryInvariant, PTL

-----------------------------------------------------------------------------
(* The file.                                                               *)

\* The file has whole lines only, and is what the one publisher holds.
FileInv ==
    /\ \A i \in DOMAIN file : file[i].ended /\ file[i].rec # None
    /\ \A p \in Publishers : pc[p] # "off" /\ failed[p] = 0 => Parsed(file) = log[p]

\* A whole line goes behind whole lines.
LEMMA BehindWhole ==
    ASSUME file \in Seq(Line), \A i \in DOMAIN file : file[i].ended, NEW r
    PROVE  Behind([rec |-> r, ended |-> TRUE]) = Append(file, [rec |-> r, ended |-> TRUE])
<1>1. ~(Len(file) > 0 /\ ~file[Len(file)].ended)
  OBVIOUS
<1>2. QED
  BY <1>1 DEF Behind

LEMMA ParsedAppend ==
    ASSUME NEW lines \in Seq(Line), NEW line
    PROVE  Parsed(Append(lines, line)) = Append(Parsed(lines), line.rec)
<1>1. /\ DOMAIN Append(lines, line) = 1 .. Len(lines) + 1
      /\ \A i \in 1 .. Len(lines) + 1 :
            Append(lines, line)[i] = IF i = Len(lines) + 1 THEN line ELSE lines[i]
  OBVIOUS
<1>2. DOMAIN Parsed(lines) = 1 .. Len(lines) /\ Len(lines) \in Nat
  BY DEF Parsed
<1>3. Len(Parsed(lines)) = Len(lines)
  BY <1>2
<1>4. Append(Parsed(lines), line.rec) =
        [i \in 1 .. Len(lines) + 1 |-> IF i = Len(lines) + 1 THEN line.rec ELSE Parsed(lines)[i]]
  BY <1>2, <1>3
<1>5. QED
  BY <1>1, <1>2, <1>4 DEF Parsed

\* No process but one has the state directory, and no write ends in the middle.
WholeWrites ==
    /\ \A p, q \in Publishers : p = q
    /\ "short" \notin Faults

LEMMA RecordingKeepsFile ==
    ASSUME WholeWrites, TypeInv, FileInv, NEW p \in Publishers,
           Record(p) \/ AppendFails(p)
    PROVE  FileInv'
<1> DEFINE line == [rec |-> Found(p), ended |-> TRUE]
<1>1. \A q \in Publishers : q = p
  BY DEF WholeWrites
<1>2. /\ pc[p] = "record" /\ noted[cur[p]] # None
      /\ log'[p] = Append(log[p], Found(p))
  BY DEF Record, AppendFails, Known, TypeInv, TypeOK
<1>3. Found(p) \in Entry /\ Found(p) # None
  BY <1>2, FoundIsEntry
<1>4. CASE Record(p)
  <2>1. file' = Append(file, line) /\ failed' = failed
    BY <1>4, BehindWhole DEF Record, FileInv, TypeInv, TypeOK
  <2>2. \A i \in DOMAIN file' : file'[i].ended /\ file'[i].rec # None
    BY <1>3, <2>1 DEF FileInv, TypeInv, TypeOK
  <2>3. Parsed(file') = Append(Parsed(file), Found(p))
    BY <2>1, ParsedAppend DEF TypeInv, TypeOK
  <2>4. failed[p] = 0 => Parsed(file) = log[p]
    BY <1>2 DEF FileInv
  <2>5. QED
    BY <1>1, <1>2, <2>1, <2>2, <2>3, <2>4 DEF FileInv
<1>5. CASE AppendFails(p)
  <2>1. file' = file /\ failed'[p] = failed[p] + 1 /\ failed[p] \in Nat
    BY <1>5 DEF AppendFails, WholeWrites, TypeInv, TypeOK
  <2>2. QED
    BY <1>1, <2>1 DEF FileInv
<1>6. QED
  BY <1>4, <1>5

LEMMA FileInvariant ==
    ASSUME WholeWrites
    PROVE  Spec => []FileInv
<1>1. Init => FileInv
  BY DEF Init, FileInv
<1>2. TypeInv /\ FileInv /\ [Next]_vars => FileInv'
  <2> SUFFICES ASSUME TypeInv, FileInv, [Next]_vars PROVE FileInv'
    OBVIOUS
  <2>1. CASE UNCHANGED <<file, log, pc, failed>>
    BY <2>1 DEF FileInv
  <2>2. ASSUME NEW p \in Publishers, Open(p) PROVE FileInv'
    <3>1. \A q \in Publishers : q = p
      BY DEF WholeWrites
    <3>2. file' = file /\ log'[p] = Parsed(file)
      BY <2>2 DEF Open, TypeInv, TypeOK
    <3>3. QED
      BY <3>1, <3>2 DEF FileInv
  <2>3. ASSUME NEW p \in Publishers,
               \/ Hup(p) \/ Swap(p) \/ RecordNothing(p)
               \/ \E e \in Envs : Seal(p, e) \/ SealFails(p, e)
        PROVE  FileInv'
    <3>1. UNCHANGED <<file, log, failed>> /\ pc[p] # "off"
      BY <2>3 DEF Hup, Swap, RecordNothing, Recorded, Seal, SealFails
    <3>2. \A q \in Publishers : q = p
      BY DEF WholeWrites
    <3>3. QED
      BY <3>1, <3>2 DEF FileInv
  <2>4. ASSUME NEW p \in Publishers, Record(p) \/ AppendFails(p) PROVE FileInv'
    BY <2>4, RecordingKeepsFile
  <2>5. ASSUME NEW p \in Publishers, Claim(p) \/ Ends(p) PROVE FileInv'
    <3>1. UNCHANGED file
      BY <2>5 DEF Claim, Ends
    <3>2. pc'[p] = "off" \/ (UNCHANGED <<log, failed>> /\ pc[p] # "off")
      BY <2>5 DEF Claim, Ends, Forget, Go, TypeInv, TypeOK
    <3>3. \A q \in Publishers : q = p
      BY DEF WholeWrites
    <3>4. QED
      BY <3>1, <3>2, <3>3 DEF FileInv
  <2>6. CASE \E e \in Envs, m \in Modules :
                DeployModules(e, m) \/ \E c \in Commits : Deploy(e, c, m)
    BY <2>1, <2>6 DEF DeployModules, Deploy
  <2>7. CASE \E e \in Envs : Finish(e)
    BY <2>1, <2>7 DEF Finish
  <2>8. QED
    BY <2>1, <2>2, <2>3, <2>4, <2>5, <2>6, <2>7 DEF Next, vars
<1>3. QED
  BY <1>1, <1>2, TypeInvariant, PTL DEF Spec

\* The file a command reads holds what the publisher holds, record by record,
\* through restarts and kills, until one of its own writes fails.
THEOREM FileKept ==
    ASSUME WholeWrites
    PROVE  Spec => []FileIsMemory
<1>1. FileInv => FileIsMemory
  BY DEF FileInv, FileIsMemory, Readable
<1>2. QED
  BY <1>1, FileInvariant, PTL

\* What the commands report of a version that is served is the source it was
\* deployed from.
THEOREM ReportsAreDeployed ==
    ASSUME WholeWrites
    PROVE  Spec => []ReportsDeployed
<1>1. FileIsMemory /\ MemoryKnowsDeployed => ReportsDeployed
  BY DEF FileIsMemory, MemoryKnowsDeployed, ReportsDeployed, AtRest, Answer
<1>2. QED
  BY <1>1, FileKept, MemoryKnows, PTL
=============================================================================
