------------------------------ MODULE Archive ------------------------------
(***************************************************************************)
(* internal/seal: the manifest of a tree and the archive of a tree, as the *)
(* publisher makes them one after the other (CodeID, WriteArchive) and as  *)
(* an agent unpacks and verifies them (ExtractArchiveWithin, CodeID), with *)
(* r10k changing the tree at any moment.                                   *)
(*                                                                         *)
(* A path is a sequence of names, a tree gives every path a node, and a    *)
(* code_id is the manifest itself: equal manifests, equal ids.             *)
(***************************************************************************)
EXTENDS Integers, Sequences, FiniteSets

CONSTANTS
    Sorted,       \* every path there may be, in the order of their strings
    Excluded,     \* the names that sealing skips
    Contents,     \* what a file may hold
    Size,         \* the size of each content
    Modes,        \* permission bits a file may have
    Executable,   \* the modes with an x bit
    Targets,      \* where a link may point: [abs, steps], Up being ".."
    Up,
    Trees,        \* what r10k may have left when the publisher looks first
    MaxBytes,     \* Limits
    MaxEntries,
    MaxEdits,     \* a bound: changes to the tree looked at
    None

Paths == {Sorted[i] : i \in DOMAIN Sorted}
Names == UNION {{p[i] : i \in DOMAIN p} : p \in Paths}
Gone  == [kind |-> "absent"]
Dir   == [kind |-> "dir"]
Other == [kind |-> "other"]       \* a socket, a device, a pipe
Files == [kind : {"file"}, content : Contents, mode : Modes]
Links == [kind : {"link"}, target : Targets]
Nodes == Files \cup Links \cup {Gone, Dir, Other}

Above(p) == {SubSeq(p, 1, n) : n \in 1 .. Len(p) - 1}

\* Only a directory holds anything.
WellFormed(t) == \A p \in Paths : t[p] # Gone => \A d \in Above(p) : t[d] = Dir

ASSUME ArchiveAssumption ==
    /\ Sorted \in Seq(Paths) /\ Paths \subseteq Seq(Names)
    /\ \A i, j \in DOMAIN Sorted : i # j => Sorted[i] # Sorted[j]
    /\ \A p \in Paths : p # <<>> /\ Above(p) \subseteq Paths
    /\ Size \in [Contents -> Nat] /\ Executable \subseteq Modes
    /\ {"0644", "0755"} \subseteq Modes /\ {"0644", "0755"} \cap Executable = {"0755"}
    /\ \A t \in Targets : t.abs \in BOOLEAN /\ DOMAIN t.steps = 1 .. Len(t.steps)
                          /\ Len(t.steps) \in Nat
    /\ Trees \subseteq {t \in [Paths -> Nodes] : WellFormed(t)}
    /\ MaxBytes \in Nat /\ MaxEntries \in Nat /\ MaxEdits \in Nat

VARIABLES
    tree,      \* the environment in the basedir
    pc,        \* how far the publisher, or then the agent, is
    id,        \* the code_id the publisher derived
    todo,      \* the entries still to be written, or to be unpacked
    archive,   \* what is written of the archive
    dir,       \* the agent's temporary directory
    spent,     \* budget: the entries and the bytes charged
    edits,
    touched    \* history: r10k changed something sealed since the id was derived

vars == <<tree, pc, id, todo, archive, dir, spent, edits, touched>>

Empty == [p \in Paths |-> Gone]
Unspent == [entries |-> 0, bytes |-> 0]

Init ==
    /\ tree \in Trees
    /\ pc = "rest" /\ id = None
    /\ todo = <<>> /\ archive = <<>>
    /\ dir = Empty /\ spent = Unspent
    /\ edits = 0 /\ touched = FALSE

-----------------------------------------------------------------------------
(* Sealing.                                                                *)

\* walk does not look at what is excluded, nor below it.
Covered(p) == \A i \in DOMAIN p : p[i] \notin Excluded

Entries(t) == {p \in Paths : Covered(p) /\ t[p].kind \in {"file", "link"}}

\* walk fails on what has no content that could be reproduced.
Sealable(t) == \A p \in Paths : Covered(p) => t[p] # Other

\* A mutant of normalizeMode: all the bits.
NormalAll(mode) == mode

\* normalizeMode, and extractMode.
Normal(mode) == IF mode \in Executable THEN "0755" ELSE "0644"

\* Entry.String: of a file its mode and content, of a link its target.
LineOf(n) == IF n.kind = "file" THEN [n EXCEPT !.mode = Normal(@)] ELSE n

\* Manifest, and with it CodeID.
Manifest(t) == [p \in Entries(t) |-> LineOf(t[p])]

\* How many paths of m there are up to the i-th of all, and the k-th path of m.
Rank(m, i) == Cardinality({j \in 1 .. i : Sorted[j] \in DOMAIN m})

Nth(m, k) ==
    Sorted[CHOOSE i \in DOMAIN Sorted : Sorted[i] \in DOMAIN m /\ Rank(m, i) = k]

\* The entries that walk returned, sorted by path.
Listed(m) ==
    [k \in 1 .. Cardinality(DOMAIN m) |-> [path |-> Nth(m, k), node |-> m[Nth(m, k)]]]

Same(t, u) == Sealable(t) /\ Sealable(u) /\ Manifest(t) = Manifest(u)

-----------------------------------------------------------------------------
(* r10k changes one path at a time.                                        *)
Edit(p, n) ==
    LET t == [tree EXCEPT ![p] = n] IN
    /\ edits < MaxEdits /\ n # tree[p] /\ WellFormed(t)
    /\ tree' = t
    /\ edits' = edits + 1
    /\ touched' = (touched \/ ~Same(tree, t))
    /\ UNCHANGED <<pc, id, todo, archive, dir, spent>>

-----------------------------------------------------------------------------
(* The publisher.                                                          *)

\* Reseal: the id of the tree as it is, or nothing of it.
Seal ==
    /\ pc \in {"rest", "failed", "refused", "accepted"}
    /\ IF Sealable(tree)
       THEN pc' = "sealed" /\ id' = Manifest(tree)
       ELSE pc' = "rest" /\ id' = None
    /\ touched' = FALSE
    /\ todo' = <<>> /\ archive' = <<>> /\ dir' = Empty /\ spent' = Unspent
    /\ UNCHANGED <<tree, edits>>

\* materializeArtifact, WriteArchive: a second walk, and its entries in order.
Walk ==
    /\ pc = "sealed"
    /\ IF Sealable(tree)
       THEN pc' = "writing" /\ todo' = Listed(Manifest(tree))
       ELSE pc' = "failed" /\ UNCHANGED todo
    /\ UNCHANGED <<tree, id, archive, dir, spent, edits, touched>>

\* What is found under a path, which may have come to lead through a link.
Found(p) ==
    IF \E d \in Above(p) : tree[d].kind = "link" THEN Nodes ELSE {tree[p]}

\* What opening it gives: a link is followed.
Opened(p) ==
    IF tree[p].kind = "link" THEN Nodes \ Links ELSE Found(p) \ Links

\* A mutant of Reads: the file's own mode goes into the header.
ReadsRaw(e, n) ==
    IF e.node.kind = "link"
    THEN n \in Found(e.path) /\ n.kind = "link"
    ELSE /\ n \in {m \in Opened(e.path) : m.kind = "file"}
         /\ Size[n.content] = Size[e.node.content]

\* writeEntry can write the entry e as n: a link as it points now, a file with
\* the bytes it holds now, if they are as many as walk counted, and walk's mode.
Reads(e, n) ==
    IF e.node.kind = "link"
    THEN n \in Found(e.path) /\ n.kind = "link"
    ELSE \E m \in Opened(e.path) :
            /\ m.kind = "file" /\ Size[m.content] = Size[e.node.content]
            /\ n = [m EXCEPT !.mode = e.node.mode]

WriteEntry ==
    /\ pc = "writing" /\ todo # <<>>
    /\ \E n \in Nodes :
          /\ Reads(Head(todo), n)
          /\ archive' = Append(archive, [path |-> Head(todo).path, node |-> n])
    /\ todo' = Tail(todo)
    /\ UNCHANGED <<tree, pc, id, dir, spent, edits, touched>>

\* The entry is gone, is something else, or has another size.
WriteFails ==
    /\ pc = "writing" /\ todo # <<>>
    /\ LET e == Head(todo) IN
          \/ e.node.kind = "link" /\ \E m \in Found(e.path) : m.kind # "link"
          \/ e.node.kind = "file" /\ \E m \in Opened(e.path) :
                m.kind = "file" => Size[m.content] # Size[e.node.content]
    /\ pc' = "failed"
    /\ UNCHANGED <<tree, id, todo, archive, dir, spent, edits, touched>>

\* The artifact is renamed into place, and advertised.
Install ==
    /\ pc = "writing" /\ todo = <<>>
    /\ pc' = "installed"
    /\ UNCHANGED <<tree, id, todo, archive, dir, spent, edits, touched>>

-----------------------------------------------------------------------------
(* An agent.                                                               *)

Download ==
    /\ pc = "installed"
    /\ pc' = "unpacking" /\ todo' = archive
    /\ UNCHANGED <<tree, id, archive, dir, spent, edits, touched>>

\* checkLinkTarget: by its text, the target is absolute or climbs out.
Escapes(p, target) ==
    \/ target.abs
    \/ \E k \in DOMAIN target.steps :
          Len(p) - 1 + k < 2 * Cardinality({j \in 1 .. k : target.steps[j] = Up})

\* A mutant of Fits: each file is bounded, their sum is not.
FitsAlone(e) ==
    /\ spent.entries < MaxEntries
    /\ e.node.kind = "file" => Size[e.node.content] <= MaxBytes

\* extractEntry: what it charges before it writes.
Fits(e) ==
    /\ spent.entries < MaxEntries
    /\ e.node.kind = "file" => Size[e.node.content] <= MaxBytes - spent.bytes

Bytes(n) == IF n.kind = "file" THEN Size[n.content] ELSE 0

\* The agent's umask may take bits from the mode, but not the owner's x.
Landing(mode) == IF mode \in Executable THEN Executable ELSE Modes \ Executable

\* A mutant of Placed: the directories above are not made.
PlacedBare(e, n) == [dir EXCEPT ![e.path] = n]

\* mkdirAllIn, then the entry itself.
Placed(e, n) ==
    [p \in Paths |-> IF p = e.path THEN n ELSE IF p \in Above(e.path) THEN Dir ELSE dir[p]]

\* extractEntry.
ExtractEntry ==
    /\ pc = "unpacking" /\ todo # <<>>
    /\ LET e == Head(todo) IN
          /\ Fits(e)
          /\ spent' = [entries |-> spent.entries + 1, bytes |-> spent.bytes + Bytes(e.node)]
          /\ IF e.node.kind = "link"
             THEN ~Escapes(e.path, e.node.target) /\ dir' = Placed(e, e.node)
             ELSE \E mode \in Landing(e.node.mode) :
                     dir' = Placed(e, [e.node EXCEPT !.mode = mode])
    /\ todo' = Tail(todo)
    /\ UNCHANGED <<tree, pc, id, archive, edits, touched>>

ExtractRefuses ==
    /\ pc = "unpacking" /\ todo # <<>>
    /\ LET e == Head(todo) IN
          ~Fits(e) \/ (e.node.kind = "link" /\ Escapes(e.path, e.node.target))
    /\ pc' = "refused"
    /\ UNCHANGED <<tree, id, todo, archive, dir, spent, edits, touched>>

\* download: the extracted tree is sealed again.
Verify ==
    /\ pc = "unpacking" /\ todo = <<>>
    /\ pc' = IF Manifest(dir) = id THEN "accepted" ELSE "refused"
    /\ UNCHANGED <<tree, id, todo, archive, dir, spent, edits, touched>>

-----------------------------------------------------------------------------
Next ==
    \/ \E p \in Paths, n \in Nodes : Edit(p, n)
    \/ Seal \/ Walk \/ WriteEntry \/ WriteFails \/ Install
    \/ Download \/ ExtractEntry \/ ExtractRefuses \/ Verify

Spec == Init /\ [][Next]_vars

-----------------------------------------------------------------------------
(* Properties.                                                             *)

Written == [path : Paths, node : Files \cup Links]

TypeOK ==
    /\ tree \in [Paths -> Nodes] /\ WellFormed(tree)
    /\ pc \in {"rest", "sealed", "writing", "failed", "installed", "unpacking",
               "refused", "accepted"}
    /\ \/ id = None
       \/ DOMAIN id \subseteq Paths /\ \A p \in DOMAIN id : id[p] \in Files \cup Links
    /\ todo \in Seq(Written) /\ archive \in Seq(Written)
    /\ dir \in [Paths -> Nodes] /\ WellFormed(dir)
    /\ spent \in [entries : Nat, bytes : Nat]
    /\ edits \in 0 .. MaxEdits /\ touched \in BOOLEAN

\* What the files of S hold in m, byte by byte.
Held(m, S) == UNION {{p} \X (1 .. Bytes(m[p])) : p \in S}

\* A target never has more names above it than its link has.
StaysInside(p, target) ==
    /\ ~target.abs
    /\ \A k \in DOMAIN target.steps :
          LET ups == Cardinality({j \in 1 .. k : target.steps[j] = Up}) IN
          ups - (k - ups) <= Len(p) - 1

\* A tree every agent takes: it is within the limits and its links stay inside.
Portable(m) ==
    /\ Cardinality(DOMAIN m) <= MaxEntries
    /\ Cardinality(Held(m, DOMAIN m)) <= MaxBytes
    /\ \A p \in DOMAIN m : m[p].kind = "link" => StaysInside(p, m[p].target)

\* What was sealed comes through: if r10k changed nothing that is sealed until
\* the archive was written, the archive is written, and the agent that unpacks
\* it gets the tree that its code_id names, whatever the modes, the umasks, the
\* empty directories and the excluded files at both ends.
RoundTrip ==
    pc \in {"failed", "refused"} /\ ~touched => pc = "refused" /\ ~Portable(id)

\* Byte-reproducible: the archive of a tree left alone is a function of its
\* code_id and of nothing else in the tree.
ArchiveIsOfItsId ==
    pc = "installed" /\ ~touched =>
        archive = Listed(id)

\* The limits bound what is on the agent's disk at every moment, of any archive,
\* and not only what is kept in the end.
WithinLimits ==
    LET kept == Entries(dir) IN
    /\ Cardinality(kept) <= MaxEntries
    /\ Cardinality(Held(dir, kept)) <= MaxBytes

(* A statement of a comment that the code does not keep.                   *)

\* walk: "Failing is better than silently sealing a tree that cannot be
\* faithfully reproduced": what was sealed and left alone is never refused.
SealedIsReproducible == pc = "refused" => touched
=============================================================================
