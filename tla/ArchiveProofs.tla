--------------------------- MODULE ArchiveProofs ---------------------------
(***************************************************************************)
(* Theorems about Archive, for any paths, contents, modes, links and       *)
(* limits.                                                                 *)
(***************************************************************************)
EXTENDS Archive, FunctionTheorems, FiniteSetTheorems, SequenceTheorems,
        WellFoundedInduction, TLAPS

\* A set of naturals that is not empty has a least element.
LEMMA LeastNatural ==
    ASSUME NEW S \in SUBSET Nat, S # {}
    PROVE  \E x \in S : \A y \in S : x <= y
<1>1. PICK x \in S : \A y \in S : <<y, x>> \notin OpToRel(<, Nat)
  BY NatLessThanWellFounded, WFMin
<1>2. \A y \in S : ~(y < x)
  BY <1>1 DEF OpToRel
<1>3. QED
  BY <1>2

-----------------------------------------------------------------------------
(* Paths.                                                                  *)

\* What is above a path is shorter.
LEMMA AboveShorter ==
    ASSUME NEW p \in Paths, NEW a \in Above(p)
    PROVE  a \in Paths /\ p \in Seq(Names) /\ a \in Seq(Names) /\ Len(a) < Len(p)
<1>1. a \in Paths /\ p \in Seq(Names)
  BY ArchiveAssumption
<1>2. PICK n \in 1 .. Len(p) - 1 : a = SubSeq(p, 1, n)
  BY DEF Above
<1>3. Len(a) = n /\ Len(p) \in Nat
  BY <1>1, <1>2, SubSeqProperties
<1>4. QED
  BY <1>1, <1>3, ArchiveAssumption

LEMMA AboveTransitive ==
    ASSUME NEW p \in Paths, NEW a \in Above(p), NEW b \in Above(a)
    PROVE  b \in Above(p)
<1>1. p \in Seq(Names) /\ Len(p) \in Nat
  BY ArchiveAssumption
<1>2. PICK n \in 1 .. Len(p) - 1 : a = SubSeq(p, 1, n)
  BY DEF Above
<1>3. Len(a) = n
  BY <1>1, <1>2, SubSeqProperties
<1>4. PICK k \in 1 .. n - 1 : b = SubSeq(a, 1, k)
  BY <1>3 DEF Above
<1>5. b = SubSeq(p, 1, k)
  BY <1>1, <1>2, <1>4
<1>6. QED
  BY <1>1, <1>5 DEF Above

LEMMA PathsFinite == IsFiniteSet(Paths)
<1>1. Sorted \in Surjection(1 .. Len(Sorted), Paths)
  BY ArchiveAssumption DEF Paths, Surjection
<1>2. IsFiniteSet(1 .. Len(Sorted))
  BY ArchiveAssumption, FS_Interval
<1>3. QED
  BY <1>1, <1>2, FS_Surjection

-----------------------------------------------------------------------------
(* The order of entries.                                                   *)

\* One more path is one more of m, or none.
LEMMA RankSteps ==
    ASSUME NEW m
    PROVE  /\ Rank(m, 0) = 0
           /\ \A i \in Nat : Rank(m, i) \in Nat
           /\ \A i \in Nat : Rank(m, i + 1) =
                 IF Sorted[i + 1] \in DOMAIN m THEN Rank(m, i) + 1 ELSE Rank(m, i)
<1> DEFINE Upto(i) == {j \in 1 .. i : Sorted[j] \in DOMAIN m}
<1>1. Upto(0) = {}
  OBVIOUS
<1>2. ASSUME NEW i \in Nat PROVE IsFiniteSet(Upto(i)) /\ Rank(m, i) \in Nat
  <2>1. IsFiniteSet(1 .. i) /\ Upto(i) \in SUBSET (1 .. i)
    BY FS_Interval
  <2>2. IsFiniteSet(Upto(i))
    BY <2>1, FS_Subset
  <2>3. QED
    BY <2>2, FS_CardinalityType DEF Rank
<1>3. ASSUME NEW i \in Nat
      PROVE  Rank(m, i + 1) =
               IF Sorted[i + 1] \in DOMAIN m THEN Rank(m, i) + 1 ELSE Rank(m, i)
  <2>1. i + 1 \notin Upto(i)
    OBVIOUS
  <2>2. Upto(i + 1) = IF Sorted[i + 1] \in DOMAIN m THEN Upto(i) \cup {i + 1} ELSE Upto(i)
    OBVIOUS
  <2>3. Cardinality(Upto(i) \cup {i + 1}) = Cardinality(Upto(i)) + 1
    <3> HIDE DEF Upto
    <3> QED
      BY <1>2, <2>1, FS_AddElement
  <2>4. QED
    BY <2>2, <2>3 DEF Rank
<1>4. QED
  BY <1>1, <1>2, <1>3, FS_EmptySet DEF Rank

\* A path of m comes after those before it.
LEMMA RankGrows ==
    ASSUME NEW m, NEW i \in Nat, NEW j \in Nat, i < j, Sorted[j] \in DOMAIN m
    PROVE  Rank(m, i) < Rank(m, j)
<1> DEFINE Upto(n) == {h \in 1 .. n : Sorted[h] \in DOMAIN m}
<1>1. IsFiniteSet(Upto(i)) /\ IsFiniteSet(Upto(j))
  <2>1. \A n \in Nat : IsFiniteSet(1 .. n)
    BY FS_Interval
  <2>2. Upto(i) \subseteq 1 .. i /\ Upto(j) \subseteq 1 .. j
    OBVIOUS
  <2>3. QED
    BY <2>1, <2>2, FS_Subset
<1>2. j \notin Upto(i) /\ Upto(i) \cup {j} \subseteq Upto(j)
  OBVIOUS
<1>3. Cardinality(Upto(i)) + 1 <= Cardinality(Upto(j))
  <2> HIDE DEF Upto
  <2>1. Cardinality(Upto(i) \cup {j}) = Cardinality(Upto(i)) + 1
    BY <1>1, <1>2, FS_AddElement
  <2>2. QED
    BY <1>1, <1>2, <2>1, FS_Subset
<1>4. Cardinality(Upto(i)) \in Nat /\ Cardinality(Upto(j)) \in Nat
  BY <1>1, FS_CardinalityType
<1>5. QED
  BY <1>3, <1>4 DEF Rank

\* All the paths together are all of m.
LEMMA RankAll ==
    ASSUME NEW m, DOMAIN m \subseteq Paths
    PROVE  /\ IsFiniteSet(DOMAIN m) /\ Cardinality(DOMAIN m) \in Nat
           /\ Rank(m, Len(Sorted)) = Cardinality(DOMAIN m)
<1> DEFINE Upto == {j \in 1 .. Len(Sorted) : Sorted[j] \in DOMAIN m}
           f == [j \in Upto |-> Sorted[j]]
<1>1. IsFiniteSet(DOMAIN m) /\ Cardinality(DOMAIN m) \in Nat
  BY PathsFinite, FS_Subset, FS_CardinalityType
<1>2. Len(Sorted) \in Nat /\ DOMAIN Sorted = 1 .. Len(Sorted)
  BY ArchiveAssumption
<1>3. IsFiniteSet(Upto)
  <2>1. IsFiniteSet(1 .. Len(Sorted)) /\ Upto \subseteq 1 .. Len(Sorted)
    BY <1>2, FS_Interval
  <2>2. QED
    BY <2>1, FS_Subset
<1>4. f \in Bijection(Upto, DOMAIN m)
  <2>1. f \in [Upto -> DOMAIN m]
    OBVIOUS
  <2>2. \A p \in DOMAIN m : \E j \in Upto : f[j] = p
    BY <1>2 DEF Paths
  <2>3. \A i, j \in Upto : f[i] = f[j] => i = j
    BY <1>2, ArchiveAssumption
  <2>4. QED
    BY <2>1, <2>2, <2>3 DEF Bijection, Injection, IsInjective, Surjection
<1>5. Cardinality(DOMAIN m) = Cardinality(Upto)
  <2> HIDE DEF Upto, f
  <2> QED
    BY <1>3, <1>4, FS_Bijection DEF ExistsBijection
<1>6. QED
  BY <1>1, <1>5 DEF Rank

\* There is a k-th path of m for every k.
LEMMA NthIsThere ==
    ASSUME NEW m, DOMAIN m \subseteq Paths, NEW k \in 1 .. Cardinality(DOMAIN m)
    PROVE  \E i \in DOMAIN Sorted : Sorted[i] \in DOMAIN m /\ Rank(m, i) = k
<1> DEFINE Far == {i \in 0 .. Len(Sorted) : Rank(m, i) >= k}
<1>1. Len(Sorted) \in Nat /\ DOMAIN Sorted = 1 .. Len(Sorted)
  BY ArchiveAssumption
<1>2. Cardinality(DOMAIN m) \in Nat /\ Len(Sorted) \in Far
  BY <1>1, RankAll
<1>3. PICK i \in Far : \A j \in Far : i <= j
  <2>1. Far \in SUBSET Nat /\ Far # {}
    BY <1>1, <1>2
  <2> HIDE DEF Far
  <2>2. QED
    BY <2>1, LeastNatural
<1>4. i # 0
  BY <1>2, RankSteps
<1>5. i - 1 \in Nat /\ i - 1 \notin Far /\ i - 1 + 1 = i
  BY <1>1, <1>3, <1>4
<1>6. Rank(m, i - 1) < k
  <2>1. Rank(m, i - 1) \in Nat
    BY <1>5, RankSteps
  <2>2. QED
    BY <1>1, <1>2, <1>5, <2>1
<1>7. Rank(m, i) = IF Sorted[i] \in DOMAIN m THEN Rank(m, i - 1) + 1 ELSE Rank(m, i - 1)
  BY <1>5, RankSteps
<1>8. Rank(m, i - 1) \in Nat /\ Rank(m, i) >= k
  BY <1>5, RankSteps
<1>9. QED
  BY <1>1, <1>2, <1>4, <1>6, <1>7, <1>8

\* Listed has every path of m, once, and nothing else.
LEMMA ListedEntries ==
    ASSUME NEW m, DOMAIN m \subseteq Paths
    PROVE  /\ Cardinality(DOMAIN m) \in Nat
           /\ DOMAIN Listed(m) = 1 .. Cardinality(DOMAIN m)
           /\ Len(Listed(m)) = Cardinality(DOMAIN m)
           /\ \A k \in DOMAIN Listed(m) :
                 /\ Listed(m)[k].path \in DOMAIN m
                 /\ Listed(m)[k] = [path |-> Listed(m)[k].path, node |-> m[Listed(m)[k].path]]
           /\ \A p \in DOMAIN m : \E k \in DOMAIN Listed(m) : Listed(m)[k].path = p
           /\ \A k, l \in DOMAIN Listed(m) : Listed(m)[k].path = Listed(m)[l].path => k = l
<1> DEFINE n == Cardinality(DOMAIN m)
           At(k) == CHOOSE i \in DOMAIN Sorted : Sorted[i] \in DOMAIN m /\ Rank(m, i) = k
<1>1. n \in Nat /\ Len(Sorted) \in Nat /\ DOMAIN Sorted = 1 .. Len(Sorted)
  BY RankAll, ArchiveAssumption
<1>2. \A k \in 1 .. n : /\ At(k) \in DOMAIN Sorted /\ Sorted[At(k)] \in DOMAIN m
                        /\ Rank(m, At(k)) = k
  BY NthIsThere
<1>3. \A k \in 1 .. n : Nth(m, k) = Sorted[At(k)]
  BY DEF Nth
<1>4. \A p \in DOMAIN m : \E k \in 1 .. n : Nth(m, k) = p
  <2> SUFFICES ASSUME NEW p \in DOMAIN m PROVE \E k \in 1 .. n : Nth(m, k) = p
    OBVIOUS
  <2>1. PICK i \in DOMAIN Sorted : Sorted[i] = p
    BY DEF Paths
  <2>2. Rank(m, i) \in 1 .. n
    <3>5. i \in Nat /\ 0 < i /\ 0 \in Nat /\ Sorted[i] \in DOMAIN m
      BY <1>1, <2>1
    <3>1. Rank(m, 0) < Rank(m, i) /\ Rank(m, i) \in Nat /\ Rank(m, 0) = 0
      <4>1. Rank(m, 0) < Rank(m, i)
        BY <3>5, RankGrows
      <4>2. QED
        BY <3>5, <4>1, RankSteps
    <3>2. i = Len(Sorted) \/ Rank(m, i) <= Rank(m, Len(Sorted))
      <4> DEFINE Upto(h) == {j \in 1 .. h : Sorted[j] \in DOMAIN m}
      <4>1. Upto(i) \subseteq Upto(Len(Sorted)) /\ Upto(Len(Sorted)) \subseteq 1 .. Len(Sorted)
        BY <1>1
      <4>2. IsFiniteSet(Upto(Len(Sorted)))
        <5>1. IsFiniteSet(1 .. Len(Sorted))
          BY <1>1, FS_Interval
        <5> HIDE DEF Upto
        <5>2. QED
          BY <4>1, <5>1, FS_Subset
      <4>3. Cardinality(Upto(i)) <= Cardinality(Upto(Len(Sorted)))
        <5> HIDE DEF Upto
        <5> QED
          BY <4>1, <4>2, FS_Subset
      <4>4. QED
        BY <4>3 DEF Rank
    <3>3. QED
      BY <1>1, <3>1, <3>2, RankAll
  <2>3. ASSUME NEW j \in DOMAIN Sorted, Sorted[j] \in DOMAIN m, Rank(m, j) = Rank(m, i)
        PROVE  i = j
    <3>0. i \in Nat /\ j \in Nat
      BY <1>1
    <3>1. i \in Nat /\ j \in Nat /\ Rank(m, i) \in Nat
      BY <3>0, RankSteps
    <3>2. ~(i < j)
      <4>1. i < j => Rank(m, i) < Rank(m, j)
        BY <2>3, <3>1, RankGrows
      <4>2. QED
        BY <2>3, <3>1, <4>1
    <3>4. ~(j < i)
      <4>1. j < i => Rank(m, j) < Rank(m, i)
        BY <2>1, <3>1, RankGrows
      <4>2. QED
        BY <2>3, <3>1, <4>1
    <3>5. QED
      BY <3>1, <3>2, <3>4
  <2>4. At(Rank(m, i)) = i
    BY <1>2, <2>2, <2>3
  <2>5. QED
    BY <1>3, <2>1, <2>2, <2>4
<1>5. \A k, l \in 1 .. n : Nth(m, k) = Nth(m, l) => k = l
  <2> HIDE DEF At
  <2> SUFFICES ASSUME NEW k \in 1 .. n, NEW l \in 1 .. n, Nth(m, k) = Nth(m, l)
               PROVE  k = l
    OBVIOUS
  <2>1. Sorted[At(k)] = Sorted[At(l)]
    BY <1>3
  <2>2. At(k) = At(l)
    BY <1>2, <2>1, ArchiveAssumption
  <2>3. QED
    BY <1>2, <2>2
<1> HIDE DEF At
<1>6. \A k \in 1 .. n : Nth(m, k) \in DOMAIN m
  BY <1>2, <1>3
<1>7. /\ DOMAIN Listed(m) = 1 .. n
      /\ \A k \in 1 .. n : Listed(m)[k] = [path |-> Nth(m, k), node |-> m[Nth(m, k)]]
  BY DEF Listed
<1>8. Len(Listed(m)) = n
  BY <1>1 DEF Listed
<1> HIDE DEF n
<1>9. QED
  BY <1>1, <1>4, <1>5, <1>6, <1>7, <1>8 DEF n

-----------------------------------------------------------------------------
(* Types.                                                                  *)

PathsOf(s) == {s[i].path : i \in DOMAIN s}

\* No entry is where another needs a directory.
Flat(S) == \A p, q \in S : p \notin Above(q)

\* What is in the agent's directory is an entry of the archive, or above one.
Unpacked ==
    \A p \in Paths : dir[p] # Gone =>
        \E q \in PathsOf(archive) : p = q \/ (p \in Above(q) /\ dir[p] = Dir)

FlatInv ==
    /\ Flat(PathsOf(archive) \cup PathsOf(todo))
    /\ pc \in {"rest", "sealed"} => archive = <<>> /\ todo = <<>>
    /\ pc \in {"rest", "sealed", "writing", "failed", "installed"} => dir = Empty /\ spent = Unspent
    /\ pc = "unpacking" => PathsOf(todo) \subseteq PathsOf(archive)
    /\ Unpacked

TypeInv == TypeOK /\ FlatInv

\* A node is one of five kinds.
LEMMA NodeKinds ==
    /\ Gone \in Nodes /\ Dir \in Nodes /\ Other \in Nodes
    /\ Gone # Dir /\ Gone # Other /\ Dir # Other
    /\ \A n \in Files : n.kind = "file" /\ n \in Nodes /\ n # Gone /\ n # Dir /\ n # Other
    /\ \A n \in Links : n.kind = "link" /\ n \in Nodes /\ n # Gone /\ n # Dir /\ n # Other
    /\ \A n \in Nodes : n.kind = "file" <=> n \in Files
    /\ \A n \in Nodes : n.kind = "link" <=> n \in Links
<1>1. Gone.kind = "absent" /\ Dir.kind = "dir" /\ Other.kind = "other"
  BY DEF Gone, Dir, Other
<1>2. \A n \in Files : n.kind = "file"
  BY DEF Files
<1>3. \A n \in Links : n.kind = "link"
  BY DEF Links
<1>4. QED
  BY <1>1, <1>2, <1>3 DEF Nodes

LEMMA PathsOfAppend ==
    ASSUME NEW S, NEW s \in Seq(S), NEW x
    PROVE  PathsOf(Append(s, x)) = PathsOf(s) \cup {x.path}
<1>1. /\ DOMAIN Append(s, x) = DOMAIN s \cup {Len(s) + 1}
      /\ Append(s, x)[Len(s) + 1] = x /\ \A i \in DOMAIN s : Append(s, x)[i] = s[i]
  OBVIOUS
<1>2. QED
  BY <1>1 DEF PathsOf

LEMMA PathsOfTail ==
    ASSUME NEW S, NEW s \in Seq(S), s # <<>>
    PROVE  PathsOf(s) = PathsOf(Tail(s)) \cup {Head(s).path}
<1>1. /\ DOMAIN s = 1 .. Len(s) /\ Len(s) \in Nat \ {0}
      /\ DOMAIN Tail(s) = 1 .. Len(s) - 1 /\ Head(s) = s[1]
      /\ \A i \in 1 .. Len(s) - 1 : Tail(s)[i] = s[i + 1]
  OBVIOUS
<1>2. \A i \in 2 .. Len(s) : i - 1 \in 1 .. Len(s) - 1 /\ Tail(s)[i - 1] = s[i]
  BY <1>1
<1>3. PathsOf(s) \subseteq PathsOf(Tail(s)) \cup {Head(s).path}
  <2> SUFFICES ASSUME NEW i \in DOMAIN s
               PROVE  s[i].path \in PathsOf(Tail(s)) \cup {Head(s).path}
    BY DEF PathsOf
  <2>1. CASE i = 1
    BY <1>1, <2>1
  <2>2. CASE i # 1
    <3>1. i - 1 \in DOMAIN Tail(s) /\ Tail(s)[i - 1] = s[i]
      BY <1>1, <1>2, <2>2
    <3>2. QED
      BY <3>1 DEF PathsOf
  <2>3. QED
    BY <2>1, <2>2
<1>4. PathsOf(Tail(s)) \cup {Head(s).path} \subseteq PathsOf(s)
  BY <1>1 DEF PathsOf
<1>5. QED
  BY <1>3, <1>4

\* A manifest has a line for every entry, and no entry is above another.
LEMMA ManifestLines ==
    ASSUME NEW t \in [Paths -> Nodes], WellFormed(t)
    PROVE  /\ DOMAIN Manifest(t) = Entries(t) /\ Entries(t) \subseteq Paths
           /\ \A p \in Entries(t) : /\ Manifest(t)[p] = LineOf(t[p])
                                    /\ Manifest(t)[p] \in Files \cup Links
                                    /\ Manifest(t)[p].kind = t[p].kind
           /\ Flat(Entries(t))
<1>1. ASSUME NEW p \in Entries(t)
      PROVE  LineOf(t[p]) \in Files \cup Links /\ LineOf(t[p]).kind = t[p].kind
  <2>1. t[p] \in Files \/ t[p] \in Links
    BY NodeKinds DEF Entries
  <2>2. CASE t[p] \in Files
    <3>1. Normal(t[p].mode) \in Modes
      BY ArchiveAssumption DEF Normal
    <3>2. QED
      BY <2>2, <3>1 DEF LineOf, Files
  <2>3. CASE t[p] \in Links
    BY <2>3, NodeKinds DEF LineOf
  <2>4. QED
    BY <2>1, <2>2, <2>3
<1>2. ASSUME NEW p \in Entries(t), NEW q \in Entries(t), p \in Above(q) PROVE FALSE
  <2>1. t[q] # Gone /\ t[p] # Dir
    BY NodeKinds DEF Entries
  <2>2. QED
    BY <1>2, <2>1 DEF WellFormed, Entries
<1>3. QED
  BY <1>1, <1>2 DEF Manifest, Flat, Entries

\* The entries of a manifest, in order.
LEMMA ListedWritten ==
    ASSUME NEW t \in [Paths -> Nodes], WellFormed(t)
    PROVE  /\ Listed(Manifest(t)) \in Seq(Written)
           /\ PathsOf(Listed(Manifest(t))) = Entries(t)
<1> DEFINE m == Manifest(t)
           L == Listed(m)
<1>1. DOMAIN m \subseteq Paths /\ DOMAIN m = Entries(t)
  BY ManifestLines
<1>2. /\ DOMAIN L = 1 .. Cardinality(DOMAIN m) /\ Cardinality(DOMAIN m) \in Nat
      /\ \A k \in DOMAIN L : /\ L[k].path \in DOMAIN m
                             /\ L[k] = [path |-> L[k].path, node |-> m[L[k].path]]
      /\ \A p \in DOMAIN m : \E k \in DOMAIN L : L[k].path = p
  <2> HIDE DEF m
  <2> QED
    BY <1>1, ListedEntries
<1>3. \A k \in DOMAIN L : L[k] \in Written
  <2> SUFFICES ASSUME NEW k \in DOMAIN L PROVE L[k] \in Written
    OBVIOUS
  <2>1. m[L[k].path] \in Files \cup Links /\ L[k].path \in Paths
    BY <1>1, <1>2, ManifestLines
  <2> HIDE DEF L, m
  <2>2. [path |-> L[k].path, node |-> m[L[k].path]] \in Written
    BY <2>1 DEF Written
  <2>3. QED
    BY <1>2, <2>2
<1>4. L = [k \in 1 .. Cardinality(DOMAIN m) |-> L[k]]
  BY <1>2 DEF Listed
<1> HIDE DEF L
<1>5. L \in Seq(Written)
  BY <1>2, <1>3, <1>4
<1>6. PathsOf(L) = DOMAIN m
  BY <1>2 DEF PathsOf
<1>7. QED
  BY <1>1, <1>5, <1>6 DEF L

LEMMA EditKeepsTypes ==
    ASSUME TypeInv, NEW p \in Paths, NEW n \in Nodes, Edit(p, n)
    PROVE  TypeInv'
<1>1. UNCHANGED <<pc, id, todo, archive, dir, spent>>
  BY DEF Edit
<1>2. tree' \in [Paths -> Nodes] /\ WellFormed(tree')
  BY DEF Edit, TypeInv, TypeOK
<1>3. edits' \in 0 .. MaxEdits
  BY ArchiveAssumption DEF Edit, TypeInv, TypeOK
<1>4. touched' \in BOOLEAN
  BY DEF Edit
<1>5. TypeOK'
  BY <1>1, <1>2, <1>3, <1>4 DEF TypeInv, TypeOK
<1>6. FlatInv'
  BY <1>1 DEF TypeInv, FlatInv, Unpacked
<1>7. QED
  BY <1>5, <1>6 DEF TypeInv

\* Nothing is in an empty directory.
LEMMA EmptyIsPlain ==
    /\ Empty \in [Paths -> Nodes] /\ WellFormed(Empty)
    /\ \A p \in Paths : Empty[p] = Gone
    /\ Unspent \in [entries : Nat, bytes : Nat]
  BY NodeKinds DEF Empty, WellFormed, Unspent

LEMMA SealingKeepsTypes ==
    ASSUME TypeInv, Seal \/ Walk
    PROVE  TypeInv'
<1> USE DEF TypeInv, TypeOK
<1>1. /\ DOMAIN Manifest(tree) \subseteq Paths
      /\ \A p \in DOMAIN Manifest(tree) : Manifest(tree)[p] \in Files \cup Links
      /\ Listed(Manifest(tree)) \in Seq(Written)
      /\ Flat(PathsOf(Listed(Manifest(tree))))
  BY ManifestLines, ListedWritten
<1>2. PathsOf(<<>>) = {} /\ Flat({})
  BY DEF PathsOf, Flat
<1>3. CASE Seal
  <2>1. /\ tree' = tree /\ edits' = edits /\ touched' = FALSE
        /\ todo' = <<>> /\ archive' = <<>> /\ dir' = Empty /\ spent' = Unspent
        /\ \/ pc' = "sealed" /\ id' = Manifest(tree)
           \/ pc' = "rest" /\ id' = None
    BY <1>3 DEF Seal
  <2>2. TypeOK'
    <3>1. \/ id' = None
          \/ DOMAIN id' \subseteq Paths /\ \A p \in DOMAIN id' : id'[p] \in Files \cup Links
      BY <1>1, <2>1
    <3>2. todo' \in Seq(Written) /\ archive' \in Seq(Written)
      BY <2>1
    <3>3. dir' \in [Paths -> Nodes] /\ WellFormed(dir') /\ spent' \in [entries : Nat, bytes : Nat]
      BY <2>1, EmptyIsPlain
    <3>4. QED
      BY <2>1, <3>1, <3>2, <3>3
  <2>3. FlatInv'
    BY <1>2, <2>1, EmptyIsPlain DEF FlatInv, Unpacked
  <2>4. QED
    BY <2>2, <2>3
<1>4. CASE Walk
  <2>1. /\ UNCHANGED <<tree, id, archive, dir, spent, edits, touched>>
        /\ pc = "sealed" /\ pc' \in {"writing", "failed"}
        /\ todo' \in {todo, Listed(Manifest(tree))}
    BY <1>4 DEF Walk
  <2>2. TypeOK'
    BY <1>1, <2>1
  <2>3. FlatInv'
    BY <1>1, <1>2, <2>1, EmptyIsPlain DEF FlatInv, Unpacked
  <2>4. QED
    BY <2>2, <2>3
<1>5. QED
  BY <1>3, <1>4

\* What is written is a file or a link.
LEMMA ReadsWritten ==
    ASSUME TypeOK, NEW e \in Written, NEW n \in Nodes, Reads(e, n)
    PROVE  n \in Files \cup Links
<1>1. CASE e.node.kind = "link"
  BY <1>1, NodeKinds DEF Reads
<1>2. CASE e.node.kind # "link"
  <2>1. e.node \in Files
    BY <1>2, NodeKinds DEF Written
  <2>2. PICK m \in Opened(e.path) : m.kind = "file" /\ n = [m EXCEPT !.mode = e.node.mode]
    BY <1>2 DEF Reads
  <2>3. m \in Nodes
    BY DEF Opened, Found, TypeOK, Written
  <2>4. m \in Files
    BY <2>2, <2>3, NodeKinds
  <2>5. QED
    BY <2>1, <2>2, <2>4 DEF Files
<1>3. QED
  BY <1>1, <1>2

LEMMA WritingKeepsTypes ==
    ASSUME TypeInv, WriteEntry \/ WriteFails \/ Install \/ Download
    PROVE  TypeInv'
<1> USE DEF TypeInv, TypeOK
<1>1. CASE WriteEntry
  <2>1. /\ UNCHANGED <<tree, pc, id, dir, spent, edits, touched>>
        /\ pc = "writing" /\ todo # <<>> /\ todo' = Tail(todo)
    BY <1>1 DEF WriteEntry
  <2>2. PICK n \in Nodes : /\ Reads(Head(todo), n)
                           /\ archive' = Append(archive, [path |-> Head(todo).path, node |-> n])
    BY <1>1 DEF WriteEntry
  <2>3. Head(todo) \in Written /\ Tail(todo) \in Seq(Written)
    BY <2>1
  <2>4. Head(todo).path \in Paths /\ n \in Files \cup Links
    BY <2>2, <2>3, ReadsWritten DEF Written
  <2>5. [path |-> Head(todo).path, node |-> n] \in Written
    BY <2>4 DEF Written
  <2>6. archive' \in Seq(Written)
    BY <2>2, <2>5
  <2>7. TypeOK'
    BY <2>1, <2>3, <2>6
  <2>8. /\ PathsOf(archive') = PathsOf(archive) \cup {Head(todo).path}
        /\ PathsOf(todo) = PathsOf(todo') \cup {Head(todo).path}
    BY <2>1, <2>2, PathsOfAppend, PathsOfTail
  <2>9. FlatInv'
    BY <2>1, <2>8, EmptyIsPlain DEF FlatInv, Flat, Unpacked
  <2>10. QED
    BY <2>7, <2>9
<1>2. CASE WriteFails \/ Install
  <2>1. /\ UNCHANGED <<tree, id, todo, archive, dir, spent, edits, touched>>
        /\ pc = "writing" /\ pc' \in {"failed", "installed"}
    BY <1>2 DEF WriteFails, Install
  <2>2. QED
    BY <2>1 DEF FlatInv, Unpacked
<1>3. CASE Download
  <2>1. /\ UNCHANGED <<tree, id, archive, dir, spent, edits, touched>>
        /\ pc' = "unpacking" /\ todo' = archive
    BY <1>3 DEF Download
  <2>2. QED
    BY <2>1 DEF FlatInv, Flat, Unpacked
<1>4. QED
  BY <1>1, <1>2, <1>3

\* An entry has its place among those of a flat archive.
LEMMA PlacedWellFormed ==
    ASSUME TypeOK, Flat(PathsOf(archive)), Unpacked,
           NEW e \in Written, e.path \in PathsOf(archive), NEW n \in Files \cup Links
    PROVE  /\ Placed(e, n) \in [Paths -> Nodes] /\ WellFormed(Placed(e, n))
           /\ \A p \in Paths : Placed(e, n)[p] # Gone =>
                 \E q \in PathsOf(archive) : p = q \/ (p \in Above(q) /\ Placed(e, n)[p] = Dir)
<1> DEFINE d == Placed(e, n)
<1> USE DEF TypeOK
<1>1. /\ e.path \in Paths /\ e.path \notin Above(e.path)
      /\ Above(e.path) \subseteq Paths
  BY AboveShorter, ArchiveAssumption DEF Written, Flat
<1>2. /\ d \in [Paths -> Nodes] /\ d[e.path] = n
      /\ \A p \in Above(e.path) : d[p] = Dir
      /\ \A p \in Paths : p # e.path /\ p \notin Above(e.path) => d[p] = dir[p]
  BY <1>1, NodeKinds DEF Placed
<1> HIDE DEF d
<1>3. ASSUME NEW p \in Paths, d[p] # Gone, NEW a \in Above(p) PROVE d[a] = Dir
  <2>1. a \in Paths
    BY ArchiveAssumption
  <2>2. CASE p = e.path
    BY <1>2, <2>2
  <2>3. CASE p \in Above(e.path)
    BY <1>1, <1>2, <2>3, AboveTransitive
  <2>4. CASE p # e.path /\ p \notin Above(e.path)
    <3>1. dir[p] # Gone /\ dir[a] = Dir
      BY <1>2, <1>3, <2>4 DEF WellFormed
    <3>2. PICK q \in PathsOf(archive) : p = q \/ p \in Above(q)
      BY <3>1 DEF Unpacked
    <3>3. q \in Paths
      <4>1. \A i \in DOMAIN archive : archive[i] \in Written
        OBVIOUS
      <4>2. QED
        BY <4>1 DEF PathsOf, Written
    <3>4. a # e.path
      <4>1. a \in Above(q)
        BY <3>2, <3>3, AboveTransitive
      <4>2. QED
        BY <4>1 DEF Flat
    <3>5. QED
      BY <1>2, <2>1, <3>1, <3>4
  <2>5. QED
    BY <2>2, <2>3, <2>4
<1>4. ASSUME NEW p \in Paths, d[p] # Gone
      PROVE  \E q \in PathsOf(archive) : p = q \/ (p \in Above(q) /\ d[p] = Dir)
  <2>1. CASE p = e.path \/ p \in Above(e.path)
    BY <1>2, <2>1
  <2>2. CASE p # e.path /\ p \notin Above(e.path)
    BY <1>2, <1>4, <2>2 DEF Unpacked
  <2>3. QED
    BY <2>1, <2>2
<1>5. QED
  BY <1>2, <1>3, <1>4 DEF d, WellFormed

\* What an entry is unpacked as: a link as it is, a file with some mode.
Unpackings(n) ==
    IF n.kind = "link" THEN {n} ELSE {[n EXCEPT !.mode = mode] : mode \in Landing(n.mode)}

LEMMA UnpackingNodes ==
    ASSUME NEW m \in Files \cup Links, NEW n \in Unpackings(m)
    PROVE  /\ n \in Files \cup Links /\ n.kind = m.kind /\ Bytes(n) = Bytes(m)
           /\ Bytes(m) \in Nat
<1>1. CASE m \in Links
  BY <1>1, NodeKinds DEF Unpackings, Bytes
<1>2. CASE m \in Files
  <2>1. PICK mode \in Modes : n = [m EXCEPT !.mode = mode]
    BY <1>2, NodeKinds, ArchiveAssumption DEF Unpackings, Landing
  <2>2. n \in Files /\ n.content = m.content /\ m.kind = "file" /\ n.kind = "file"
    BY <1>2, <2>1 DEF Files
  <2>3. Size[m.content] \in Nat
    BY <1>2, ArchiveAssumption DEF Files
  <2>4. QED
    BY <2>2, <2>3 DEF Bytes
<1>3. QED
  BY <1>1, <1>2

\* ExtractEntry, in one piece.
LEMMA ExtractPlaces ==
    ASSUME TypeOK, ExtractEntry
    PROVE  /\ pc = "unpacking" /\ todo # <<>> /\ Head(todo) \in Written
           /\ Head(todo).node \in Files \cup Links
           /\ Fits(Head(todo))
           /\ \E n \in Unpackings(Head(todo).node) : dir' = Placed(Head(todo), n)
           /\ spent' = [entries |-> spent.entries + 1, bytes |-> spent.bytes + Bytes(Head(todo).node)]
           /\ todo' = Tail(todo)
           /\ UNCHANGED <<tree, pc, id, archive, edits, touched>>
<1>1. todo # <<>> /\ todo \in Seq(Written)
  BY DEF ExtractEntry, TypeOK
<1>2. Head(todo) \in Written
  BY <1>1
<1>3. \E n \in Unpackings(Head(todo).node) : dir' = Placed(Head(todo), n)
  BY DEF ExtractEntry, Unpackings
<1>4. QED
  BY <1>1, <1>2, <1>3 DEF ExtractEntry, Written

LEMMA UnpackingKeepsTypes ==
    ASSUME TypeInv, ExtractEntry \/ ExtractRefuses \/ Verify
    PROVE  TypeInv'
<1> USE DEF TypeInv
<1>1. CASE ExtractEntry
  <2>1. /\ pc = "unpacking" /\ todo # <<>> /\ Head(todo) \in Written
        /\ Head(todo).node \in Files \cup Links
        /\ spent' = [entries |-> spent.entries + 1, bytes |-> spent.bytes + Bytes(Head(todo).node)]
        /\ todo' = Tail(todo)
        /\ UNCHANGED <<tree, pc, id, archive, edits, touched>>
    BY <1>1, ExtractPlaces
  <2>2. PICK n \in Unpackings(Head(todo).node) : dir' = Placed(Head(todo), n)
    BY <1>1, ExtractPlaces
  <2>3. n \in Files \cup Links /\ Bytes(Head(todo).node) \in Nat
    BY <2>1, UnpackingNodes
  <2>4. PathsOf(todo) = PathsOf(todo') \cup {Head(todo).path}
    BY <2>1, PathsOfTail DEF TypeOK
  <2>5. PathsOf(todo) \subseteq PathsOf(archive) /\ Flat(PathsOf(archive))
    BY <2>1 DEF FlatInv, Flat
  <2>6. /\ dir' \in [Paths -> Nodes] /\ WellFormed(dir')
        /\ \A p \in Paths : dir'[p] # Gone =>
              \E q \in PathsOf(archive) : p = q \/ (p \in Above(q) /\ dir'[p] = Dir)
    BY <2>1, <2>2, <2>3, <2>4, <2>5, PlacedWellFormed DEF FlatInv
  <2>7. Tail(todo) \in Seq(Written)
    BY <2>1 DEF TypeOK
  <2>8. spent' \in [entries : Nat, bytes : Nat]
    BY <2>1, <2>3 DEF TypeOK
  <2>9. TypeOK'
    BY <2>1, <2>6, <2>7, <2>8 DEF TypeOK
  <2>10. FlatInv'
    BY <2>1, <2>4, <2>5, <2>6 DEF FlatInv, Flat, Unpacked
  <2>11. QED
    BY <2>9, <2>10
<1>2. CASE ExtractRefuses \/ Verify
  <2>1. /\ UNCHANGED <<tree, id, todo, archive, dir, spent, edits, touched>>
        /\ pc' \in {"refused", "accepted"}
    BY <1>2 DEF ExtractRefuses, Verify
  <2>2. TypeOK'
    BY <2>1 DEF TypeOK
  <2>3. FlatInv'
    BY <2>1 DEF FlatInv, Unpacked
  <2>4. QED
    BY <2>2, <2>3
<1>3. QED
  BY <1>1, <1>2

LEMMA TypeInvariant == Spec => []TypeInv
<1>1. Init => TypeInv
  <2> SUFFICES ASSUME Init PROVE TypeInv
    OBVIOUS
  <2>1. PathsOf(<<>>) = {} /\ <<>> \in Seq(Written)
    BY DEF PathsOf
  <2>2. tree \in [Paths -> Nodes] /\ WellFormed(tree) /\ 0 \in 0 .. MaxEdits
    BY ArchiveAssumption DEF Init
  <2>3. TypeOK
    BY <2>1, <2>2, EmptyIsPlain DEF Init, TypeOK
  <2>4. FlatInv
    BY <2>1, EmptyIsPlain DEF Init, FlatInv, Flat, Unpacked
  <2>5. QED
    BY <2>3, <2>4 DEF TypeInv
<1>2. TypeInv /\ [Next]_vars => TypeInv'
  <2> SUFFICES ASSUME TypeInv, [Next]_vars PROVE TypeInv'
    OBVIOUS
  <2>1. CASE UNCHANGED vars
    <3>1. TypeOK'
      BY <2>1 DEF vars, TypeInv, TypeOK
    <3>2. FlatInv'
      BY <2>1 DEF vars, TypeInv, FlatInv, Unpacked
    <3>3. QED
      BY <3>1, <3>2 DEF TypeInv
  <2>2. CASE \E p \in Paths, n \in Nodes : Edit(p, n)
    BY <2>2, EditKeepsTypes
  <2>3. CASE Seal \/ Walk
    BY <2>3, SealingKeepsTypes
  <2>4. CASE WriteEntry \/ WriteFails \/ Install \/ Download
    BY <2>4, WritingKeepsTypes
  <2>5. CASE ExtractEntry \/ ExtractRefuses \/ Verify
    BY <2>5, UnpackingKeepsTypes
  <2>6. QED
    BY <2>1, <2>2, <2>3, <2>4, <2>5 DEF Next
<1>3. QED
  BY <1>1, <1>2, PTL DEF Spec

\* The variables keep their types; in particular the agent's directory stays a
\* tree, whatever becomes of the publisher's while the archive is written: no
\* entry of an archive is where another needs a directory.
THEOREM TypeSafe == Spec => []TypeOK
<1>1. TypeInv => TypeOK
  BY DEF TypeInv
<1>2. QED
  BY <1>1, TypeInvariant, PTL

-----------------------------------------------------------------------------
(* Limits.                                                                 *)

\* What is on the disk was charged, and what was charged is within the limits.
BudgetInv ==
    /\ Cardinality(Entries(dir)) <= spent.entries /\ spent.entries <= MaxEntries
    /\ Cardinality(Held(dir, Entries(dir))) <= spent.bytes /\ spent.bytes <= MaxBytes

\* The bytes of finitely many files are finitely many, and of more files more.
LEMMA HeldFinite ==
    ASSUME NEW t, NEW S, IsFiniteSet(S), \A p \in S : Bytes(t[p]) \in Nat
    PROVE  IsFiniteSet(Held(t, S)) /\ Cardinality(Held(t, S)) \in Nat
<1> DEFINE F(p) == {p} \X (1 .. Bytes(t[p]))
           parts == {F(p) : p \in S}
<1>1. \A p \in S : IsFiniteSet(F(p))
  <2> SUFFICES ASSUME NEW p \in S PROVE IsFiniteSet(F(p))
    OBVIOUS
  <2> DEFINE b == Bytes(t[p])
  <2>1. b \in Int /\ 1 \in Int
    OBVIOUS
  <2> HIDE DEF b
  <2>3. IsFiniteSet({p}) /\ IsFiniteSet(1 .. b)
    BY <2>1, FS_Singleton, FS_Interval
  <2>4. IsFiniteSet({p} \X (1 .. b))
    BY <2>3, FS_Product
  <2>5. QED
    BY <2>4 DEF b
<1>2. IsFiniteSet(parts)
  <2> DEFINE f == [p \in S |-> F(p)]
  <2>1. f \in Surjection(S, parts)
    BY DEF Surjection
  <2> HIDE DEF f, parts
  <2>2. QED
    BY <2>1, FS_Surjection
<1>3. \A part \in parts : IsFiniteSet(part)
  BY <1>1
<1>4. IsFiniteSet(UNION parts)
  <2> HIDE DEF parts
  <2> QED
    BY <1>2, <1>3, FS_UNION
<1>5. IsFiniteSet(Held(t, S))
  BY <1>4 DEF Held
<1>6. QED
  BY <1>5, FS_CardinalityType

\* A file's bytes are as many as its size.
LEMMA HeldMore ==
    ASSUME NEW t, NEW u, NEW S, NEW p, IsFiniteSet(S),
           \A q \in S : Bytes(t[q]) \in Nat, Bytes(u[p]) \in Nat,
           \A q \in S \ {p} : Bytes(u[q]) = Bytes(t[q])
    PROVE  /\ Cardinality(Held(u, S \cup {p})) <= Cardinality(Held(t, S)) + Bytes(u[p])
           /\ p \notin S =>
                Cardinality(Held(u, S \cup {p})) = Cardinality(Held(t, S)) + Bytes(u[p])
<1> DEFINE mine == {p} \X (1 .. Bytes(u[p]))
           other == Held(t, S \ {p})
<1>1. Held(u, S \cup {p}) = other \cup mine
  BY DEF Held
<1>2. other \cap mine = {}
  BY DEF Held
<1>3. IsFiniteSet(mine) /\ Cardinality(mine) = Bytes(u[p])
  <2>1. IsFiniteSet({p}) /\ Cardinality({p}) = 1
    BY FS_Singleton
  <2> DEFINE b == Bytes(u[p])
  <2>2. b \in Nat /\ b \in Int /\ 1 \in Int
    OBVIOUS
  <2> HIDE DEF b
  <2>3. IsFiniteSet(1 .. b) /\ Cardinality(1 .. b) = IF 1 > b THEN 0 ELSE b - 1 + 1
    BY <2>2, FS_Interval
  <2>4. Cardinality(1 .. b) = b
    BY <2>2, <2>3
  <2>5. /\ IsFiniteSet({p} \X (1 .. b))
        /\ Cardinality({p} \X (1 .. b)) = Cardinality({p}) * Cardinality(1 .. b)
    BY <2>1, <2>3, FS_Product
  <2>6. Cardinality({p} \X (1 .. b)) = b
    BY <2>1, <2>2, <2>4, <2>5
  <2>7. QED
    BY <2>5, <2>6 DEF b
<1>4. other \subseteq Held(t, S) /\ (p \notin S => other = Held(t, S))
  BY DEF Held
<1>5. IsFiniteSet(Held(t, S)) /\ Cardinality(Held(t, S)) \in Nat
  BY HeldFinite
<1> HIDE DEF mine, other
<1>6. IsFiniteSet(other) /\ Cardinality(other) \in Nat /\ Cardinality(other) <= Cardinality(Held(t, S))
  BY <1>4, <1>5, FS_Subset, FS_CardinalityType
<1>7. Cardinality(other \cup mine) = Cardinality(other) + Cardinality(mine) - Cardinality({})
  BY <1>2, <1>3, <1>6, FS_Union
<1>8. Cardinality(other \cup mine) = Cardinality(other) + Bytes(u[p])
  BY <1>3, <1>6, <1>7, FS_EmptySet
<1>9. Cardinality(Held(u, S \cup {p})) = Cardinality(other) + Bytes(u[p])
  BY <1>1, <1>8
<1>10. p \notin S => Cardinality(other) = Cardinality(Held(t, S))
  BY <1>4
<1>11. QED
  BY <1>5, <1>6, <1>9, <1>10

\* More files hold more.
LEMMA HeldLess ==
    ASSUME NEW t, NEW S, NEW T, S \subseteq T, IsFiniteSet(T),
           \A p \in T : Bytes(t[p]) \in Nat
    PROVE  Cardinality(Held(t, S)) <= Cardinality(Held(t, T))
<1>1. Held(t, S) \subseteq Held(t, T)
  BY DEF Held
<1>2. IsFiniteSet(Held(t, T))
  BY HeldFinite
<1>3. QED
  BY <1>1, <1>2, FS_Subset

LEMMA EntriesFinite ==
    ASSUME NEW t \in [Paths -> Nodes]
    PROVE  /\ Entries(t) \subseteq Paths /\ IsFiniteSet(Entries(t))
           /\ Cardinality(Entries(t)) \in Nat
           /\ \A p \in Paths : Bytes(t[p]) \in Nat
<1>1. Entries(t) \subseteq Paths
  BY DEF Entries
<1>2. IsFiniteSet(Entries(t)) /\ Cardinality(Entries(t)) \in Nat
  BY <1>1, PathsFinite, FS_Subset, FS_CardinalityType
<1>3. ASSUME NEW p \in Paths PROVE Bytes(t[p]) \in Nat
  <2>1. t[p].kind = "file" => t[p] \in Files
    BY NodeKinds
  <2>2. t[p].kind = "file" => Size[t[p].content] \in Nat
    BY <2>1, ArchiveAssumption DEF Files
  <2>3. QED
    BY <2>2 DEF Bytes
<1>4. QED
  BY <1>1, <1>2, <1>3

LEMMA EmptyIsFree ==
    Entries(Empty) = {} /\ Cardinality({}) = 0 /\ Cardinality(Held(Empty, {})) = 0
<1>1. Entries(Empty) = {}
  BY NodeKinds, EmptyIsPlain DEF Entries
<1>2. Held(Empty, {}) = {}
  BY DEF Held
<1>3. QED
  BY <1>1, <1>2, FS_EmptySet

\* An entry takes what it was charged, and may take the place of others.
LEMMA ExtractKeepsBudget ==
    ASSUME TypeInv, TypeInv', BudgetInv, ExtractEntry
    PROVE  BudgetInv'
<1> DEFINE e == Head(todo)
           p == e.path
           b == Bytes(e.node)
           old == Entries(dir)
           new == Entries(dir')
           kept == new \ {p}
<1>1. /\ e \in Written /\ e.node \in Files \cup Links /\ Fits(e)
      /\ spent' = [entries |-> spent.entries + 1, bytes |-> spent.bytes + b]
  BY ExtractPlaces DEF TypeInv
<1>2. PICK n \in Unpackings(e.node) : dir' = Placed(e, n)
  BY ExtractPlaces DEF TypeInv
<1>3. n \in Files \cup Links /\ Bytes(n) = b /\ b \in Nat
  BY <1>1, UnpackingNodes
<1>4. dir \in [Paths -> Nodes] /\ dir' \in [Paths -> Nodes] /\ p \in Paths
  BY <1>1 DEF TypeInv, TypeOK, Written
<1>5. dir'[p] = n
  BY <1>2, <1>4 DEF Placed
<1>6. \A q \in kept : q \in old /\ dir'[q] = dir[q]
  BY <1>2, <1>4, NodeKinds DEF Placed, Entries
<1>7. /\ IsFiniteSet(old) /\ IsFiniteSet(new) /\ new \subseteq kept \cup {p}
      /\ old \subseteq Paths /\ new \subseteq Paths
      /\ Cardinality(old) \in Nat /\ Cardinality(new) \in Nat
      /\ \A q \in Paths : Bytes(dir[q]) \in Nat /\ Bytes(dir'[q]) \in Nat
  BY <1>4, EntriesFinite
<1>8. /\ spent.entries \in Nat /\ spent.bytes \in Nat /\ MaxEntries \in Nat /\ MaxBytes \in Nat
      /\ spent'.entries = spent.entries + 1 /\ spent'.bytes = spent.bytes + b
      /\ spent.entries + 1 <= MaxEntries
      /\ spent.bytes + b <= MaxBytes
  <2>1. spent.entries \in Nat /\ spent.bytes \in Nat /\ MaxEntries \in Nat /\ MaxBytes \in Nat
    BY ArchiveAssumption DEF TypeInv, TypeOK
  <2>2. spent.entries < MaxEntries /\ (e.node.kind = "file" => b <= MaxBytes - spent.bytes)
    BY <1>1 DEF Fits, Bytes
  <2>3. spent.bytes + b <= MaxBytes
    BY <1>3, <2>1, <2>2 DEF BudgetInv, Bytes
  <2>4. QED
    BY <1>1, <2>1, <2>2, <2>3
<1>9. BudgetInv => Cardinality(old) <= spent.entries /\ Cardinality(Held(dir, old)) <= spent.bytes
  BY DEF BudgetInv
<1> HIDE DEF e, p, b, old, new
<1>10. kept \subseteq old /\ IsFiniteSet(kept) /\ Cardinality(kept) \in Nat
       /\ Cardinality(kept) <= Cardinality(old)
  BY <1>6, <1>7, FS_Subset, FS_CardinalityType
<1>11. Cardinality(new) <= Cardinality(old) + 1
  <2> HIDE DEF kept
  <2>1. /\ IsFiniteSet(kept \cup {p})
        /\ Cardinality(kept \cup {p}) \in {Cardinality(kept), Cardinality(kept) + 1}
    BY <1>10, FS_AddElement
  <2>2. Cardinality(new) <= Cardinality(kept \cup {p})
    BY <1>7, <2>1, FS_Subset
  <2>3. QED
    BY <1>7, <1>10, <2>1, <2>2
<1>12. Cardinality(Held(dir', new)) <= Cardinality(Held(dir, old)) + b
  <2>1. Cardinality(Held(dir', kept \cup {p})) <= Cardinality(Held(dir, kept)) + Bytes(dir'[p])
    <3>1. /\ \A q \in kept : Bytes(dir[q]) \in Nat /\ Bytes(dir'[q]) = Bytes(dir[q])
          /\ Bytes(dir'[p]) \in Nat
      BY <1>3, <1>5, <1>6, <1>7
    <3> HIDE DEF kept
    <3>2. QED
      BY <1>10, <3>1, HeldMore
  <2>2. Cardinality(Held(dir', new)) <= Cardinality(Held(dir', kept \cup {p}))
    <3>1. IsFiniteSet(kept \cup {p})
      <4> HIDE DEF kept
      <4> QED
        BY <1>10, FS_AddElement
    <3>2. \A q \in kept \cup {p} : Bytes(dir'[q]) \in Nat
      BY <1>3, <1>5, <1>7
    <3> HIDE DEF kept
    <3>3. QED
      BY <1>7, <3>1, <3>2, HeldLess
  <2>3. Cardinality(Held(dir, kept)) <= Cardinality(Held(dir, old))
    <3>1. \A q \in old : Bytes(dir[q]) \in Nat
      BY <1>7
    <3> HIDE DEF kept
    <3>2. QED
      BY <1>7, <1>10, <3>1, HeldLess
  <2>4. /\ Cardinality(Held(dir', new)) \in Nat /\ Cardinality(Held(dir, old)) \in Nat
        /\ Cardinality(Held(dir, kept)) \in Nat
    <3>1. /\ \A q \in old : Bytes(dir[q]) \in Nat
          /\ \A q \in new : Bytes(dir'[q]) \in Nat
          /\ \A q \in kept : Bytes(dir[q]) \in Nat
      BY <1>6, <1>7
    <3> HIDE DEF kept
    <3>2. QED
      BY <1>7, <1>10, <3>1, HeldFinite
  <2>5. IsFiniteSet(kept \cup {p}) /\ Cardinality(Held(dir', kept \cup {p})) \in Nat
    <3>1. IsFiniteSet(kept \cup {p})
      <4> HIDE DEF kept
      <4> QED
        BY <1>10, FS_AddElement
    <3>2. \A q \in kept \cup {p} : Bytes(dir'[q]) \in Nat
      BY <1>3, <1>5, <1>7
    <3> HIDE DEF kept
    <3>3. QED
      BY <3>1, <3>2, HeldFinite
  <2> HIDE DEF kept
  <2>6. QED
    BY <1>3, <1>5, <2>1, <2>2, <2>3, <2>4, <2>5
<1>13. Cardinality(Held(dir, old)) \in Nat /\ Cardinality(Held(dir', new)) \in Nat
  BY <1>7, HeldFinite
<1>14. QED
  <2>1. Cardinality(new) <= spent'.entries /\ Cardinality(Held(dir', new)) <= spent'.bytes
    BY <1>3, <1>7, <1>8, <1>9, <1>11, <1>12, <1>13
  <2>2. QED
    BY <1>8, <2>1 DEF BudgetInv, new

LEMMA BudgetInvariant == Spec => []BudgetInv
<1>1. Init => BudgetInv
  <2> SUFFICES ASSUME Init PROVE BudgetInv
    OBVIOUS
  <2>1. dir = Empty /\ spent.entries = 0 /\ spent.bytes = 0
    BY DEF Init, Unspent
  <2>2. Cardinality(Entries(dir)) = 0 /\ Cardinality(Held(dir, Entries(dir))) = 0
    BY <2>1, EmptyIsFree
  <2>3. QED
    BY <2>1, <2>2, ArchiveAssumption DEF BudgetInv
<1>2. TypeInv /\ TypeInv' /\ BudgetInv /\ [Next]_vars => BudgetInv'
  <2> SUFFICES ASSUME TypeInv, TypeInv', BudgetInv, [Next]_vars PROVE BudgetInv'
    OBVIOUS
  <2>1. CASE UNCHANGED <<dir, spent>>
    BY <2>1 DEF BudgetInv
  <2>2. CASE Seal
    <3>1. dir' = Empty /\ spent' = Unspent
      BY <2>2 DEF Seal
    <3>2. QED
      BY <3>1, EmptyIsFree, ArchiveAssumption DEF BudgetInv, Unspent
  <2>3. CASE ExtractEntry
    BY <2>3, ExtractKeepsBudget
  <2>4. CASE \E p \in Paths, n \in Nodes : Edit(p, n)
    BY <2>1, <2>4 DEF Edit
  <2>5. CASE \/ Walk \/ WriteEntry \/ WriteFails \/ Install
             \/ Download \/ ExtractRefuses \/ Verify
    BY <2>1, <2>5 DEF Walk, WriteEntry, WriteFails, Install, Download, ExtractRefuses, Verify
  <2>6. QED
    BY <2>1, <2>2, <2>3, <2>4, <2>5 DEF Next, vars
<1>3. QED
  BY <1>1, <1>2, TypeInvariant, PTL DEF Spec

\* Whatever an archive holds, at no moment is there more on the agent's disk than
\* the limits allow, in entries or in bytes.
THEOREM LimitsHold == Spec => []WithinLimits
<1>1. TypeInv /\ BudgetInv => WithinLimits
  <2> SUFFICES ASSUME TypeInv, BudgetInv PROVE WithinLimits
    OBVIOUS
  <2>1. dir \in [Paths -> Nodes] /\ spent.entries \in Nat /\ spent.bytes \in Nat
    BY DEF TypeInv, TypeOK
  <2>2. /\ Entries(dir) \subseteq Paths /\ IsFiniteSet(Entries(dir))
        /\ Cardinality(Entries(dir)) \in Nat
        /\ \A p \in Entries(dir) : Bytes(dir[p]) \in Nat
    BY <2>1, EntriesFinite
  <2>3. Cardinality(Held(dir, Entries(dir))) \in Nat
    BY <2>2, HeldFinite
  <2>4. QED
    BY <2>1, <2>2, <2>3, ArchiveAssumption DEF BudgetInv, WithinLimits
<1>2. QED
  BY <1>1, TypeInvariant, BudgetInvariant, PTL

-----------------------------------------------------------------------------
(* A tree left alone.                                                      *)

\* Until something sealed changes, the tree is what the code_id names ...
IdInv ==
    pc \in {"sealed", "writing", "installed", "unpacking", "refused", "accepted"} /\ ~touched
      => Sealable(tree) /\ id = Manifest(tree)

\* ... what is written and what is still to be are its entries, in order ...
WriteInv ==
    ~touched =>
      /\ pc # "failed"
      /\ pc = "writing" => archive \o todo = Listed(id)
      /\ pc \in {"installed", "unpacking", "refused", "accepted"} => archive = Listed(id)

LeftAlone == IdInv /\ WriteInv

\* A change that leaves the sealed tree the same leaves everything sealed alone.
LEMMA EditLeavesAlone ==
    ASSUME TypeInv, LeftAlone, NEW p \in Paths, NEW n \in Nodes, Edit(p, n)
    PROVE  LeftAlone'
<1>1. UNCHANGED <<pc, id, todo, archive>>
  BY DEF Edit
<1>2. ~touched' => ~touched /\ Same(tree, tree')
  BY DEF Edit
<1>3. IdInv'
  BY <1>1, <1>2 DEF LeftAlone, IdInv, Same
<1>4. WriteInv'
  BY <1>1, <1>2 DEF LeftAlone, WriteInv
<1>5. QED
  BY <1>3, <1>4 DEF LeftAlone

\* The next entry to be written, of a tree left alone: it is found as it was
\* walked, under no link, with the size it had, and is written as the manifest
\* has it.
LEMMA EntryAsWalked ==
    ASSUME TypeInv, LeftAlone, pc = "writing", todo # <<>>, ~touched
    PROVE  /\ Head(todo).path \in Entries(tree)
           /\ Head(todo).node = Manifest(tree)[Head(todo).path]
           /\ Found(Head(todo).path) = {tree[Head(todo).path]}
<1> DEFINE e == Head(todo)
           n == Len(archive)
           L == Listed(Manifest(tree))
<1>1. Sealable(tree) /\ id = Manifest(tree) /\ archive \o todo = L
  BY DEF LeftAlone, IdInv, WriteInv
<1>2. /\ tree \in [Paths -> Nodes] /\ WellFormed(tree)
      /\ archive \in Seq(Written) /\ todo \in Seq(Written)
  BY DEF TypeInv, TypeOK
<1>3. /\ n \in Nat /\ n + 1 \in DOMAIN (archive \o todo)
      /\ (archive \o todo)[n + 1] = e
  BY <1>2
<1>4. n + 1 \in DOMAIN L /\ L[n + 1] = e
  BY <1>1, <1>3
<1>5. DOMAIN Manifest(tree) = Entries(tree) /\ Entries(tree) \subseteq Paths
  BY <1>2, ManifestLines
<1>6. \A k \in DOMAIN L : /\ L[k].path \in DOMAIN Manifest(tree)
                          /\ L[k] = [path |-> L[k].path, node |-> Manifest(tree)[L[k].path]]
  BY <1>5, ListedEntries
<1> HIDE DEF L
<1>7. e.path \in Entries(tree) /\ e.node = Manifest(tree)[e.path]
  <2>1. e = [path |-> e.path, node |-> Manifest(tree)[e.path]]
    BY <1>4, <1>6
  <2>2. QED
    BY <1>4, <1>5, <1>6, <2>1
<1>8. ~ \E d \in Above(e.path) : tree[d].kind = "link"
  <2>1. tree[e.path] # Gone /\ e.path \in Paths
    BY <1>2, <1>5, <1>7, NodeKinds DEF Entries
  <2>2. \A d \in Above(e.path) : tree[d] = Dir
    BY <1>2, <2>1 DEF WellFormed
  <2>3. QED
    BY <2>2 DEF Dir
<1>9. QED
  BY <1>7, <1>8 DEF Found

LEMMA EntryWrittenAsWalked ==
    ASSUME TypeInv, LeftAlone, pc = "writing", todo # <<>>, ~touched
    PROVE  /\ ~WriteFails
           /\ \A n \in Nodes : Reads(Head(todo), n) => n = Head(todo).node
<1> DEFINE e == Head(todo)
           t == tree[e.path]
<1>1. e.path \in Entries(tree) /\ e.node = LineOf(t) /\ Found(e.path) = {t}
  <2>1. /\ Manifest(tree)[e.path] = LineOf(t) \/ e.path \notin Entries(tree)
    BY DEF Manifest
  <2>2. QED
    BY <2>1, EntryAsWalked
<1>2. t \in Files \/ t \in Links
  <2>1. tree \in [Paths -> Nodes] /\ e.path \in Paths /\ t.kind \in {"file", "link"}
    BY <1>1 DEF Entries, TypeInv, TypeOK
  <2>2. QED
    BY <2>1, NodeKinds
<1> HIDE DEF e, t
<1>3. CASE t \in Links
  <2>1. e.node = t /\ e.node.kind = "link"
    BY <1>1, <1>3, NodeKinds DEF LineOf
  <2>2. \A n \in Nodes : Reads(e, n) => n = e.node
    BY <1>1, <2>1 DEF Reads
  <2>3. ~WriteFails
    BY <1>1, <2>1 DEF WriteFails, e
  <2>4. QED
    BY <2>2, <2>3 DEF e
<1>4. CASE t \in Files
  <2>1. /\ t.kind = "file" /\ e.node = [t EXCEPT !.mode = Normal(@)]
        /\ e.node.kind = "file" /\ e.node.content = t.content /\ e.node.mode = Normal(t.mode)
    BY <1>1, <1>4 DEF LineOf, Files
  <2>2. t \notin Links
    BY <2>1, NodeKinds
  <2>3. Opened(e.path) = {t}
    BY <1>1, <2>1, <2>2 DEF Opened, t
  <2>4. \A n \in Nodes : Reads(e, n) => n = e.node
    BY <2>1, <2>3 DEF Reads
  <2>5. ~WriteFails
    BY <2>1, <2>3 DEF WriteFails, e
  <2>6. QED
    BY <2>4, <2>5 DEF e
<1>5. QED
  BY <1>2, <1>3, <1>4

\* Writing the next entry brings it from the one sequence to the other.
LEMMA MoveOne ==
    ASSUME NEW S, NEW a \in Seq(S), NEW s \in Seq(S), s # <<>>
    PROVE  Append(a, Head(s)) \o Tail(s) = a \o s
<1>1. /\ Append(a, Head(s)) \o Tail(s) \in Seq(S) /\ a \o s \in Seq(S)
      /\ Len(Append(a, Head(s)) \o Tail(s)) = Len(a \o s)
  OBVIOUS
<1>2. \A i \in 1 .. Len(a \o s) : (Append(a, Head(s)) \o Tail(s))[i] = (a \o s)[i]
  OBVIOUS
<1>3. QED
  BY <1>1, <1>2, SeqEqual

LEMMA WritingLeavesAlone ==
    ASSUME TypeInv, LeftAlone, Seal \/ Walk \/ WriteEntry \/ WriteFails \/ Install
    PROVE  LeftAlone'
<1>1. CASE Seal
  <2>1. /\ tree' = tree /\ pc' \in {"rest", "sealed"}
        /\ pc' = "sealed" => Sealable(tree) /\ id' = Manifest(tree)
    BY <1>1 DEF Seal
  <2>2. QED
    BY <2>1 DEF LeftAlone, IdInv, WriteInv
<1>2. CASE Walk
  <2>1. /\ UNCHANGED <<tree, id, archive, touched>> /\ pc = "sealed" /\ archive = <<>>
        /\ IF Sealable(tree)
           THEN pc' = "writing" /\ todo' = Listed(Manifest(tree)) ELSE pc' = "failed"
    BY <1>2 DEF Walk, TypeInv, FlatInv
  <2>2. Listed(Manifest(tree)) \in Seq(Written)
    BY ListedWritten DEF TypeInv, TypeOK
  <2>3. <<>> \o Listed(Manifest(tree)) = Listed(Manifest(tree))
    BY <2>2
  <2>4. ~touched => /\ pc' = "writing" /\ id' = Manifest(tree') /\ Sealable(tree')
                    /\ archive' \o todo' = Listed(id')
    BY <2>1, <2>3 DEF LeftAlone, IdInv
  <2>5. QED
    BY <2>1, <2>4 DEF LeftAlone, IdInv, WriteInv
<1>3. CASE WriteEntry
  <2>1. /\ UNCHANGED <<tree, pc, id, touched>> /\ pc = "writing" /\ todo # <<>>
        /\ todo' = Tail(todo) /\ archive \in Seq(Written) /\ todo \in Seq(Written)
    BY <1>3 DEF WriteEntry, TypeInv, TypeOK
  <2>2. PICK n \in Nodes : /\ Reads(Head(todo), n)
                           /\ archive' = Append(archive, [path |-> Head(todo).path, node |-> n])
    BY <1>3 DEF WriteEntry
  <2>3. ~touched => archive' \o todo' = Listed(id)
    <3> SUFFICES ASSUME ~touched PROVE archive' \o todo' = Listed(id)
      OBVIOUS
    <3>1. n = Head(todo).node
      BY <2>1, <2>2, EntryWrittenAsWalked
    <3>2. Head(todo) \in Written
      BY <2>1
    <3>3. archive' = Append(archive, Head(todo))
      BY <2>2, <3>1, <3>2 DEF Written
    <3>4. archive' \o todo' = archive \o todo
      BY <2>1, <3>3, MoveOne
    <3>5. QED
      BY <2>1, <3>4 DEF LeftAlone, WriteInv
  <2>4. QED
    BY <2>1, <2>3 DEF LeftAlone, IdInv, WriteInv
<1>4. CASE WriteFails
  <2>1. UNCHANGED touched /\ pc' = "failed" /\ pc = "writing" /\ todo # <<>>
    BY <1>4 DEF WriteFails
  <2>2. touched
    BY <1>4, <2>1, EntryWrittenAsWalked
  <2>3. QED
    BY <2>1, <2>2 DEF LeftAlone, IdInv, WriteInv
<1>5. CASE Install
  <2>1. /\ UNCHANGED <<tree, id, archive, touched>> /\ pc = "writing" /\ pc' = "installed"
        /\ todo = <<>> /\ archive \in Seq(Written)
    BY <1>5 DEF Install, TypeInv, TypeOK
  <2>2. archive \o <<>> = archive
    BY <2>1
  <2>3. QED
    BY <2>1, <2>2 DEF LeftAlone, IdInv, WriteInv
<1>6. QED
  BY <1>1, <1>2, <1>3, <1>4, <1>5

LEMMA LeftAloneInvariant == Spec => []LeftAlone
<1>1. Init => LeftAlone
  BY DEF Init, LeftAlone, IdInv, WriteInv
<1>2. TypeInv /\ LeftAlone /\ [Next]_vars => LeftAlone'
  <2> SUFFICES ASSUME TypeInv, LeftAlone, [Next]_vars PROVE LeftAlone'
    OBVIOUS
  <2>1. CASE UNCHANGED vars
    BY <2>1 DEF vars, LeftAlone, IdInv, WriteInv
  <2>2. CASE \E p \in Paths, n \in Nodes : Edit(p, n)
    BY <2>2, EditLeavesAlone
  <2>3. CASE Seal \/ Walk \/ WriteEntry \/ WriteFails \/ Install
    BY <2>3, WritingLeavesAlone
  <2>4. CASE Download \/ ExtractEntry \/ ExtractRefuses \/ Verify
    <3>1. /\ UNCHANGED <<tree, id, archive, touched>>
          /\ pc \in {"installed", "unpacking"} /\ pc' \in {"unpacking", "refused", "accepted"}
      BY <2>4 DEF Download, ExtractEntry, ExtractRefuses, Verify
    <3>2. QED
      BY <3>1 DEF LeftAlone, IdInv, WriteInv
  <2>5. QED
    BY <2>1, <2>2, <2>3, <2>4 DEF Next
<1>3. QED
  BY <1>1, <1>2, TypeInvariant, PTL DEF Spec

\* An archive is a function of its code_id, if nothing that is sealed changed
\* from the first walk to the end of the second: excluded files, empty
\* directories and bits of modes may.
THEOREM Reproducible == Spec => []ArchiveIsOfItsId
<1>1. LeftAlone => ArchiveIsOfItsId
  BY DEF LeftAlone, WriteInv, ArchiveIsOfItsId
<1>2. QED
  BY <1>1, LeftAloneInvariant, PTL

-----------------------------------------------------------------------------
(* The round trip.                                                         *)

\* The entries that are unpacked so far.
Got == {archive[i].path : i \in 1 .. Len(archive) - Len(todo)}

\* While the archive of a tree left alone is unpacked, what remains is its end,
\* and what is there is what came before: as the manifest says, up to modes, and
\* charged for what it is.
UnpackInv ==
    ~touched =>
      /\ pc = "unpacking" =>
           /\ Len(todo) <= Len(archive)
           /\ \A j \in 1 .. Len(todo) : todo[j] = archive[Len(archive) - Len(todo) + j]
           /\ Entries(dir) = Got
           /\ \A p \in Got : LineOf(dir[p]) = id[p]
           /\ spent.entries = Len(archive) - Len(todo)
           /\ spent.bytes = Cardinality(Held(id, Got))
      /\ pc = "refused" => ~Portable(id)

\* The mode that lands is sealed again as the mode that was sealed.
LEMMA ModesComeBack ==
    ASSUME NEW t \in Files \cup Links, NEW n \in Unpackings(LineOf(t))
    PROVE  LineOf(n) = LineOf(t)
<1>1. CASE t \in Links
  BY <1>1, NodeKinds DEF LineOf, Unpackings
<1>2. CASE t \in Files
  <2> DEFINE m == [t EXCEPT !.mode = Normal(@)]
  <2>1. LineOf(t) = m /\ t.kind = "file" /\ m.kind = "file" /\ m.mode = Normal(t.mode)
    BY <1>2 DEF LineOf, Files
  <2>2. PICK mode \in Landing(m.mode) : n = [m EXCEPT !.mode = mode]
    BY <2>1 DEF Unpackings
  <2>3. Normal(mode) = Normal(t.mode)
    BY <2>1, <2>2, ArchiveAssumption DEF Landing, Normal
  <2>4. n.kind = "file" /\ n.mode = mode
    BY <1>2, <2>2 DEF Files
  <2>5. LineOf(n) = [n EXCEPT !.mode = Normal(mode)]
    BY <2>4 DEF LineOf
  <2>6. [n EXCEPT !.mode = Normal(mode)] = m
    BY <1>2, <2>2, <2>3 DEF Files
  <2>7. QED
    BY <2>1, <2>5, <2>6
<1>3. QED
  BY <1>1, <1>2

\* The entries of the archive of a tree left alone are those of its manifest,
\* each once.
LEMMA ArchiveEntries ==
    ASSUME TypeInv, LeftAlone, ~touched, pc = "unpacking"
    PROVE  /\ DOMAIN id = Entries(tree) /\ Entries(tree) \subseteq Paths
           /\ IsFiniteSet(DOMAIN id)
           /\ Len(archive) = Cardinality(DOMAIN id) /\ PathsOf(archive) = DOMAIN id
           /\ \A k \in 1 .. Len(archive) :
                 archive[k].path \in DOMAIN id /\ archive[k].node = id[archive[k].path]
           /\ \A k, l \in 1 .. Len(archive) : archive[k].path = archive[l].path => k = l
           /\ \A p \in DOMAIN id : /\ id[p] = LineOf(tree[p]) /\ id[p] \in Files \cup Links
                                   /\ Bytes(id[p]) \in Nat
<1>1. id = Manifest(tree) /\ archive = Listed(id)
  BY DEF LeftAlone, IdInv, WriteInv
<1>2. tree \in [Paths -> Nodes] /\ WellFormed(tree)
  BY DEF TypeInv, TypeOK
<1>3. /\ DOMAIN id = Entries(tree) /\ Entries(tree) \subseteq Paths
      /\ \A p \in DOMAIN id : id[p] = LineOf(tree[p]) /\ id[p] \in Files \cup Links
  BY <1>1, <1>2, ManifestLines
<1>4. IsFiniteSet(DOMAIN id)
  BY <1>3, PathsFinite, FS_Subset
<1>5. PathsOf(archive) = DOMAIN id
  BY <1>1, <1>2, <1>3, ListedWritten
<1>6. /\ Cardinality(DOMAIN id) \in Nat
      /\ DOMAIN Listed(id) = 1 .. Cardinality(DOMAIN id)
      /\ Len(Listed(id)) = Cardinality(DOMAIN id)
      /\ \A k \in DOMAIN Listed(id) :
            /\ Listed(id)[k].path \in DOMAIN id
            /\ Listed(id)[k] = [path |-> Listed(id)[k].path, node |-> id[Listed(id)[k].path]]
      /\ \A k, l \in DOMAIN Listed(id) : Listed(id)[k].path = Listed(id)[l].path => k = l
  BY <1>3, ListedEntries
<1>7. \A k \in 1 .. Len(archive) :
          archive[k].path \in DOMAIN id /\ archive[k].node = id[archive[k].path]
  <2> SUFFICES ASSUME NEW k \in DOMAIN Listed(id)
               PROVE  Listed(id)[k].path \in DOMAIN id /\ Listed(id)[k].node = id[Listed(id)[k].path]
    BY <1>1, <1>6
  <2>1. Listed(id)[k] = [path |-> Listed(id)[k].path, node |-> id[Listed(id)[k].path]]
    BY <1>6
  <2>2. QED
    BY <1>6, <2>1
<1>8. \A p \in DOMAIN id : Bytes(id[p]) \in Nat
  <2> SUFFICES ASSUME NEW p \in DOMAIN id PROVE Bytes(id[p]) \in Nat
    OBVIOUS
  <2>1. id[p] \in Files => Size[id[p].content] \in Nat
    BY ArchiveAssumption DEF Files
  <2>2. QED
    BY <1>3, <2>1, NodeKinds DEF Bytes
<1>9. QED
  BY <1>1, <1>3, <1>4, <1>5, <1>6, <1>7, <1>8

\* The entry to be unpacked next.
LEMMA NextEntry ==
    ASSUME TypeInv, LeftAlone, UnpackInv, ~touched, pc = "unpacking", todo # <<>>
    PROVE  /\ Head(todo).path \in DOMAIN id /\ Head(todo).path \notin Got
           /\ Head(todo).node = id[Head(todo).path]
           /\ Len(archive) - Len(todo) \in Nat /\ Len(todo) \in Nat \ {0}
           /\ {archive[i].path : i \in 1 .. Len(archive) - Len(todo) + 1} =
                Got \cup {Head(todo).path}
           /\ Got \subseteq DOMAIN id
<1> DEFINE d == Len(archive) - Len(todo)
<1>1. /\ archive \in Seq(Written) /\ todo \in Seq(Written)
      /\ Len(todo) \in Nat \ {0} /\ Len(archive) \in Nat /\ Len(todo) <= Len(archive)
      /\ todo[1] = archive[d + 1] /\ Head(todo) = todo[1]
  BY DEF TypeInv, TypeOK, UnpackInv
<1>2. d \in Nat /\ d + 1 \in 1 .. Len(archive) /\ 1 .. d \subseteq 1 .. Len(archive)
  BY <1>1
<1>3. /\ \A k \in 1 .. Len(archive) :
            archive[k].path \in DOMAIN id /\ archive[k].node = id[archive[k].path]
      /\ \A k, l \in 1 .. Len(archive) : archive[k].path = archive[l].path => k = l
  BY ArchiveEntries
<1>4. Got = {archive[i].path : i \in 1 .. d}
  BY DEF Got
<1>5. 1 .. d + 1 = (1 .. d) \cup {d + 1} /\ d + 1 \notin 1 .. d
  BY <1>2
<1> HIDE DEF d
<1>6. /\ Head(todo).path \in DOMAIN id /\ Head(todo).node = id[Head(todo).path]
      /\ Head(todo).path = archive[d + 1].path
  BY <1>1, <1>2, <1>3
<1>7. Got \subseteq DOMAIN id /\ Head(todo).path \notin Got
  BY <1>2, <1>3, <1>4, <1>5, <1>6
<1>8. {archive[i].path : i \in 1 .. d + 1} = Got \cup {Head(todo).path}
  BY <1>4, <1>5, <1>6
<1>9. QED
  BY <1>1, <1>2, <1>6, <1>7, <1>8 DEF d

\* It is put where nothing was, and takes nothing away.
LEMMA ExtractAdds ==
    ASSUME TypeInv, LeftAlone, UnpackInv, ~touched, ExtractEntry
    PROVE  UnpackInv'
<1> DEFINE e == Head(todo)
           p == e.path
           b == Bytes(e.node)
<1>1. /\ pc = "unpacking" /\ todo # <<>> /\ e \in Written
      /\ spent' = [entries |-> spent.entries + 1, bytes |-> spent.bytes + b]
      /\ todo' = Tail(todo)
      /\ UNCHANGED <<tree, pc, id, archive, edits, touched>>
  BY ExtractPlaces DEF TypeInv
<1>2. PICK n \in Unpackings(e.node) : dir' = Placed(e, n)
  BY ExtractPlaces DEF TypeInv
<1>3. /\ p \in DOMAIN id /\ p \notin Got /\ e.node = id[p] /\ Got \subseteq DOMAIN id
      /\ Len(archive) - Len(todo) \in Nat /\ Len(todo) \in Nat \ {0}
      /\ {archive[i].path : i \in 1 .. Len(archive) - Len(todo) + 1} = Got \cup {p}
  BY <1>1, NextEntry
<1>4. /\ DOMAIN id = Entries(tree) /\ Entries(tree) \subseteq Paths /\ IsFiniteSet(DOMAIN id)
      /\ PathsOf(archive) = DOMAIN id
      /\ \A q \in DOMAIN id : /\ id[q] = LineOf(tree[q]) /\ id[q] \in Files \cup Links
                              /\ Bytes(id[q]) \in Nat
  BY <1>1, ArchiveEntries
<1>5. /\ Len(todo) <= Len(archive) /\ Len(archive) \in Nat /\ todo \in Seq(Written)
      /\ \A j \in 1 .. Len(todo) : todo[j] = archive[Len(archive) - Len(todo) + j]
      /\ Entries(dir) = Got /\ \A q \in Got : LineOf(dir[q]) = id[q]
      /\ spent.entries = Len(archive) - Len(todo)
      /\ spent.bytes = Cardinality(Held(id, Got))
  BY <1>1 DEF UnpackInv, TypeInv, TypeOK
<1>6. /\ Len(todo') = Len(todo) - 1
      /\ \A j \in 1 .. Len(todo) - 1 : todo'[j] = todo[j + 1]
  BY <1>1, <1>3, <1>5
<1>7. Got' = Got \cup {p}
  <2>1. Len(archive') - Len(todo') = Len(archive) - Len(todo) + 1
    BY <1>1, <1>3, <1>5, <1>6
  <2>2. QED
    BY <1>1, <1>3, <2>1 DEF Got
<1> HIDE DEF e, p, b
<1>8. n \in Files \cup Links /\ LineOf(n) = id[p] /\ n.kind \in {"file", "link"}
  <2>1. tree[p] \in Files \cup Links
    <3>1. tree \in [Paths -> Nodes] /\ p \in Paths /\ tree[p].kind \in {"file", "link"}
      BY <1>3, <1>4 DEF TypeInv, TypeOK, Entries
    <3>2. QED
      BY <3>1, NodeKinds
  <2>2. n \in Unpackings(LineOf(tree[p]))
    BY <1>2, <1>3, <1>4
  <2>3. LineOf(n) = id[p]
    BY <1>3, <1>4, <2>1, <2>2, ModesComeBack
  <2>4. n \in Files \cup Links
    BY <1>2, <1>3, <1>4, UnpackingNodes
  <2>5. QED
    BY <2>3, <2>4, NodeKinds
<1>9. \A q \in Got : q # p /\ q \notin Above(p)
  <2>1. Flat(PathsOf(archive))
    BY DEF TypeInv, FlatInv, Flat
  <2>2. QED
    BY <1>3, <1>4, <2>1 DEF Flat
<1>10. /\ dir'[p] = n /\ p \in Paths
       /\ \A q \in Above(p) \cap Paths : q # p => dir'[q] = Dir
       /\ \A q \in Paths : q # p /\ q \notin Above(p) => dir'[q] = dir[q]
  BY <1>2, <1>3, <1>4 DEF Placed, p
<1>11. Entries(dir') = Got \cup {p}
  <2>1. ASSUME NEW q \in Entries(dir'), q # p PROVE q \in Got
    <3>1. q \in Paths /\ dir'[q] # Dir /\ Covered(q) /\ dir'[q].kind \in {"file", "link"}
      BY <2>1 DEF Entries, Dir
    <3>2. dir'[q] = dir[q]
      BY <1>10, <2>1, <3>1
    <3>3. QED
      BY <1>5, <3>1, <3>2 DEF Entries
  <2>2. ASSUME NEW q \in Got PROVE q \in Entries(dir')
    <3>1. q \in Paths /\ Covered(q) /\ dir[q].kind \in {"file", "link"}
      BY <1>5 DEF Entries
    <3>2. dir'[q] = dir[q]
      BY <1>9, <1>10, <3>1
    <3>3. QED
      BY <3>1, <3>2 DEF Entries
  <2>3. p \in Entries(dir')
    BY <1>3, <1>4, <1>8, <1>10 DEF Entries
  <2>4. QED
    BY <2>1, <2>2, <2>3
<1>12. \A q \in Got \cup {p} : LineOf(dir'[q]) = id[q]
  <2>1. ASSUME NEW q \in Got PROVE LineOf(dir'[q]) = id[q]
    <3>1. q \in Paths
      BY <1>3, <1>4
    <3>2. QED
      BY <1>5, <1>9, <1>10, <3>1
  <2>2. QED
    BY <1>8, <1>10, <2>1
<1>13. Cardinality(Held(id, Got \cup {p})) = Cardinality(Held(id, Got)) + b
  <2>1. IsFiniteSet(Got) /\ \A q \in Got : Bytes(id[q]) \in Nat
    BY <1>3, <1>4, FS_Subset
  <2>2. Bytes(id[p]) \in Nat /\ Bytes(id[p]) = b
    BY <1>3, <1>4 DEF b
  <2>3. Cardinality(Held(id, Got \cup {p})) = Cardinality(Held(id, Got)) + Bytes(id[p])
    BY <1>3, <2>1, <2>2, HeldMore
  <2>4. QED
    BY <2>2, <2>3
<1>14. /\ Len(todo') <= Len(archive')
       /\ \A j \in 1 .. Len(todo') : todo'[j] = archive'[Len(archive') - Len(todo') + j]
       /\ spent'.entries = Len(archive') - Len(todo')
  <2>1. ASSUME NEW j \in 1 .. Len(todo) - 1
        PROVE  todo'[j] = archive[Len(archive) - (Len(todo) - 1) + j]
    <3>1. j + 1 \in 1 .. Len(todo) /\ todo'[j] = todo[j + 1]
      BY <1>3, <1>6
    <3>2. todo[j + 1] = archive[Len(archive) - Len(todo) + (j + 1)]
      BY <1>5, <3>1
    <3>3. Len(archive) - Len(todo) + (j + 1) = Len(archive) - (Len(todo) - 1) + j
      BY <1>3, <1>5
    <3>4. QED
      BY <3>1, <3>2, <3>3
  <2>2. QED
    BY <1>1, <1>3, <1>5, <1>6, <2>1
<1>15. spent'.bytes = Cardinality(Held(id, Got \cup {p}))
  BY <1>1, <1>5, <1>13
<1>16. QED
  BY <1>1, <1>7, <1>11, <1>12, <1>14, <1>15 DEF UnpackInv

\* Only a tree that is not portable is refused.
LEMMA RefusesUnportable ==
    ASSUME TypeInv, LeftAlone, UnpackInv, ~touched, ExtractRefuses
    PROVE  ~Portable(id)
<1> DEFINE e == Head(todo)
           p == e.path
           d == Len(archive) - Len(todo)
<1>1. pc = "unpacking" /\ todo # <<>>
  BY DEF ExtractRefuses
<1>2. /\ p \in DOMAIN id /\ p \notin Got /\ e.node = id[p] /\ Got \subseteq DOMAIN id
      /\ d \in Nat /\ Len(todo) \in Nat \ {0}
  BY <1>1, NextEntry
<1>3. /\ IsFiniteSet(DOMAIN id) /\ Len(archive) = Cardinality(DOMAIN id)
      /\ \A q \in DOMAIN id : Bytes(id[q]) \in Nat /\ id[q] \in Files \cup Links
      /\ DOMAIN id \subseteq Paths
  BY <1>1, ArchiveEntries
<1>4. spent.entries = d /\ spent.bytes = Cardinality(Held(id, Got))
      /\ Len(archive) \in Nat
  BY <1>1 DEF UnpackInv, TypeInv, TypeOK
<1>5. CASE spent.entries >= MaxEntries
  <2>1. Cardinality(DOMAIN id) > MaxEntries
    BY <1>2, <1>3, <1>4, <1>5, ArchiveAssumption
  <2>2. QED
    BY <1>3, <1>4, <2>1, ArchiveAssumption DEF Portable
<1>6. CASE e.node.kind = "file" /\ Size[e.node.content] > MaxBytes - spent.bytes
  <2>1. Bytes(id[p]) > MaxBytes - Cardinality(Held(id, Got))
    BY <1>2, <1>4, <1>6 DEF Bytes
  <2>2. /\ IsFiniteSet(Got) /\ \A q \in Got : Bytes(id[q]) \in Nat
        /\ Bytes(id[p]) \in Nat
    BY <1>2, <1>3, FS_Subset
  <2> HIDE DEF p
  <2>3. Cardinality(Held(id, Got \cup {p})) = Cardinality(Held(id, Got)) + Bytes(id[p])
    BY <1>2, <2>2, HeldMore
  <2>4. Cardinality(Held(id, Got \cup {p})) <= Cardinality(Held(id, DOMAIN id))
    <3>1. Got \cup {p} \subseteq DOMAIN id
      BY <1>2
    <3>2. QED
      BY <1>3, <3>1, HeldLess
  <2>5. Cardinality(Held(id, Got)) \in Nat /\ Cardinality(Held(id, DOMAIN id)) \in Nat
    BY <1>3, <2>2, HeldFinite
  <2>6. Cardinality(Held(id, DOMAIN id)) > MaxBytes
    BY <2>1, <2>2, <2>3, <2>4, <2>5, ArchiveAssumption
  <2>7. QED
    BY <2>5, <2>6, ArchiveAssumption DEF Portable
<1>7. CASE e.node.kind = "link" /\ Escapes(p, e.node.target)
  <2> DEFINE target == e.node.target
             ups(k) == Cardinality({j \in 1 .. k : target.steps[j] = Up})
  <2>1. target \in Targets /\ Len(p) \in Nat
    <3>1. e.node \in Links
      BY <1>2, <1>3, <1>7, NodeKinds
    <3>2. p \in Paths /\ Paths \subseteq Seq(Names)
      BY <1>2, <1>3, ArchiveAssumption
    <3>3. QED
      BY <3>1, <3>2 DEF Links
  <2>2. \A k \in DOMAIN target.steps : k \in Nat /\ ups(k) \in Nat
    <3> SUFFICES ASSUME NEW k \in DOMAIN target.steps PROVE k \in Nat /\ ups(k) \in Nat
      OBVIOUS
    <3>1. k \in Nat /\ 1 \in Int /\ k \in Int
      BY <2>1, ArchiveAssumption
    <3>2. IsFiniteSet(1 .. k)
      BY <3>1, FS_Interval
    <3>3. {j \in 1 .. k : target.steps[j] = Up} \subseteq 1 .. k
      OBVIOUS
    <3>4. QED
      BY <3>1, <3>2, <3>3, FS_Subset, FS_CardinalityType
  <2>3. ~StaysInside(p, target)
    <3>1. CASE target.abs
      BY <3>1 DEF StaysInside
    <3>2. ASSUME NEW k \in DOMAIN target.steps, Len(p) - 1 + k < 2 * ups(k)
          PROVE  ~StaysInside(p, target)
      <4>1. ~(ups(k) - (k - ups(k)) <= Len(p) - 1)
        <5>1. k \in Nat /\ ups(k) \in Nat /\ Len(p) \in Nat
          BY <2>1, <2>2
        <5> HIDE DEF ups, p, target
        <5>2. QED
          BY <3>2, <5>1
      <4>2. QED
        BY <4>1 DEF StaysInside
    <3>3. QED
      BY <1>7, <3>1, <3>2 DEF Escapes
  <2>4. id[p].kind = "link" /\ id[p].target = target
    BY <1>2, <1>7
  <2>5. QED
    BY <1>2, <2>3, <2>4 DEF Portable
<1>8. spent.entries >= MaxEntries \/ spent.entries < MaxEntries
  BY <1>2, <1>4, ArchiveAssumption
<1>9. e.node.kind = "file" => Size[e.node.content] \in Nat /\ spent.bytes \in Nat
  BY <1>2, <1>3, <1>4 DEF Bytes, TypeInv, TypeOK
<1>10. QED
  BY <1>5, <1>6, <1>7, <1>8, <1>9, ArchiveAssumption DEF ExtractRefuses, Fits

\* A tree that is all there is accepted.
LEMMA VerifyAccepts ==
    ASSUME TypeInv, LeftAlone, UnpackInv, ~touched, Verify
    PROVE  pc' = "accepted"
<1>1. pc = "unpacking" /\ todo = <<>> /\ archive \in Seq(Written)
  BY DEF Verify, TypeInv, TypeOK
<1>2. Got = PathsOf(archive)
  BY <1>1 DEF Got, PathsOf
<1>3. DOMAIN id = PathsOf(archive) /\ id = Manifest(tree)
  BY <1>1, ArchiveEntries DEF LeftAlone, IdInv
<1>4. Entries(dir) = DOMAIN id /\ \A p \in DOMAIN id : LineOf(dir[p]) = id[p]
  BY <1>1, <1>2, <1>3 DEF UnpackInv
<1>5. Manifest(dir) = [p \in DOMAIN id |-> id[p]]
  BY <1>4 DEF Manifest
<1>6. id = [p \in DOMAIN id |-> id[p]]
  BY <1>3 DEF Manifest
<1>7. QED
  BY <1>5, <1>6 DEF Verify

LEMMA UnpackInvariant == Spec => []UnpackInv
<1>1. Init => UnpackInv
  BY DEF Init, UnpackInv
<1>2. TypeInv /\ LeftAlone /\ UnpackInv /\ [Next]_vars => UnpackInv'
  <2> SUFFICES ASSUME TypeInv, LeftAlone, UnpackInv, [Next]_vars PROVE UnpackInv'
    OBVIOUS
  <2>1. CASE UNCHANGED <<pc, id, todo, archive, dir, spent>> /\ (~touched' => ~touched)
    <3>1. Got' = Got
      BY <2>1 DEF Got
    <3>2. QED
      BY <2>1, <3>1 DEF UnpackInv
  <2>2. CASE \E p \in Paths, n \in Nodes : Edit(p, n)
    <3>1. UNCHANGED <<pc, id, todo, archive, dir, spent>> /\ (~touched' => ~touched)
      BY <2>2 DEF Edit
    <3>2. QED
      BY <2>1, <3>1
  <2>3. CASE Seal \/ Walk \/ WriteEntry \/ WriteFails \/ Install
    <3>1. pc' \in {"rest", "sealed", "writing", "failed", "installed"}
      BY <2>3 DEF Seal, Walk, WriteEntry, WriteFails, Install
    <3>2. QED
      BY <3>1 DEF UnpackInv
  <2>4. CASE Download
    <3>1. /\ pc' = "unpacking" /\ todo' = archive /\ archive' = archive /\ id' = id
          /\ dir' = Empty /\ spent'.entries = 0 /\ spent'.bytes = 0
          /\ Len(archive) \in Nat
      BY <2>4 DEF Download, TypeInv, TypeOK, FlatInv, Unspent
    <3>2. Got' = {}
      BY <3>1 DEF Got
    <3>3. Entries(dir') = {} /\ Cardinality(Held(id', {})) = 0
      <4>1. Held(id', {}) = {}
        BY DEF Held
      <4>2. QED
        BY <3>1, <4>1, EmptyIsFree
    <3>4. \A j \in 1 .. Len(todo') : todo'[j] = archive'[Len(archive') - Len(todo') + j]
      BY <3>1
    <3>5. QED
      BY <3>1, <3>2, <3>3, <3>4 DEF UnpackInv
  <2>5. CASE ExtractEntry
    <3>1. touched' = touched /\ pc' = "unpacking"
      BY <2>5 DEF ExtractEntry
    <3>2. CASE touched
      BY <3>1, <3>2 DEF UnpackInv
    <3>3. CASE ~touched
      BY <2>5, <3>3, ExtractAdds
    <3>4. QED
      BY <3>2, <3>3
  <2>6. CASE ExtractRefuses
    <3>1. touched' = touched /\ id' = id /\ pc' = "refused"
      BY <2>6 DEF ExtractRefuses
    <3>2. ~touched => ~Portable(id)
      BY <2>6, RefusesUnportable
    <3>3. QED
      BY <3>1, <3>2 DEF UnpackInv
  <2>7. CASE Verify
    <3>1. touched' = touched /\ pc' \in {"accepted", "refused"}
      BY <2>7 DEF Verify
    <3>2. ~touched => pc' = "accepted"
      BY <2>7, VerifyAccepts
    <3>3. QED
      BY <3>1, <3>2 DEF UnpackInv
  <2>8. CASE UNCHANGED vars
    BY <2>1, <2>8 DEF vars
  <2>9. QED
    BY <2>2, <2>3, <2>4, <2>5, <2>6, <2>7, <2>8 DEF Next
<1>3. QED
  BY <1>1, <1>2, TypeInvariant, LeftAloneInvariant, PTL DEF Spec

\* What is sealed and left alone comes through, from any tree, with any modes and
\* umasks: an agent refuses it only for its limits or for a link that leaves it.
THEOREM ComesThrough == Spec => []RoundTrip
<1>1. LeftAlone /\ UnpackInv => RoundTrip
  BY DEF LeftAlone, WriteInv, UnpackInv, RoundTrip
<1>2. QED
  BY <1>1, LeftAloneInvariant, UnpackInvariant, PTL
=============================================================================
