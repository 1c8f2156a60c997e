----------------------------- MODULE Ext2Proofs -----------------------------
(***************************************************************************)
(* The disk of the ext2 file system is safe wherever the machine stops, for *)
(* every size of disk, inode and directory: each write of each operation   *)
(* leaves a disk on which what the directory reaches is marked and owned   *)
(* once.  A plan carries the blocks and inodes that it has taken and that  *)
(* no entry reaches yet, or that no entry reaches any more.                *)
(***************************************************************************)
EXTENDS Ext2, FiniteSetTheorems, SequenceTheorems, WellFoundedInduction, TLAPS

Disks == [blocks : SUBSET Block, inodes : SUBSET Ino, bgd : [blks : Nat, inos : Nat],
          table : [Ino -> Inode], dir : SUBSET Entry, ptrs : [Block -> Seq(Block)]]

Mine(d, e) == ToSet(BlocksOf(d, e))
Inos(d) == {e.ino : e \in d.dir}

\* The blocks in use, R of them in the hands of the operation.
Taken(d, R) == Metadata \cup Reached(d) \cup R

Owned(d) ==
  /\ \A e \in d.dir : IsInjective(BlocksOf(d, e)) /\ Mine(d, e) \cap Metadata = {}
  /\ \A e, f \in d.dir : e # f => e.ino # f.ino /\ Mine(d, e) \cap Mine(d, f) = {}

\* A disk that may be cut off here; the operation has the blocks R and inodes I.
Good(d, R, I) ==
  /\ d \in Disks /\ IsFiniteSet(d.dir) /\ Cardinality(d.dir) <= Room
  /\ R \subseteq Block /\ R \cap (Metadata \cup Reached(d)) = {}
  /\ Taken(d, R) \subseteq d.blocks
  /\ I \subseteq Ino /\ I \cap Inos(d) = {} /\ Inos(d) \cup I \subseteq d.inodes
  /\ Owned(d)
  /\ d.bgd.blks + Cardinality(Taken(d, R)) <= Blocks
  /\ d.bgd.inos + Cardinality(Inos(d) \cup I) <= Cardinality(Ino)

Safe(d) == Good(d, {}, {})

\* Nothing has leaked.
Whole(d, R, I) ==
  /\ d.blocks = Taken(d, R) /\ d.inodes = Inos(d) \cup I
  /\ d.bgd.blks + Cardinality(Taken(d, R)) = Blocks
  /\ d.bgd.inos + Cardinality(Inos(d) \cup I) = Cardinality(Ino)
  /\ \A e \in d.dir : e.kind = "file" => d.table[e.ino].links = 1

\* What FilesKeepTheirBlocks says of a write that turns disk c into d.
Keeps(c, d) ==
  \A e \in c.dir \cap d.dir : /\ IsPrefix(c.table[e.ino].direct, d.table[e.ino].direct)
                              /\ Mine(c, e) \subseteq Mine(d, e)

\* The disks that a sequence of writes makes of disk d.
Before(d, s, k) == IF k = 1 THEN d ELSE s[k - 1]
Final(d, s) == IF s = <<>> THEN d ELSE s[Len(s)]
Chain(d, s) == /\ s \in Seq(Disks)
               /\ \A k \in 1..Len(s) : Safe(s[k]) /\ Keeps(Before(d, s, k), s[k])

\* A plan for disk d, and one that has got as far as R and I; w says whether it
\* has to leave everything whole.
Plans == [disk : Disks, todo : Seq(Disks), ok : BOOLEAN, list : Seq(Block)]
Trail(d, p) == p \in Plans /\ p.disk = Final(d, p.todo) /\ Chain(d, p.todo)
Works(d, p, w, R, I) ==
  /\ Trail(d, p)
  /\ p.ok => Good(p.disk, R, I) /\ (w => Whole(p.disk, R, I))

DiskInv ==
  /\ Safe(disk) /\ Chain(disk, todo)
  /\ panic \in BOOLEAN /\ intact \in BOOLEAN /\ restarts \in 0..Restarts
  /\ intact /\ ~panic => Whole(Final(disk, todo), {}, {})
-----------------------------------------------------------------------------
(***************************************************************************)
(* Numbers: induction, from the least number that a set leaves out.        *)
(***************************************************************************)
LEMMA LeastIn ==
  ASSUME NEW S \in SUBSET Nat, S # {}
  PROVE  \E x \in S : \A y \in S : x <= y
<1> DEFINE R == OpToRel(<, Nat)
<1>1. \A x, y \in Nat : x < y => <<x, y>> \in R
  BY DEF OpToRel
<1>2. IsWellFoundedOn(R, Nat)
  BY NatLessThanWellFounded
<1> HIDE DEF R
<1>3. PICK x \in S : \A y \in S : ~ (<<y, x>> \in R)
  BY <1>2, WFMin
<1>4. ASSUME NEW y \in S PROVE x <= y
  <2>1. x \in Nat /\ y \in Nat
    OBVIOUS
  <2>2. ~ (y < x)
    BY <1>1, <1>3, <2>1
  <2> QED BY <2>1, <2>2
<1> QED BY <1>4

LEMMA MinIn ==
  ASSUME NEW S \in SUBSET Nat, S # {}
  PROVE  Min(S) \in S /\ \A y \in S : Min(S) <= y
<1>1. \E x \in S : \A y \in S : x =< y
  BY LeastIn
<1> QED BY <1>1 DEF Min

LEMMA NatSetInduction ==
  ASSUME NEW T \in SUBSET Nat, 0 \in T, \A n \in T : n + 1 \in T
  PROVE  T = Nat
<1> DEFINE S == Nat \ T
<1> SUFFICES ASSUME S # {} PROVE FALSE
  OBVIOUS
<1>1. S \in SUBSET Nat
  OBVIOUS
<1>2. PICK x \in S : \A y \in S : x <= y
  <2> HIDE DEF S
  <2> QED BY <1>1, LeastIn
<1>3. x \in Nat /\ x # 0
  OBVIOUS
<1>4. x - 1 \in Nat /\ ~ (x <= x - 1) /\ (x - 1) + 1 = x
  BY <1>3
<1>5. x - 1 \notin S
  BY <1>2, <1>4
<1>6. x - 1 \in T
  BY <1>4, <1>5
<1>7. x \in T
  BY <1>4, <1>6
<1> QED BY <1>7
-----------------------------------------------------------------------------
(***************************************************************************)
(* Lists of pointers: what they contain, and that none comes twice.        *)
(***************************************************************************)
LEMMA EmptyList ==
  /\ ToSet(<<>>) = {} /\ IsInjective(<<>>)
  /\ \A S : <<>> \in Seq(S)
<1>1. DOMAIN <<>> = {}
  BY EmptySeq
<1> QED BY <1>1, EmptySeq DEF ToSet, IsInjective

LEMMA OneInList ==
  ASSUME NEW S, NEW x \in S
  PROVE  <<x>> \in Seq(S) /\ Len(<<x>>) = 1 /\ ToSet(<<x>>) = {x} /\ IsInjective(<<x>>)
<1>1. <<x>> \in Seq(S) /\ Len(<<x>>) = 1 /\ DOMAIN <<x>> = {1} /\ <<x>>[1] = x
  OBVIOUS
<1> QED BY <1>1 DEF ToSet, IsInjective

LEMMA Members ==
  ASSUME NEW S, NEW s \in Seq(S)
  PROVE  /\ ToSet(s) = {s[i] : i \in 1..Len(s)} /\ ToSet(s) \subseteq S
         /\ IsInjective(s) <=> \A i, j \in 1..Len(s) : s[i] = s[j] => i = j
BY DEF ToSet, IsInjective

LEMMA JoinedLists ==
  ASSUME NEW S, NEW s \in Seq(S), NEW t \in Seq(S)
  PROVE  /\ s \o t \in Seq(S) /\ Len(s \o t) = Len(s) + Len(t)
         /\ ToSet(s \o t) = ToSet(s) \cup ToSet(t)
         /\ IsInjective(s \o t) <=>
              IsInjective(s) /\ IsInjective(t) /\ ToSet(s) \cap ToSet(t) = {}
         /\ IsPrefix(s, s \o t)
<1> DEFINE m == Len(s)
           n == Len(t)
           u == s \o t
<1>1. u \in Seq(S) /\ Len(u) = m + n /\ m \in Nat /\ n \in Nat
  BY ConcatProperties, LenProperties
<1>2. /\ \A i \in 1..m : u[i] = s[i]
      /\ \A i \in m + 1..m + n : u[i] = t[i - m]
  BY ConcatProperties
<1>3. /\ ToSet(s) = {s[i] : i \in 1..m} /\ ToSet(t) = {t[i] : i \in 1..n}
      /\ ToSet(u) = {u[i] : i \in 1..m + n}
      /\ IsInjective(s) <=> \A i, j \in 1..m : s[i] = s[j] => i = j
      /\ IsInjective(t) <=> \A i, j \in 1..n : t[i] = t[j] => i = j
      /\ IsInjective(u) <=> \A i, j \in 1..m + n : u[i] = u[j] => i = j
  BY <1>1, Members
<1>4. IsPrefix(s, u)
  <2>1. SubSeq(s, 1, m) \in Seq(S) /\ SubSeq(u, 1, m) \in Seq(S)
    BY <1>1, SubSeqProperties
  <2>2. Len(SubSeq(s, 1, m)) = m /\ Len(SubSeq(u, 1, m)) = m
    BY <1>1, SubSeqProperties
  <2>3. \A i \in 1..m : SubSeq(s, 1, m)[i] = s[i] /\ SubSeq(u, 1, m)[i] = u[i]
    BY <1>1, SubSeqProperties
  <2>4. SubSeq(s, 1, m) = SubSeq(u, 1, m)
    BY <1>2, <2>1, <2>2, <2>3, SeqEqual
  <2> QED BY <1>1, <2>4 DEF IsPrefix
<1> HIDE DEF m, n, u
<1>5. ToSet(u) = ToSet(s) \cup ToSet(t)
  <2>1. ToSet(u) \subseteq ToSet(s) \cup ToSet(t)
    <3> SUFFICES ASSUME NEW i \in 1..m + n PROVE u[i] \in ToSet(s) \cup ToSet(t)
      BY <1>3
    <3>1. i \in 1..m \/ (i \in m + 1..m + n /\ i - m \in 1..n)
      BY <1>1
    <3> QED BY <3>1, <1>2, <1>3
  <2>2. ToSet(s) \subseteq ToSet(u)
    BY <1>1, <1>2, <1>3
  <2>3. ASSUME NEW i \in 1..n PROVE t[i] \in ToSet(u)
    <3>1. m + i \in m + 1..m + n /\ (m + i) - m = i /\ m + i \in 1..m + n
      BY <1>1
    <3>2. u[m + i] = t[i]
      BY <1>2, <3>1
    <3> QED BY <1>3, <3>1, <3>2
  <2>4. ToSet(t) \subseteq ToSet(u)
    BY <1>3, <2>3
  <2> QED BY <2>1, <2>2, <2>4
<1>6. ASSUME IsInjective(u)
      PROVE  IsInjective(s) /\ IsInjective(t) /\ ToSet(s) \cap ToSet(t) = {}
  <2>1. ASSUME NEW i \in 1..n PROVE m + i \in 1..m + n /\ u[m + i] = t[i] /\ m + i \notin 1..m
    <3>1. m + i \in m + 1..m + n /\ (m + i) - m = i
      BY <1>1
    <3> QED BY <1>1, <1>2, <3>1
  <2>2. IsInjective(s)
    BY <1>1, <1>2, <1>3, <1>6
  <2>3. IsInjective(t)
    <3>1. ASSUME NEW i \in 1..n, NEW j \in 1..n, t[i] = t[j] PROVE i = j
      <4>1. m + i = m + j
        BY <1>3, <1>6, <2>1, <3>1
      <4> QED BY <1>1, <4>1
    <3> QED BY <1>3, <3>1
  <2>4. ASSUME NEW i \in 1..m, NEW j \in 1..n, s[i] = t[j] PROVE FALSE
    <3>1. i \in 1..m + n /\ u[i] = s[i]
      BY <1>1, <1>2
    <3> QED BY <1>3, <1>6, <2>1, <2>4, <3>1
  <2> QED BY <1>3, <2>2, <2>3, <2>4
<1>7. ASSUME IsInjective(s), IsInjective(t), ToSet(s) \cap ToSet(t) = {}
      PROVE  IsInjective(u)
  <2> SUFFICES ASSUME NEW i \in 1..m + n, NEW j \in 1..m + n, u[i] = u[j] PROVE i = j
    BY <1>3
  <2>1. ASSUME NEW k \in 1..m + n
        PROVE  \/ k \in 1..m /\ u[k] = s[k] /\ u[k] \in ToSet(s)
               \/ k - m \in 1..n /\ u[k] = t[k - m] /\ u[k] \in ToSet(t)
    <3>1. k \in 1..m \/ (k \in m + 1..m + n /\ k - m \in 1..n)
      BY <1>1
    <3> QED BY <3>1, <1>2, <1>3
  <2>2. CASE i \in 1..m /\ u[i] = s[i] /\ u[i] \in ToSet(s)
    BY <1>3, <1>7, <2>1, <2>2
  <2>3. CASE i - m \in 1..n /\ u[i] = t[i - m] /\ u[i] \in ToSet(t)
    <3>1. j - m \in 1..n /\ u[j] = t[j - m]
      BY <1>7, <2>1, <2>3
    <3>2. i - m = j - m
      BY <1>3, <1>7, <2>3, <3>1
    <3> QED BY <1>1, <3>2
  <2> QED BY <2>1, <2>2, <2>3
<1> QED BY <1>1, <1>4, <1>5, <1>6, <1>7 DEF u, m, n

LEMMA LongerList ==
  ASSUME NEW S, NEW s \in Seq(S), NEW x \in S
  PROVE  /\ Append(s, x) = s \o <<x>> /\ Append(s, x) \in Seq(S)
         /\ Len(Append(s, x)) = Len(s) + 1 /\ Append(s, x)[Len(s) + 1] = x
         /\ \A i \in 1..Len(s) : Append(s, x)[i] = s[i]
<1>1. Append(s, x) = s \o <<x>>
  BY AppendIsConcat
<1> QED BY <1>1, AppendProperties

Associate(s, t, u) == (s \o t) \o u = s \o (t \o u)

LEMMA ListsAssociate ==
  ASSUME NEW S, NEW s \in Seq(S), NEW t \in Seq(S), NEW u \in Seq(S)
  PROVE  Associate(s, t, u)
BY ConcatAssociative DEF Associate

LEMMA FirstPart ==
  ASSUME NEW S, NEW s \in Seq(S), NEW n \in 0..Len(s)
  PROVE  /\ SubSeq(s, 1, n) \in Seq(S) /\ ToSet(SubSeq(s, 1, n)) \subseteq ToSet(s)
         /\ IsInjective(s) => IsInjective(SubSeq(s, 1, n))
<1> DEFINE u == SubSeq(s, 1, n)
           m == Len(s)
<1>0. m \in Nat /\ n \in 0..m
  BY LenProperties
<1>1. u \in Seq(S) /\ Len(u) = n /\ \A i \in 1..n : u[i] = s[i]
  BY <1>0, SubSeqProperties
<1>2. /\ ToSet(u) = {u[i] : i \in 1..n} /\ ToSet(s) = {s[i] : i \in 1..m}
      /\ IsInjective(u) <=> \A i, j \in 1..n : u[i] = u[j] => i = j
      /\ IsInjective(s) <=> \A i, j \in 1..m : s[i] = s[j] => i = j
  BY <1>1, Members
<1> HIDE DEF u, m
<1>3. \A i \in 1..n : i \in 1..m
  BY <1>0
<1>4. ToSet(u) \subseteq ToSet(s)
  BY <1>1, <1>2, <1>3
<1>5. IsInjective(s) => IsInjective(u)
  BY <1>1, <1>2, <1>3
<1> QED BY <1>1, <1>4, <1>5 DEF u

LEMMA PrefixOfItself ==
  ASSUME NEW S, NEW s \in Seq(S)
  PROVE  IsPrefix(s, s)
BY LenProperties DEF IsPrefix
-----------------------------------------------------------------------------
(***************************************************************************)
(* The disk: its sizes, the types of its parts, the blocks of a file.      *)
(***************************************************************************)
LEMMA Sizes ==
  /\ Blocks \in Nat /\ Room \in Nat /\ Inodes \in Nat /\ Restarts \in Nat
  /\ Direct \in Nat \ {0} /\ PerBlock \in Nat
  /\ 0 \in Metadata /\ Metadata \subseteq Block /\ Block \subseteq Nat /\ 0 \in Block
  /\ Ino \subseteq Nat /\ IsFiniteSet(Block) /\ Cardinality(Block) = Blocks
  /\ IsFiniteSet(Ino) /\ Cardinality(Ino) \in 0..Inodes
<1>1. /\ Blocks \in Nat /\ Room \in Nat /\ Inodes \in Nat /\ Restarts \in Nat
      /\ Direct \in Nat \ {0} /\ PerBlock \in Nat
      /\ EXT2_FIRST_NONRESERVED_INO \in Nat \ {0}
      /\ 0 \in Metadata /\ Metadata \subseteq Block
  BY Ext2Assumption
<1>2. IsFiniteSet(Block) /\ Cardinality(Block) = Blocks
  <2>1. IsFiniteSet(0..(Blocks - 1)) /\ Cardinality(0..(Blocks - 1)) =
          IF 0 > Blocks - 1 THEN 0 ELSE (Blocks - 1) - 0 + 1
    BY <1>1, FS_Interval
  <2> QED BY <1>1, <2>1 DEF Block
<1>3. IsFiniteSet(Ino) /\ Cardinality(Ino) \in 0..Inodes
  <2>1. IsFiniteSet(Ino) /\ Cardinality(Ino) =
          IF EXT2_FIRST_NONRESERVED_INO > Inodes THEN 0
          ELSE Inodes - EXT2_FIRST_NONRESERVED_INO + 1
    BY <1>1, FS_Interval DEF Ino
  <2> QED BY <1>1, <2>1
<1> QED BY <1>1, <1>2, <1>3 DEF Block, Ino

LEMMA DiskParts ==
  ASSUME NEW d \in Disks
  PROVE  /\ d.blocks \subseteq Block /\ d.inodes \subseteq Ino /\ d.dir \subseteq Entry
         /\ d.bgd \in [blks : Nat, inos : Nat] /\ d.bgd.blks \in Nat /\ d.bgd.inos \in Nat
         /\ d.table \in [Ino -> Inode] /\ d.ptrs \in [Block -> Seq(Block)]
BY DEF Disks

LEMMA InodeParts ==
  /\ \A n \in Inode : n.links \in 0..2 /\ n.direct \in Seq(Block) /\ n.indirect \in Block
  /\ \A e \in Entry : e.name \in Name /\ e.kind \in Kind /\ e.ino \in Ino
BY DEF Inode, Entry

LEMMA EntryParts ==
  ASSUME NEW d \in Disks, NEW e \in d.dir
  PROVE  /\ e \in Entry /\ e.ino \in Ino /\ d.table[e.ino] \in Inode
         /\ d.table[e.ino].direct \in Seq(Block) /\ d.table[e.ino].indirect \in Block
         /\ d.table[e.ino].links \in 0..2
         /\ d.ptrs[d.table[e.ino].indirect] \in Seq(Block)
<1>1. e \in Entry /\ d.table \in [Ino -> Inode] /\ d.ptrs \in [Block -> Seq(Block)]
  BY DiskParts
<1>2. e.ino \in Ino
  BY <1>1, InodeParts
<1>3. d.table[e.ino] \in Inode
  BY <1>1, <1>2
<1> QED BY <1>1, <1>2, <1>3, InodeParts

LEMMA FileOfPointers ==
  ASSUME NEW d \in Disks, NEW e, e.ino \in Ino, d.table[e.ino].indirect = 0
  PROVE  /\ BlocksOf(d, e) = d.table[e.ino].direct
         /\ Mine(d, e) = ToSet(d.table[e.ino].direct)
<1>1. d.table[e.ino].direct \in Seq(Block)
  BY DiskParts, InodeParts
<1>2. d.table[e.ino].direct \o <<>> = d.table[e.ino].direct
  BY <1>1, ConcatEmptySeq
<1> QED BY <1>2 DEF BlocksOf, Mine

NodeOf(d, e) == d.table[e.ino]
TableOf(d, e) == d.ptrs[NodeOf(d, e).indirect]

LEMMA FileWithTable ==
  ASSUME NEW d \in Disks, NEW e, e.ino \in Ino, NodeOf(d, e).indirect # 0
  PROVE  /\ BlocksOf(d, e) =
              NodeOf(d, e).direct \o (TableOf(d, e) \o <<NodeOf(d, e).indirect>>)
         /\ Mine(d, e) =
              ToSet(NodeOf(d, e).direct) \cup ToSet(TableOf(d, e)) \cup {NodeOf(d, e).indirect}
         /\ IsInjective(BlocksOf(d, e)) <=>
              /\ IsInjective(NodeOf(d, e).direct) /\ IsInjective(TableOf(d, e))
              /\ NodeOf(d, e).indirect \notin ToSet(TableOf(d, e))
              /\ ToSet(NodeOf(d, e).direct)
                   \cap (ToSet(TableOf(d, e)) \cup {NodeOf(d, e).indirect}) = {}
<1> DEFINE n == NodeOf(d, e)
           t == TableOf(d, e)
<1>1. n.direct \in Seq(Block) /\ n.indirect \in Block /\ t \in Seq(Block)
  BY DiskParts, InodeParts DEF NodeOf, TableOf
<1>2. BlocksOf(d, e) = n.direct \o (t \o <<n.indirect>>)
  BY DEF BlocksOf, NodeOf, TableOf
<1> HIDE DEF n, t
<1>3. /\ <<n.indirect>> \in Seq(Block) /\ ToSet(<<n.indirect>>) = {n.indirect}
      /\ IsInjective(<<n.indirect>>)
  BY <1>1, OneInList
<1> DEFINE b == <<n.indirect>>
           u == t \o b
<1> HIDE DEF b
<1>4. /\ u \in Seq(Block) /\ ToSet(u) = ToSet(t) \cup ToSet(b)
      /\ IsInjective(u) <=> IsInjective(t) /\ IsInjective(b) /\ ToSet(t) \cap ToSet(b) = {}
  BY <1>1, <1>3, JoinedLists DEF b
<1> HIDE DEF u
<1>5. /\ ToSet(n.direct \o u) = ToSet(n.direct) \cup ToSet(u)
      /\ IsInjective(n.direct \o u) <=>
           IsInjective(n.direct) /\ IsInjective(u) /\ ToSet(n.direct) \cap ToSet(u) = {}
  BY <1>1, <1>4, JoinedLists
<1>6. BlocksOf(d, e) = n.direct \o u
  BY <1>2 DEF u, b
<1>7. ToSet(b) = {n.indirect} /\ IsInjective(b)
  BY <1>3 DEF b
<1>8. Mine(d, e) = ToSet(n.direct) \cup ToSet(t) \cup {n.indirect}
  BY <1>4, <1>5, <1>6, <1>7 DEF Mine
<1>9. IsInjective(BlocksOf(d, e)) <=>
        /\ IsInjective(n.direct) /\ IsInjective(t) /\ n.indirect \notin ToSet(t)
        /\ ToSet(n.direct) \cap (ToSet(t) \cup {n.indirect}) = {}
  BY <1>4, <1>5, <1>6, <1>7
<1> QED BY <1>2, <1>8, <1>9 DEF n, t

LEMMA BlocksAreBlocks ==
  ASSUME NEW d \in Disks
  PROVE  /\ \A e \in d.dir : BlocksOf(d, e) \in Seq(Block) /\ Mine(d, e) \subseteq Block
         /\ Reached(d) = UNION {Mine(d, e) : e \in d.dir} /\ Reached(d) \subseteq Block
         /\ Inos(d) \subseteq Ino
<1>1. ASSUME NEW e \in d.dir PROVE BlocksOf(d, e) \in Seq(Block)
  <2>1. /\ e.ino \in Ino /\ d.table[e.ino].direct \in Seq(Block)
        /\ d.table[e.ino].indirect \in Block
        /\ d.ptrs[d.table[e.ino].indirect] \in Seq(Block)
    BY EntryParts
  <2>2. CASE d.table[e.ino].indirect = 0
    BY <2>1, <2>2, FileOfPointers
  <2>3. CASE d.table[e.ino].indirect # 0
    <3> DEFINE u == d.ptrs[d.table[e.ino].indirect] \o <<d.table[e.ino].indirect>>
    <3>1. u \in Seq(Block)
      BY <2>1, OneInList, JoinedLists
    <3>2. BlocksOf(d, e) = d.table[e.ino].direct \o u
      BY <2>3 DEF BlocksOf
    <3> HIDE DEF u
    <3>3. d.table[e.ino].direct \o u \in Seq(Block)
      BY <2>1, <3>1, JoinedLists
    <3> QED BY <3>2, <3>3
  <2> QED BY <2>2, <2>3
<1>2. \A e \in d.dir : Mine(d, e) \subseteq Block
  BY <1>1, Members DEF Mine
<1>3. Inos(d) \subseteq Ino
  BY EntryParts DEF Inos
<1> QED BY <1>1, <1>2, <1>3 DEF Reached, Mine
-----------------------------------------------------------------------------
(***************************************************************************)
(* Disks that differ in nothing that a file has.                           *)
(***************************************************************************)
SameFiles(c, d) ==
  /\ d.dir = c.dir
  /\ \A e \in c.dir : /\ BlocksOf(d, e) = BlocksOf(c, e)
                      /\ d.table[e.ino].direct = c.table[e.ino].direct
                      /\ d.table[e.ino].links = c.table[e.ino].links

SameTables(c, d) == d.table = c.table /\ d.ptrs = c.ptrs

LEMMA SameFilesFacts ==
  ASSUME NEW c \in Disks, NEW d \in Disks, SameFiles(c, d)
  PROVE  /\ Reached(d) = Reached(c) /\ Inos(d) = Inos(c) /\ Owned(d) = Owned(c)
         /\ \A R : Taken(d, R) = Taken(c, R)
         /\ \A e \in c.dir : Mine(d, e) = Mine(c, e)
         /\ Keeps(c, d)
<1>1. d.dir = c.dir /\ \A e \in c.dir : BlocksOf(d, e) = BlocksOf(c, e)
  BY DEF SameFiles
<1>2. \A e \in c.dir : Mine(d, e) = Mine(c, e)
  BY <1>1 DEF Mine
<1>3. Inos(d) = Inos(c) /\ Reached(d) = Reached(c)
  <2>1. Inos(d) = Inos(c)
    BY <1>1 DEF Inos
  <2>2. {ToSet(BlocksOf(d, e)) : e \in d.dir} = {ToSet(BlocksOf(c, e)) : e \in c.dir}
    BY <1>1
  <2> QED BY <2>1, <2>2 DEF Reached
<1>4. Owned(d) <=> Owned(c)
  BY <1>1, <1>2 DEF Owned
<1>5. Keeps(c, d)
  <2> SUFFICES ASSUME NEW e \in c.dir \cap d.dir
               PROVE  /\ IsPrefix(c.table[e.ino].direct, d.table[e.ino].direct)
                      /\ Mine(c, e) \subseteq Mine(d, e)
    BY DEF Keeps
  <2>1. c.table[e.ino].direct \in Seq(Block)
    BY EntryParts
  <2>2. d.table[e.ino].direct = c.table[e.ino].direct
    BY DEF SameFiles
  <2> QED BY <1>2, <2>1, <2>2, PrefixOfItself
<1>6. \A R : Taken(d, R) = Taken(c, R)
  BY <1>3 DEF Taken
<1>7. Owned(d) = Owned(c)
  BY <1>4 DEF Owned
<1> QED BY <1>2, <1>3, <1>5, <1>6, <1>7

LEMMA SameTablesFacts ==
  ASSUME NEW c \in Disks, NEW d, SameTables(c, d)
  PROVE  /\ \A e : BlocksOf(d, e) = BlocksOf(c, e) /\ Mine(d, e) = Mine(c, e)
         /\ d.dir = c.dir => SameFiles(c, d)
         /\ Keeps(c, d)
<1>1. \A e : BlocksOf(d, e) = BlocksOf(c, e)
  BY DEF SameTables, BlocksOf
<1>2. \A e : Mine(d, e) = Mine(c, e)
  BY <1>1 DEF Mine
<1>3. Keeps(c, d)
  <2> SUFFICES ASSUME NEW e \in c.dir \cap d.dir
               PROVE  /\ IsPrefix(c.table[e.ino].direct, d.table[e.ino].direct)
                      /\ Mine(c, e) \subseteq Mine(d, e)
    BY DEF Keeps
  <2>1. c.table[e.ino].direct \in Seq(Block)
    BY EntryParts
  <2>2. d.table[e.ino].direct = c.table[e.ino].direct
    BY DEF SameTables
  <2> QED BY <1>2, <2>1, <2>2, PrefixOfItself
<1>4. d.dir = c.dir => SameFiles(c, d)
  BY <1>1 DEF SameFiles, SameTables
<1> QED BY <1>1, <1>2, <1>3, <1>4

LEMMA TakenIsFinite ==
  ASSUME NEW d \in Disks, NEW R \in SUBSET Block
  PROVE  /\ Taken(d, R) \subseteq Block /\ IsFiniteSet(Taken(d, R))
         /\ Cardinality(Taken(d, R)) \in Nat
<1>1. Taken(d, R) \subseteq Block
  BY BlocksAreBlocks, Sizes DEF Taken
<1> QED BY <1>1, Sizes, FS_Subset, FS_CardinalityType

LEMMA InosAreFinite ==
  ASSUME NEW d \in Disks, NEW I \in SUBSET Ino
  PROVE  /\ Inos(d) \cup I \subseteq Ino /\ IsFiniteSet(Inos(d) \cup I)
         /\ Cardinality(Inos(d) \cup I) \in Nat
<1>1. Inos(d) \cup I \subseteq Ino
  BY BlocksAreBlocks
<1> QED BY <1>1, Sizes, FS_Subset, FS_CardinalityType

\* What no entry reaches may be forgotten: it is marked for nobody.
LEMMA Forgotten ==
  ASSUME NEW d, NEW R, NEW I, Good(d, R, I), NEW Q \in SUBSET R, NEW J \in SUBSET I
  PROVE  Good(d, Q, J)
<1>1. d \in Disks /\ R \in SUBSET Block /\ I \in SUBSET Ino
  BY DEF Good
<1>2. Q \in SUBSET Block /\ J \in SUBSET Ino
  BY <1>1
<1>3. Taken(d, Q) \subseteq Taken(d, R)
  BY DEF Taken
<1>4. Cardinality(Taken(d, Q)) <= Cardinality(Taken(d, R))
  BY <1>1, <1>3, TakenIsFinite, FS_Subset
<1>5. Cardinality(Inos(d) \cup J) <= Cardinality(Inos(d) \cup I)
  <2>1. Inos(d) \cup J \in SUBSET (Inos(d) \cup I)
    OBVIOUS
  <2> QED BY <1>1, <2>1, InosAreFinite, FS_Subset
<1>6. d.bgd.blks \in Nat /\ d.bgd.inos \in Nat
  BY <1>1, DiskParts
<1>7. /\ d.bgd.blks + Cardinality(Taken(d, Q)) <= Blocks
      /\ d.bgd.inos + Cardinality(Inos(d) \cup J) <= Cardinality(Ino)
  <2>1. /\ Cardinality(Taken(d, Q)) \in Nat /\ Cardinality(Taken(d, R)) \in Nat
        /\ Cardinality(Inos(d) \cup J) \in Nat /\ Cardinality(Inos(d) \cup I) \in Nat
        /\ Cardinality(Ino) \in Nat /\ Blocks \in Nat
    BY <1>1, <1>2, TakenIsFinite, InosAreFinite, Sizes
  <2>2. /\ d.bgd.blks + Cardinality(Taken(d, R)) <= Blocks
        /\ d.bgd.inos + Cardinality(Inos(d) \cup I) <= Cardinality(Ino)
    BY DEF Good
  <2> QED BY <1>4, <1>5, <1>6, <2>1, <2>2
<1> QED BY <1>2, <1>3, <1>7 DEF Good

LEMMA GoodIsSafe ==
  ASSUME NEW d, NEW R, NEW I, Good(d, R, I)
  PROVE  Safe(d) /\ d \in Disks
<1>1. {} \in SUBSET R /\ {} \in SUBSET I
  OBVIOUS
<1>2. Good(d, {}, {})
  BY <1>1, Forgotten
<1> QED BY <1>2 DEF Safe, Good
-----------------------------------------------------------------------------
(***************************************************************************)
(* Plans: a write is added to the disks that the plan makes one after      *)
(* another, unless it has ended in a panic.                                *)
(***************************************************************************)
LEMMA PlanParts ==
  ASSUME NEW p \in Plans
  PROVE  p.disk \in Disks /\ p.todo \in Seq(Disks) /\ p.ok \in BOOLEAN /\ p.list \in Seq(Block)
BY DEF Plans

LEMMA PutParts ==
  ASSUME NEW p \in Plans, NEW d
  PROVE  /\ Put(p, d).ok = p.ok /\ Put(p, d).list = p.list
         /\ p.ok => Put(p, d).disk = d /\ Put(p, d).todo = Append(p.todo, d)
         /\ ~p.ok => Put(p, d) = p
         /\ d \in Disks => Put(p, d) \in Plans
<1>1. p.disk \in Disks /\ p.todo \in Seq(Disks) /\ p.ok \in BOOLEAN /\ p.list \in Seq(Block)
  BY PlanParts
<1>2. CASE p.ok
  <2>1. Put(p, d) = [p EXCEPT !.disk = d, !.todo = Append(@, d)]
    BY <1>2 DEF Put
  <2>2. /\ Put(p, d).ok = p.ok /\ Put(p, d).list = p.list
        /\ Put(p, d).disk = d /\ Put(p, d).todo = Append(p.todo, d)
    BY <2>1 DEF Plans
  <2>3. d \in Disks => Append(p.todo, d) \in Seq(Disks)
    BY <1>1, AppendProperties
  <2>4. d \in Disks => Put(p, d) \in Plans
    BY <1>1, <2>1, <2>3 DEF Plans
  <2> QED BY <1>2, <2>2, <2>4
<1>3. CASE ~p.ok
  BY <1>3 DEF Put
<1> QED BY <1>1, <1>2, <1>3

LEMMA PutTrail ==
  ASSUME NEW c, NEW p, Trail(c, p), NEW d, p.ok => Safe(d) /\ Keeps(p.disk, d)
  PROVE  Trail(c, Put(p, d))
<1>0. p \in Plans
  BY DEF Trail
<1>1. CASE ~p.ok
  BY <1>0, <1>1, PutParts
<1>2. CASE p.ok
  <2>1. Safe(d) /\ Keeps(p.disk, d) /\ d \in Disks
    BY <1>2 DEF Safe, Good
  <2>2. Put(p, d) \in Plans /\ Put(p, d).disk = d /\ Put(p, d).todo = Append(p.todo, d)
    BY <1>0, <1>2, <2>1, PutParts
  <2> DEFINE s == p.todo
             n == Len(s)
             u == Append(s, d)
  <2>3. s \in Seq(Disks) /\ p.disk = Final(c, s) /\ Chain(c, s) /\ n \in Nat
    BY <1>0, PlanParts, LenProperties DEF Trail
  <2>4. /\ u \in Seq(Disks) /\ Len(u) = n + 1 /\ u[n + 1] = d
        /\ \A i \in 1..n : u[i] = s[i]
    BY <2>1, <2>3, AppendProperties
  <2>5. s = <<>> <=> n = 0
    BY <2>3, EmptySeq
  <2>6. u # <<>>
    BY <2>3, <2>4, EmptySeq
  <2> HIDE DEF s, n, u
  <2>7. Final(c, u) = d
    BY <2>4, <2>6 DEF Final
  <2>8. Chain(c, u)
    <3> SUFFICES ASSUME NEW k \in 1..n + 1
                 PROVE  Safe(u[k]) /\ Keeps(Before(c, u, k), u[k])
      BY <2>4 DEF Chain
    <3>1. CASE k \in 1..n
      <4>1. u[k] = s[k] /\ Before(c, u, k) = Before(c, s, k)
        <5>1. k # 1 => k - 1 \in 1..n
          BY <2>3, <3>1
        <5> QED BY <2>4, <3>1, <5>1 DEF Before
      <4>2. k \in 1..Len(s)
        BY <3>1 DEF n
      <4> QED BY <2>3, <4>1, <4>2 DEF Chain
    <3>2. CASE k = n + 1
      <4>1. Before(c, u, k) = p.disk
        <5>1. CASE n = 0
          BY <2>3, <2>5, <3>2, <5>1 DEF Before, Final
        <5>2. CASE n # 0
          <6>1. k # 1 /\ k - 1 = n /\ n \in 1..n
            BY <2>3, <3>2, <5>2
          <6>2. Before(c, u, k) = s[n]
            BY <2>4, <6>1 DEF Before
          <6>3. Final(c, s) = s[n]
            BY <2>5, <5>2 DEF Final, n
          <6> QED BY <2>3, <6>2, <6>3
        <5> QED BY <5>1, <5>2
      <4> QED BY <2>1, <2>4, <3>2, <4>1
    <3> QED BY <2>3, <3>1, <3>2
  <2> QED BY <2>2, <2>7, <2>8 DEF Trail, u, s
<1> QED BY <1>0, <1>1, <1>2, PlanParts

\* A write that brings the plan from R and I to Q and J.
LEMMA PutWorks ==
  ASSUME NEW c, NEW p, NEW w \in BOOLEAN, Trail(c, p), NEW d, NEW Q, NEW J,
         p.ok => Good(d, Q, J) /\ Keeps(p.disk, d) /\ (w => Whole(d, Q, J))
  PROVE  Works(c, Put(p, d), w, Q, J)
<1>1. p \in Plans
  BY DEF Trail
<1>2. Trail(c, Put(p, d))
  <2>1. p.ok => Safe(d) /\ Keeps(p.disk, d)
    BY GoodIsSafe
  <2> QED BY <2>1, PutTrail
<1>3. Put(p, d).ok = p.ok /\ (p.ok => Put(p, d).disk = d)
  BY <1>1, PutParts
<1> QED BY <1>2, <1>3 DEF Works
-----------------------------------------------------------------------------
(***************************************************************************)
(* One part of a disk is written.                                          *)
(***************************************************************************)
Counted(d, x, y) == [d EXCEPT !.bgd = [blks |-> @.blks + x, inos |-> @.inos + y]]
WithInode(d, i, n) == [d EXCEPT !.table = [@ EXCEPT ![i] = n]]
WithPtrs(d, b, s) == [d EXCEPT !.ptrs = [@ EXCEPT ![b] = s]]

LEMMA NewBlocks ==
  ASSUME NEW d \in Disks, NEW B \in SUBSET Block, NEW c, c = [d EXCEPT !.blocks = B]
  PROVE  /\ c \in Disks /\ c.blocks = B /\ c.inodes = d.inodes /\ c.bgd = d.bgd
         /\ c.dir = d.dir /\ SameTables(d, c) /\ c.table = d.table
BY DEF Disks, SameTables

LEMMA NewInodes ==
  ASSUME NEW d \in Disks, NEW B \in SUBSET Ino, NEW c, c = [d EXCEPT !.inodes = B]
  PROVE  /\ c \in Disks /\ c.inodes = B /\ c.blocks = d.blocks /\ c.bgd = d.bgd
         /\ c.dir = d.dir /\ SameTables(d, c) /\ c.table = d.table
BY DEF Disks, SameTables

LEMMA NewCounts ==
  ASSUME NEW d \in Disks, NEW x \in Int, NEW y \in Int,
         d.bgd.blks + x >= 0, d.bgd.inos + y >= 0, NEW c, c = Counted(d, x, y)
  PROVE  /\ c \in Disks /\ c.blocks = d.blocks /\ c.inodes = d.inodes
         /\ c.bgd.blks = d.bgd.blks + x /\ c.bgd.inos = d.bgd.inos + y
         /\ c.dir = d.dir /\ SameTables(d, c) /\ c.table = d.table
<1> DEFINE g == [blks |-> d.bgd.blks + x, inos |-> d.bgd.inos + y]
<1>1. d.bgd.blks \in Nat /\ d.bgd.inos \in Nat
  BY DiskParts
<1>2. g \in [blks : Nat, inos : Nat] /\ g.blks = d.bgd.blks + x /\ g.inos = d.bgd.inos + y
  BY <1>1
<1>3. c = [d EXCEPT !.bgd = g]
  BY DEF Counted, Disks
<1> HIDE DEF g
<1>4. /\ c \in Disks /\ c.bgd = g /\ c.blocks = d.blocks /\ c.inodes = d.inodes
      /\ c.dir = d.dir /\ c.table = d.table /\ c.ptrs = d.ptrs
  BY <1>2, <1>3 DEF Disks
<1> QED BY <1>2, <1>4 DEF SameTables

LEMMA NewDir ==
  ASSUME NEW d \in Disks, NEW D \in SUBSET Entry, NEW c, c = [d EXCEPT !.dir = D]
  PROVE  /\ c \in Disks /\ c.dir = D /\ c.blocks = d.blocks /\ c.inodes = d.inodes
         /\ c.bgd = d.bgd /\ SameTables(d, c) /\ c.table = d.table
BY DEF Disks, SameTables

LEMMA NewInode ==
  ASSUME NEW d \in Disks, NEW i \in Ino, NEW n \in Inode,
         NEW c, c = WithInode(d, i, n)
  PROVE  /\ c \in Disks /\ c.dir = d.dir /\ c.blocks = d.blocks /\ c.inodes = d.inodes
         /\ c.bgd = d.bgd /\ c.ptrs = d.ptrs
         /\ c.table[i] = n /\ \A j \in Ino \ {i} : c.table[j] = d.table[j]
<1> DEFINE t == [d.table EXCEPT ![i] = n]
<1>1. d.table \in [Ino -> Inode]
  BY DiskParts
<1>2. t \in [Ino -> Inode] /\ t[i] = n /\ \A j \in Ino \ {i} : t[j] = d.table[j]
  BY <1>1
<1>3. c = [d EXCEPT !.table = t]
  BY DEF Disks, WithInode
<1> HIDE DEF t
<1>4. /\ c \in Disks /\ c.table = t /\ c.dir = d.dir /\ c.blocks = d.blocks
      /\ c.inodes = d.inodes /\ c.bgd = d.bgd /\ c.ptrs = d.ptrs
  BY <1>2, <1>3 DEF Disks
<1> QED BY <1>2, <1>4

LEMMA NewPtrs ==
  ASSUME NEW d \in Disks, NEW b \in Block, NEW s \in Seq(Block),
         NEW c, c = WithPtrs(d, b, s)
  PROVE  /\ c \in Disks /\ c.dir = d.dir /\ c.blocks = d.blocks /\ c.inodes = d.inodes
         /\ c.bgd = d.bgd /\ c.table = d.table
         /\ c.ptrs[b] = s /\ \A a \in Block \ {b} : c.ptrs[a] = d.ptrs[a]
<1> DEFINE t == [d.ptrs EXCEPT ![b] = s]
<1>1. d.ptrs \in [Block -> Seq(Block)]
  BY DiskParts
<1>2. t \in [Block -> Seq(Block)] /\ t[b] = s /\ \A a \in Block \ {b} : t[a] = d.ptrs[a]
  BY <1>1
<1>3. c = [d EXCEPT !.ptrs = t]
  BY DEF Disks, WithPtrs
<1> HIDE DEF t
<1>4. /\ c \in Disks /\ c.ptrs = t /\ c.dir = d.dir /\ c.blocks = d.blocks
      /\ c.inodes = d.inodes /\ c.bgd = d.bgd /\ c.table = d.table
  BY <1>2, <1>3 DEF Disks
<1> QED BY <1>2, <1>4

\* A block is marked and counted.
LEMMA BlockMarked ==
  ASSUME NEW d, NEW R, NEW I, Good(d, R, I), NEW b \in Block \ d.blocks, d.bgd.blks # 0,
         NEW d1, d1 = [d EXCEPT !.blocks = d.blocks \cup {b}],
         NEW d2, d2 = Counted(d1, -1, 0)
  PROVE  /\ Good(d1, R, I) /\ Keeps(d, d1) /\ Good(d2, R \cup {b}, I) /\ Keeps(d1, d2)
         /\ Whole(d, R, I) => Whole(d2, R \cup {b}, I)
         /\ d2.dir = d.dir /\ SameTables(d, d2) /\ d2.blocks = d.blocks \cup {b}
<1>1. /\ d \in Disks /\ IsFiniteSet(d.dir) /\ Cardinality(d.dir) <= Room
      /\ R \in SUBSET Block /\ R \cap (Metadata \cup Reached(d)) = {}
      /\ Taken(d, R) \subseteq d.blocks
      /\ I \in SUBSET Ino /\ I \cap Inos(d) = {} /\ Inos(d) \cup I \subseteq d.inodes
      /\ Owned(d)
      /\ d.bgd.blks + Cardinality(Taken(d, R)) <= Blocks
      /\ d.bgd.inos + Cardinality(Inos(d) \cup I) <= Cardinality(Ino)
  BY DEF Good
<1>2. d.bgd.blks \in Nat \ {0} /\ d.bgd.inos \in Nat /\ d.blocks \in SUBSET Block
  BY <1>1, DiskParts
<1>3. /\ d1 \in Disks /\ d1.blocks = d.blocks \cup {b} /\ d1.inodes = d.inodes
      /\ d1.bgd = d.bgd /\ d1.dir = d.dir /\ SameTables(d, d1)
  <2>1. d.blocks \cup {b} \in SUBSET Block
    BY <1>2
  <2> QED BY <1>1, <2>1, NewBlocks
<1>4. /\ d2 \in Disks /\ d2.blocks = d1.blocks /\ d2.inodes = d1.inodes
      /\ d2.bgd.blks = d.bgd.blks - 1 /\ d2.bgd.inos = d.bgd.inos
      /\ d2.dir = d.dir /\ SameTables(d1, d2)
  <2> DEFINE x == -1
             y == 0
  <2>1. x \in Int /\ y \in Int /\ \A k \in Nat : k + x = k - 1 /\ k + y = k
    OBVIOUS
  <2>2. d2 = Counted(d1, x, y)
    BY DEF x, y
  <2> HIDE DEF x, y
  <2>3. d1.bgd.blks + x >= 0 /\ d1.bgd.inos + y >= 0
    BY <1>2, <1>3, <2>1
  <2>4. /\ d2 \in Disks /\ d2.blocks = d1.blocks /\ d2.inodes = d1.inodes
        /\ d2.bgd.blks = d1.bgd.blks + x /\ d2.bgd.inos = d1.bgd.inos + y
        /\ d2.dir = d1.dir /\ SameTables(d1, d2)
    <3>1. d1 \in Disks
      BY <1>3
    <3> QED BY ONLY <2>1, <2>2, <2>3, <3>1, NewCounts
  <2> QED BY <1>2, <1>3, <2>1, <2>4
<1>5. SameFiles(d, d1) /\ SameFiles(d1, d2) /\ SameFiles(d, d2) /\ SameTables(d, d2)
  <2>1. SameTables(d, d2)
    BY <1>3, <1>4 DEF SameTables
  <2> QED BY <1>1, <1>3, <1>4, <2>1, SameTablesFacts
<1>6. /\ Reached(d1) = Reached(d) /\ Inos(d1) = Inos(d) /\ Owned(d1)
      /\ Taken(d1, R) = Taken(d, R) /\ Keeps(d, d1)
  BY <1>1, <1>3, <1>5, SameFilesFacts
<1>7. /\ Reached(d2) = Reached(d) /\ Inos(d2) = Inos(d) /\ Owned(d2)
      /\ Taken(d2, R \cup {b}) = Taken(d, R \cup {b})
  BY <1>1, <1>4, <1>5, SameFilesFacts
<1>8. Keeps(d1, d2)
  BY <1>3, <1>4, <1>5, SameFilesFacts
<1>9. /\ Taken(d, R \cup {b}) = Taken(d, R) \cup {b} /\ b \notin Taken(d, R)
      /\ Cardinality(Taken(d, R \cup {b})) = Cardinality(Taken(d, R)) + 1
      /\ Cardinality(Taken(d, R)) \in Nat
  <2>1. Taken(d, R \cup {b}) = Taken(d, R) \cup {b} /\ b \notin Taken(d, R)
    BY <1>1 DEF Taken
  <2> QED BY <1>1, <2>1, TakenIsFinite, FS_AddElement
<1>10. Good(d1, R, I)
  BY <1>1, <1>3, <1>6 DEF Good
<1>11. Good(d2, R \cup {b}, I)
  <2>1. d2.bgd.blks + Cardinality(Taken(d2, R \cup {b})) <= Blocks
    BY <1>1, <1>2, <1>4, <1>7, <1>9, Sizes
  <2>2. Taken(d2, R \cup {b}) \subseteq d2.blocks
    BY <1>1, <1>3, <1>4, <1>7, <1>9
  <2>3. (R \cup {b}) \cap (Metadata \cup Reached(d2)) = {}
    BY <1>1, <1>7, <1>9 DEF Taken
  <2>4. R \cup {b} \subseteq Block
    BY <1>1
  <2>5. /\ IsFiniteSet(d2.dir) /\ Cardinality(d2.dir) <= Room
        /\ I \subseteq Ino /\ I \cap Inos(d2) = {} /\ Inos(d2) \cup I \subseteq d2.inodes
        /\ d2.bgd.inos + Cardinality(Inos(d2) \cup I) <= Cardinality(Ino)
    BY <1>1, <1>3, <1>4, <1>7
  <2> QED BY <1>4, <1>7, <2>1, <2>2, <2>3, <2>4, <2>5 DEF Good
<1>12. Whole(d, R, I) => Whole(d2, R \cup {b}, I)
  <2> SUFFICES ASSUME Whole(d, R, I) PROVE Whole(d2, R \cup {b}, I)
    OBVIOUS
  <2>1. /\ d2.blocks = Taken(d2, R \cup {b}) /\ d2.inodes = Inos(d2) \cup I
        /\ d2.bgd.inos + Cardinality(Inos(d2) \cup I) = Cardinality(Ino)
    BY <1>3, <1>4, <1>7, <1>9 DEF Whole
  <2>2. d2.bgd.blks + Cardinality(Taken(d2, R \cup {b})) = Blocks
    <3>1. d.bgd.blks + Cardinality(Taken(d, R)) = Blocks
      BY DEF Whole
    <3> QED BY <1>2, <1>4, <1>7, <1>9, <3>1, Sizes
  <2>3. \A e \in d2.dir : e.kind = "file" => d2.table[e.ino].links = 1
    BY <1>4, <1>5 DEF Whole, SameTables
  <2> QED BY <2>1, <2>2, <2>3 DEF Whole
<1> QED BY <1>3, <1>4, <1>5, <1>6, <1>8, <1>10, <1>11, <1>12

\* A block is unmarked and counted.
LEMMA BlockUnmarked ==
  ASSUME NEW d, NEW R, NEW I, Good(d, R, I), NEW b \in R,
         NEW d1, d1 = [d EXCEPT !.blocks = d.blocks \ {b}],
         NEW d2, d2 = Counted(d1, 1, 0)
  PROVE  /\ Good(d1, R \ {b}, I) /\ Keeps(d, d1) /\ Good(d2, R \ {b}, I) /\ Keeps(d1, d2)
         /\ Whole(d, R, I) => Whole(d2, R \ {b}, I)
         /\ d2.dir = d.dir /\ SameTables(d, d2)
<1>1. /\ d \in Disks /\ IsFiniteSet(d.dir) /\ Cardinality(d.dir) <= Room
      /\ R \in SUBSET Block /\ R \cap (Metadata \cup Reached(d)) = {}
      /\ Taken(d, R) \subseteq d.blocks
      /\ I \in SUBSET Ino /\ I \cap Inos(d) = {} /\ Inos(d) \cup I \subseteq d.inodes
      /\ Owned(d)
      /\ d.bgd.blks + Cardinality(Taken(d, R)) <= Blocks
      /\ d.bgd.inos + Cardinality(Inos(d) \cup I) <= Cardinality(Ino)
  BY DEF Good
<1>2. d.bgd.blks \in Nat /\ d.bgd.inos \in Nat /\ d.blocks \in SUBSET Block
  BY <1>1, DiskParts
<1>3. /\ d1 \in Disks /\ d1.blocks = d.blocks \ {b} /\ d1.inodes = d.inodes
      /\ d1.bgd = d.bgd /\ d1.dir = d.dir /\ SameTables(d, d1)
  <2>1. d.blocks \ {b} \in SUBSET Block
    BY <1>2
  <2> QED BY <1>1, <2>1, NewBlocks
<1>4. /\ d2 \in Disks /\ d2.blocks = d1.blocks /\ d2.inodes = d1.inodes
      /\ d2.bgd.blks = d.bgd.blks + 1 /\ d2.bgd.inos = d.bgd.inos
      /\ d2.dir = d.dir /\ SameTables(d1, d2)
  <2> DEFINE x == 1
             y == 0
  <2>1. x \in Int /\ y \in Int /\ \A k \in Nat : k + x = k + 1 /\ k + y = k
    OBVIOUS
  <2>2. d2 = Counted(d1, x, y)
    BY DEF x, y
  <2> HIDE DEF x, y
  <2>3. d1.bgd.blks + x >= 0 /\ d1.bgd.inos + y >= 0
    BY <1>2, <1>3, <2>1
  <2>4. /\ d2 \in Disks /\ d2.blocks = d1.blocks /\ d2.inodes = d1.inodes
        /\ d2.bgd.blks = d1.bgd.blks + x /\ d2.bgd.inos = d1.bgd.inos + y
        /\ d2.dir = d1.dir /\ SameTables(d1, d2)
    <3>1. d1 \in Disks
      BY <1>3
    <3> QED BY ONLY <2>1, <2>2, <2>3, <3>1, NewCounts
  <2> QED BY <1>2, <1>3, <2>1, <2>4
<1>5. SameFiles(d, d1) /\ SameFiles(d1, d2) /\ SameFiles(d, d2) /\ SameTables(d, d2)
  <2>1. SameTables(d, d2)
    BY <1>3, <1>4 DEF SameTables
  <2> QED BY <1>1, <1>3, <1>4, <2>1, SameTablesFacts
<1> DEFINE Q == R \ {b}
<1>6. /\ Reached(d1) = Reached(d) /\ Inos(d1) = Inos(d) /\ Owned(d1)
      /\ Taken(d1, Q) = Taken(d, Q) /\ Keeps(d, d1)
  BY <1>1, <1>3, <1>5, SameFilesFacts
<1>7. /\ Reached(d2) = Reached(d) /\ Inos(d2) = Inos(d) /\ Owned(d2)
      /\ Taken(d2, Q) = Taken(d, Q)
  BY <1>1, <1>4, <1>5, SameFilesFacts
<1>8. Keeps(d1, d2)
  BY <1>3, <1>4, <1>5, SameFilesFacts
<1>9. Taken(d, Q) = Taken(d, R) \ {b} /\ b \in Taken(d, R)
  BY <1>1 DEF Taken
<1>10. /\ d.bgd.blks + Cardinality(Taken(d, Q)) <= Blocks
       /\ (d.bgd.blks + 1) + Cardinality(Taken(d, Q)) <= Blocks
       /\ d.bgd.blks + Cardinality(Taken(d, R)) = Blocks =>
            (d.bgd.blks + 1) + Cardinality(Taken(d, Q)) = Blocks
  <2> DEFINE S == Taken(d, R)
             T == Taken(d, Q)
             x == Cardinality(S)
             y == Cardinality(T)
             a == d.bgd.blks
  <2>1. IsFiniteSet(S) /\ x \in Nat /\ T = S \ {b} /\ b \in S
    BY <1>1, <1>9, TakenIsFinite
  <2>2. y = x - 1
    <3> HIDE DEF S, T
    <3> QED BY <2>1, FS_RemoveElement
  <2>3. T \subseteq Block /\ y \in Nat
    <3>1. Q \in SUBSET Block
      BY <1>1
    <3> HIDE DEF Q
    <3> QED BY <1>1, <3>1, TakenIsFinite
  <2>4. a \in Nat /\ Blocks \in Nat /\ a + x <= Blocks
    BY <1>1, <1>2, Sizes
  <2> HIDE DEF x, y, a
  <2>5. a + y <= Blocks /\ (a + 1) + y <= Blocks /\ (a + x = Blocks => (a + 1) + y = Blocks)
    BY <2>1, <2>2, <2>3, <2>4
  <2> QED BY <2>5 DEF x, y, a
<1>11. /\ Q \subseteq Block /\ Q \cap (Metadata \cup Reached(d)) = {}
       /\ Taken(d, Q) \subseteq d.blocks \ {b}
  BY <1>1, <1>9
<1> HIDE DEF Q
<1>12. Good(d1, Q, I)
  <2>1. d1.bgd.blks + Cardinality(Taken(d1, Q)) <= Blocks
    BY <1>3, <1>6, <1>10
  <2> QED BY <1>1, <1>3, <1>6, <1>11, <2>1 DEF Good
<1>13. Good(d2, Q, I)
  <2>1. d2.bgd.blks + Cardinality(Taken(d2, Q)) <= Blocks
    BY <1>4, <1>7, <1>10
  <2>2. /\ IsFiniteSet(d2.dir) /\ Cardinality(d2.dir) <= Room
        /\ I \subseteq Ino /\ I \cap Inos(d2) = {} /\ Inos(d2) \cup I \subseteq d2.inodes
        /\ d2.bgd.inos + Cardinality(Inos(d2) \cup I) <= Cardinality(Ino)
    BY <1>1, <1>3, <1>4, <1>7
  <2>3. Q \cap (Metadata \cup Reached(d2)) = {} /\ Taken(d2, Q) \subseteq d2.blocks
    BY <1>3, <1>4, <1>7, <1>11
  <2> QED BY <1>4, <1>7, <1>11, <2>1, <2>2, <2>3 DEF Good
<1>14. Whole(d, R, I) => Whole(d2, Q, I)
  <2> SUFFICES ASSUME Whole(d, R, I) PROVE Whole(d2, Q, I)
    OBVIOUS
  <2>1. /\ d2.blocks = Taken(d2, Q) /\ d2.inodes = Inos(d2) \cup I
        /\ d2.bgd.inos + Cardinality(Inos(d2) \cup I) = Cardinality(Ino)
    BY <1>3, <1>4, <1>7, <1>9 DEF Whole
  <2>2. d2.bgd.blks + Cardinality(Taken(d2, Q)) = Blocks
    <3>1. d.bgd.blks + Cardinality(Taken(d, R)) = Blocks
      BY DEF Whole
    <3> QED BY <1>4, <1>7, <1>10, <3>1
  <2>3. \A e \in d2.dir : e.kind = "file" => d2.table[e.ino].links = 1
    BY <1>4, <1>5 DEF Whole, SameTables
  <2> QED BY <2>1, <2>2, <2>3 DEF Whole
<1> QED BY <1>3, <1>4, <1>5, <1>6, <1>8, <1>12, <1>13, <1>14 DEF Q

\* An inode is marked and counted.
LEMMA InodeMarked ==
  ASSUME NEW d, NEW R, NEW I, Good(d, R, I), NEW i \in Ino \ d.inodes, d.bgd.inos # 0,
         NEW d1, d1 = [d EXCEPT !.inodes = d.inodes \cup {i}],
         NEW d2, d2 = Counted(d1, 0, -1)
  PROVE  /\ Good(d1, R, I) /\ Keeps(d, d1) /\ Good(d2, R, I \cup {i}) /\ Keeps(d1, d2)
         /\ Whole(d, R, I) => Whole(d2, R, I \cup {i})
         /\ d2.dir = d.dir /\ SameTables(d, d2)
<1>1. /\ d \in Disks /\ IsFiniteSet(d.dir) /\ Cardinality(d.dir) <= Room
      /\ R \in SUBSET Block /\ R \cap (Metadata \cup Reached(d)) = {}
      /\ Taken(d, R) \subseteq d.blocks
      /\ I \in SUBSET Ino /\ I \cap Inos(d) = {} /\ Inos(d) \cup I \subseteq d.inodes
      /\ Owned(d)
      /\ d.bgd.blks + Cardinality(Taken(d, R)) <= Blocks
      /\ d.bgd.inos + Cardinality(Inos(d) \cup I) <= Cardinality(Ino)
  BY DEF Good
<1>2. d.bgd.blks \in Nat /\ d.bgd.inos \in Nat \ {0} /\ d.inodes \in SUBSET Ino
  BY <1>1, DiskParts
<1>3. /\ d1 \in Disks /\ d1.inodes = d.inodes \cup {i} /\ d1.blocks = d.blocks
      /\ d1.bgd = d.bgd /\ d1.dir = d.dir /\ SameTables(d, d1)
  <2> DEFINE B == d.inodes \cup {i}
  <2>1. B \in SUBSET Ino /\ d1 = [d EXCEPT !.inodes = B]
    BY <1>1, <1>2
  <2>2. /\ d1 \in Disks /\ d1.inodes = B /\ d1.blocks = d.blocks /\ d1.bgd = d.bgd
        /\ d1.dir = d.dir /\ SameTables(d, d1)
    <3> HIDE DEF B
    <3> QED BY <1>1, <2>1, NewInodes
  <2> QED BY <2>2
<1>4. /\ d2 \in Disks /\ d2.blocks = d.blocks /\ d2.inodes = d1.inodes
      /\ d2.bgd.blks = d.bgd.blks /\ d2.bgd.inos = d.bgd.inos - 1
      /\ d2.dir = d.dir /\ SameTables(d1, d2)
  <2> DEFINE x == 0
             y == -1
  <2>1. x \in Int /\ y \in Int /\ \A k \in Nat : k + x = k /\ k + y = k - 1
    OBVIOUS
  <2>2. d2 = Counted(d1, x, y)
    BY DEF x, y
  <2> HIDE DEF x, y
  <2>3. d1.bgd.blks + x >= 0 /\ d1.bgd.inos + y >= 0
    BY <1>2, <1>3, <2>1
  <2>4. /\ d2 \in Disks /\ d2.blocks = d1.blocks /\ d2.inodes = d1.inodes
        /\ d2.bgd.blks = d1.bgd.blks + x /\ d2.bgd.inos = d1.bgd.inos + y
        /\ d2.dir = d1.dir /\ SameTables(d1, d2)
    <3>1. d1 \in Disks
      BY <1>3
    <3> QED BY ONLY <2>1, <2>2, <2>3, <3>1, NewCounts
  <2> QED BY <1>2, <1>3, <2>1, <2>4
<1>5. SameFiles(d, d1) /\ SameFiles(d1, d2) /\ SameFiles(d, d2) /\ SameTables(d, d2)
  <2>1. SameTables(d, d2)
    BY <1>3, <1>4 DEF SameTables
  <2> QED BY <1>1, <1>3, <1>4, <2>1, SameTablesFacts
<1> DEFINE J == I \cup {i}
<1>6. /\ Reached(d1) = Reached(d) /\ Inos(d1) = Inos(d) /\ Owned(d1)
      /\ Taken(d1, R) = Taken(d, R) /\ Keeps(d, d1)
  BY <1>1, <1>3, <1>5, SameFilesFacts
<1>7. /\ Reached(d2) = Reached(d) /\ Inos(d2) = Inos(d) /\ Owned(d2)
      /\ Taken(d2, R) = Taken(d, R)
  BY <1>1, <1>4, <1>5, SameFilesFacts
<1>8. Keeps(d1, d2)
  BY <1>3, <1>4, <1>5, SameFilesFacts
<1>9. /\ J \in SUBSET Ino /\ J \cap Inos(d) = {}
      /\ Inos(d) \cup J = (Inos(d) \cup I) \cup {i}
      /\ i \notin Inos(d) \cup I
  BY <1>1
<1>10. /\ d.bgd.inos + Cardinality(Inos(d) \cup I) <= Cardinality(Ino)
       /\ (d.bgd.inos - 1) + Cardinality(Inos(d) \cup J) <= Cardinality(Ino)
       /\ d.bgd.inos + Cardinality(Inos(d) \cup I) = Cardinality(Ino) =>
            (d.bgd.inos - 1) + Cardinality(Inos(d) \cup J) = Cardinality(Ino)
  <2> DEFINE S == Inos(d) \cup I
             T == Inos(d) \cup J
             x == Cardinality(S)
             y == Cardinality(T)
             a == d.bgd.inos
             n == Cardinality(Ino)
  <2>1. /\ IsFiniteSet(S) /\ x \in Nat /\ T = S \cup {i} /\ i \notin S
        /\ a \in Nat /\ n \in Nat /\ a + x <= n
    BY <1>1, <1>2, <1>9, InosAreFinite, Sizes
  <2>2. y = x + 1
    <3> HIDE DEF S, T
    <3> QED BY <2>1, FS_AddElement
  <2>3. y \in Nat
    <3> HIDE DEF J
    <3> QED BY <1>1, <1>9, InosAreFinite
  <2> HIDE DEF x, y, a, n
  <2>4. /\ a + x <= n /\ (a - 1) + y <= n
        /\ a + x = n => (a - 1) + y = n
    BY <2>1, <2>2, <2>3
  <2> QED BY <2>4 DEF x, y, a, n
<1>11. Inos(d) \cup J \subseteq d.inodes \cup {i}
  BY <1>1, <1>9
<1> HIDE DEF J
<1>12. Good(d1, R, I)
  <2>1. d1.bgd.inos + Cardinality(Inos(d1) \cup I) <= Cardinality(Ino)
    BY <1>3, <1>6, <1>10
  <2>2. /\ I \subseteq Ino /\ I \cap Inos(d1) = {}
        /\ Inos(d1) \cup I \subseteq d1.inodes
    BY <1>1, <1>3, <1>6, <1>9, <1>11
  <2> QED BY <1>1, <1>3, <1>6, <2>1, <2>2 DEF Good
<1>13. Good(d2, R, J)
  <2>1. d2.bgd.inos + Cardinality(Inos(d2) \cup J) <= Cardinality(Ino)
    BY <1>4, <1>7, <1>10
  <2>2. J \subseteq Ino /\ J \cap Inos(d2) = {} /\ Inos(d2) \cup J \subseteq d2.inodes
    BY <1>3, <1>4, <1>7, <1>9, <1>11
  <2>3. /\ IsFiniteSet(d2.dir) /\ Cardinality(d2.dir) <= Room /\ R \subseteq Block
        /\ R \cap (Metadata \cup Reached(d2)) = {} /\ Taken(d2, R) \subseteq d2.blocks
        /\ d2.bgd.blks + Cardinality(Taken(d2, R)) <= Blocks
    BY <1>1, <1>4, <1>7
  <2> QED BY <1>4, <1>7, <2>1, <2>2, <2>3 DEF Good
<1>14. Whole(d, R, I) => Whole(d2, R, J)
  <2> SUFFICES ASSUME Whole(d, R, I) PROVE Whole(d2, R, J)
    OBVIOUS
  <2>1. /\ d2.blocks = Taken(d2, R) /\ d2.inodes = Inos(d2) \cup J
        /\ d2.bgd.blks + Cardinality(Taken(d2, R)) = Blocks
    BY <1>3, <1>4, <1>7, <1>9 DEF Whole
  <2>2. d2.bgd.inos + Cardinality(Inos(d2) \cup J) = Cardinality(Ino)
    <3>1. d.bgd.inos + Cardinality(Inos(d) \cup I) = Cardinality(Ino)
      BY DEF Whole
    <3> QED BY <1>4, <1>7, <1>10, <3>1
  <2>3. \A e \in d2.dir : e.kind = "file" => d2.table[e.ino].links = 1
    BY <1>4, <1>5 DEF Whole, SameTables
  <2> QED BY <2>1, <2>2, <2>3 DEF Whole
<1> QED BY <1>3, <1>4, <1>5, <1>6, <1>8, <1>12, <1>13, <1>14 DEF J

\* An inode is unmarked and counted.
LEMMA InodeUnmarked ==
  ASSUME NEW d, NEW R, NEW I, Good(d, R, I), NEW i \in I,
         NEW d1, d1 = [d EXCEPT !.inodes = d.inodes \ {i}],
         NEW d2, d2 = Counted(d1, 0, 1)
  PROVE  /\ Good(d1, R, I \ {i}) /\ Keeps(d, d1) /\ Good(d2, R, I \ {i}) /\ Keeps(d1, d2)
         /\ Whole(d, R, I) => Whole(d2, R, I \ {i})
         /\ d2.dir = d.dir /\ SameTables(d, d2)
<1>1. /\ d \in Disks /\ IsFiniteSet(d.dir) /\ Cardinality(d.dir) <= Room
      /\ R \in SUBSET Block /\ R \cap (Metadata \cup Reached(d)) = {}
      /\ Taken(d, R) \subseteq d.blocks
      /\ I \in SUBSET Ino /\ I \cap Inos(d) = {} /\ Inos(d) \cup I \subseteq d.inodes
      /\ Owned(d)
      /\ d.bgd.blks + Cardinality(Taken(d, R)) <= Blocks
      /\ d.bgd.inos + Cardinality(Inos(d) \cup I) <= Cardinality(Ino)
  BY DEF Good
<1>2. d.bgd.blks \in Nat /\ d.bgd.inos \in Nat /\ d.inodes \in SUBSET Ino
  BY <1>1, DiskParts
<1>3. /\ d1 \in Disks /\ d1.inodes = d.inodes \ {i} /\ d1.blocks = d.blocks
      /\ d1.bgd = d.bgd /\ d1.dir = d.dir /\ SameTables(d, d1)
  <2> DEFINE B == d.inodes \ {i}
  <2>1. B \in SUBSET Ino /\ d1 = [d EXCEPT !.inodes = B]
    BY <1>1, <1>2
  <2>2. /\ d1 \in Disks /\ d1.inodes = B /\ d1.blocks = d.blocks /\ d1.bgd = d.bgd
        /\ d1.dir = d.dir /\ SameTables(d, d1)
    <3> HIDE DEF B
    <3>1. d \in Disks
      BY <1>1
    <3> QED BY ONLY <2>1, <3>1, NewInodes
  <2> QED BY <2>2
<1>4. /\ d2 \in Disks /\ d2.blocks = d.blocks /\ d2.inodes = d1.inodes
      /\ d2.bgd.blks = d.bgd.blks /\ d2.bgd.inos = d.bgd.inos + 1
      /\ d2.dir = d.dir /\ SameTables(d1, d2)
  <2> DEFINE x == 0
             y == 1
  <2>1. x \in Int /\ y \in Int /\ \A k \in Nat : k + x = k /\ k + y = k + 1
    OBVIOUS
  <2>2. d2 = Counted(d1, x, y)
    BY DEF x, y
  <2> HIDE DEF x, y
  <2>3. d1.bgd.blks + x >= 0 /\ d1.bgd.inos + y >= 0
    BY <1>2, <1>3, <2>1
  <2>4. /\ d2 \in Disks /\ d2.blocks = d1.blocks /\ d2.inodes = d1.inodes
        /\ d2.bgd.blks = d1.bgd.blks + x /\ d2.bgd.inos = d1.bgd.inos + y
        /\ d2.dir = d1.dir /\ SameTables(d1, d2)
    <3>1. d1 \in Disks
      BY <1>3
    <3> QED BY ONLY <2>1, <2>2, <2>3, <3>1, NewCounts
  <2> QED BY <1>2, <1>3, <2>1, <2>4
<1>5. SameFiles(d, d1) /\ SameFiles(d1, d2) /\ SameFiles(d, d2) /\ SameTables(d, d2)
  <2>1. SameTables(d, d2)
    BY <1>3, <1>4 DEF SameTables
  <2> QED BY <1>1, <1>3, <1>4, <2>1, SameTablesFacts
<1> DEFINE J == I \ {i}
<1>6. /\ Reached(d1) = Reached(d) /\ Inos(d1) = Inos(d) /\ Owned(d1)
      /\ Taken(d1, R) = Taken(d, R) /\ Keeps(d, d1)
  BY <1>1, <1>3, <1>5, SameFilesFacts
<1>7. /\ Reached(d2) = Reached(d) /\ Inos(d2) = Inos(d) /\ Owned(d2)
      /\ Taken(d2, R) = Taken(d, R)
  BY <1>1, <1>4, <1>5, SameFilesFacts
<1>8. Keeps(d1, d2)
  BY <1>3, <1>4, <1>5, SameFilesFacts
<1>9. /\ J \in SUBSET Ino /\ J \cap Inos(d) = {}
      /\ Inos(d) \cup J = (Inos(d) \cup I) \ {i}
      /\ i \in Inos(d) \cup I
  BY <1>1
<1>10. /\ d.bgd.inos + Cardinality(Inos(d) \cup J) <= Cardinality(Ino)
       /\ (d.bgd.inos + 1) + Cardinality(Inos(d) \cup J) <= Cardinality(Ino)
       /\ d.bgd.inos + Cardinality(Inos(d) \cup I) = Cardinality(Ino) =>
            (d.bgd.inos + 1) + Cardinality(Inos(d) \cup J) = Cardinality(Ino)
  <2> DEFINE S == Inos(d) \cup I
             T == Inos(d) \cup J
             x == Cardinality(S)
             y == Cardinality(T)
             a == d.bgd.inos
             n == Cardinality(Ino)
  <2>1. /\ IsFiniteSet(S) /\ x \in Nat /\ T = S \ {i} /\ i \in S
        /\ a \in Nat /\ n \in Nat /\ a + x <= n
    BY <1>1, <1>2, <1>9, InosAreFinite, Sizes
  <2>2. y = x - 1
    <3> HIDE DEF S, T
    <3> QED BY <2>1, FS_RemoveElement
  <2>3. y \in Nat
    <3> HIDE DEF J
    <3> QED BY <1>1, <1>9, InosAreFinite
  <2> HIDE DEF x, y, a, n
  <2>4. /\ a + y <= n /\ (a + 1) + y <= n
        /\ a + x = n => (a + 1) + y = n
    BY <2>1, <2>2, <2>3
  <2> QED BY <2>4 DEF x, y, a, n
<1>11. Inos(d) \cup J \subseteq d.inodes \ {i}
  BY <1>1, <1>9
<1> HIDE DEF J
<1>12. Good(d1, R, J)
  <2>1. d1.bgd.inos + Cardinality(Inos(d1) \cup J) <= Cardinality(Ino)
    BY <1>3, <1>6, <1>10
  <2>2. /\ J \subseteq Ino /\ J \cap Inos(d1) = {}
        /\ Inos(d1) \cup J \subseteq d1.inodes
    BY <1>1, <1>3, <1>6, <1>9, <1>11
  <2> QED BY <1>1, <1>3, <1>6, <2>1, <2>2 DEF Good
<1>13. Good(d2, R, J)
  <2>1. d2.bgd.inos + Cardinality(Inos(d2) \cup J) <= Cardinality(Ino)
    BY <1>4, <1>7, <1>10
  <2>2. J \subseteq Ino /\ J \cap Inos(d2) = {} /\ Inos(d2) \cup J \subseteq d2.inodes
    BY <1>3, <1>4, <1>7, <1>9, <1>11
  <2>3. /\ IsFiniteSet(d2.dir) /\ Cardinality(d2.dir) <= Room /\ R \subseteq Block
        /\ R \cap (Metadata \cup Reached(d2)) = {} /\ Taken(d2, R) \subseteq d2.blocks
        /\ d2.bgd.blks + Cardinality(Taken(d2, R)) <= Blocks
    BY <1>1, <1>4, <1>7
  <2> QED BY <1>4, <1>7, <2>1, <2>2, <2>3 DEF Good
<1>14. Whole(d, R, I) => Whole(d2, R, J)
  <2> SUFFICES ASSUME Whole(d, R, I) PROVE Whole(d2, R, J)
    OBVIOUS
  <2>1. /\ d2.blocks = Taken(d2, R) /\ d2.inodes = Inos(d2) \cup J
        /\ d2.bgd.blks + Cardinality(Taken(d2, R)) = Blocks
    BY <1>3, <1>4, <1>7, <1>9 DEF Whole
  <2>2. d2.bgd.inos + Cardinality(Inos(d2) \cup J) = Cardinality(Ino)
    <3>1. d.bgd.inos + Cardinality(Inos(d) \cup I) = Cardinality(Ino)
      BY DEF Whole
    <3> QED BY <1>4, <1>7, <1>10, <3>1
  <2>3. \A e \in d2.dir : e.kind = "file" => d2.table[e.ino].links = 1
    BY <1>4, <1>5 DEF Whole, SameTables
  <2> QED BY <2>1, <2>2, <2>3 DEF Whole
<1> QED BY <1>3, <1>4, <1>5, <1>6, <1>8, <1>12, <1>13, <1>14 DEF J
-----------------------------------------------------------------------------
(***************************************************************************)
(* Writes of inodes, tables and the directory.                             *)
(***************************************************************************)
LEMMA NothingOfFiles ==
  ASSUME NEW d, NEW R, NEW I, Good(d, R, I), NEW c \in Disks, SameFiles(d, c),
         c.blocks = d.blocks, c.inodes = d.inodes, c.bgd = d.bgd
  PROVE  Good(c, R, I) /\ Keeps(d, c) /\ (Whole(d, R, I) => Whole(c, R, I))
<1>1. d \in Disks /\ c.dir = d.dir
  BY DEF Good, SameFiles
<1>2. /\ Reached(c) = Reached(d) /\ Inos(c) = Inos(d) /\ Owned(c) = Owned(d)
      /\ Taken(c, R) = Taken(d, R) /\ Keeps(d, c)
  BY <1>1, SameFilesFacts
<1>3. Good(c, R, I)
  BY <1>1, <1>2 DEF Good
<1>4. Whole(d, R, I) => Whole(c, R, I)
  <2>1. \A e \in d.dir : c.table[e.ino].links = d.table[e.ino].links
    BY DEF SameFiles
  <2> QED BY <1>1, <1>2, <2>1 DEF Whole
<1> QED BY <1>2, <1>3, <1>4

LEMMA SameBlocks ==
  ASSUME NEW c, NEW d, NEW e, c.table[e.ino] = d.table[e.ino],
         d.table[e.ino].indirect # 0 =>
           c.ptrs[d.table[e.ino].indirect] = d.ptrs[d.table[e.ino].indirect]
  PROVE  BlocksOf(c, e) = BlocksOf(d, e)
BY DEF BlocksOf

LEMMA TableIsMine ==
  ASSUME NEW d \in Disks, NEW e \in d.dir, d.table[e.ino].indirect # 0
  PROVE  d.table[e.ino].indirect \in Mine(d, e)
<1>1. e.ino \in Ino /\ NodeOf(d, e).indirect # 0
  BY EntryParts DEF NodeOf
<1>2. NodeOf(d, e).indirect \in Mine(d, e)
  BY <1>1, FileWithTable
<1> QED BY <1>2 DEF NodeOf

\* An inode that no entry has is written.
LEMMA FreshInode ==
  ASSUME NEW d, NEW R, NEW I, Good(d, R, I), NEW i \in I, NEW n \in Inode,
         NEW c, c = WithInode(d, i, n)
  PROVE  /\ Good(c, R, I) /\ Keeps(d, c) /\ (Whole(d, R, I) => Whole(c, R, I))
         /\ c.dir = d.dir /\ c.ptrs = d.ptrs /\ c.table[i] = n
<1>1. d \in Disks /\ I \subseteq Ino /\ I \cap Inos(d) = {}
  BY DEF Good
<1>2. /\ c \in Disks /\ c.dir = d.dir /\ c.blocks = d.blocks /\ c.inodes = d.inodes
      /\ c.bgd = d.bgd /\ c.ptrs = d.ptrs
      /\ c.table[i] = n /\ \A j \in Ino \ {i} : c.table[j] = d.table[j]
  <2>1. i \in Ino
    BY <1>1
  <2>2. c = WithInode(d, i, n) /\ n \in Inode /\ d \in Disks
    BY <1>1
  <2> QED BY ONLY <2>1, <2>2, NewInode
<1>3. SameFiles(d, c)
  <2>1. \A e \in d.dir : c.table[e.ino] = d.table[e.ino]
    <3> SUFFICES ASSUME NEW e \in d.dir PROVE e.ino \in Ino \ {i}
      BY <1>2
    <3>1. e.ino \in Ino /\ e.ino \in Inos(d)
      BY <1>1, EntryParts DEF Inos
    <3> QED BY <1>1, <3>1
  <2>2. \A e \in d.dir : BlocksOf(c, e) = BlocksOf(d, e)
    BY <1>2, <2>1, SameBlocks
  <2> QED BY <1>2, <2>1, <2>2 DEF SameFiles
<1> QED BY <1>2, <1>3, NothingOfFiles

\* A block that no file reaches is written.
LEMMA FreshTable ==
  ASSUME NEW d, NEW R, NEW I, Good(d, R, I), NEW b \in R, NEW s \in Seq(Block),
         NEW c, c = WithPtrs(d, b, s)
  PROVE  /\ Good(c, R, I) /\ Keeps(d, c) /\ (Whole(d, R, I) => Whole(c, R, I))
         /\ c.dir = d.dir /\ c.table = d.table /\ c.blocks = d.blocks /\ c.ptrs[b] = s
<1>1. /\ d \in Disks /\ R \subseteq Block /\ R \cap (Metadata \cup Reached(d)) = {}
  BY DEF Good
<1>2. /\ c \in Disks /\ c.dir = d.dir /\ c.blocks = d.blocks /\ c.inodes = d.inodes
      /\ c.bgd = d.bgd /\ c.table = d.table
      /\ c.ptrs[b] = s /\ \A a \in Block \ {b} : c.ptrs[a] = d.ptrs[a]
  <2>1. b \in Block
    BY <1>1
  <2>2. c = WithPtrs(d, b, s) /\ s \in Seq(Block) /\ d \in Disks
    BY <1>1
  <2> QED BY ONLY <2>1, <2>2, NewPtrs
<1>3. SameFiles(d, c)
  <2>1. ASSUME NEW e \in d.dir PROVE BlocksOf(c, e) = BlocksOf(d, e)
    <3> DEFINE n == d.table[e.ino]
    <3>1. e.ino \in Ino /\ n.indirect \in Block
      BY <1>1, EntryParts
    <3>2. CASE n.indirect = 0
      BY <1>2, <3>2, SameBlocks
    <3>3. CASE n.indirect # 0
      <4>1. n.indirect \in Mine(d, e)
        BY <1>1, <3>3, TableIsMine
      <4>2. n.indirect # b
        BY <1>1, <4>1, BlocksAreBlocks
      <4>3. c.ptrs[n.indirect] = d.ptrs[n.indirect] /\ c.table = d.table
        BY <1>2, <3>1, <4>2
      <4> QED BY <4>3, SameBlocks
    <3> QED BY <3>2, <3>3
  <2> QED BY <1>2, <2>1 DEF SameFiles
<1> QED BY <1>2, <1>3, NothingOfFiles

\* A file gets blocks that the operation has taken.
LEMMA FileGrown ==
  ASSUME NEW d, NEW R, NEW I, Good(d, R, I), NEW e \in d.dir, NEW c \in Disks,
         c.dir = d.dir, c.blocks = d.blocks, c.inodes = d.inodes, c.bgd = d.bgd,
         \A f \in d.dir \ {e} : /\ BlocksOf(c, f) = BlocksOf(d, f)
                                /\ c.table[f.ino] = d.table[f.ino],
         c.table[e.ino].links = d.table[e.ino].links,
         IsPrefix(d.table[e.ino].direct, c.table[e.ino].direct),
         IsInjective(BlocksOf(c, e)),
         Mine(d, e) \subseteq Mine(c, e), Mine(c, e) \subseteq Mine(d, e) \cup R
  PROVE  /\ Good(c, R \ Mine(c, e), I) /\ Keeps(d, c)
         /\ Whole(d, R, I) => Whole(c, R \ Mine(c, e), I)
<1> DEFINE Q == R \ Mine(c, e)
<1>1. /\ d \in Disks /\ IsFiniteSet(d.dir) /\ Cardinality(d.dir) <= Room
      /\ R \in SUBSET Block /\ R \cap (Metadata \cup Reached(d)) = {}
      /\ Taken(d, R) \subseteq d.blocks
      /\ I \in SUBSET Ino /\ I \cap Inos(d) = {} /\ Inos(d) \cup I \subseteq d.inodes
      /\ Owned(d)
      /\ d.bgd.blks + Cardinality(Taken(d, R)) <= Blocks
      /\ d.bgd.inos + Cardinality(Inos(d) \cup I) <= Cardinality(Ino)
  BY DEF Good
<1>2. \A f \in d.dir \ {e} : Mine(c, f) = Mine(d, f)
  BY DEF Mine
<1>3. /\ Reached(d) = UNION {Mine(d, f) : f \in d.dir}
      /\ Reached(c) = UNION {Mine(c, f) : f \in d.dir}
  BY DEF Reached, Mine
<1>4. Reached(c) = Reached(d) \cup Mine(c, e)
  <2>1. ASSUME NEW b \in Reached(c) PROVE b \in Reached(d) \cup Mine(c, e)
    <3>1. PICK f \in d.dir : b \in Mine(c, f)
      BY <1>3
    <3> QED BY <1>2, <1>3, <3>1
  <2>2. ASSUME NEW b \in Reached(d) PROVE b \in Reached(c)
    <3>1. PICK f \in d.dir : b \in Mine(d, f)
      BY <1>3
    <3> QED BY <1>2, <1>3, <3>1
  <2>3. Mine(c, e) \subseteq Reached(c)
    BY <1>3
  <2> QED BY <2>1, <2>2, <2>3
<1>5. Inos(c) = Inos(d)
  BY DEF Inos
<1>6. Taken(c, Q) = Taken(d, R)
  <2>1. Mine(d, e) \subseteq Reached(d)
    BY <1>3
  <2> QED BY <1>4, <2>1 DEF Taken
<1>7. Q \cap (Metadata \cup Reached(c)) = {} /\ Q \subseteq Block
  BY <1>1, <1>4
<1>8. Owned(c)
  <2>1. /\ \A f \in d.dir : IsInjective(BlocksOf(d, f)) /\ Mine(d, f) \cap Metadata = {}
        /\ \A f, g \in d.dir : f # g => f.ino # g.ino /\ Mine(d, f) \cap Mine(d, g) = {}
    BY <1>1 DEF Owned
  <2>2. \A f \in d.dir : IsInjective(BlocksOf(c, f)) /\ Mine(c, f) \cap Metadata = {}
    BY <1>1, <1>2, <2>1
  <2>3. \A f \in d.dir \ {e} : Mine(c, e) \cap Mine(c, f) = {}
    <3> SUFFICES ASSUME NEW f \in d.dir \ {e} PROVE Mine(c, e) \cap Mine(d, f) = {}
      BY <1>2
    <3>1. Mine(d, f) \subseteq Reached(d) /\ Mine(d, e) \cap Mine(d, f) = {}
      BY <1>3, <2>1
    <3> QED BY <1>1, <3>1
  <2>4. ASSUME NEW f \in d.dir, NEW g \in d.dir, f # g
        PROVE  f.ino # g.ino /\ Mine(c, f) \cap Mine(c, g) = {}
    <3>1. CASE f = e
      BY <2>1, <2>3, <2>4, <3>1
    <3>2. CASE g = e
      BY <2>1, <2>3, <2>4, <3>2
    <3>3. CASE f # e /\ g # e
      BY <1>2, <2>1, <2>4, <3>3
    <3> QED BY <3>1, <3>2, <3>3
  <2> QED BY <2>2, <2>4 DEF Owned
<1>9. Keeps(d, c)
  <2> SUFFICES ASSUME NEW f \in d.dir \cap c.dir
               PROVE  /\ IsPrefix(d.table[f.ino].direct, c.table[f.ino].direct)
                      /\ Mine(d, f) \subseteq Mine(c, f)
    BY DEF Keeps
  <2>1. CASE f = e
    BY <2>1
  <2>2. CASE f # e
    <3>1. d.table[f.ino].direct \in Seq(Block)
      BY <1>1, EntryParts
    <3> QED BY <1>2, <2>2, <3>1, PrefixOfItself
  <2> QED BY <2>1, <2>2
<1> HIDE DEF Q
<1>10. Good(c, Q, I)
  BY <1>1, <1>5, <1>6, <1>7, <1>8 DEF Good
<1>11. Whole(d, R, I) => Whole(c, Q, I)
  <2>1. \A f \in d.dir : c.table[f.ino].links = d.table[f.ino].links
    OBVIOUS
  <2> QED BY <1>5, <1>6, <2>1 DEF Whole
<1> QED BY <1>9, <1>10, <1>11 DEF Q

\* An entry is made for an inode that the operation has taken.
LEMMA EntryAdded ==
  ASSUME NEW d, NEW R, NEW I, Good(d, R, I), NEW e \in Entry, e.ino \in I,
         Cardinality(d.dir) < Room, IsInjective(BlocksOf(d, e)), Mine(d, e) \subseteq R,
         NEW c, c = [d EXCEPT !.dir = d.dir \cup {e}]
  PROVE  /\ Good(c, R \ Mine(d, e), I \ {e.ino}) /\ Keeps(d, c)
         /\ Whole(d, R, I) /\ (e.kind = "file" => d.table[e.ino].links = 1) =>
              Whole(c, R \ Mine(d, e), I \ {e.ino})
<1> DEFINE Q == R \ Mine(d, e)
           J == I \ {e.ino}
<1>1. /\ d \in Disks /\ IsFiniteSet(d.dir) /\ Cardinality(d.dir) <= Room
      /\ R \in SUBSET Block /\ R \cap (Metadata \cup Reached(d)) = {}
      /\ Taken(d, R) \subseteq d.blocks
      /\ I \in SUBSET Ino /\ I \cap Inos(d) = {} /\ Inos(d) \cup I \subseteq d.inodes
      /\ Owned(d)
      /\ d.bgd.blks + Cardinality(Taken(d, R)) <= Blocks
      /\ d.bgd.inos + Cardinality(Inos(d) \cup I) <= Cardinality(Ino)
  BY DEF Good
<1>2. /\ c \in Disks /\ c.dir = d.dir \cup {e} /\ c.blocks = d.blocks /\ c.inodes = d.inodes
      /\ c.bgd = d.bgd /\ SameTables(d, c) /\ c.table = d.table
  <2> DEFINE D == d.dir \cup {e}
  <2>1. D \in SUBSET Entry /\ c = [d EXCEPT !.dir = D] /\ d \in Disks
    BY <1>1, DiskParts
  <2>2. /\ c \in Disks /\ c.dir = D /\ c.blocks = d.blocks /\ c.inodes = d.inodes
        /\ c.bgd = d.bgd /\ SameTables(d, c) /\ c.table = d.table
    <3> HIDE DEF D
    <3> QED BY ONLY <2>1, NewDir
  <2> QED BY <2>2
<1>3. /\ \A f : BlocksOf(c, f) = BlocksOf(d, f) /\ Mine(c, f) = Mine(d, f)
      /\ Keeps(d, c)
  BY <1>1, <1>2, SameTablesFacts
<1>4. e \notin d.dir
  BY <1>1 DEF Inos
<1>5. Inos(c) = Inos(d) \cup {e.ino} /\ Reached(c) = Reached(d) \cup Mine(d, e)
  <2>1. Inos(c) = Inos(d) \cup {e.ino}
    BY <1>2 DEF Inos
  <2>2. /\ Reached(d) = UNION {Mine(d, f) : f \in d.dir}
        /\ Reached(c) = UNION {Mine(c, f) : f \in c.dir}
    BY <1>1, <1>2, BlocksAreBlocks
  <2>3. {Mine(c, f) : f \in c.dir} = {Mine(d, f) : f \in d.dir} \cup {Mine(d, e)}
    BY <1>2, <1>3
  <2> QED BY <2>1, <2>2, <2>3
<1>6. /\ Taken(c, Q) = Taken(d, R) /\ Q \subseteq Block
      /\ Q \cap (Metadata \cup Reached(c)) = {}
  BY <1>1, <1>5 DEF Taken
<1>7. Inos(c) \cup J = Inos(d) \cup I /\ J \cap Inos(c) = {} /\ J \subseteq Ino
  BY <1>1, <1>5
<1>8. Owned(c)
  <2>1. /\ \A f \in d.dir : IsInjective(BlocksOf(d, f)) /\ Mine(d, f) \cap Metadata = {}
        /\ \A f, g \in d.dir : f # g => f.ino # g.ino /\ Mine(d, f) \cap Mine(d, g) = {}
    BY <1>1 DEF Owned
  <2>2. \A f \in d.dir : f.ino # e.ino /\ Mine(d, e) \cap Mine(d, f) = {}
    <3> SUFFICES ASSUME NEW f \in d.dir
                 PROVE  f.ino # e.ino /\ Mine(d, e) \cap Mine(d, f) = {}
      OBVIOUS
    <3>1. f.ino \in Inos(d)
      BY DEF Inos
    <3>2. Mine(d, f) \subseteq Reached(d)
      BY <1>1, BlocksAreBlocks
    <3> QED BY <1>1, <3>1, <3>2
  <2>3. IsInjective(BlocksOf(c, e)) /\ Mine(c, e) \cap Metadata = {}
    BY <1>1, <1>3
  <2>4. \A f \in c.dir : IsInjective(BlocksOf(c, f)) /\ Mine(c, f) \cap Metadata = {}
    BY <1>2, <1>3, <2>1, <2>3
  <2>5. ASSUME NEW f \in c.dir, NEW g \in c.dir, f # g
        PROVE  f.ino # g.ino /\ Mine(c, f) \cap Mine(c, g) = {}
    <3>1. CASE f = e
      <4>1. g \in d.dir
        BY <1>2, <2>5, <3>1
      <4> QED BY <1>3, <2>2, <3>1, <4>1
    <3>2. CASE g = e
      <4>1. f \in d.dir
        BY <1>2, <2>5, <3>2
      <4> QED BY <1>3, <2>2, <3>2, <4>1
    <3>3. CASE f # e /\ g # e
      BY <1>2, <1>3, <2>1, <2>5, <3>3
    <3> QED BY <3>1, <3>2, <3>3
  <2> QED BY <2>4, <2>5 DEF Owned
<1>9. IsFiniteSet(c.dir) /\ Cardinality(c.dir) <= Room
  <2>1. Cardinality(d.dir) \in Nat
    BY <1>1, FS_CardinalityType
  <2>2. IsFiniteSet(c.dir) /\ Cardinality(c.dir) = Cardinality(d.dir) + 1
    BY <1>1, <1>2, <1>4, FS_AddElement
  <2> QED BY <2>1, <2>2, Sizes
<1> HIDE DEF Q, J
<1>10. Good(c, Q, J)
  BY <1>1, <1>2, <1>6, <1>7, <1>8, <1>9 DEF Good
<1>11. ASSUME Whole(d, R, I), e.kind = "file" => d.table[e.ino].links = 1
       PROVE  Whole(c, Q, J)
  <2>1. \A f \in c.dir : f.kind = "file" => c.table[f.ino].links = 1
    BY <1>2, <1>11 DEF Whole
  <2> QED BY <1>2, <1>6, <1>7, <1>11, <2>1 DEF Whole
<1> QED BY <1>3, <1>10, <1>11 DEF Q, J

\* An entry is removed; the operation may have what it named.
LEMMA EntryRemoved ==
  ASSUME NEW d, Safe(d), NEW e \in d.dir,
         NEW R \in SUBSET Mine(d, e), NEW I \in SUBSET {e.ino},
         NEW c, c = [d EXCEPT !.dir = d.dir \ {e}]
  PROVE  /\ Good(c, R, I) /\ Keeps(d, c)
         /\ Whole(d, {}, {}) /\ R = Mine(d, e) /\ I = {e.ino} => Whole(c, R, I)
<1>1. /\ d \in Disks /\ IsFiniteSet(d.dir) /\ Cardinality(d.dir) <= Room
      /\ Taken(d, {}) \subseteq d.blocks
      /\ Inos(d) \subseteq d.inodes /\ Inos(d) \cup {} = Inos(d)
      /\ Owned(d)
      /\ d.bgd.blks + Cardinality(Taken(d, {})) <= Blocks
      /\ d.bgd.inos + Cardinality(Inos(d)) <= Cardinality(Ino)
  <2>1. Inos(d) \cup {} = Inos(d)
    OBVIOUS
  <2> QED BY <2>1 DEF Safe, Good
<1>2. /\ c \in Disks /\ c.dir = d.dir \ {e} /\ c.blocks = d.blocks /\ c.inodes = d.inodes
      /\ c.bgd = d.bgd /\ SameTables(d, c) /\ c.table = d.table
  <2> DEFINE D == d.dir \ {e}
  <2>1. D \in SUBSET Entry /\ c = [d EXCEPT !.dir = D] /\ d \in Disks
    BY <1>1, DiskParts
  <2>2. /\ c \in Disks /\ c.dir = D /\ c.blocks = d.blocks /\ c.inodes = d.inodes
        /\ c.bgd = d.bgd /\ SameTables(d, c) /\ c.table = d.table
    <3> HIDE DEF D
    <3> QED BY ONLY <2>1, NewDir
  <2> QED BY <2>2
<1>3. /\ \A f : BlocksOf(c, f) = BlocksOf(d, f) /\ Mine(c, f) = Mine(d, f)
      /\ Keeps(d, c)
  BY <1>1, <1>2, SameTablesFacts
<1>4. /\ Reached(d) = UNION {Mine(d, f) : f \in d.dir} /\ Reached(d) \subseteq Block
      /\ Reached(c) = UNION {Mine(d, f) : f \in c.dir}
      /\ Mine(d, e) \subseteq Block /\ e.ino \in Ino
  <2>1. /\ Reached(d) = UNION {Mine(d, f) : f \in d.dir} /\ Reached(d) \subseteq Block
        /\ Reached(c) = UNION {Mine(c, f) : f \in c.dir}
        /\ Mine(d, e) \subseteq Block
    BY <1>1, <1>2, BlocksAreBlocks
  <2>2. {Mine(c, f) : f \in c.dir} = {Mine(d, f) : f \in c.dir}
    BY <1>3
  <2>3. e.ino \in Ino
    BY <1>1, EntryParts
  <2> QED BY <2>1, <2>2, <2>3
<1>5. /\ \A f \in d.dir : IsInjective(BlocksOf(d, f)) /\ Mine(d, f) \cap Metadata = {}
      /\ \A f, g \in d.dir : f # g => f.ino # g.ino /\ Mine(d, f) \cap Mine(d, g) = {}
  BY <1>1 DEF Owned
<1>6. Reached(d) = Reached(c) \cup Mine(d, e) /\ Reached(c) \cap Mine(d, e) = {}
  <2>1. Reached(d) = Reached(c) \cup Mine(d, e)
    BY <1>2, <1>4
  <2>2. ASSUME NEW b \in Reached(c), b \in Mine(d, e) PROVE FALSE
    <3>1. PICK f \in d.dir \ {e} : b \in Mine(d, f)
      BY <1>2, <1>4, <2>2
    <3> QED BY <1>5, <2>2, <3>1
  <2> QED BY <2>1, <2>2
<1>7. Inos(d) = Inos(c) \cup {e.ino} /\ e.ino \notin Inos(c)
  <2>1. Inos(d) = Inos(c) \cup {e.ino}
    BY <1>2 DEF Inos
  <2>2. e.ino \notin Inos(c)
    BY <1>2, <1>5 DEF Inos
  <2> QED BY <2>1, <2>2
<1>8. Owned(c)
  <2>1. \A f \in c.dir : IsInjective(BlocksOf(c, f)) /\ Mine(c, f) \cap Metadata = {}
    BY <1>2, <1>3, <1>5
  <2>2. \A f, g \in c.dir : f # g => f.ino # g.ino /\ Mine(c, f) \cap Mine(c, g) = {}
    BY <1>2, <1>3, <1>5
  <2> QED BY <2>1, <2>2 DEF Owned
<1>9. IsFiniteSet(c.dir) /\ Cardinality(c.dir) <= Room
  <2>1. /\ IsFiniteSet(c.dir) /\ Cardinality(c.dir) <= Cardinality(d.dir)
        /\ Cardinality(c.dir) \in Nat /\ Cardinality(d.dir) \in Nat
    BY <1>1, <1>2, FS_Subset, FS_CardinalityType
  <2> QED BY <1>1, <2>1, Sizes
<1>10. /\ R \subseteq Block /\ R \cap (Metadata \cup Reached(c)) = {}
       /\ Taken(c, R) \subseteq Taken(d, {})
       /\ I \subseteq Ino /\ I \cap Inos(c) = {} /\ Inos(c) \cup I \subseteq Inos(d)
  <2>1. R \subseteq Block /\ R \cap (Metadata \cup Reached(c)) = {}
    BY <1>4, <1>5, <1>6
  <2>2. Taken(c, R) \subseteq Taken(d, {})
    BY <1>6 DEF Taken
  <2>3. I \subseteq Ino /\ I \cap Inos(c) = {} /\ Inos(c) \cup I \subseteq Inos(d)
    BY <1>4, <1>7
  <2> QED BY <2>1, <2>2, <2>3
<1>11. /\ c.bgd.blks + Cardinality(Taken(c, R)) <= Blocks
       /\ c.bgd.inos + Cardinality(Inos(c) \cup I) <= Cardinality(Ino)
  <2> DEFINE x == Cardinality(Taken(c, R))
             y == Cardinality(Taken(d, {}))
             m == Cardinality(Inos(c) \cup I)
             n == Cardinality(Inos(d))
             a == d.bgd.blks
             b == d.bgd.inos
  <2>1. x <= y /\ x \in Nat /\ y \in Nat
    <3>1. {} \in SUBSET Block /\ R \in SUBSET Block
      BY <1>10
    <3> QED BY <1>1, <1>2, <1>10, <3>1, TakenIsFinite, FS_Subset
  <2>2. m <= n /\ m \in Nat /\ n \in Nat
    <3>1. {} \in SUBSET Ino /\ I \in SUBSET Ino
      BY <1>10
    <3>2. IsFiniteSet(Inos(d)) /\ n \in Nat
      BY <1>1, <3>1, InosAreFinite
    <3> QED BY <1>2, <1>10, <3>1, <3>2, InosAreFinite, FS_Subset
  <2>3. /\ a \in Nat /\ b \in Nat /\ Blocks \in Nat /\ Cardinality(Ino) \in Nat
        /\ a + y <= Blocks /\ b + n <= Cardinality(Ino)
    BY <1>1, DiskParts, Sizes
  <2> HIDE DEF x, y, m, n, a, b
  <2>4. a + x <= Blocks /\ b + m <= Cardinality(Ino)
    BY <2>1, <2>2, <2>3
  <2> QED BY <1>2, <2>4 DEF x, m, a, b
<1>12. Good(c, R, I)
  BY <1>1, <1>2, <1>8, <1>9, <1>10, <1>11 DEF Good
<1>13. ASSUME Whole(d, {}, {}), R = Mine(d, e), I = {e.ino} PROVE Whole(c, R, I)
  <2>1. Taken(c, R) = Taken(d, {}) /\ Inos(c) \cup I = Inos(d) \cup {}
    BY <1>6, <1>7, <1>13 DEF Taken
  <2> QED BY <1>2, <1>13, <2>1 DEF Whole
<1> QED BY <1>3, <1>12, <1>13
-----------------------------------------------------------------------------
(***************************************************************************)
(* Taking blocks and inodes.                                               *)
(***************************************************************************)
LEMMA OtherList ==
  ASSUME NEW c, NEW p, Trail(c, p), NEW s \in Seq(Block), NEW q, q = [p EXCEPT !.list = s]
  PROVE  /\ Trail(c, q) /\ q.list = s /\ q.disk = p.disk /\ q.ok = p.ok
         /\ \A w \in BOOLEAN : \A R, I : Works(c, p, w, R, I) => Works(c, q, w, R, I)
<1>1. p \in Plans
  BY DEF Trail
<1>2. q \in Plans /\ q.list = s /\ q.disk = p.disk /\ q.ok = p.ok /\ q.todo = p.todo
  BY <1>1 DEF Plans
<1>3. Trail(c, q)
  BY <1>2 DEF Trail
<1> QED BY <1>2, <1>3 DEF Works

LEMMA Panicked ==
  ASSUME NEW c, NEW p, Trail(c, p), NEW q, q = [p EXCEPT !.ok = FALSE]
  PROVE  Trail(c, q) /\ q.ok = FALSE /\ \A w, R, I : Works(c, q, w, R, I)
<1>1. p \in Plans
  BY DEF Trail
<1>2. q \in Plans /\ q.disk = p.disk /\ q.ok = FALSE /\ q.todo = p.todo
  BY <1>1 DEF Plans
<1>3. Trail(c, q)
  BY <1>2 DEF Trail
<1> QED BY <1>2, <1>3 DEF Works

\* Nothing but the bitmaps and the counts differs.
SameNames(c, d) == d.dir = c.dir /\ SameTables(c, d)

\* Plan q is p with a block more, marked, counted and at the end of its list.
Allocated(c, p, q, w, R, I, b) ==
  /\ p.ok /\ b \in Block \ p.disk.blocks /\ q.list = Append(p.list, b)
  /\ Works(c, q, w, R \cup {b}, I)
  /\ SameNames(p.disk, q.disk) /\ q.disk.blocks = p.disk.blocks \cup {b}

LEMMA AllocBlock ==
  ASSUME NEW c, NEW p, NEW w \in BOOLEAN, NEW R, NEW I, Works(c, p, w, R, I),
         NEW q, q = alloc_block(p)
  PROVE  Trail(c, q) /\ (q.ok => \E b : Allocated(c, p, q, w, R, I, b))
<1>1. Trail(c, p) /\ p \in Plans /\ p.list \in Seq(Block) /\ p.disk \in Disks
  BY PlanParts DEF Works, Trail
<1>2. CASE ~ (p.ok /\ FreeBlocks(p) # {})
  <2>1. q = [p EXCEPT !.ok = FALSE]
    BY <1>2 DEF alloc_block
  <2> QED BY <1>1, <2>1, Panicked
<1>3. CASE p.ok /\ FreeBlocks(p) # {}
  <2> DEFINE b == Min(FreeBlocks(p))
             d1 == [p.disk EXCEPT !.blocks = p.disk.blocks \cup {b}]
             d2 == Counted(d1, -1, 0)
             p1 == Put(p, d1)
             p2 == Put(p1, d2)
  <2>1. p.disk.bgd.blks # 0 /\ b \in Block \ p.disk.blocks
    <3>1. p.disk.bgd.blks # 0 /\ FreeBlocks(p) = Block \ p.disk.blocks
      BY <1>3 DEF FreeBlocks
    <3>2. FreeBlocks(p) \in SUBSET Nat
      BY <3>1, Sizes
    <3> QED BY <1>3, <3>1, <3>2, MinIn
  <2>2. /\ Good(p.disk, R, I) /\ (w => Whole(p.disk, R, I))
        /\ d1 = [p.disk EXCEPT !.blocks = p.disk.blocks \cup {b}] /\ d2 = Counted(d1, -1, 0)
    BY <1>3 DEF Works
  <2>3. q = [p2 EXCEPT !.list = Append(@, b)]
    <3>1. PutBlocks(p, p.disk.blocks \cup {b}) = p1
      BY DEF PutBlocks
    <3>2. p1.disk = d1
      BY <1>1, <1>3, PutParts
    <3>3. PutCounts(p1, -1, 0) = p2
      BY <3>2 DEF PutCounts, Counted
    <3>4. q = [PutCounts(PutBlocks(p, p.disk.blocks \cup {b}), -1, 0)
                 EXCEPT !.list = Append(@, b)]
      BY <1>3 DEF alloc_block
    <3> QED BY <3>1, <3>3, <3>4
  <2> HIDE DEF b, d1, d2
  <2>4. /\ Good(d1, R, I) /\ Keeps(p.disk, d1) /\ Good(d2, R \cup {b}, I) /\ Keeps(d1, d2)
        /\ Whole(p.disk, R, I) => Whole(d2, R \cup {b}, I)
        /\ d2.dir = p.disk.dir /\ SameTables(p.disk, d2)
        /\ d2.blocks = p.disk.blocks \cup {b}
    BY ONLY <2>1, <2>2, BlockMarked
  <2>5. Trail(c, p1) /\ p1.ok /\ p1.disk = d1 /\ p1.list = p.list
    <3>1. Safe(d1)
      BY <2>4, GoodIsSafe
    <3> QED BY <1>1, <1>3, <2>4, <3>1, PutTrail, PutParts
  <2> HIDE DEF p1
  <2>6. Works(c, p2, w, R \cup {b}, I)
    <3>1. p1.ok => Good(d2, R \cup {b}, I) /\ Keeps(p1.disk, d2)
                   /\ (w => Whole(d2, R \cup {b}, I))
      BY <2>2, <2>4, <2>5
    <3> QED BY <2>5, <3>1, PutWorks
  <2>7. p2.disk = d2 /\ p2.list = p.list /\ p2.ok
    <3>1. p1 \in Plans
      BY <2>5 DEF Trail
    <3> QED BY <2>5, <3>1, PutParts
  <2> HIDE DEF p2
  <2>8. q = [p2 EXCEPT !.list = Append(p.list, b)] /\ Append(p.list, b) \in Seq(Block)
    <3>1. q = [p2 EXCEPT !.list = Append(p2.list, b)]
      BY <2>3
    <3>2. Append(p.list, b) \in Seq(Block)
      BY <1>1, <2>1, AppendProperties
    <3> QED BY <2>7, <3>1, <3>2
  <2> DEFINE s == Append(p.list, b)
  <2>9. s \in Seq(Block) /\ q = [p2 EXCEPT !.list = s] /\ Trail(c, p2)
    BY <2>6, <2>8 DEF Works
  <2> HIDE DEF s
  <2>10. /\ Trail(c, q) /\ q.list = s /\ q.disk = p2.disk
         /\ Works(c, p2, w, R \cup {b}, I) => Works(c, q, w, R \cup {b}, I)
    BY ONLY <2>9, OtherList, w \in BOOLEAN
  <2>11. Allocated(c, p, q, w, R, I, b)
    BY <1>3, <2>1, <2>4, <2>6, <2>7, <2>10 DEF Allocated, SameNames, s
  <2> QED BY <2>10, <2>11
<1> QED BY <1>2, <1>3

\* An inode more, marked and counted.
LEMMA AllocInode ==
  ASSUME NEW c, NEW p, NEW w \in BOOLEAN, NEW R, NEW I, Works(c, p, w, R, I), p.ok,
         NEW q, q = alloc_inode(p), NEW i, i = Min(FreeInodes(p))
  PROVE  /\ Trail(c, q)
         /\ q.ok => /\ i \in Ino \ p.disk.inodes /\ q.list = p.list
                    /\ Works(c, q, w, R, I \cup {i}) /\ SameNames(p.disk, q.disk)
<1>1. Trail(c, p) /\ p \in Plans /\ p.list \in Seq(Block) /\ p.disk \in Disks
  BY PlanParts DEF Works, Trail
<1>2. CASE FreeInodes(p) = {}
  <2>1. q = [p EXCEPT !.ok = FALSE]
    BY <1>2 DEF alloc_inode
  <2> QED BY <1>1, <2>1, Panicked
<1>3. CASE FreeInodes(p) # {}
  <2> DEFINE d1 == [p.disk EXCEPT !.inodes = p.disk.inodes \cup {i}]
             d2 == Counted(d1, 0, -1)
             p1 == Put(p, d1)
             p2 == Put(p1, d2)
  <2>1. p.disk.bgd.inos # 0 /\ i \in Ino \ p.disk.inodes
    <3>1. p.disk.bgd.inos # 0 /\ FreeInodes(p) = Ino \ p.disk.inodes
      BY <1>3 DEF FreeInodes
    <3>2. FreeInodes(p) \in SUBSET Nat
      BY <3>1, Sizes
    <3> QED BY <1>3, <3>1, <3>2, MinIn
  <2>2. /\ Good(p.disk, R, I) /\ (w => Whole(p.disk, R, I))
        /\ d1 = [p.disk EXCEPT !.inodes = p.disk.inodes \cup {i}] /\ d2 = Counted(d1, 0, -1)
    BY DEF Works
  <2>3. q = p2
    <3>1. PutInodes(p, p.disk.inodes \cup {i}) = p1
      BY DEF PutInodes
    <3>2. p1.disk = d1
      BY <1>1, PutParts
    <3>3. PutCounts(p1, 0, -1) = p2
      BY <3>2 DEF PutCounts, Counted
    <3>4. q = PutCounts(PutInodes(p, p.disk.inodes \cup {i}), 0, -1)
      BY <1>3 DEF alloc_inode
    <3> QED BY <3>1, <3>3, <3>4
  <2> HIDE DEF d1, d2
  <2>4. /\ Good(d1, R, I) /\ Keeps(p.disk, d1) /\ Good(d2, R, I \cup {i}) /\ Keeps(d1, d2)
        /\ Whole(p.disk, R, I) => Whole(d2, R, I \cup {i})
        /\ d2.dir = p.disk.dir /\ SameTables(p.disk, d2)
    BY ONLY <2>1, <2>2, InodeMarked
  <2>5. Trail(c, p1) /\ p1.ok /\ p1.disk = d1 /\ p1.list = p.list
    <3>1. Safe(d1)
      BY <2>4, GoodIsSafe
    <3> QED BY <1>1, <2>4, <3>1, PutTrail, PutParts
  <2> HIDE DEF p1
  <2>6. Works(c, p2, w, R, I \cup {i})
    <3>1. p1.ok => Good(d2, R, I \cup {i}) /\ Keeps(p1.disk, d2)
                   /\ (w => Whole(d2, R, I \cup {i}))
      BY <2>2, <2>4, <2>5
    <3> QED BY <2>5, <3>1, PutWorks
  <2>7. p2.disk = d2 /\ p2.list = p.list
    <3>1. p1 \in Plans
      BY <2>5 DEF Trail
    <3> QED BY <2>5, <3>1, PutParts
  <2> HIDE DEF p2
  <2> QED BY <2>1, <2>3, <2>4, <2>6, <2>7 DEF SameNames, Works
<1> QED BY <1>2, <1>3

\* A block less, unmarked and counted; free_inode is alike.
LEMMA FreeBlock ==
  ASSUME NEW c, NEW p, NEW w \in BOOLEAN, NEW R, NEW I, Works(c, p, w, R, I), NEW b \in R,
         NEW q, q = free_block(p, b)
  PROVE  Works(c, q, w, R \ {b}, I)
<1>1. Trail(c, p) /\ p \in Plans /\ p.disk \in Disks
  BY PlanParts DEF Works, Trail
<1> DEFINE d1 == [p.disk EXCEPT !.blocks = p.disk.blocks \ {b}]
           p1 == Put(p, d1)
<1>2. q = PutCounts(p1, 1, 0)
  BY DEF free_block, PutBlocks
<1>3. CASE ~p.ok
  <2>1. p1 = p
    BY <1>1, <1>3, PutParts
  <2>2. q = p
    <3>1. q = Put(p, Counted(p.disk, 1, 0))
      BY <1>2, <2>1 DEF PutCounts, Counted
    <3> QED BY <1>1, <1>3, <3>1, PutParts
  <2> QED BY <1>1, <1>3, <2>2 DEF Works
<1>4. CASE p.ok
  <2> DEFINE d2 == Counted(d1, 1, 0)
  <2>1. /\ Good(p.disk, R, I) /\ (w => Whole(p.disk, R, I)) /\ b \in R
        /\ d1 = [p.disk EXCEPT !.blocks = p.disk.blocks \ {b}] /\ d2 = Counted(d1, 1, 0)
    BY <1>4 DEF Works
  <2>2. q = Put(p1, d2)
    <3>1. p1.disk = d1
      BY <1>1, <1>4, PutParts
    <3> QED BY <1>2, <3>1 DEF PutCounts, Counted
  <2> HIDE DEF d1, d2
  <2>3. /\ Good(d1, R \ {b}, I) /\ Keeps(p.disk, d1) /\ Good(d2, R \ {b}, I) /\ Keeps(d1, d2)
        /\ Whole(p.disk, R, I) => Whole(d2, R \ {b}, I)
    BY ONLY <2>1, BlockUnmarked
  <2>4. Trail(c, p1) /\ p1.ok /\ p1.disk = d1
    <3>1. Safe(d1)
      BY <2>3, GoodIsSafe
    <3> QED BY <1>1, <1>4, <2>3, <3>1, PutTrail, PutParts
  <2> HIDE DEF p1
  <2>5. p1.ok => Good(d2, R \ {b}, I) /\ Keeps(p1.disk, d2) /\ (w => Whole(d2, R \ {b}, I))
    BY <2>1, <2>3, <2>4
  <2> QED BY <2>2, <2>4, <2>5, PutWorks
<1> QED BY <1>1, <1>3, <1>4, PlanParts

LEMMA FreeInode ==
  ASSUME NEW c, NEW p, NEW w \in BOOLEAN, NEW R, NEW I, Works(c, p, w, R, I), NEW i \in I,
         p.ok, NEW q, q = free_inode(p, i)
  PROVE  Works(c, q, w, R, I \ {i}) /\ q.ok /\ SameNames(p.disk, q.disk)
<1>1. Trail(c, p) /\ p \in Plans /\ p.disk \in Disks
  BY PlanParts DEF Works, Trail
<1> DEFINE d1 == [p.disk EXCEPT !.inodes = p.disk.inodes \ {i}]
           p1 == Put(p, d1)
           d2 == Counted(d1, 0, 1)
<1>2. q = PutCounts(p1, 0, 1)
  BY DEF free_inode, PutInodes
<1>3. /\ Good(p.disk, R, I) /\ (w => Whole(p.disk, R, I)) /\ i \in I
      /\ d1 = [p.disk EXCEPT !.inodes = p.disk.inodes \ {i}] /\ d2 = Counted(d1, 0, 1)
  BY DEF Works
<1>4. q = Put(p1, d2)
  <2>1. p1.disk = d1
    BY <1>1, PutParts
  <2> QED BY <1>2, <2>1 DEF PutCounts, Counted
<1> HIDE DEF d1, d2
<1>5. /\ Good(d1, R, I \ {i}) /\ Keeps(p.disk, d1) /\ Good(d2, R, I \ {i}) /\ Keeps(d1, d2)
      /\ Whole(p.disk, R, I) => Whole(d2, R, I \ {i})
      /\ d2.dir = p.disk.dir /\ SameTables(p.disk, d2)
  BY ONLY <1>3, InodeUnmarked
<1>6. Trail(c, p1) /\ p1.ok /\ p1.disk = d1
  <2>1. Safe(d1)
    BY <1>5, GoodIsSafe
  <2> QED BY <1>1, <1>5, <2>1, PutTrail, PutParts
<1> HIDE DEF p1
<1>7. Works(c, q, w, R, I \ {i})
  <2>1. p1.ok => Good(d2, R, I \ {i}) /\ Keeps(p1.disk, d2) /\ (w => Whole(d2, R, I \ {i}))
    BY <1>3, <1>5, <1>6
  <2> QED BY <1>4, <1>6, <2>1, PutWorks
<1>8. q.disk = d2 /\ q.ok
  <2>1. p1 \in Plans
    BY <1>6 DEF Trail
  <2> QED BY <1>4, <1>6, <2>1, PutParts
<1> QED BY <1>5, <1>7, <1>8 DEF SameNames

(***************************************************************************)
(* The loops: the plan after k of its rounds, for every k.                 *)
(***************************************************************************)
LEMMA FreeAllRounds ==
  ASSUME NEW p, NEW s, NEW m \in Nat, m = Len(s)
  PROVE  \E g : /\ free_all(p, s) = g[m] /\ g[0] = p
                /\ \A k \in 1..m : g[k] = free_block(g[k - 1], s[k])
<1> DEFINE Is(g, n) ==
             g = [k \in 0..n |-> IF k = 0 THEN p ELSE free_block(g[k - 1], s[k])]
           T == {n \in Nat : \E g : Is(g, n)}
<1>1. 0 \in T
  <2> DEFINE g == [k \in 0..0 |-> p]
  <2>1. Is(g, 0)
    OBVIOUS
  <2> QED BY <2>1
<1>2. ASSUME NEW n \in T PROVE n + 1 \in T
  <2>1. PICK g : Is(g, n)
    OBVIOUS
  <2> DEFINE h == [k \in 0..(n + 1) |-> IF k = n + 1 THEN free_block(g[n], s[k]) ELSE g[k]]
  <2>2. ASSUME NEW k \in 0..(n + 1)
        PROVE  h[k] = IF k = 0 THEN p ELSE free_block(h[k - 1], s[k])
    <3>1. CASE k = n + 1
      BY <3>1
    <3>2. CASE k \in 0..n /\ k # 0
      <4>1. h[k] = g[k] /\ h[k - 1] = g[k - 1]
        BY <3>2
      <4>2. g[k] = free_block(g[k - 1], s[k])
        <5> HIDE DEF h
        <5> QED BY <2>1, <3>2
      <4> QED BY <3>2, <4>1, <4>2
    <3>3. CASE k = 0
      <4>1. h[0] = g[0]
        OBVIOUS
      <4>2. g[0] = p
        <5> HIDE DEF h
        <5> QED BY <2>1
      <4> QED BY <3>3, <4>1, <4>2
    <3> QED BY <3>1, <3>2, <3>3
  <2>3. Is(h, n + 1)
    BY <2>2
  <2>4. n + 1 \in Nat
    OBVIOUS
  <2> HIDE DEF h, Is
  <2> QED BY <2>3, <2>4
<1>3. \E g : Is(g, m)
  <2> HIDE DEF T
  <2>0. T \in SUBSET Nat
    BY DEF T
  <2>1. m \in T
    BY <1>1, <1>2, <2>0, NatSetInduction
  <2> QED BY <2>1 DEF T
<1> DEFINE f == CHOOSE g : Is(g, m)
<1>4. free_all(p, s) = f[m]
  BY DEF free_all
<1>5. Is(f, m)
  BY <1>3
<1> HIDE DEF f
<1>6. f[0] = p
  BY <1>5
<1>7. \A k \in 1..m : f[k] = free_block(f[k - 1], s[k])
  BY <1>5
<1> QED BY <1>4, <1>6, <1>7

LEMMA FreeAll ==
  ASSUME NEW c, NEW p, NEW w \in BOOLEAN, NEW I, NEW s \in Seq(Block), IsInjective(s),
         Works(c, p, w, ToSet(s), I), NEW q, q = free_all(p, s)
  PROVE  Works(c, q, w, {}, I)
<1> DEFINE m == Len(s)
           Left(k) == {s[j] : j \in k + 1..m}
<1>1. m \in Nat /\ m = Len(s)
  BY LenProperties
<1>2. PICK g : /\ q = g[m] /\ g[0] = p
               /\ \A k \in 1..m : g[k] = free_block(g[k - 1], s[k])
  <2> HIDE DEF m
  <2> QED BY <1>1, FreeAllRounds
<1> DEFINE T == {n \in Nat : n <= m => Works(c, g[n], w, Left(n), I)}
<1>3. 0 \in T
  <2>1. Left(0) = ToSet(s)
    BY <1>1, Members
  <2> QED BY <1>2, <2>1
<1>4. ASSUME NEW n \in T PROVE n + 1 \in T
  <2>1. n \in Nat /\ n + 1 \in Nat
    OBVIOUS
  <2> SUFFICES ASSUME n + 1 <= m PROVE Works(c, g[n + 1], w, Left(n + 1), I)
    BY <2>1
  <2>2. Works(c, g[n], w, Left(n), I) /\ n + 1 \in 1..m /\ (n + 1) - 1 = n
    BY <1>1
  <2>3. g[n + 1] = free_block(g[n], s[n + 1])
    BY <1>2, <2>2
  <2>4. s[n + 1] \in Left(n) /\ Left(n + 1) = Left(n) \ {s[n + 1]}
    <3>1. \A i, j \in 1..m : s[i] = s[j] => i = j
      BY <1>1, Members
    <3>2. \A j \in n + 1..m : j \in 1..m /\ (j = n + 1 \/ j \in (n + 1) + 1..m)
      BY <1>1, <2>1
    <3>3. \A j \in (n + 1) + 1..m : j \in n + 1..m /\ j # n + 1 /\ j \in 1..m
      BY <1>1, <2>1
    <3>4. n + 1 \in n + 1..m
      BY <1>1, <2>2
    <3> HIDE DEF m
    <3>5. s[n + 1] \in Left(n)
      BY <3>4
    <3>6. Left(n + 1) \subseteq Left(n) \ {s[n + 1]}
      <4> SUFFICES ASSUME NEW j \in (n + 1) + 1..m
                   PROVE  s[j] \in Left(n) /\ s[j] # s[n + 1]
        OBVIOUS
      <4> QED BY <2>2, <3>1, <3>3
    <3>7. Left(n) \ {s[n + 1]} \subseteq Left(n + 1)
      <4> SUFFICES ASSUME NEW j \in n + 1..m, s[j] # s[n + 1] PROVE s[j] \in Left(n + 1)
        OBVIOUS
      <4> QED BY <3>2
    <3> QED BY <3>5, <3>6, <3>7
  <2> HIDE DEF Left, m
  <2> QED BY <2>2, <2>3, <2>4, FreeBlock
<1>5. m \in T
  <2> HIDE DEF T
  <2>1. T \in SUBSET Nat
    BY DEF T
  <2> QED BY <1>1, <1>3, <1>4, <2>1, NatSetInduction
<1>6. Left(m) = {}
  BY <1>1
<1> HIDE DEF Left, m
<1>7. Works(c, g[m], w, Left(m), I)
  BY <1>1, <1>5
<1>8. Works(c, q, w, Left(m), I)
  BY <1>2, <1>7
<1> QED BY <1>6, <1>8

LEMMA AllocRounds ==
  ASSUME NEW p, NEW m \in Nat
  PROVE  \E g : /\ alloc_blocks(p, m) = g[m] /\ g[0] = p
                /\ \A k \in 1..m : g[k] = alloc_block(g[k - 1])
<1> DEFINE Is(g, n) ==
             g = [k \in 0..n |-> IF k = 0 THEN p ELSE alloc_block(g[k - 1])]
           T == {n \in Nat : \E g : Is(g, n)}
<1>1. 0 \in T
  <2> DEFINE g == [k \in 0..0 |-> p]
  <2>1. Is(g, 0)
    OBVIOUS
  <2> QED BY <2>1
<1>2. ASSUME NEW n \in T PROVE n + 1 \in T
  <2>1. PICK g : Is(g, n)
    OBVIOUS
  <2> DEFINE h == [k \in 0..(n + 1) |-> IF k = n + 1 THEN alloc_block(g[n]) ELSE g[k]]
  <2>2. ASSUME NEW k \in 0..(n + 1)
        PROVE  h[k] = IF k = 0 THEN p ELSE alloc_block(h[k - 1])
    <3>1. CASE k = n + 1
      BY <3>1
    <3>2. CASE k \in 0..n /\ k # 0
      <4>1. h[k] = g[k] /\ h[k - 1] = g[k - 1]
        BY <3>2
      <4>2. g[k] = alloc_block(g[k - 1])
        <5> HIDE DEF h
        <5> QED BY <2>1, <3>2
      <4> QED BY <3>2, <4>1, <4>2
    <3>3. CASE k = 0
      <4>1. h[0] = g[0]
        OBVIOUS
      <4>2. g[0] = p
        <5> HIDE DEF h
        <5> QED BY <2>1
      <4> QED BY <3>3, <4>1, <4>2
    <3> QED BY <3>1, <3>2, <3>3
  <2>3. Is(h, n + 1)
    BY <2>2
  <2>4. n + 1 \in Nat
    OBVIOUS
  <2> HIDE DEF h, Is
  <2> QED BY <2>3, <2>4
<1>3. \E g : Is(g, m)
  <2> HIDE DEF T
  <2>0. T \in SUBSET Nat
    BY DEF T
  <2>1. m \in T
    BY <1>1, <1>2, <2>0, NatSetInduction
  <2> QED BY <2>1 DEF T
<1> DEFINE f == CHOOSE g : Is(g, m)
<1>4. alloc_blocks(p, m) = f[m]
  BY DEF alloc_blocks
<1>5. Is(f, m)
  BY <1>3
<1> HIDE DEF f
<1>6. f[0] = p
  BY <1>5
<1>7. \A k \in 1..m : f[k] = alloc_block(f[k - 1])
  BY <1>5
<1> QED BY <1>4, <1>6, <1>7

LEMMA InsertRounds ==
  ASSUME NEW p, NEW m \in Nat, m = Blocks + 1,
         NEW e, ~ (Cardinality(p.disk.dir) < Room)
  PROVE  \E g : /\ insert_directory_entry(p, e) = g[m] /\ g[0] = p
                /\ \A k \in 1..m : g[k] = another_block(g[k - 1])
<1> DEFINE Is(g, n) ==
             g = [k \in 0..n |-> IF k = 0 THEN p ELSE another_block(g[k - 1])]
           T == {n \in Nat : \E g : Is(g, n)}
<1>1. 0 \in T
  <2> DEFINE g == [k \in 0..0 |-> p]
  <2>1. Is(g, 0)
    OBVIOUS
  <2> QED BY <2>1
<1>2. ASSUME NEW n \in T PROVE n + 1 \in T
  <2>1. PICK g : Is(g, n)
    OBVIOUS
  <2> DEFINE h == [k \in 0..(n + 1) |-> IF k = n + 1 THEN another_block(g[n]) ELSE g[k]]
  <2>2. ASSUME NEW k \in 0..(n + 1)
        PROVE  h[k] = IF k = 0 THEN p ELSE another_block(h[k - 1])
    <3>1. CASE k = n + 1
      BY <3>1
    <3>2. CASE k \in 0..n /\ k # 0
      <4>1. h[k] = g[k] /\ h[k - 1] = g[k - 1]
        BY <3>2
      <4>2. g[k] = another_block(g[k - 1])
        <5> HIDE DEF h
        <5> QED BY <2>1, <3>2
      <4> QED BY <3>2, <4>1, <4>2
    <3>3. CASE k = 0
      <4>1. h[0] = g[0]
        OBVIOUS
      <4>2. g[0] = p
        <5> HIDE DEF h
        <5> QED BY <2>1
      <4> QED BY <3>3, <4>1, <4>2
    <3> QED BY <3>1, <3>2, <3>3
  <2>3. Is(h, n + 1)
    BY <2>2
  <2>4. n + 1 \in Nat
    OBVIOUS
  <2> HIDE DEF h, Is
  <2> QED BY <2>3, <2>4
<1>3. \E g : Is(g, m)
  <2> HIDE DEF T
  <2>0. T \in SUBSET Nat
    BY DEF T
  <2>1. m \in T
    BY <1>1, <1>2, <2>0, NatSetInduction
  <2> QED BY <2>1 DEF T
<1> DEFINE f == CHOOSE g : Is(g, m)
<1>4. insert_directory_entry(p, e) = f[m]
  BY DEF insert_directory_entry
<1>5. Is(f, m)
  BY <1>3
<1> HIDE DEF f
<1>6. f[0] = p
  BY <1>5
<1>7. \A k \in 1..m : f[k] = another_block(f[k - 1])
  BY <1>5
<1> QED BY <1>4, <1>6, <1>7


\* Plan q is p with the blocks of a list more, at the end of its own.
Grown(c, p, q, w, R, I, new) ==
  /\ p.ok /\ new \in Seq(Block) /\ IsInjective(new) /\ ToSet(new) \cap p.disk.blocks = {}
  /\ q.list = p.list \o new
  /\ Works(c, q, w, R \cup ToSet(new), I)
  /\ SameNames(p.disk, q.disk) /\ q.disk.blocks = p.disk.blocks \cup ToSet(new)

LEMMA NotGrown ==
  ASSUME NEW c, NEW p, NEW w, NEW R, NEW I, Works(c, p, w, R, I), p.ok
  PROVE  Grown(c, p, p, w, R, I, <<>>)
<1>1. p.list \in Seq(Block) /\ p.list \o <<>> = p.list
  BY PlanParts, ConcatEmptySeq DEF Works, Trail
<1>2. R \cup ToSet(<<>>) = R /\ p.disk.blocks \cup ToSet(<<>>) = p.disk.blocks
  BY EmptyList
<1>3. SameNames(p.disk, p.disk)
  BY DEF SameNames, SameTables
<1> QED BY <1>1, <1>2, <1>3, EmptyList DEF Grown

LEMMA GrownFurther ==
  ASSUME NEW c, NEW p, p \in Plans, NEW q, NEW r, NEW w, NEW R, NEW I, NEW new, NEW b,
         Grown(c, p, q, w, R, I, new), Allocated(c, q, r, w, R \cup ToSet(new), I, b)
  PROVE  Grown(c, p, r, w, R, I, Append(new, b))
<1> DEFINE u == Append(new, b)
           v == <<b>>
<1>1. /\ new \in Seq(Block) /\ IsInjective(new) /\ ToSet(new) \cap p.disk.blocks = {}
      /\ q.list = p.list \o new /\ p.ok
      /\ SameNames(p.disk, q.disk) /\ q.disk.blocks = p.disk.blocks \cup ToSet(new)
  BY DEF Grown
<1>2. /\ b \in Block \ q.disk.blocks /\ r.list = Append(q.list, b)
      /\ Works(c, r, w, (R \cup ToSet(new)) \cup {b}, I)
      /\ SameNames(q.disk, r.disk) /\ r.disk.blocks = q.disk.blocks \cup {b}
  BY DEF Allocated
<1>3. /\ u = new \o v /\ u \in Seq(Block)
      /\ v \in Seq(Block) /\ ToSet(v) = {b} /\ IsInjective(v)
      /\ \A s \in Seq(Block) : Append(s, b) = s \o v
  BY <1>1, <1>2, LongerList, OneInList
<1> HIDE DEF v
<1>4. ToSet(u) = ToSet(new) \cup {b} /\ IsInjective(u)
  <2>1. ToSet(new) \cap ToSet(v) = {}
    BY <1>1, <1>2, <1>3
  <2>2. /\ ToSet(new \o v) = ToSet(new) \cup ToSet(v)
        /\ IsInjective(new \o v) <=>
             IsInjective(new) /\ IsInjective(v) /\ ToSet(new) \cap ToSet(v) = {}
    BY <1>1, <1>3, JoinedLists
  <2> HIDE DEF u
  <2> QED BY <1>1, <1>3, <2>1, <2>2
<1>5. r.list = p.list \o u
  <2> DEFINE l == p.list
  <2>1. l \in Seq(Block) /\ l = p.list
    BY PlanParts
  <2>2. new \in Seq(Block) /\ v \in Seq(Block)
    BY <1>1, <1>3
  <2> HIDE DEF l, u
  <2>3. (l \o new) \o v = l \o (new \o v)
    <3>1. Associate(l, new, v)
      BY <2>1, <2>2, ListsAssociate
    <3> QED BY ONLY <3>1 DEF Associate
  <2>4. l \o new \in Seq(Block)
    BY ONLY <2>1, <2>2, JoinedLists
  <2>5. r.list = Append(l \o new, b)
    BY <1>1, <1>2, <2>1
  <2>6. r.list = (l \o new) \o v
    BY <1>3, <2>4, <2>5
  <2> QED BY <1>3, <2>1, <2>3, <2>6
<1> HIDE DEF u
<1>6. R \cup ToSet(u) = (R \cup ToSet(new)) \cup {b}
  BY <1>4
<1>7. ToSet(u) \cap p.disk.blocks = {} /\ r.disk.blocks = p.disk.blocks \cup ToSet(u)
  BY <1>1, <1>2, <1>4
<1>8. SameNames(p.disk, r.disk)
  BY <1>1, <1>2 DEF SameNames, SameTables
<1> QED BY <1>1, <1>2, <1>3, <1>4, <1>5, <1>6, <1>7, <1>8 DEF Grown, u

LEMMA AllocBlocks ==
  ASSUME NEW c, NEW p, NEW w \in BOOLEAN, NEW R, NEW I, Works(c, p, w, R, I),
         NEW m \in Nat, NEW q, q = alloc_blocks(p, m)
  PROVE  Trail(c, q) /\ (q.ok => \E new : Grown(c, p, q, w, R, I, new))
<1>1. PICK g : q = g[m] /\ g[0] = p /\ \A k \in 1..m : g[k] = alloc_block(g[k - 1])
  BY AllocRounds
<1>2. Trail(c, p) /\ p \in Plans
  BY DEF Works, Trail
<1> DEFINE Holds(r) == Trail(c, r) /\ (r.ok => \E new : Grown(c, p, r, w, R, I, new))
           T == {n \in Nat : n <= m => Holds(g[n])}
<1>3. 0 \in T
  <2>1. Holds(p)
    BY <1>2, NotGrown
  <2> HIDE DEF Holds
  <2> QED BY <1>1, <2>1
<1>4. ASSUME NEW n \in T PROVE n + 1 \in T
  <2>1. n \in Nat /\ n + 1 \in Nat
    OBVIOUS
  <2> SUFFICES ASSUME n + 1 <= m PROVE Holds(g[n + 1])
    BY <2>1
  <2>2. n + 1 \in 1..m /\ (n + 1) - 1 = n /\ n <= m
    BY <2>1
  <2> DEFINE r == g[n]
             s == g[n + 1]
  <2>3. s = alloc_block(r) /\ Holds(r)
    BY <1>1, <2>2
  <2> HIDE DEF r, s, T
  <2>4. CASE r.ok
    <3>1. PICK new : Grown(c, p, r, w, R, I, new)
      BY <2>3, <2>4
    <3>2. Works(c, r, w, R \cup ToSet(new), I)
      BY <3>1 DEF Grown
    <3>3. Trail(c, s) /\ (s.ok => \E b : Allocated(c, r, s, w, R \cup ToSet(new), I, b))
      BY <2>3, <3>2, AllocBlock
    <3>4. s.ok => \E b : Grown(c, p, s, w, R, I, Append(new, b))
      BY <1>2, <3>1, <3>3, GrownFurther
    <3> QED BY <3>3, <3>4 DEF s
  <2>5. CASE ~r.ok
    <3>1. Works(c, r, w, R, I)
      BY <2>3, <2>5 DEF Works
    <3>2. Trail(c, s) /\ (s.ok => \E b : Allocated(c, r, s, w, R, I, b))
      BY <2>3, <3>1, AllocBlock
    <3>3. ~s.ok
      BY <2>5, <3>2 DEF Allocated
    <3> QED BY <3>2, <3>3 DEF s
  <2>6. r.ok \in BOOLEAN
    BY <2>3, PlanParts DEF Trail
  <2> QED BY <2>4, <2>5, <2>6
<1>5. m \in T
  <2> HIDE DEF T
  <2>1. T \in SUBSET Nat
    BY DEF T
  <2> QED BY <1>3, <1>4, <2>1, NatSetInduction
<1> QED BY <1>1, <1>5

LEMMA Extension ==
  ASSUME NEW c, NEW p, NEW w \in BOOLEAN, NEW R, NEW I, Works(c, p, w, R, I),
         NEW n \in Nat, NEW q, q = Extended(p, n)
  PROVE  Trail(c, q) /\ (q.ok => \E new : Grown(c, p, q, w, R, I, new))
<1>1. Trail(c, p) /\ p.list \in Seq(Block) /\ Len(p.list) \in Nat
  BY PlanParts, LenProperties DEF Works, Trail
<1>2. CASE n > Len(p.list)
  <2> DEFINE m == n - Len(p.list)
  <2>1. m \in Nat
    BY <1>1, <1>2
  <2>2. q = alloc_blocks(p, m)
    BY <1>2 DEF Extended
  <2> HIDE DEF m
  <2> QED BY <2>1, <2>2, AllocBlocks
<1>3. CASE ~ (n > Len(p.list))
  <2>1. q = p
    BY <1>3 DEF Extended
  <2> QED BY <1>1, <2>1, NotGrown
<1> QED BY <1>2, <1>3
-----------------------------------------------------------------------------
(***************************************************************************)
(* Writes of a plan into what it has taken.                                *)
(***************************************************************************)
LEMMA TableWritten ==
  ASSUME NEW c, NEW p, NEW w \in BOOLEAN, NEW R, NEW I, Works(c, p, w, R, I),
         NEW b, NEW s, p.ok => b \in R /\ s \in Seq(Block),
         NEW q, q = PutPtrs(p, b, s)
  PROVE  /\ Works(c, q, w, R, I) /\ q.ok = p.ok /\ q.list = p.list
         /\ p.ok => q.disk = WithPtrs(p.disk, b, s)
<1> DEFINE d == WithPtrs(p.disk, b, s)
<1>1. q = Put(p, d)
  BY DEF PutPtrs, WithPtrs
<1>2. /\ Trail(c, p) /\ p \in Plans
      /\ p.ok => Good(p.disk, R, I) /\ (w => Whole(p.disk, R, I))
  BY DEF Works, Trail
<1>3. d = WithPtrs(p.disk, b, s)
  OBVIOUS
<1> HIDE DEF d
<1>4. ASSUME p.ok PROVE Good(d, R, I) /\ Keeps(p.disk, d) /\ (w => Whole(d, R, I))
  BY <1>2, <1>3, <1>4, FreshTable
<1>5. Works(c, q, w, R, I)
  BY <1>1, <1>2, <1>4, PutWorks
<1>6. q.ok = p.ok /\ q.list = p.list /\ (p.ok => q.disk = d)
  BY <1>1, <1>2, PutParts
<1> QED BY <1>3, <1>5, <1>6

LEMMA InodeWritten ==
  ASSUME NEW c, NEW p, NEW w \in BOOLEAN, NEW R, NEW I, Works(c, p, w, R, I),
         NEW i, NEW n, p.ok => i \in I /\ n \in Inode,
         NEW q, q = write_inode(p, i, n)
  PROVE  /\ Works(c, q, w, R, I) /\ q.ok = p.ok /\ q.list = p.list
         /\ p.ok => q.disk.table[i] = n /\ q.disk.dir = p.disk.dir
<1> DEFINE d == WithInode(p.disk, i, n)
<1>1. q = Put(p, d)
  BY DEF write_inode, WithInode
<1>2. /\ Trail(c, p) /\ p \in Plans
      /\ p.ok => Good(p.disk, R, I) /\ (w => Whole(p.disk, R, I))
  BY DEF Works, Trail
<1>3. d = WithInode(p.disk, i, n)
  OBVIOUS
<1> HIDE DEF d
<1>4. ASSUME p.ok
      PROVE  /\ Good(d, R, I) /\ Keeps(p.disk, d) /\ (w => Whole(d, R, I))
             /\ d.dir = p.disk.dir /\ d.table[i] = n
  BY <1>2, <1>3, <1>4, FreshInode
<1>5. Works(c, q, w, R, I)
  BY <1>1, <1>2, <1>4, PutWorks
<1>6. q.ok = p.ok /\ q.list = p.list /\ (p.ok => q.disk = d)
  BY <1>1, <1>2, PutParts
<1> QED BY <1>4, <1>5, <1>6

-----------------------------------------------------------------------------
(***************************************************************************)
(* A directory entry.  Without room for it the disk is filled up.          *)
(***************************************************************************)
LEMMA AnotherBlock ==
  ASSUME NEW c, NEW p, NEW w \in BOOLEAN, NEW R, NEW I, Works(c, p, w, R, I),
         NEW q, q = another_block(p)
  PROVE  Trail(c, q) /\ (q.ok => \E b \in Block \ R : Works(c, q, w, R \cup {b}, I))
<1> DEFINE a == alloc_block(p)
           z == Last(a.list)
           e == <<>>
<1>1. q = PutPtrs(a, z, e)
  BY DEF another_block, zero_block
<1>2. e \in Seq(Block) /\ a = alloc_block(p) /\ z = Last(a.list)
  BY EmptyList
<1> HIDE DEF a, z, e
<1>3. Trail(c, a) /\ (a.ok => \E b : Allocated(c, p, a, w, R, I, b))
  BY <1>2, AllocBlock
<1>4. Trail(c, p) /\ p \in Plans /\ (p.ok => Good(p.disk, R, I)) /\ a \in Plans
  BY <1>3 DEF Works, Trail
<1>5. CASE ~a.ok
  <2>1. Works(c, a, w, R, I)
    BY <1>3, <1>5 DEF Works
  <2>2. Works(c, q, w, R, I) /\ q.ok = a.ok
    BY <1>1, <1>5, <2>1, TableWritten
  <2> QED BY <1>5, <2>2 DEF Works
<1>6. CASE a.ok
  <2>1. PICK b : Allocated(c, p, a, w, R, I, b)
    BY <1>3, <1>6
  <2>2. /\ p.ok /\ b \in Block \ p.disk.blocks /\ a.list = Append(p.list, b)
        /\ Works(c, a, w, R \cup {b}, I)
    BY <2>1 DEF Allocated
  <2>3. p.list \in Seq(Block) /\ Len(p.list) \in Nat
    BY <1>4, PlanParts, LenProperties
  <2>4. z = b
    <3>1. Len(a.list) = Len(p.list) + 1 /\ a.list[Len(p.list) + 1] = b
      BY <2>2, <2>3, LongerList
    <3> QED BY <1>2, <3>1 DEF Last
  <2>5. b \in R \cup {b}
    OBVIOUS
  <2>6. Works(c, q, w, R \cup {b}, I)
    BY <1>1, <1>2, <2>2, <2>4, <2>5, TableWritten
  <2>7. b \notin R
    BY <1>4, <2>2 DEF Good, Taken
  <2> QED BY <2>2, <2>6, <2>7 DEF Works
<1>7. a.ok \in BOOLEAN
  BY <1>4, PlanParts
<1> QED BY <1>5, <1>6, <1>7

LEMMA PanicLasts ==
  ASSUME NEW c, NEW p, Trail(c, p), ~p.ok, NEW q, q = another_block(p)
  PROVE  ~q.ok
<1> DEFINE a == alloc_block(p)
           z == Last(a.list)
           e == <<>>
<1>1. q = PutPtrs(a, z, e) /\ a = [p EXCEPT !.ok = FALSE]
  BY DEF another_block, zero_block, alloc_block
<1> HIDE DEF a, z, e
<1>2. Trail(c, a) /\ a.ok = FALSE
  BY <1>1, Panicked
<1> QED BY <1>1, <1>2 DEF PutPtrs, Put

LEMMA NoRoom ==
  ASSUME NEW c, NEW p, NEW w \in BOOLEAN, NEW R, NEW I, Works(c, p, w, R, I),
         NEW e, ~ (Cardinality(p.disk.dir) < Room),
         NEW q, q = insert_directory_entry(p, e)
  PROVE  Trail(c, q) /\ ~q.ok
<1> DEFINE m == Blocks + 1
<1>0. m \in Nat /\ m = Blocks + 1
  BY Sizes
<1> HIDE DEF m
<1>1. PICK g : q = g[m] /\ g[0] = p /\ \A k \in 1..m : g[k] = another_block(g[k - 1])
  <2>1. ~ (Cardinality(p.disk.dir) < Room)
    OBVIOUS
  <2>2. \E g : /\ insert_directory_entry(p, e) = g[m] /\ g[0] = p
               /\ \A k \in 1..m : g[k] = another_block(g[k - 1])
    BY ONLY <1>0, <2>1, InsertRounds
  <2> QED BY <2>2
<1> DEFINE Has(r, n, S) == Works(c, r, w, S, I) /\ (S \in SUBSET Block => Cardinality(S) >= n)
           Holds(r, n) == Trail(c, r) /\ (r.ok => \E S : Has(r, n, S))
           T == {n \in Nat : n <= m => Holds(g[n], n)}
<1>2. 0 \in T
  <2>1. R \in SUBSET Block => Cardinality(R) >= 0
    <3> HAVE R \in SUBSET Block
    <3>1. IsFiniteSet(R)
      BY Sizes, FS_Subset
    <3> QED BY <3>1, FS_CardinalityType
  <2>2. Has(p, 0, R)
    BY <2>1
  <2>3. Holds(p, 0)
    <3> HIDE DEF Has
    <3> QED BY <2>2 DEF Works
  <2> HIDE DEF Holds
  <2> QED BY <1>1, <2>3
<1>3. ASSUME NEW n \in T PROVE n + 1 \in T
  <2>1. n \in Nat /\ n + 1 \in Nat
    OBVIOUS
  <2> SUFFICES ASSUME n + 1 <= m PROVE Holds(g[n + 1], n + 1)
    BY <2>1
  <2>2. n + 1 \in 1..m /\ (n + 1) - 1 = n /\ n <= m
    BY <1>0, <2>1
  <2> DEFINE r == g[n]
             s == g[n + 1]
  <2>3. s = another_block(r) /\ Holds(r, n)
    BY <1>1, <2>2
  <2> HIDE DEF r, s, T
  <2>4. CASE r.ok
    <3>1. PICK S : Has(r, n, S)
      BY <2>3, <2>4
    <3>2. Works(c, r, w, S, I)
      BY <3>1
    <3>3. Trail(c, s) /\ (s.ok => \E b \in Block \ S : Works(c, s, w, S \cup {b}, I))
      BY <2>3, <3>2, AnotherBlock
    <3>4. S \subseteq Block
      BY <2>4, <3>2 DEF Works, Good
    <3>5. IsFiniteSet(S) /\ Cardinality(S) \in Nat /\ Cardinality(S) >= n
      BY <3>1, <3>4, Sizes, FS_Subset, FS_CardinalityType
    <3>6. ASSUME NEW b \in Block \ S, Works(c, s, w, S \cup {b}, I)
          PROVE  Has(s, n + 1, S \cup {b})
      <4>1. Cardinality(S \cup {b}) = Cardinality(S) + 1
        BY <3>5, FS_AddElement
      <4>2. Cardinality(S \cup {b}) >= n + 1
        BY <2>1, <3>5, <4>1
      <4> QED BY <3>6, <4>2
    <3> HIDE DEF Has
    <3> QED BY <3>3, <3>6 DEF s
  <2>5. CASE ~r.ok
    <3>1. Works(c, r, w, R, I)
      BY <2>3, <2>5 DEF Works
    <3>2. Trail(c, s) /\ (s.ok => \E b \in Block \ R : Works(c, s, w, R \cup {b}, I))
      BY <2>3, <3>1, AnotherBlock
    <3>3. ~s.ok
      BY <2>3, <2>5, PanicLasts
    <3> QED BY <3>2, <3>3 DEF s
  <2>6. r.ok \in BOOLEAN
    BY <2>3, PlanParts DEF Trail
  <2> QED BY <2>4, <2>5, <2>6
<1>4. Holds(q, m)
  <2>1. m \in T
    <3> HIDE DEF T
    <3>1. T \in SUBSET Nat
      BY DEF T
    <3> QED BY <1>0, <1>2, <1>3, <3>1, NatSetInduction
  <2> HIDE DEF Holds
  <2> QED BY <1>0, <1>1, <2>1
<1>5. ASSUME q.ok PROVE FALSE
  <2>1. PICK S : Has(q, m, S)
    BY <1>4, <1>5
  <2>2. S \subseteq Block
    BY <1>5, <2>1 DEF Works, Good
  <2>3. Cardinality(S) >= m
    BY <2>1, <2>2
  <2>4. Cardinality(S) <= Blocks /\ Cardinality(S) \in Nat
    BY <2>2, Sizes, FS_Subset, FS_CardinalityType
  <2> QED BY <1>0, <2>3, <2>4, Sizes
<1> QED BY <1>4, <1>5

LEMMA EntryInserted ==
  ASSUME NEW c, NEW p, NEW w \in BOOLEAN, NEW R, NEW I, Works(c, p, w, R, I), NEW e,
         p.ok => /\ e \in Entry /\ e.ino \in I
                 /\ IsInjective(BlocksOf(p.disk, e)) /\ Mine(p.disk, e) \subseteq R,
         p.ok => /\ R = Mine(p.disk, e) /\ I = {e.ino}
                 /\ e.kind = "file" => p.disk.table[e.ino].links = 1,
         NEW q, q = insert_directory_entry(p, e)
  PROVE  Works(c, q, w, {}, {})
<1>1. CASE ~ (Cardinality(p.disk.dir) < Room)
  <2>1. Trail(c, q) /\ ~q.ok
    BY <1>1, NoRoom
  <2> QED BY <2>1 DEF Works
<1>2. CASE Cardinality(p.disk.dir) < Room
  <2> DEFINE d == [p.disk EXCEPT !.dir = p.disk.dir \cup {e}]
  <2>1. q = Put(p, d) /\ d = [p.disk EXCEPT !.dir = p.disk.dir \cup {e}]
    BY <1>2 DEF insert_directory_entry, PutDir
  <2> HIDE DEF d
  <2>2. Trail(c, p) /\ (p.ok => Good(p.disk, R, I) /\ (w => Whole(p.disk, R, I)))
    BY DEF Works
  <2>3. ASSUME p.ok
        PROVE  Good(d, {}, {}) /\ Keeps(p.disk, d) /\ (w => Whole(d, {}, {}))
    <3>1. Good(p.disk, R, I) /\ e \in Entry /\ e.ino \in I /\ Cardinality(p.disk.dir) < Room
      BY <1>2, <2>2, <2>3
    <3>2. IsInjective(BlocksOf(p.disk, e)) /\ Mine(p.disk, e) \subseteq R
      BY <2>3
    <3> DEFINE x == p.disk
    <3>3. d = [x EXCEPT !.dir = x.dir \cup {e}]
      BY <2>1
    <3>4. /\ Good(x, R, I) /\ Cardinality(x.dir) < Room
          /\ IsInjective(BlocksOf(x, e)) /\ Mine(x, e) \subseteq R
      BY <3>1, <3>2
    <3> HIDE DEF x
    <3>5. /\ Good(d, R \ Mine(x, e), I \ {e.ino}) /\ Keeps(x, d)
          /\ Whole(x, R, I) /\ (e.kind = "file" => x.table[e.ino].links = 1) =>
               Whole(d, R \ Mine(x, e), I \ {e.ino})
      BY ONLY <3>1, <3>3, <3>4, EntryAdded
    <3>6. R \ Mine(x, e) = {} /\ I \ {e.ino} = {}
      BY <2>3 DEF x
    <3> QED BY <2>2, <2>3, <3>5, <3>6 DEF x
  <2> QED BY <2>1, <2>2, <2>3, PutWorks
<1> QED BY <1>1, <1>2
-----------------------------------------------------------------------------
(***************************************************************************)
(* The operations: each begins with an empty plan and ends with one that   *)
(* leaves no block and no inode in its hands.                              *)
(***************************************************************************)
LEMMA EmptyPlan ==
  ASSUME DiskInv, Idle
  PROVE  /\ Works(disk, Plan, intact, {}, {}) /\ Trail(disk, Plan) /\ Plan \in Plans
         /\ Plan.ok /\ Plan.disk = disk /\ Plan.list = <<>> /\ Plan.todo = <<>>
         /\ intact \in BOOLEAN
<1>1. disk \in Disks /\ Safe(disk) /\ intact \in BOOLEAN
      /\ (intact => Whole(disk, {}, {}))
  BY GoodIsSafe DEF DiskInv, Idle, Final, Safe
<1>2. Plan.ok /\ Plan.disk = disk /\ Plan.list = <<>> /\ Plan.todo = <<>>
  BY DEF Plan
<1>3. Plan \in Plans
  BY <1>1, EmptyList DEF Plan, Plans
<1>4. Chain(disk, <<>>)
  BY EmptyList DEF Chain
<1>5. Trail(disk, Plan)
  BY <1>2, <1>3, <1>4 DEF Trail, Final
<1>6. Works(disk, Plan, intact, {}, {})
  BY <1>1, <1>2, <1>5 DEF Works, Safe
<1> QED BY <1>1, <1>2, <1>3, <1>5, <1>6

LEMMA Planned ==
  ASSUME DiskInv, NEW p, Works(disk, p, intact', {}, {}), Do(p), intact' \in BOOLEAN
  PROVE  DiskInv'
<1>1. /\ disk' = disk /\ restarts' = restarts /\ todo' = p.todo /\ panic' = ~p.ok
  BY DEF Do
<1>2. /\ p.ok \in BOOLEAN /\ p.disk = Final(disk, p.todo) /\ Chain(disk, p.todo)
      /\ p.ok => (intact' => Whole(p.disk, {}, {}))
  BY PlanParts DEF Works, Trail
<1>3. Safe(disk) /\ restarts \in 0..Restarts
  BY DEF DiskInv
<1>4. Safe(disk') /\ Chain(disk', todo') /\ restarts' \in 0..Restarts
  BY <1>1, <1>2, <1>3
<1>5. panic' \in BOOLEAN
  BY <1>1, <1>2
<1>6. ASSUME intact', ~panic' PROVE Whole(Final(disk', todo'), {}, {})
  BY <1>1, <1>2, <1>6
<1> QED BY <1>4, <1>5, <1>6 DEF DiskInv

LEMMA MakeFile ==
  ASSUME DiskInv, NEW name \in Name, make_file(name)
  PROVE  DiskInv'
<1> DEFINE i == Min(FreeInodes(Plan))
           p == alloc_inode(Plan)
           n == [NoInode EXCEPT !.links = 1]
           q == write_inode(p, i, n)
           e == [name |-> name, kind |-> "file", ino |-> i]
           r == insert_directory_entry(q, e)
<1>1. Idle /\ Do(r) /\ intact' = intact
  BY DEF make_file
<1>2. /\ Works(disk, Plan, intact, {}, {}) /\ Plan.ok /\ intact \in BOOLEAN
  BY <1>1, EmptyPlan
<1>3. n \in Inode /\ n.links = 1 /\ n.direct = <<>> /\ n.indirect = 0
  <2>1. n = [links |-> 1, direct |-> <<>>, indirect |-> 0]
    BY DEF NoInode
  <2>2. <<>> \in Seq(Block) /\ 0 \in Block
    BY EmptyList, Sizes
  <2> HIDE DEF n
  <2> QED BY <2>1, <2>2 DEF Inode
<1>4. e.ino = i /\ e.kind = "file" /\ (i \in Ino => e \in Entry)
  BY DEF Entry, Kind
<1>5. p = alloc_inode(Plan) /\ i = Min(FreeInodes(Plan)) /\ q = write_inode(p, i, n)
      /\ r = insert_directory_entry(q, e)
  OBVIOUS
<1> HIDE DEF i, p, n, q, e, r
<1>6. Trail(disk, p) /\ (p.ok => i \in Ino /\ Works(disk, p, intact, {}, {} \cup {i}))
  BY <1>2, <1>5, AllocInode
<1>7. Works(disk, p, intact, {}, {i})
  <2>1. {} \cup {i} = {i}
    OBVIOUS
  <2> QED BY <1>6, <2>1 DEF Works
<1>8. p.ok => i \in {i} /\ n \in Inode
  BY <1>3
<1>9. /\ Works(disk, q, intact, {}, {i}) /\ q.ok = p.ok
      /\ p.ok => q.disk.table[i] = n
  BY <1>2, <1>5, <1>7, <1>8, InodeWritten
<1>10. ASSUME q.ok
       PROVE  /\ e \in Entry /\ IsInjective(BlocksOf(q.disk, e)) /\ Mine(q.disk, e) = {}
              /\ q.disk.table[e.ino].links = 1
  <2>1. q.disk \in Disks
    BY <1>9, <1>10, GoodIsSafe DEF Works
  <2>2. e \in Entry /\ e.ino \in Ino /\ q.disk.table[e.ino] = n
    BY <1>4, <1>6, <1>9, <1>10
  <2>3. q.disk.table[e.ino].indirect = 0 /\ q.disk.table[e.ino].direct = <<>>
    BY <1>3, <2>2
  <2>4. BlocksOf(q.disk, e) = <<>>
    BY <2>1, <2>2, <2>3, FileOfPointers
  <2> QED BY <1>3, <2>2, <2>4, EmptyList DEF Mine
<1>11. Works(disk, r, intact, {}, {})
  <2>1. /\ q.ok => /\ e \in Entry /\ e.ino \in {i}
                   /\ IsInjective(BlocksOf(q.disk, e)) /\ Mine(q.disk, e) \subseteq {}
        /\ q.ok => /\ {} = Mine(q.disk, e) /\ {i} = {e.ino}
                   /\ e.kind = "file" => q.disk.table[e.ino].links = 1
    BY <1>4, <1>10
  <2> QED BY <1>2, <1>5, <1>9, <2>1, EntryInserted
<1> QED BY <1>1, <1>2, <1>11, Planned

LEMMA MakeDir ==
  ASSUME DiskInv, NEW name \in Name, make_dir(name)
  PROVE  DiskInv'
<1> DEFINE i == Min(FreeInodes(Plan))
           o == alloc_inode(Plan)
           p == alloc_block(o)
           n == [links |-> 2, direct |-> p.list, indirect |-> 0]
           q == write_inode(p, i, n)
           e == [name |-> name, kind |-> "dir", ino |-> i]
           r == insert_directory_entry(q, e)
<1>1. Idle /\ Do(r) /\ intact' = intact
  BY DEF make_dir
<1>2. /\ Works(disk, Plan, intact, {}, {}) /\ Plan.ok /\ Plan.list = <<>>
      /\ intact \in BOOLEAN
  BY <1>1, EmptyPlan
<1>3. (p.list \in Seq(Block) => n \in Inode) /\ n.direct = p.list /\ n.indirect = 0
  BY Sizes DEF Inode
<1>4. e.ino = i /\ e.kind = "dir" /\ (i \in Ino => e \in Entry)
  BY DEF Entry, Kind
<1>5. o = alloc_inode(Plan) /\ i = Min(FreeInodes(Plan)) /\ p = alloc_block(o)
      /\ q = write_inode(p, i, n) /\ r = insert_directory_entry(q, e)
  OBVIOUS
<1> HIDE DEF i, o, p, n, q, e, r
<1>6. /\ Trail(disk, o)
      /\ o.ok => /\ i \in Ino /\ Works(disk, o, intact, {}, {} \cup {i})
                 /\ o.list = Plan.list
  <2> DEFINE x == Plan
             z == {}
  <2>1. x.ok /\ Works(disk, x, intact, z, z) /\ intact \in BOOLEAN
        /\ o = alloc_inode(x) /\ i = Min(FreeInodes(x))
    BY <1>2, <1>5
  <2> HIDE DEF x, z
  <2>2. /\ Trail(disk, o)
        /\ o.ok => /\ i \in Ino \ x.disk.inodes /\ o.list = x.list
                   /\ Works(disk, o, intact, z, z \cup {i})
    BY ONLY <2>1, AllocInode
  <2> QED BY <2>2 DEF x, z
<1>7. Works(disk, o, intact, {}, {i})
  <2>1. {} \cup {i} = {i}
    OBVIOUS
  <2> QED BY <1>6, <2>1 DEF Works
<1>8. Trail(disk, p) /\ (p.ok => \E b : Allocated(disk, o, p, intact, {}, {i}, b))
  BY <1>2, <1>5, <1>7, AllocBlock
<1>9. PICK R : /\ Works(disk, p, intact, R, {i})
               /\ p.ok => /\ o.ok /\ p.list \in Seq(Block) /\ R = ToSet(p.list)
                          /\ IsInjective(p.list)
  <2>1. CASE ~p.ok
    BY <1>8, <2>1 DEF Works
  <2>2. CASE p.ok
    <3>1. PICK b : Allocated(disk, o, p, intact, {}, {i}, b)
      BY <1>8, <2>2
    <3>2. /\ o.ok /\ b \in Block /\ p.list = Append(o.list, b)
          /\ Works(disk, p, intact, {} \cup {b}, {i})
      BY <3>1 DEF Allocated
    <3>3. o.list = <<>>
      BY <1>2, <1>6, <3>2
    <3>4. p.list = <<b>>
      BY <3>2, <3>3
    <3>5. {} \cup {b} = {b}
      OBVIOUS
    <3>6. p.list \in Seq(Block) /\ ToSet(p.list) = {b} /\ IsInjective(p.list)
      BY <3>2, <3>4, OneInList
    <3> QED BY <3>2, <3>5, <3>6
  <2> QED BY <2>1, <2>2
<1>10. p.ok => i \in {i} /\ n \in Inode
  BY <1>3, <1>9
<1>11. /\ Works(disk, q, intact, R, {i}) /\ q.ok = p.ok
       /\ p.ok => q.disk.table[i] = n
  BY <1>2, <1>5, <1>9, <1>10, InodeWritten
<1>12. ASSUME q.ok
       PROVE  e \in Entry /\ IsInjective(BlocksOf(q.disk, e)) /\ Mine(q.disk, e) = R
  <2>1. q.disk \in Disks
    BY <1>11, <1>12, GoodIsSafe DEF Works
  <2>2. e \in Entry /\ e.ino \in Ino /\ q.disk.table[e.ino] = n
    BY <1>4, <1>6, <1>9, <1>11, <1>12
  <2>3. q.disk.table[e.ino].indirect = 0 /\ q.disk.table[e.ino].direct = p.list
    BY <1>3, <2>2
  <2>4. BlocksOf(q.disk, e) = p.list
    BY <2>1, <2>2, <2>3, FileOfPointers
  <2> QED BY <1>9, <1>11, <1>12, <2>2, <2>4 DEF Mine
<1>13. Works(disk, r, intact, {}, {})
  <2>1. /\ q.ok => /\ e \in Entry /\ e.ino \in {i}
                   /\ IsInjective(BlocksOf(q.disk, e)) /\ Mine(q.disk, e) \subseteq R
        /\ q.ok => /\ R = Mine(q.disk, e) /\ {i} = {e.ino}
                   /\ e.kind = "file" => q.disk.table[e.ino].links = 1
    BY <1>4, <1>12
  <2> QED BY <1>2, <1>5, <1>11, <2>1, EntryInserted
<1> QED BY <1>1, <1>2, <1>13, Planned
-----------------------------------------------------------------------------
(***************************************************************************)
(* A file takes new blocks: as direct pointers, in the table that it has,  *)
(* in a table that it has not had before.                                  *)
(***************************************************************************)
LEMMA NodeParts ==
  ASSUME NEW d \in Disks, NEW e, e.ino \in Ino
  PROVE  /\ NodeOf(d, e) \in Inode /\ NodeOf(d, e).direct \in Seq(Block)
         /\ NodeOf(d, e).indirect \in Block /\ TableOf(d, e) \in Seq(Block)
<1>1. d.table \in [Ino -> Inode] /\ d.ptrs \in [Block -> Seq(Block)]
  BY DiskParts
<1>2. NodeOf(d, e) \in Inode
  BY <1>1 DEF NodeOf
<1>3. NodeOf(d, e).direct \in Seq(Block) /\ NodeOf(d, e).indirect \in Block
  BY <1>2, InodeParts
<1> QED BY <1>1, <1>2, <1>3 DEF TableOf

\* File e has its blocks and those of S on disk c.
Enlarged(d, c, e, S) ==
  /\ IsPrefix(NodeOf(d, e).direct, NodeOf(c, e).direct)
  /\ IsInjective(BlocksOf(c, e)) /\ Mine(c, e) = Mine(d, e) \cup S

\* Blocks that are new to file e of disk d, each of them once.
New(d, e, new) ==
  /\ d \in Disks /\ e.ino \in Ino /\ new \in Seq(Block) /\ IsInjective(new)
  /\ IsInjective(BlocksOf(d, e)) /\ ToSet(new) \cap Mine(d, e) = {}

LEMMA DirectGrown ==
  ASSUME NEW d, NEW c \in Disks, NEW e, NEW new, New(d, e, new),
         NodeOf(c, e).direct = NodeOf(d, e).direct \o new,
         NodeOf(c, e).indirect = NodeOf(d, e).indirect, c.ptrs = d.ptrs
  PROVE  Enlarged(d, c, e, ToSet(new))
<1>0. /\ d \in Disks /\ e.ino \in Ino /\ new \in Seq(Block) /\ IsInjective(new)
      /\ IsInjective(BlocksOf(d, e)) /\ ToSet(new) \cap Mine(d, e) = {}
  BY DEF New
<1> DEFINE s == NodeOf(d, e).direct
           u == NodeOf(c, e).direct
           b == NodeOf(d, e).indirect
           t == TableOf(d, e)
<1>1. /\ u = s \o new /\ NodeOf(c, e).indirect = b /\ TableOf(c, e) = t
      /\ s \in Seq(Block) /\ b \in Block /\ t \in Seq(Block)
  BY <1>0, NodeParts DEF TableOf
<1>2. /\ b = 0 => BlocksOf(d, e) = s /\ Mine(d, e) = ToSet(s)
      /\ b = 0 => BlocksOf(c, e) = u /\ Mine(c, e) = ToSet(u)
  BY <1>0, <1>1, FileOfPointers DEF NodeOf
<1>3. b # 0 => /\ Mine(d, e) = ToSet(s) \cup ToSet(t) \cup {b}
               /\ IsInjective(BlocksOf(d, e)) <=>
                    /\ IsInjective(s) /\ IsInjective(t) /\ b \notin ToSet(t)
                    /\ ToSet(s) \cap (ToSet(t) \cup {b}) = {}
  BY <1>0, FileWithTable
<1>4. b # 0 => /\ Mine(c, e) = ToSet(u) \cup ToSet(t) \cup {b}
               /\ IsInjective(BlocksOf(c, e)) <=>
                    /\ IsInjective(u) /\ IsInjective(t) /\ b \notin ToSet(t)
                    /\ ToSet(u) \cap (ToSet(t) \cup {b}) = {}
  <2>1. b # 0 => NodeOf(c, e).indirect # 0
    BY <1>1
  <2>2. b # 0 => /\ Mine(c, e) = ToSet(NodeOf(c, e).direct) \cup ToSet(TableOf(c, e))
                                  \cup {NodeOf(c, e).indirect}
                 /\ IsInjective(BlocksOf(c, e)) <=>
                      /\ IsInjective(NodeOf(c, e).direct) /\ IsInjective(TableOf(c, e))
                      /\ NodeOf(c, e).indirect \notin ToSet(TableOf(c, e))
                      /\ ToSet(NodeOf(c, e).direct)
                           \cap (ToSet(TableOf(c, e)) \cup {NodeOf(c, e).indirect}) = {}
    BY <1>0, <2>1, FileWithTable
  <2> QED BY <1>1, <2>2
<1> HIDE DEF s, u, b, t
<1>5. /\ ToSet(u) = ToSet(s) \cup ToSet(new) /\ IsPrefix(s, u)
      /\ IsInjective(u) <=> IsInjective(s) /\ IsInjective(new) /\ ToSet(s) \cap ToSet(new) = {}
  BY <1>0, <1>1, JoinedLists
<1>6. IsInjective(BlocksOf(c, e)) /\ Mine(c, e) = Mine(d, e) \cup ToSet(new)
  <2>1. CASE b = 0
    BY <1>0, <1>2, <1>5, <2>1
  <2>2. CASE b # 0
    BY <1>0, <1>3, <1>4, <1>5, <2>2
  <2> QED BY <2>1, <2>2
<1> QED BY <1>5, <1>6 DEF Enlarged, s, u

LEMMA TableGrown ==
  ASSUME NEW d, NEW c \in Disks, NEW e, NEW new, New(d, e, new),
         NodeOf(c, e) = NodeOf(d, e), NodeOf(d, e).indirect # 0,
         TableOf(c, e) = TableOf(d, e) \o new
  PROVE  Enlarged(d, c, e, ToSet(new))
<1>0. /\ d \in Disks /\ e.ino \in Ino /\ new \in Seq(Block) /\ IsInjective(new)
      /\ IsInjective(BlocksOf(d, e)) /\ ToSet(new) \cap Mine(d, e) = {}
  BY DEF New
<1> DEFINE s == NodeOf(d, e).direct
           b == NodeOf(d, e).indirect
           t == TableOf(d, e)
           u == TableOf(c, e)
<1>1. /\ u = t \o new /\ b # 0 /\ NodeOf(c, e).indirect = b /\ NodeOf(c, e).direct = s
      /\ s \in Seq(Block) /\ b \in Block /\ t \in Seq(Block)
  BY <1>0, NodeParts
<1>3. /\ Mine(d, e) = ToSet(s) \cup ToSet(t) \cup {b}
      /\ IsInjective(BlocksOf(d, e)) <=>
           /\ IsInjective(s) /\ IsInjective(t) /\ b \notin ToSet(t)
           /\ ToSet(s) \cap (ToSet(t) \cup {b}) = {}
  BY <1>0, FileWithTable
<1>4. /\ Mine(c, e) = ToSet(s) \cup ToSet(u) \cup {b}
      /\ IsInjective(BlocksOf(c, e)) <=>
           /\ IsInjective(s) /\ IsInjective(u) /\ b \notin ToSet(u)
           /\ ToSet(s) \cap (ToSet(u) \cup {b}) = {}
  <2>2. /\ Mine(c, e) = ToSet(NodeOf(c, e).direct) \cup ToSet(u) \cup {NodeOf(c, e).indirect}
        /\ IsInjective(BlocksOf(c, e)) <=>
             /\ IsInjective(NodeOf(c, e).direct) /\ IsInjective(u)
             /\ NodeOf(c, e).indirect \notin ToSet(u)
             /\ ToSet(NodeOf(c, e).direct)
                  \cap (ToSet(u) \cup {NodeOf(c, e).indirect}) = {}
    BY <1>0, FileWithTable
  <2> QED BY <1>1, <2>2
<1> HIDE DEF s, u, b, t
<1>5. /\ ToSet(u) = ToSet(t) \cup ToSet(new)
      /\ IsInjective(u) <=> IsInjective(t) /\ IsInjective(new) /\ ToSet(t) \cap ToSet(new) = {}
  BY <1>0, <1>1, JoinedLists
<1>6. IsPrefix(s, s)
  BY <1>1, PrefixOfItself
<1> QED BY <1>0, <1>1, <1>3, <1>4, <1>5, <1>6 DEF Enlarged, s

LEMMA TableAdded ==
  ASSUME NEW d, NEW c \in Disks, NEW e, NEW new, New(d, e, new), NEW b \in Block \ {0},
         NodeOf(d, e).indirect = 0, NodeOf(c, e).indirect = b,
         NodeOf(c, e).direct = NodeOf(d, e).direct \o new,
         NEW t, t = TableOf(c, e), New(d, e, t), b \notin ToSet(t) \cup ToSet(new) \cup Mine(d, e),
         ToSet(new) \cap ToSet(t) = {}
  PROVE  Enlarged(d, c, e, ToSet(new) \cup ToSet(t) \cup {b})
<1>0. /\ d \in Disks /\ e.ino \in Ino /\ new \in Seq(Block) /\ IsInjective(new)
      /\ IsInjective(BlocksOf(d, e)) /\ ToSet(new) \cap Mine(d, e) = {}
      /\ t \in Seq(Block) /\ IsInjective(t) /\ ToSet(t) \cap Mine(d, e) = {}
  BY DEF New
<1> DEFINE s == NodeOf(d, e).direct
           u == NodeOf(c, e).direct
<1>1. u = s \o new /\ NodeOf(c, e).indirect = b /\ b # 0
      /\ s \in Seq(Block)
  BY <1>0, NodeParts
<1>2. BlocksOf(d, e) = s /\ Mine(d, e) = ToSet(s)
  BY <1>0, <1>1, FileOfPointers DEF NodeOf
<1>4. /\ Mine(c, e) = ToSet(u) \cup ToSet(t) \cup {b}
      /\ IsInjective(BlocksOf(c, e)) <=>
           /\ IsInjective(u) /\ IsInjective(t) /\ b \notin ToSet(t)
           /\ ToSet(u) \cap (ToSet(t) \cup {b}) = {}
  <2>1. NodeOf(c, e).indirect # 0
    BY <1>1
  <2>2. /\ Mine(c, e) = ToSet(u) \cup ToSet(t) \cup {NodeOf(c, e).indirect}
        /\ IsInjective(BlocksOf(c, e)) <=>
             /\ IsInjective(u) /\ IsInjective(t)
             /\ NodeOf(c, e).indirect \notin ToSet(t)
             /\ ToSet(u) \cap (ToSet(t) \cup {NodeOf(c, e).indirect}) = {}
    BY <1>0, <2>1, FileWithTable
  <2> QED BY <1>1, <2>2
<1>7. /\ IsInjective(t) /\ b \notin ToSet(t) /\ ToSet(new) \cap (ToSet(t) \cup {b}) = {}
      /\ Mine(d, e) \cap (ToSet(new) \cup ToSet(t) \cup {b}) = {}
  BY <1>0
<1> HIDE DEF s, u
<1>5. /\ ToSet(u) = ToSet(s) \cup ToSet(new) /\ IsPrefix(s, u)
      /\ IsInjective(u) <=> IsInjective(s) /\ IsInjective(new) /\ ToSet(s) \cap ToSet(new) = {}
  BY <1>0, <1>1, JoinedLists
<1>6. IsInjective(BlocksOf(c, e)) /\ Mine(c, e) = Mine(d, e) \cup ToSet(new) \cup ToSet(t) \cup {b}
  BY <1>0, <1>2, <1>4, <1>5, <1>7
<1> QED BY <1>5, <1>6 DEF Enlarged, s, u

LEMMA InodeGrows ==
  ASSUME NEW d, NEW R, NEW I, Good(d, R, I), NEW e \in d.dir, NEW n \in Inode,
         NEW c, c = WithInode(d, e.ino, n), n.links = NodeOf(d, e).links,
         Enlarged(d, c, e, R)
  PROVE  Good(c, {}, I) /\ Keeps(d, c) /\ (Whole(d, R, I) => Whole(c, {}, I))
<1>1. d \in Disks /\ Owned(d)
  BY DEF Good
<1>2. e.ino \in Ino
  BY <1>1, EntryParts
<1>3. /\ c \in Disks /\ c.dir = d.dir /\ c.blocks = d.blocks /\ c.inodes = d.inodes
      /\ c.bgd = d.bgd /\ c.ptrs = d.ptrs
      /\ c.table[e.ino] = n /\ \A j \in Ino \ {e.ino} : c.table[j] = d.table[j]
  BY <1>1, <1>2, NewInode
<1>4. ASSUME NEW f \in d.dir \ {e}
      PROVE  BlocksOf(c, f) = BlocksOf(d, f) /\ c.table[f.ino] = d.table[f.ino]
  <2>1. f.ino \in Ino \ {e.ino}
    BY <1>1, EntryParts DEF Owned
  <2>2. c.table[f.ino] = d.table[f.ino]
    BY <1>3, <2>1
  <2> QED BY <1>3, <2>2, SameBlocks
<1>5. /\ c.table[e.ino].links = d.table[e.ino].links
      /\ IsPrefix(d.table[e.ino].direct, c.table[e.ino].direct)
  BY <1>3 DEF NodeOf, Enlarged
<1>6. /\ Mine(d, e) \subseteq Mine(c, e) /\ Mine(c, e) \subseteq Mine(d, e) \cup R
      /\ R \ Mine(c, e) = {} /\ IsInjective(BlocksOf(c, e))
  BY DEF Enlarged
<1>7. /\ Good(c, R \ Mine(c, e), I) /\ Keeps(d, c)
      /\ Whole(d, R, I) => Whole(c, R \ Mine(c, e), I)
  <2>1. Good(d, R, I) /\ e \in d.dir
    OBVIOUS
  <2> QED BY ONLY <1>3, <1>4, <1>5, <1>6, <2>1, FileGrown
<1> QED BY <1>6, <1>7

LEMMA TableGrows ==
  ASSUME NEW d, NEW R, NEW I, Good(d, R, I), NEW e \in d.dir, NEW b, NEW s \in Seq(Block),
         b = NodeOf(d, e).indirect, b # 0, NEW c, c = WithPtrs(d, b, s),
         NEW S, S \subseteq R, Enlarged(d, c, e, S)
  PROVE  /\ Good(c, R \ Mine(c, e), I) /\ Keeps(d, c)
         /\ Whole(d, R, I) => Whole(c, R \ Mine(c, e), I)
<1>1. d \in Disks /\ Owned(d)
  BY DEF Good
<1>2. e.ino \in Ino /\ b \in Block /\ NodeOf(d, e).direct \in Seq(Block)
  BY <1>1, EntryParts, NodeParts
<1>3. /\ c \in Disks /\ c.dir = d.dir /\ c.blocks = d.blocks /\ c.inodes = d.inodes
      /\ c.bgd = d.bgd /\ c.table = d.table
      /\ \A a \in Block \ {b} : c.ptrs[a] = d.ptrs[a]
  BY <1>1, <1>2, NewPtrs
<1>4. ASSUME NEW f \in d.dir \ {e}
      PROVE  BlocksOf(c, f) = BlocksOf(d, f) /\ c.table[f.ino] = d.table[f.ino]
  <2>1. d.table[f.ino].indirect \in Block
    BY <1>1, EntryParts
  <2>2. d.table[f.ino].indirect # 0 => d.table[f.ino].indirect \in Mine(d, f)
    BY <1>1, TableIsMine
  <2>3. b \in Mine(d, e)
    BY <1>1, TableIsMine DEF NodeOf
  <2>4. Mine(d, e) \cap Mine(d, f) = {}
    BY <1>1 DEF Owned
  <2>5. d.table[f.ino].indirect # 0 =>
          c.ptrs[d.table[f.ino].indirect] = d.ptrs[d.table[f.ino].indirect]
    BY <1>3, <2>1, <2>2, <2>3, <2>4
  <2>6. c.table[f.ino] = d.table[f.ino]
    BY <1>3
  <2> QED BY <2>5, <2>6, SameBlocks
<1>5. /\ c.table[e.ino].links = d.table[e.ino].links
      /\ IsPrefix(d.table[e.ino].direct, c.table[e.ino].direct)
  BY <1>2, <1>3, PrefixOfItself DEF NodeOf
<1>6. /\ Good(d, R, I) /\ e \in d.dir /\ IsInjective(BlocksOf(c, e))
      /\ Mine(d, e) \subseteq Mine(c, e) /\ Mine(c, e) \subseteq Mine(d, e) \cup R
  BY DEF Enlarged
<1> QED BY ONLY <1>3, <1>4, <1>5, <1>6, FileGrown

LEMMA FileWritten ==
  ASSUME NEW c, NEW p, NEW w \in BOOLEAN, NEW R, NEW I, Works(c, p, w, R, I),
         NEW e, NEW n, NEW d, d = WithInode(p.disk, e.ino, n),
         p.ok => /\ e \in p.disk.dir /\ n \in Inode /\ n.links = NodeOf(p.disk, e).links
                 /\ Enlarged(p.disk, d, e, R),
         NEW q, q = write_inode(p, e.ino, n)
  PROVE  Works(c, q, w, {}, I)
<1>1. q = Put(p, d)
  BY DEF write_inode, WithInode
<1>2. Trail(c, p) /\ (p.ok => Good(p.disk, R, I) /\ (w => Whole(p.disk, R, I)))
  BY DEF Works
<1>3. ASSUME p.ok PROVE Good(d, {}, I) /\ Keeps(p.disk, d) /\ (w => Whole(d, {}, I))
  <2> DEFINE x == p.disk
  <2>1. /\ Good(x, R, I) /\ e \in x.dir /\ n \in Inode /\ d = WithInode(x, e.ino, n)
        /\ n.links = NodeOf(x, e).links /\ Enlarged(x, d, e, R)
    BY <1>2, <1>3
  <2> HIDE DEF x
  <2>2. Good(d, {}, I) /\ Keeps(x, d) /\ (Whole(x, R, I) => Whole(d, {}, I))
    BY ONLY <2>1, InodeGrows
  <2> QED BY <1>2, <1>3, <2>2 DEF x
<1> QED BY <1>1, <1>2, <1>3, PutWorks

WithDirect(n, s) == [n EXCEPT !.direct = s]
WithIndirect(n, b) == [n EXCEPT !.indirect = b]

LEMMA NodeChanged ==
  ASSUME NEW n \in Inode, NEW s \in Seq(Block), NEW b \in Block
  PROVE  /\ WithDirect(n, s) \in Inode /\ WithDirect(n, s).links = n.links
         /\ WithDirect(n, s).direct = s /\ WithDirect(n, s).indirect = n.indirect
         /\ WithIndirect(n, b) \in Inode /\ WithIndirect(n, b).links = n.links
         /\ WithIndirect(n, b).direct = n.direct /\ WithIndirect(n, b).indirect = b
BY DEF Inode, WithDirect, WithIndirect

LEMMA MineIsUsed ==
  ASSUME NEW d, NEW R, NEW I, Good(d, R, I), NEW e \in d.dir
  PROVE  /\ Mine(d, e) \subseteq d.blocks /\ IsInjective(BlocksOf(d, e))
         /\ e.ino \in Ino /\ 0 \in d.blocks
<1>1. d \in Disks /\ Owned(d) /\ Metadata \cup Reached(d) \subseteq d.blocks
  BY DEF Good, Taken
<1> QED BY <1>1, EntryParts, BlocksAreBlocks, Sizes DEF Owned

\* Plan p has the first blocks of file e, those that it had and the new ones.
Begun(e, p, new) ==
  Grown(disk, [Plan EXCEPT !.list = Held(disk.table[e.ino])], p, intact, {}, {}, new)

LEMMA FileBegun ==
  ASSUME DiskInv, Idle, NEW e \in disk.dir, NEW k \in Nat,
         NEW p, p = Extended([Plan EXCEPT !.list = Held(disk.table[e.ino])], k)
  PROVE  Trail(disk, p) /\ (p.ok => \E new : Begun(e, p, new))
<1> DEFINE s == Held(disk.table[e.ino])
           o == [Plan EXCEPT !.list = s]
<1>1. Works(disk, Plan, intact, {}, {}) /\ Trail(disk, Plan) /\ intact \in BOOLEAN
  BY EmptyPlan
<1>2. disk \in Disks
  BY GoodIsSafe DEF DiskInv, Safe
<1>3. s \in Seq(Block)
  BY <1>2, EntryParts DEF Held
<1>4. o = [Plan EXCEPT !.list = s] /\ p = Extended(o, k)
  OBVIOUS
<1> HIDE DEF s, o
<1>5. Works(disk, o, intact, {}, {})
  BY <1>1, <1>3, <1>4, OtherList
<1>6. Trail(disk, p) /\ (p.ok => \E new : Grown(disk, o, p, intact, {}, {}, new))
  BY <1>1, <1>4, <1>5, Extension
<1> QED BY <1>6 DEF Begun, o, s

LEMMA BegunFacts ==
  ASSUME DiskInv, Idle, NEW e \in disk.dir, NEW p, NEW new, Begun(e, p, new)
  PROVE  /\ new \in Seq(Block) /\ IsInjective(new) /\ ToSet(new) \cap disk.blocks = {}
         /\ p.list \in Seq(Block) /\ p.list = NodeOf(disk, e).direct \o new
         /\ Works(disk, p, intact, ToSet(new), {}) /\ Trail(disk, p)
         /\ SameNames(disk, p.disk) /\ p.disk.blocks = disk.blocks \cup ToSet(new)
         /\ Mine(disk, e) \subseteq disk.blocks /\ IsInjective(BlocksOf(disk, e))
         /\ e.ino \in Ino /\ disk \in Disks /\ 0 \in disk.blocks /\ intact \in BOOLEAN
<1> DEFINE s == Held(disk.table[e.ino])
           o == [Plan EXCEPT !.list = s]
<1>1. Trail(disk, Plan) /\ Plan.disk = disk /\ intact \in BOOLEAN
  BY EmptyPlan
<1>2. disk \in Disks /\ Safe(disk)
  BY GoodIsSafe DEF DiskInv, Safe
<1>3. s \in Seq(Block) /\ s = NodeOf(disk, e).direct
  BY <1>2, EntryParts DEF Held, NodeOf
<1>4. o = [Plan EXCEPT !.list = s] /\ Grown(disk, o, p, intact, {}, {}, new)
  BY DEF Begun
<1> HIDE DEF s, o
<1>5. o.list = s /\ o.disk = disk
  BY <1>1, <1>3, <1>4, OtherList
<1>6. /\ new \in Seq(Block) /\ IsInjective(new) /\ ToSet(new) \cap disk.blocks = {}
      /\ p.list = s \o new /\ Works(disk, p, intact, {} \cup ToSet(new), {})
      /\ SameNames(disk, p.disk) /\ p.disk.blocks = disk.blocks \cup ToSet(new)
  BY <1>4, <1>5 DEF Grown
<1>7. {} \cup ToSet(new) = ToSet(new)
  OBVIOUS
<1>8. p.list \in Seq(Block)
  BY <1>3, <1>6, JoinedLists
<1>9. Mine(disk, e) \subseteq disk.blocks /\ IsInjective(BlocksOf(disk, e)) /\ e.ino \in Ino
      /\ 0 \in disk.blocks
  BY <1>2, MineIsUsed DEF Safe
<1>10. Trail(disk, p)
  BY <1>6 DEF Works
<1> QED BY <1>1, <1>2, <1>3, <1>6, <1>7, <1>8, <1>9, <1>10

LEMMA WrittenDirect ==
  ASSUME DiskInv, Idle, NEW e \in disk.dir, NEW p, NEW new, Begun(e, p, new),
         NEW n, n = [disk.table[e.ino] EXCEPT !.direct = p.list],
         NEW q, q = write_inode(p, e.ino, n)
  PROVE  Works(disk, q, intact, {}, {})
<1> DEFINE d == p.disk
           x == WithInode(d, e.ino, n)
           R == ToSet(new)
           old == NodeOf(disk, e)
<1>1. /\ new \in Seq(Block) /\ IsInjective(new) /\ R \cap disk.blocks = {}
      /\ p.list \in Seq(Block) /\ p.list = old.direct \o new
      /\ Works(disk, p, intact, R, {}) /\ SameNames(disk, d)
      /\ Mine(disk, e) \subseteq disk.blocks /\ IsInjective(BlocksOf(disk, e))
      /\ e.ino \in Ino /\ disk \in Disks /\ 0 \in disk.blocks /\ intact \in BOOLEAN
  BY BegunFacts
<1>2. old \in Inode
  BY <1>1, NodeParts
<1>3. n \in Inode /\ n.links = old.links /\ n.direct = p.list /\ n.indirect = old.indirect
  <2>1. n = WithDirect(old, p.list)
    BY DEF NodeOf, WithDirect
  <2> DEFINE s == p.list
  <2>2. old \in Inode /\ s \in Seq(Block) /\ 0 \in Block /\ n = WithDirect(old, s)
    BY <1>1, <1>2, <2>1, Sizes
  <2> HIDE DEF old, s
  <2>3. n \in Inode /\ n.links = old.links /\ n.direct = s /\ n.indirect = old.indirect
    BY ONLY <2>2, NodeChanged
  <2> QED BY <2>3 DEF s
<1>4. /\ d.dir = disk.dir /\ BlocksOf(d, e) = BlocksOf(disk, e) /\ Mine(d, e) = Mine(disk, e)
      /\ NodeOf(d, e) = old
  BY <1>1, SameTablesFacts DEF SameNames, SameTables, NodeOf
<1>5. x = WithInode(d, e.ino, n)
  OBVIOUS
<1> HIDE DEF x, d, R, old
<1>6. ASSUME p.ok PROVE Enlarged(d, x, e, R)
  <2>1. d \in Disks
    BY <1>1, <1>6, GoodIsSafe DEF Works, d
  <2>2. x \in Disks /\ x.ptrs = d.ptrs /\ x.table[e.ino] = n
    <3>1. e.ino \in Ino /\ n \in Inode
      BY <1>1, <1>3
    <3> QED BY ONLY <1>5, <2>1, <3>1, NewInode
  <2>3. NodeOf(x, e) = n
    BY <2>2 DEF NodeOf
  <2>4. New(d, e, new)
    BY <1>1, <1>4, <2>1 DEF New, R
  <2>5. /\ NodeOf(x, e).direct = NodeOf(d, e).direct \o new
        /\ NodeOf(x, e).indirect = NodeOf(d, e).indirect
    BY <1>1, <1>3, <1>4, <2>3
  <2>6. Enlarged(d, x, e, ToSet(new))
    BY ONLY <2>2, <2>4, <2>5, DirectGrown
  <2> QED BY <2>6 DEF R
<1>7. p.ok => e \in d.dir /\ n.links = NodeOf(d, e).links
  BY <1>3, <1>4
<1>8. /\ intact \in BOOLEAN /\ Works(disk, p, intact, R, {})
      /\ x = WithInode(p.disk, e.ino, n)
      /\ p.ok => /\ e \in p.disk.dir /\ n \in Inode /\ n.links = NodeOf(p.disk, e).links
                 /\ Enlarged(p.disk, x, e, R)
      /\ q = write_inode(p, e.ino, n)
  BY <1>1, <1>3, <1>5, <1>6, <1>7 DEF d
<1> QED BY ONLY <1>8, FileWritten

LEMMA WrittenInTable ==
  ASSUME DiskInv, Idle, NEW e \in disk.dir, NEW p, NEW new, Begun(e, p, new),
         NEW b, b = NodeOf(disk, e).indirect, b # 0, NEW k \in Nat,
         NEW q, q = [p EXCEPT !.list = <<b>>],
         NEW s, s = write_indirect_block(q, b, k),
         NEW n, n = WithIndirect(WithDirect(NodeOf(disk, e), p.list), b),
         NEW t, t = write_inode(s, e.ino, n)
  PROVE  Trail(disk, q) /\ Works(disk, t, intact, {}, {})
<1> DEFINE R == ToSet(new)
           old == NodeOf(disk, e)
           T == TableOf(disk, e)
           o == [q EXCEPT !.list = q.disk.ptrs[b]]
           r == Extended(o, k)
<1>1. /\ new \in Seq(Block) /\ IsInjective(new) /\ R \cap disk.blocks = {}
      /\ p.list \in Seq(Block) /\ p.list = old.direct \o new
      /\ Works(disk, p, intact, R, {}) /\ Trail(disk, p) /\ SameNames(disk, p.disk)
      /\ p.disk.blocks = disk.blocks \cup R
      /\ Mine(disk, e) \subseteq disk.blocks /\ IsInjective(BlocksOf(disk, e))
      /\ e.ino \in Ino /\ disk \in Disks /\ intact \in BOOLEAN
  BY BegunFacts
<1>2. old \in Inode /\ old.indirect = b /\ b \in Block /\ T \in Seq(Block) /\ T = disk.ptrs[b]
  BY <1>1, NodeParts DEF TableOf
<1>3. n \in Inode /\ n.links = old.links /\ n.direct = p.list /\ n.indirect = b
  <2> DEFINE l == p.list
             m == WithDirect(old, l)
  <2>1. old \in Inode /\ l \in Seq(Block) /\ b \in Block /\ m = WithDirect(old, l)
        /\ n = WithIndirect(m, b)
    BY <1>1, <1>2
  <2> HIDE DEF old, l, m
  <2>2. m \in Inode /\ m.links = old.links /\ m.direct = l
    BY ONLY <2>1, NodeChanged
  <2>3. n \in Inode /\ n.links = m.links /\ n.direct = m.direct /\ n.indirect = b
    BY ONLY <2>1, <2>2, NodeChanged
  <2> QED BY <2>2, <2>3 DEF l
<1>4. s = PutPtrs(r, b, r.list) /\ r = Extended(o, k) /\ o = [q EXCEPT !.list = q.disk.ptrs[b]]
  BY DEF write_indirect_block
<1> HIDE DEF R, old, T, o, r
<1>5. Works(disk, q, intact, R, {}) /\ Trail(disk, q) /\ q.disk = p.disk
  <2> DEFINE u == <<b>>
  <2>1. u \in Seq(Block) /\ q = [p EXCEPT !.list = u]
    BY <1>2
  <2> HIDE DEF u
  <2>2. Trail(disk, p) /\ Works(disk, p, intact, R, {}) /\ intact \in BOOLEAN
    BY <1>1
  <2> QED BY ONLY <2>1, <2>2, OtherList
<1>6. Works(disk, o, intact, R, {}) /\ o.disk = p.disk /\ o.list = T
  <2>1. q.disk.ptrs[b] = T
    BY <1>1, <1>2, <1>5 DEF SameNames, SameTables
  <2>2. o = [q EXCEPT !.list = T] /\ T \in Seq(Block) /\ intact \in BOOLEAN
    BY <1>1, <1>2, <1>4, <2>1
  <2>3. Works(disk, o, intact, R, {}) /\ o.disk = q.disk /\ o.list = T
    BY ONLY <1>5, <2>2, OtherList
  <2> QED BY <1>5, <2>3
<1>7. Trail(disk, r) /\ (r.ok => \E more : Grown(disk, o, r, intact, R, {}, more))
  BY <1>1, <1>4, <1>6, Extension
<1>8. r \in Plans /\ r.ok \in BOOLEAN
  BY <1>7, PlanParts DEF Trail
<1>9. CASE ~r.ok
  <2>1. s = r
    BY <1>4, <1>9 DEF PutPtrs, Put
  <2>2. t = r
    BY <1>9, <2>1 DEF write_inode, Put
  <2> QED BY <1>5, <1>7, <1>9, <2>2 DEF Works
<1>10. CASE r.ok
  <2>1. PICK more : Grown(disk, o, r, intact, R, {}, more)
    BY <1>7, <1>10
  <2> DEFINE M == ToSet(more)
             d == r.disk
             l == r.list
             c == WithPtrs(d, b, l)
  <2>2. /\ more \in Seq(Block) /\ IsInjective(more) /\ M \cap p.disk.blocks = {}
        /\ l = T \o more /\ Works(disk, r, intact, R \cup M, {})
        /\ SameNames(p.disk, d)
    BY <1>6, <2>1 DEF Grown
  <2>3. /\ Good(d, R \cup M, {}) /\ (intact => Whole(d, R \cup M, {}))
        /\ d \in Disks
    BY <1>10, <2>2, GoodIsSafe DEF Works
  <2>4. /\ d.dir = disk.dir /\ BlocksOf(d, e) = BlocksOf(disk, e)
        /\ Mine(d, e) = Mine(disk, e) /\ NodeOf(d, e) = old /\ TableOf(d, e) = T
    <3>1. SameTables(disk, d) /\ d.dir = disk.dir
      BY <1>1, <2>2 DEF SameNames, SameTables
    <3> QED BY <1>1, <3>1, SameTablesFacts DEF SameTables, NodeOf, TableOf, old, T
  <2>5. l \in Seq(Block)
    BY <1>8, PlanParts
  <2>6. s = Put(r, c) /\ c = WithPtrs(d, b, l)
    BY <1>4 DEF PutPtrs, WithPtrs
  <2> HIDE DEF M, d, l, c
  <2>7. /\ c \in Disks /\ c.dir = d.dir /\ c.table = d.table /\ c.ptrs[b] = l
    BY ONLY <1>2, <2>3, <2>5, <2>6, NewPtrs
  <2>8. NodeOf(c, e) = old /\ TableOf(c, e) = l
    BY <1>2, <2>4, <2>7 DEF NodeOf, TableOf
  <2>9. New(d, e, more)
    BY <1>1, <2>2, <2>3, <2>4 DEF New, M
  <2>10. Enlarged(d, c, e, M)
    <3>1. NodeOf(c, e) = NodeOf(d, e) /\ NodeOf(d, e).indirect # 0
          /\ TableOf(c, e) = TableOf(d, e) \o more
      BY <1>2, <2>2, <2>4, <2>8
    <3> QED BY ONLY <2>7, <2>9, <3>1, TableGrown DEF M
  <2>11. /\ Good(c, R, {}) /\ Keeps(d, c) /\ (intact => Whole(c, R, {}))
         /\ R \cap Mine(c, e) = {} /\ IsInjective(BlocksOf(c, e))
    <3> DEFINE Q == R \cup M
    <3>1. Q \ Mine(c, e) = R /\ R \cap Mine(c, e) = {}
      BY <1>1, <2>2, <2>4, <2>10 DEF Enlarged
    <3>2. /\ Good(d, Q, {}) /\ e \in d.dir /\ l \in Seq(Block) /\ b = NodeOf(d, e).indirect
          /\ b # 0 /\ c = WithPtrs(d, b, l) /\ M \subseteq Q /\ Enlarged(d, c, e, M)
      BY <1>2, <2>3, <2>4, <2>5, <2>6, <2>10
    <3> HIDE DEF Q
    <3>3. /\ Good(c, Q \ Mine(c, e), {}) /\ Keeps(d, c)
          /\ Whole(d, Q, {}) => Whole(c, Q \ Mine(c, e), {})
      BY ONLY <3>2, TableGrows
    <3> QED BY <2>3, <2>10, <3>1, <3>3 DEF Enlarged, Q
  <2>12. /\ Works(disk, s, intact, R, {}) /\ s.disk = c
    <3>1. Works(disk, s, intact, R, {})
      BY <1>1, <1>7, <2>6, <2>11, PutWorks DEF d
    <3>2. s.disk = c
      BY <1>8, <1>10, <2>6, PutParts
    <3> QED BY <3>1, <3>2
  <2> DEFINE x == WithInode(c, e.ino, n)
  <2>13. x = WithInode(c, e.ino, n)
    OBVIOUS
  <2> HIDE DEF x
  <2>14. x \in Disks /\ x.ptrs = c.ptrs /\ NodeOf(x, e) = n
    <3>1. e.ino \in Ino /\ n \in Inode
      BY <1>1, <1>3
    <3>2. x \in Disks /\ x.ptrs = c.ptrs /\ x.table[e.ino] = n
      BY ONLY <2>7, <2>13, <3>1, NewInode
    <3> QED BY <3>2 DEF NodeOf
  <2>15. New(c, e, new)
    BY <1>1, <2>7, <2>11 DEF New, R
  <2>16. Enlarged(c, x, e, R)
    <3>1. /\ NodeOf(x, e).direct = NodeOf(c, e).direct \o new
          /\ NodeOf(x, e).indirect = NodeOf(c, e).indirect
      BY <1>1, <1>2, <1>3, <2>8, <2>14
    <3> QED BY ONLY <2>14, <2>15, <3>1, DirectGrown DEF R
  <2>17. /\ intact \in BOOLEAN /\ Works(disk, s, intact, R, {})
         /\ x = WithInode(s.disk, e.ino, n)
         /\ s.ok => /\ e \in s.disk.dir /\ n \in Inode /\ n.links = NodeOf(s.disk, e).links
                    /\ Enlarged(s.disk, x, e, R)
         /\ t = write_inode(s, e.ino, n)
    BY <1>1, <1>3, <2>4, <2>7, <2>8, <2>12, <2>13, <2>16 DEF WithInode
  <2>18. Works(disk, t, intact, {}, {})
    BY ONLY <2>17, FileWritten
  <2> QED BY <1>5, <2>18
<1> QED BY <1>8, <1>9, <1>10

\* Plan q has block b for the table of a file whose new blocks plan p has.
TableTaken(p, q, new, b) ==
  /\ b \in Block \ p.disk.blocks /\ Works(disk, q, intact, ToSet(new) \cup {b}, {})
  /\ q.list = <<b>> /\ q.disk.ptrs[b] = <<>>
  /\ q.disk.dir = disk.dir /\ q.disk.table = disk.table
  /\ q.disk.blocks = p.disk.blocks \cup {b}

LEMMA NewTable ==
  ASSUME DiskInv, Idle, NEW e \in disk.dir, NEW p, NEW new, Begun(e, p, new),
         NodeOf(disk, e).indirect = 0, NEW q, q = Indirect(p, NodeOf(disk, e))
  PROVE  Trail(disk, q) /\ (q.ok => \E b : TableTaken(p, q, new, b))
<1> DEFINE u == <<>>
           o == [p EXCEPT !.list = u]
           R == ToSet(new)
           a == alloc_block(o)
           z == a.list[1]
<1>1. /\ Works(disk, p, intact, R, {}) /\ Trail(disk, p) /\ SameNames(disk, p.disk)
      /\ intact \in BOOLEAN
  BY BegunFacts
<1>2. u \in Seq(Block) /\ o = [p EXCEPT !.list = u] /\ a = alloc_block(o)
      /\ q = PutPtrs(a, z, u)
  BY EmptyList DEF zero_block, Indirect
<1> HIDE DEF o, R, a
<1>3. Works(disk, o, intact, R, {}) /\ o.disk = p.disk /\ o.list = u
  <2> HIDE DEF u
  <2> QED BY ONLY <1>1, <1>2, OtherList
<1>4. Trail(disk, a) /\ (a.ok => \E b : Allocated(disk, o, a, intact, R, {}, b))
  BY <1>1, <1>2, <1>3, AllocBlock
<1>5. a \in Plans /\ a.ok \in BOOLEAN
  BY <1>4, PlanParts DEF Trail
<1>6. CASE ~a.ok
  <2>1. q = a
    BY <1>2, <1>6 DEF PutPtrs, Put
  <2> QED BY <1>4, <1>6, <2>1
<1>7. CASE a.ok
  <2>1. PICK b : Allocated(disk, o, a, intact, R, {}, b)
    BY <1>4, <1>7
  <2> DEFINE Q == R \cup {b}
  <2>2. /\ b \in Block \ p.disk.blocks /\ a.list = Append(u, b)
        /\ Works(disk, a, intact, Q, {})
        /\ SameNames(p.disk, a.disk) /\ a.disk.blocks = p.disk.blocks \cup {b}
    BY <1>3, <2>1 DEF Allocated
  <2>3. a.list = <<b>> /\ z = b
    BY <2>2
  <2>4. b \in Q
    OBVIOUS
  <2> HIDE DEF Q, u, z
  <2>5. /\ Works(disk, q, intact, Q, {}) /\ q.ok = a.ok /\ q.list = a.list
        /\ q.disk = WithPtrs(a.disk, b, u)
    <3>1. q = PutPtrs(a, b, u)
      BY <1>2, <2>3
    <3>2. /\ Works(disk, q, intact, Q, {}) /\ q.ok = a.ok /\ q.list = a.list
          /\ a.ok => q.disk = WithPtrs(a.disk, b, u)
      BY ONLY <1>1, <1>2, <2>2, <2>4, <3>1, TableWritten
    <3> QED BY <1>7, <3>2
  <2>6. a.disk \in Disks
    BY <1>5, PlanParts
  <2>7. /\ q.disk.dir = a.disk.dir /\ q.disk.table = a.disk.table
        /\ q.disk.blocks = a.disk.blocks /\ q.disk.ptrs[b] = u
    <3> DEFINE d == a.disk
               c == q.disk
    <3>1. d \in Disks /\ b \in Block /\ u \in Seq(Block) /\ c = WithPtrs(d, b, u)
      BY <1>2, <2>2, <2>5, <2>6
    <3> HIDE DEF d, c
    <3>2. c.dir = d.dir /\ c.table = d.table /\ c.blocks = d.blocks /\ c.ptrs[b] = u
      BY ONLY <3>1, NewPtrs
    <3> QED BY <3>2 DEF d, c
  <2>8. q.disk.dir = disk.dir /\ q.disk.table = disk.table
        /\ q.disk.blocks = p.disk.blocks \cup {b}
    BY <1>1, <2>2, <2>7 DEF SameNames, SameTables
  <2>9. Trail(disk, q) /\ b \in Block \ p.disk.blocks /\ q.list = <<b>>
    BY <2>2, <2>3, <2>5 DEF Works
  <2>10. TableTaken(p, q, new, b)
    BY <2>5, <2>7, <2>8, <2>9 DEF Q, u, R, TableTaken
  <2> QED BY <2>9, <2>10
<1> QED BY <1>5, <1>6, <1>7

LEMMA WrittenInNewTable ==
  ASSUME DiskInv, Idle, NEW e \in disk.dir, NEW p, NEW new, Begun(e, p, new),
         NodeOf(disk, e).indirect = 0, NEW k \in Nat,
         NEW q, q = Indirect(p, NodeOf(disk, e)), q.ok, NEW b, b = q.list[1],
         NEW s, s = write_indirect_block(q, b, k),
         NEW n, n = WithIndirect(WithDirect(NodeOf(disk, e), p.list), b),
         NEW t, t = write_inode(s, e.ino, n)
  PROVE  Works(disk, t, intact, {}, {})
<1> DEFINE R == ToSet(new)
           old == NodeOf(disk, e)
           u == <<>>
           o == [q EXCEPT !.list = q.disk.ptrs[b]]
           r == Extended(o, k)
           Q == R \cup {b}
<1>1. /\ new \in Seq(Block) /\ IsInjective(new) /\ R \cap disk.blocks = {}
      /\ p.list \in Seq(Block) /\ p.list = old.direct \o new
      /\ p.disk.blocks = disk.blocks \cup R
      /\ Mine(disk, e) \subseteq disk.blocks /\ IsInjective(BlocksOf(disk, e))
      /\ e.ino \in Ino /\ disk \in Disks /\ intact \in BOOLEAN /\ 0 \in disk.blocks
  BY BegunFacts
<1>2. /\ b \in Block \ p.disk.blocks /\ Works(disk, q, intact, Q, {})
      /\ q.disk.ptrs[b] = u /\ q.disk.dir = disk.dir /\ q.disk.table = disk.table
      /\ q.disk.blocks = p.disk.blocks \cup {b} /\ Trail(disk, q)
  <2>1. Trail(disk, q) /\ \E f : TableTaken(p, q, new, f)
    BY NewTable
  <2>2. PICK f : TableTaken(p, q, new, f)
    BY <2>1
  <2>3. b = f
    BY <2>2 DEF TableTaken
  <2> QED BY <2>1, <2>2, <2>3 DEF TableTaken
<1>3. old \in Inode /\ old.indirect = 0
  BY <1>1, NodeParts
<1>4. n \in Inode /\ n.links = old.links /\ n.direct = p.list /\ n.indirect = b
  <2> DEFINE l == p.list
             m == WithDirect(old, l)
  <2>1. old \in Inode /\ l \in Seq(Block) /\ b \in Block /\ m = WithDirect(old, l)
        /\ n = WithIndirect(m, b)
    BY <1>1, <1>2, <1>3
  <2> HIDE DEF old, l, m
  <2>2. m \in Inode /\ m.links = old.links /\ m.direct = l
    BY ONLY <2>1, NodeChanged
  <2>3. n \in Inode /\ n.links = m.links /\ n.direct = m.direct /\ n.indirect = b
    BY ONLY <2>1, <2>2, NodeChanged
  <2> QED BY <2>2, <2>3 DEF l
<1>5. s = PutPtrs(r, b, r.list) /\ r = Extended(o, k) /\ o = [q EXCEPT !.list = u]
      /\ u \in Seq(Block)
  BY <1>2, EmptyList DEF write_indirect_block
<1>6. \A v \in Seq(Block) : u \o v = v
  BY ConcatEmptySeq
<1> HIDE DEF R, old, u, o, r, Q
<1>7. Works(disk, o, intact, Q, {}) /\ o.disk = q.disk /\ o.list = u
  BY ONLY <1>1, <1>2, <1>5, OtherList
<1>8. Trail(disk, r) /\ (r.ok => \E more : Grown(disk, o, r, intact, Q, {}, more))
  BY <1>1, <1>5, <1>7, Extension
<1>9. r \in Plans /\ r.ok \in BOOLEAN
  BY <1>8, PlanParts DEF Trail
<1>10. CASE ~r.ok
  <2>1. s = r
    BY <1>5, <1>10 DEF PutPtrs, Put
  <2>2. t = r
    BY <1>10, <2>1 DEF write_inode, Put
  <2> QED BY <1>8, <1>10, <2>2 DEF Works
<1>11. CASE r.ok
  <2>1. PICK more : Grown(disk, o, r, intact, Q, {}, more)
    BY <1>8, <1>11
  <2> DEFINE M == ToSet(more)
             S == Q \cup M
             d == s.disk
  <2>2. /\ more \in Seq(Block) /\ IsInjective(more) /\ M \cap q.disk.blocks = {}
        /\ r.list = u \o more /\ Works(disk, r, intact, S, {})
        /\ SameNames(q.disk, r.disk)
    BY <1>7, <2>1 DEF Grown
  <2>3. r.list = more /\ b \in S
    BY <1>6, <2>2 DEF Q
  <2> HIDE DEF M, S
  <2>4. /\ Works(disk, s, intact, S, {}) /\ s.ok = r.ok
        /\ s.disk = WithPtrs(r.disk, b, more)
    <3>1. s = PutPtrs(r, b, more) /\ intact \in BOOLEAN
      BY <1>1, <1>5, <2>3
    <3>2. /\ Works(disk, s, intact, S, {}) /\ s.ok = r.ok
          /\ r.ok => s.disk = WithPtrs(r.disk, b, more)
      BY ONLY <2>2, <2>3, <3>1, TableWritten
    <3> QED BY <1>11, <3>2
  <2>5. /\ d \in Disks /\ d.dir = disk.dir /\ d.table = disk.table /\ d.ptrs[b] = more
    <3> DEFINE c == r.disk
    <3>1. c \in Disks /\ b \in Block /\ d = WithPtrs(c, b, more)
      BY <1>2, <1>9, <2>4, PlanParts
    <3> HIDE DEF c, d
    <3>2. d \in Disks /\ d.dir = c.dir /\ d.table = c.table /\ d.ptrs[b] = more
      BY ONLY <2>2, <3>1, NewPtrs
    <3> QED BY <1>2, <2>2, <3>2 DEF SameNames, SameTables, c
  <2> HIDE DEF d
  <2>6. NodeOf(d, e) = old /\ BlocksOf(d, e) = BlocksOf(disk, e) /\ Mine(d, e) = Mine(disk, e)
    <3>1. disk.table[e.ino].indirect = 0 /\ d.table[e.ino].indirect = 0
      BY <1>3, <2>5 DEF old, NodeOf
    <3>2. BlocksOf(d, e) = d.table[e.ino].direct /\ BlocksOf(disk, e) = disk.table[e.ino].direct
      BY <1>1, <2>5, <3>1, FileOfPointers
    <3> QED BY <2>5, <3>2 DEF NodeOf, Mine, old
  <2> DEFINE x == WithInode(d, e.ino, n)
  <2>7. x = WithInode(d, e.ino, n)
    OBVIOUS
  <2> HIDE DEF x
  <2>8. x \in Disks /\ NodeOf(x, e) = n /\ TableOf(x, e) = more
    <3>1. e.ino \in Ino /\ n \in Inode
      BY <1>1, <1>4
    <3>2. x \in Disks /\ x.ptrs = d.ptrs /\ x.table[e.ino] = n
      BY ONLY <2>5, <2>7, <3>1, NewInode
    <3> QED BY <1>4, <2>5, <3>2 DEF NodeOf, TableOf
  <2>9. New(d, e, new) /\ New(d, e, more)
    BY <1>1, <1>2, <2>2, <2>5, <2>6 DEF New, R, M
  <2>10. Enlarged(d, x, e, S)
    <3>1. /\ NodeOf(d, e).indirect = 0 /\ NodeOf(x, e).indirect = b
          /\ NodeOf(x, e).direct = NodeOf(d, e).direct \o new
          /\ b \in Block \ {0} /\ more = TableOf(x, e)
      BY <1>1, <1>2, <1>3, <1>4, <2>6, <2>8
    <3>2. /\ b \notin ToSet(more) \cup ToSet(new) \cup Mine(d, e)
          /\ ToSet(new) \cap ToSet(more) = {}
      BY <1>1, <1>2, <2>2, <2>6 DEF R, M
    <3>3. Enlarged(d, x, e, ToSet(new) \cup ToSet(more) \cup {b})
      BY ONLY <2>8, <2>9, <3>1, <3>2, TableAdded
    <3>4. S = ToSet(new) \cup ToSet(more) \cup {b}
      BY DEF S, Q, R, M
    <3> QED BY <3>3, <3>4
  <2>11. /\ intact \in BOOLEAN /\ Works(disk, s, intact, S, {})
         /\ x = WithInode(s.disk, e.ino, n)
         /\ s.ok => /\ e \in s.disk.dir /\ n \in Inode /\ n.links = NodeOf(s.disk, e).links
                    /\ Enlarged(s.disk, x, e, S)
         /\ t = write_inode(s, e.ino, n)
    BY <1>1, <1>4, <2>4, <2>5, <2>6, <2>7, <2>10 DEF d
  <2> QED BY ONLY <2>11, FileWritten
<1> QED BY <1>9, <1>10, <1>11

LEMMA NoTable ==
  ASSUME NEW c, NEW p, Trail(c, p), ~p.ok, NEW old \in Inode, NEW q, q = Indirect(p, old)
  PROVE  Trail(c, q) /\ ~q.ok
<1>1. CASE old.indirect # 0
  <2> DEFINE u == <<old.indirect>>
  <2>1. u \in Seq(Block) /\ q = [p EXCEPT !.list = u] /\ Trail(c, p)
    BY <1>1, InodeParts DEF Indirect
  <2> HIDE DEF u
  <2>2. Trail(c, q) /\ q.ok = p.ok
    BY ONLY <2>1, OtherList
  <2> QED BY <2>2
<1>2. CASE old.indirect = 0
  <2> DEFINE u == <<>>
             o == [p EXCEPT !.list = u]
             a == alloc_block(o)
  <2>1. u \in Seq(Block) /\ o = [p EXCEPT !.list = u] /\ Trail(c, p)
        /\ q = PutPtrs(a, a.list[1], u)
    BY <1>2, EmptyList DEF Indirect, zero_block
  <2>2. a = IF o.ok /\ FreeBlocks(o) # {}
            THEN LET b == Min(FreeBlocks(o))
                 IN [PutCounts(PutBlocks(o, o.disk.blocks \cup {b}), -1, 0)
                       EXCEPT !.list = Append(@, b)]
            ELSE [o EXCEPT !.ok = FALSE]
    BY DEF alloc_block
  <2> HIDE DEF u, o, a
  <2>3. Trail(c, o) /\ o.ok = p.ok
    BY ONLY <2>1, OtherList
  <2>4. a = [o EXCEPT !.ok = FALSE]
    BY <2>2, <2>3
  <2>5. Trail(c, a) /\ a.ok = FALSE
    BY <2>3, <2>4, Panicked
  <2>6. q = a
    BY <2>1, <2>5 DEF PutPtrs, Put
  <2> QED BY <2>5, <2>6
<1>3. old.indirect \in Block
  BY InodeParts
<1> QED BY <1>1, <1>2, <1>3

LEMMA WriteFile ==
  ASSUME DiskInv, NEW e \in disk.dir, NEW n \in 0..(Direct + PerBlock),
         write_file_content(e, n)
  PROVE  DiskInv'
<1> DEFINE old == NodeOf(disk, e)
           m == Min({n, Direct})
           p == Extended([Plan EXCEPT !.list = Held(disk.table[e.ino])], m)
           q == Indirect(p, old)
           new == [disk.table[e.ino] EXCEPT !.direct = p.list]
           b == q.list[1]
           k == n - Direct
           s == write_indirect_block(q, b, k)
           long == WithIndirect(WithDirect(old, p.list), b)
           t == write_inode(s, e.ino, long)
           short == write_inode(p, e.ino, new)
           r == IF n <= Direct THEN short ELSE IF ~q.ok THEN q ELSE t
<1>1. Idle /\ Do(r) /\ intact' = intact
  BY DEF write_file_content, WithDirect, WithIndirect, NodeOf
<1>2. m \in Nat /\ n \in Nat /\ (~ (n <= Direct) => k \in Nat)
  <2>1. {n, Direct} \in SUBSET Nat /\ {n, Direct} # {}
    BY Sizes
  <2>2. m \in {n, Direct}
    <3> DEFINE S == {n, Direct}
    <3>1. S \in SUBSET Nat /\ S # {}
      BY <2>1
    <3> HIDE DEF S
    <3>2. Min(S) \in S
      BY ONLY <3>1, MinIn
    <3> QED BY <3>2 DEF S
  <2> QED BY <2>1, <2>2, Sizes
<1>3. disk \in Disks /\ intact \in BOOLEAN /\ old \in Inode
  <2>1. disk \in Disks
    BY GoodIsSafe DEF DiskInv, Safe
  <2> QED BY <2>1, EntryParts DEF NodeOf, DiskInv
<1>4. /\ p = Extended([Plan EXCEPT !.list = Held(disk.table[e.ino])], m)
      /\ q = Indirect(p, old) /\ new = [disk.table[e.ino] EXCEPT !.direct = p.list]
      /\ s = write_indirect_block(q, b, k)
      /\ long = WithIndirect(WithDirect(old, p.list), b)
      /\ t = write_inode(s, e.ino, long) /\ short = write_inode(p, e.ino, new)
      /\ r = IF n <= Direct THEN short ELSE IF ~q.ok THEN q ELSE t
      /\ old = NodeOf(disk, e) /\ b = q.list[1]
  OBVIOUS
<1> HIDE DEF old, m, p, q, new, b, k, s, long, t, short, r
<1>5. Trail(disk, p) /\ (p.ok => \E x : Begun(e, p, x))
  BY <1>1, <1>2, <1>4, FileBegun
<1>6. p.ok \in BOOLEAN
  BY <1>5, PlanParts DEF Trail
<1>7. CASE ~p.ok
  <2>1. short = p
    BY <1>4, <1>7 DEF write_inode, Put
  <2>2. Trail(disk, q) /\ ~q.ok
    BY <1>3, <1>4, <1>5, <1>7, NoTable
  <2>3. r = p \/ r = q
    BY <1>4, <2>1, <2>2
  <2>4. Works(disk, r, intact, {}, {})
    BY <1>5, <1>7, <2>2, <2>3 DEF Works
  <2> QED BY <1>1, <1>3, <2>4, Planned
<1>8. CASE p.ok
  <2>1. PICK x : Begun(e, p, x)
    BY <1>5, <1>8
  <2>2. CASE n <= Direct
    <3>1. r = short
      BY <1>4, <2>2
    <3>2. Works(disk, short, intact, {}, {})
      BY <1>1, <1>4, <2>1, WrittenDirect
    <3> QED BY <1>1, <1>3, <3>1, <3>2, Planned
  <2>3. CASE ~ (n <= Direct) /\ old.indirect = 0
    <3>1. Trail(disk, q)
      BY <1>1, <1>4, <2>1, <2>3, NewTable
    <3>2. ASSUME q.ok PROVE Works(disk, t, intact, {}, {})
      <4>1. /\ DiskInv /\ Idle /\ e \in disk.dir /\ Begun(e, p, x)
            /\ NodeOf(disk, e).indirect = 0 /\ k \in Nat /\ q.ok
            /\ q = Indirect(p, NodeOf(disk, e)) /\ b = q.list[1]
            /\ s = write_indirect_block(q, b, k)
            /\ long = WithIndirect(WithDirect(NodeOf(disk, e), p.list), b)
            /\ t = write_inode(s, e.ino, long)
        BY <1>1, <1>2, <1>4, <2>1, <2>3, <3>2
      <4> QED BY ONLY <4>1, WrittenInNewTable
    <3>3. Works(disk, r, intact, {}, {})
      BY <1>4, <2>3, <3>1, <3>2 DEF Works
    <3> QED BY <1>1, <1>3, <3>3, Planned
  <2>4. CASE ~ (n <= Direct) /\ old.indirect # 0
    <3>1. q = [p EXCEPT !.list = <<old.indirect>>]
      BY <1>4, <2>4 DEF Indirect
    <3>2. p \in Plans
      BY <1>5 DEF Trail
    <3>3. q.list = <<old.indirect>>
      BY <3>1, <3>2 DEF Plans
    <3>4. b = old.indirect
      BY <1>4, <3>3
    <3>5. /\ DiskInv /\ Idle /\ e \in disk.dir /\ Begun(e, p, x)
          /\ b = NodeOf(disk, e).indirect /\ b # 0 /\ k \in Nat
          /\ q = [p EXCEPT !.list = <<b>>]
          /\ s = write_indirect_block(q, b, k)
          /\ long = WithIndirect(WithDirect(NodeOf(disk, e), p.list), b)
          /\ t = write_inode(s, e.ino, long)
      BY <1>1, <1>2, <1>4, <2>1, <2>4, <3>1, <3>4
    <3>6. Trail(disk, q) /\ Works(disk, t, intact, {}, {})
      BY ONLY <3>5, WrittenInTable
    <3>7. Works(disk, r, intact, {}, {})
      BY <1>4, <2>4, <3>6 DEF Works
    <3> QED BY <1>1, <1>3, <3>7, Planned
  <2> QED BY <2>2, <2>3, <2>4
<1> QED BY <1>6, <1>7, <1>8

LEMMA FreedIsMine ==
  ASSUME NEW d, Safe(d), NEW e \in d.dir, NEW L, L = Freed(d, NodeOf(d, e))
  PROVE  /\ L \in Seq(Block) /\ IsInjective(L) /\ ToSet(L) \subseteq Mine(d, e)
         /\ NodeOf(d, e).indirect = 0 => ToSet(L) = Mine(d, e)
<1> DEFINE s == NodeOf(d, e).direct
           b == NodeOf(d, e).indirect
           T == TableOf(d, e)
           m == Min({Len(T), BLK_SIZE \div 4})
           u == SubSeq(T, 1, m)
           v == <<b>>
<1>1. d \in Disks /\ IsInjective(BlocksOf(d, e)) /\ e.ino \in Ino
  BY GoodIsSafe, MineIsUsed DEF Safe
<1>2. s \in Seq(Block) /\ b \in Block /\ T \in Seq(Block)
  BY <1>1, NodeParts
<1>3. L = IF b = 0 THEN s ELSE (s \o u) \o v
  BY DEF Freed, TableOf
<1>4. b = 0 => BlocksOf(d, e) = s /\ Mine(d, e) = ToSet(s)
  BY <1>1, FileOfPointers DEF NodeOf
<1>5. b # 0 => /\ Mine(d, e) = ToSet(s) \cup ToSet(T) \cup {b}
               /\ IsInjective(s) /\ IsInjective(T) /\ b \notin ToSet(T)
               /\ ToSet(s) \cap (ToSet(T) \cup {b}) = {}
  BY <1>1, FileWithTable
<1>6. m \in 0..Len(T)
  <2> DEFINE S == {Len(T), BLK_SIZE \div 4}
  <2>1. Len(T) \in Nat /\ BLK_SIZE \div 4 \in Nat
    <3>1. BLK_SIZE \in 0..6
      BY Ext2Assumption
    <3> QED BY <1>2, <3>1, LenProperties
  <2>2. S \in SUBSET Nat /\ S # {} /\ Len(T) \in S
    BY <2>1
  <2> HIDE DEF S
  <2>3. Min(S) \in S /\ Min(S) <= Len(T)
    BY ONLY <2>2, MinIn
  <2>4. Min(S) \in Nat
    BY <2>2, <2>3
  <2> QED BY <2>1, <2>3, <2>4 DEF S
<1> HIDE DEF m, T
<1>7. u \in Seq(Block) /\ ToSet(u) \subseteq ToSet(T) /\ (IsInjective(T) => IsInjective(u))
  BY <1>2, <1>6, FirstPart
<1>8. v \in Seq(Block) /\ ToSet(v) = {b} /\ IsInjective(v)
  BY <1>2, OneInList
<1> HIDE DEF s, b, u, v
<1>9. CASE b = 0
  BY <1>1, <1>2, <1>3, <1>4, <1>9 DEF b
<1>10. CASE b # 0
  <2>1. /\ s \o u \in Seq(Block) /\ ToSet(s \o u) = ToSet(s) \cup ToSet(u)
        /\ IsInjective(s \o u) <=>
             IsInjective(s) /\ IsInjective(u) /\ ToSet(s) \cap ToSet(u) = {}
    BY <1>2, <1>7, JoinedLists
  <2> DEFINE w == s \o u
  <2>2. w \in Seq(Block) /\ ToSet(w) = ToSet(s) \cup ToSet(u) /\ IsInjective(w)
    BY <1>5, <1>7, <1>10, <2>1
  <2>3. L = w \o v
    BY <1>3, <1>10
  <2> HIDE DEF w
  <2>4. /\ w \o v \in Seq(Block) /\ ToSet(w \o v) = ToSet(w) \cup ToSet(v)
        /\ IsInjective(w \o v) <=>
             IsInjective(w) /\ IsInjective(v) /\ ToSet(w) \cap ToSet(v) = {}
    BY <1>8, <2>2, JoinedLists
  <2> QED BY <1>5, <1>7, <1>8, <1>10, <2>2, <2>3, <2>4 DEF b
<1> QED BY <1>9, <1>10

LEMMA NameRemoved ==
  ASSUME DiskInv, Idle, NEW e \in disk.dir, NEW w \in BOOLEAN,
         NEW R, R \subseteq Mine(disk, e), NEW I, I \subseteq {e.ino},
         w => intact /\ R = Mine(disk, e) /\ I = {e.ino},
         NEW p, p = PutDir(Plan, disk.dir \ {e})
  PROVE  /\ Works(disk, p, w, R, I) /\ p.ok /\ SameTables(disk, p.disk)
<1> DEFINE c == [disk EXCEPT !.dir = disk.dir \ {e}]
<1>1. Trail(disk, Plan) /\ Plan \in Plans /\ Plan.ok /\ Plan.disk = disk
  BY EmptyPlan
<1>2. p = Put(Plan, c) /\ c = [disk EXCEPT !.dir = disk.dir \ {e}]
  BY <1>1 DEF PutDir
<1>3. Safe(disk) /\ disk \in Disks /\ (intact => Whole(disk, {}, {}))
  BY GoodIsSafe DEF DiskInv, Idle, Final, Safe
<1> HIDE DEF c
<1>4. Good(c, R, I) /\ Keeps(disk, c) /\ (w => Whole(c, R, I))
  <2> DEFINE d == disk
  <2>1. /\ Safe(d) /\ e \in d.dir /\ R \in SUBSET Mine(d, e) /\ I \in SUBSET {e.ino}
        /\ c = [d EXCEPT !.dir = d.dir \ {e}]
    BY <1>2, <1>3
  <2> HIDE DEF d
  <2>2. /\ Good(c, R, I) /\ Keeps(d, c)
        /\ Whole(d, {}, {}) /\ R = Mine(d, e) /\ I = {e.ino} => Whole(c, R, I)
    BY ONLY <2>1, EntryRemoved
  <2> QED BY <1>3, <2>2 DEF d
<1>5. Works(disk, p, w, R, I)
  BY <1>1, <1>2, <1>4, PutWorks
<1>6. p.ok /\ p.disk = c
  BY <1>1, <1>2, PutParts
<1>7. SameTables(disk, c)
  BY <1>2, <1>3 DEF SameTables, Disks
<1> QED BY <1>5, <1>6, <1>7

LEMMA RemoveEntry ==
  ASSUME DiskInv, NEW e \in disk.dir, remove_entry(e)
  PROVE  DiskInv'
<1> DEFINE old == NodeOf(disk, e)
           p == PutDir(Plan, disk.dir \ {e})
           f == free_inode(p, e.ino)
           L == Freed(f.disk, old)
           g == free_all(f, L)
           r == IF old.links - 1 = 0 THEN g ELSE p
           w == intact'
<1>1. Idle /\ Do(r) /\ w = (intact /\ e.kind = "file" /\ old.indirect = 0)
  BY DEF remove_entry, free_blocks, NodeOf
<1>2. w \in BOOLEAN /\ (w => intact /\ e.kind = "file" /\ old.indirect = 0)
  BY <1>1 DEF DiskInv
<1>3. Safe(disk) /\ disk \in Disks /\ (intact => Whole(disk, {}, {}))
  BY <1>1, GoodIsSafe DEF DiskInv, Idle, Final, Safe
<1>4. p = PutDir(Plan, disk.dir \ {e}) /\ f = free_inode(p, e.ino)
      /\ L = Freed(f.disk, old) /\ g = free_all(f, L)
      /\ r = IF old.links - 1 = 0 THEN g ELSE p
  OBVIOUS
<1> HIDE DEF p, f, L, g, r, w
<1>5. CASE old.links - 1 = 0
  <2> DEFINE M == Freed(disk, old)
             R == ToSet(M)
             I == {e.ino}
  <2>1. /\ M \in Seq(Block) /\ IsInjective(M) /\ R \subseteq Mine(disk, e)
        /\ old.indirect = 0 => R = Mine(disk, e)
    BY <1>3, FreedIsMine
  <2> HIDE DEF M, R
  <2>2. Works(disk, p, w, R, I) /\ p.ok /\ SameTables(disk, p.disk)
    <3>1. w => intact /\ R = Mine(disk, e) /\ I = {e.ino}
      BY <1>2, <2>1
    <3>2. I \subseteq {e.ino}
      OBVIOUS
    <3> HIDE DEF I
    <3> QED BY <1>1, <1>2, <1>4, <2>1, <3>1, <3>2, NameRemoved
  <2>3. Works(disk, f, w, R, I \ {e.ino}) /\ f.ok /\ SameNames(p.disk, f.disk)
    <3> DEFINE i == e.ino
    <3>1. i \in I /\ f = free_inode(p, i)
      BY <1>4
    <3> HIDE DEF i, I
    <3>2. Works(disk, f, w, R, I \ {i}) /\ f.ok /\ SameNames(p.disk, f.disk)
      BY ONLY <1>2, <2>2, <3>1, FreeInode
    <3> QED BY <3>2 DEF i
  <2>4. I \ {e.ino} = {}
    OBVIOUS
  <2>5. L = M
    BY <1>4, <2>2, <2>3 DEF SameNames, SameTables, Freed, M
  <2>6. Works(disk, g, w, {}, {})
    <3>1. Works(disk, f, w, ToSet(M), {}) /\ g = free_all(f, M)
      BY <1>4, <2>3, <2>4, <2>5 DEF R
    <3> QED BY ONLY <1>2, <2>1, <3>1, FreeAll
  <2> QED BY <1>1, <1>2, <1>4, <1>5, <2>6, Planned DEF w
<1>6. CASE old.links - 1 # 0
  <2>1. ~w
    <3>1. w => old.links = 1
      BY <1>2, <1>3 DEF Whole, NodeOf
    <3> QED BY <1>6, <3>1
  <2>2. Works(disk, p, w, {}, {})
    <3> DEFINE R == {}
               I == {}
    <3>1. R \subseteq Mine(disk, e) /\ I \subseteq {e.ino}
      OBVIOUS
    <3> HIDE DEF R, I
    <3>2. Works(disk, p, w, R, I)
      BY <1>1, <1>2, <1>4, <2>1, <3>1, NameRemoved
    <3> QED BY <3>2 DEF R, I
  <2> QED BY <1>1, <1>2, <1>4, <1>6, <2>2, Planned DEF w
<1> QED BY <1>5, <1>6

LEMMA NextWrite ==
  ASSUME DiskInv, DiskWrite
  PROVE  DiskInv' /\ Keeps(disk, disk')
<1> DEFINE s == todo
           u == todo'
           n == Len(s)
<1>1. s \in Seq(Disks) /\ s # <<>> /\ u = Tail(s) /\ disk' = Head(s)
      /\ \A k \in 1..n : Safe(s[k]) /\ Keeps(Before(disk, s, k), s[k])
      /\ panic' = panic /\ intact' = intact /\ restarts' = restarts
  BY DEF DiskInv, Chain, DiskWrite
<1> HIDE DEF s, u, n
<1>2. n \in Nat /\ n >= 1 /\ n = Len(s)
  BY <1>1, LenProperties DEF n
<1>3. disk' = s[1] /\ u \in Seq(Disks) /\ Len(u) = n - 1 /\ \A k \in 1..n - 1 : u[k] = s[k + 1]
  BY <1>1, <1>2, HeadTailProperties
<1>4. Safe(disk') /\ Keeps(disk, disk')
  <2>1. 1 \in 1..n
    BY <1>2
  <2>2. Before(disk, s, 1) = disk
    BY DEF Before
  <2> QED BY <1>1, <1>3, <2>1, <2>2
<1>5. Chain(disk', u)
  <2>1. ASSUME NEW k \in 1..n - 1
        PROVE  Safe(u[k]) /\ Keeps(Before(disk', u, k), u[k])
    <3>1. k + 1 \in 1..n /\ k + 1 # 1 /\ (k + 1) - 1 = k
      BY <1>2
    <3>2. u[k] = s[k + 1] /\ Safe(s[k + 1]) /\ Keeps(s[k], s[k + 1])
      BY <1>1, <1>3, <3>1 DEF Before
    <3>3. Before(disk', u, k) = s[k]
      <4>1. CASE k = 1
        BY <1>3, <4>1 DEF Before
      <4>2. CASE k # 1
        <5>1. k - 1 \in 1..n - 1 /\ (k - 1) + 1 = k
          BY <1>2, <4>2
        <5>2. u[k - 1] = s[k]
          BY <1>3, <5>1
        <5> QED BY <4>2, <5>2 DEF Before
      <4> QED BY <4>1, <4>2
    <3> QED BY <3>2, <3>3
  <2> QED BY <1>3, <2>1 DEF Chain
<1>6. Final(disk', u) = Final(disk, s)
  <2>1. CASE n = 1
    <3>1. u = <<>>
      BY <1>3, <2>1, EmptySeq
    <3> QED BY <1>1, <1>2, <1>3, <2>1, <3>1 DEF Final
  <2>2. CASE n # 1
    <3>1. n - 1 \in 1..n - 1 /\ (n - 1) + 1 = n
      BY <1>2, <2>2
    <3>2. u # <<>>
      BY <1>3, <3>1, EmptySeq
    <3>3. u[n - 1] = s[n]
      BY <1>3, <3>1
    <3> QED BY <1>1, <1>2, <1>3, <3>2, <3>3 DEF Final
  <2> QED BY <2>1, <2>2
<1>7. /\ panic \in BOOLEAN /\ intact \in BOOLEAN /\ restarts \in 0..Restarts
      /\ intact /\ ~panic => Whole(Final(disk, s), {}, {})
  BY DEF DiskInv, s
<1>8. DiskInv'
  <2>1. Safe(disk') /\ Chain(disk', todo')
    BY <1>4, <1>5 DEF u
  <2>0. panic' = panic /\ intact' = intact /\ restarts' = restarts
    BY DEF DiskWrite
  <2>2. panic' \in BOOLEAN /\ intact' \in BOOLEAN /\ restarts' \in 0..Restarts
    BY ONLY <1>7, <2>0
  <2>3. intact' /\ ~panic' => Whole(Final(disk', todo'), {}, {})
    <3>1. Final(disk', todo') = Final(disk, s)
      BY <1>6 DEF u
    <3>2. (intact /\ ~panic) = (intact' /\ ~panic')
      BY ONLY <2>0
    <3> QED BY ONLY <1>7, <3>1, <3>2
  <2> QED BY <2>1, <2>2, <2>3 DEF DiskInv
<1> QED BY <1>4, <1>8

LEMMA StartsAgain ==
  ASSUME DiskInv, Restart
  PROVE  DiskInv'
<1>1. /\ disk' = disk /\ todo' = <<>> /\ panic' = FALSE /\ intact' = FALSE
      /\ restarts' = restarts + 1 /\ restarts < Restarts
  BY DEF Restart
<1>2. Chain(disk', todo')
  BY <1>1, EmptyList DEF Chain
<1>3. restarts' \in 0..Restarts
  BY <1>1, Sizes DEF DiskInv
<1>4. Safe(disk')
  BY <1>1 DEF DiskInv
<1> QED BY <1>1, <1>2, <1>3, <1>4 DEF DiskInv

LEMMA EmptyDisk ==
  ASSUME Init
  PROVE  DiskInv
<1>0. /\ Metadata \subseteq Block /\ IsFiniteSet(Metadata) /\ IsFiniteSet(Ino)
      /\ Cardinality(Metadata) \in Nat /\ Cardinality(Metadata) <= Blocks
      /\ Cardinality(Ino) \in Nat /\ Blocks \in Nat /\ Room \in Nat
  BY Sizes, FS_Subset, FS_CardinalityType
<1>1. /\ disk.blocks = Metadata /\ disk.inodes = {} /\ disk.dir = {}
      /\ disk.bgd.blks = Blocks - Cardinality(Metadata)
      /\ disk.bgd.inos = Cardinality(Ino)
      /\ todo = <<>> /\ panic = FALSE /\ intact = TRUE /\ restarts = 0
  BY DEF Init
<1>2. disk \in Disks
  <2>1. NoInode \in Inode
    BY EmptyList, Sizes DEF NoInode, Inode
  <2>2. [i \in Ino |-> NoInode] \in [Ino -> Inode]
    BY <2>1
  <2>3. [b \in Block |-> <<>>] \in [Block -> Seq(Block)]
    BY EmptyList
  <2>4. Blocks - Cardinality(Metadata) \in Nat
    BY <1>0
  <2> DEFINE x == Blocks - Cardinality(Metadata)
             y == Cardinality(Ino)
             t == [i \in Ino |-> NoInode]
             q == [b \in Block |-> <<>>]
  <2>5. disk = [blocks |-> Metadata, inodes |-> {}, bgd |-> [blks |-> x, inos |-> y],
                table |-> t, dir |-> {}, ptrs |-> q]
    BY DEF Init
  <2> HIDE DEF x, y, t, q
  <2>6. x \in Nat /\ y \in Nat /\ t \in [Ino -> Inode] /\ q \in [Block -> Seq(Block)]
    BY <1>0, <2>2, <2>3, <2>4 DEF x, y, t, q
  <2> QED BY <1>0, <2>5, <2>6 DEF Disks
<1>3. Reached(disk) = {} /\ Inos(disk) = {} /\ Taken(disk, {}) = Metadata
  BY <1>1 DEF Reached, Inos, Taken
<1>4. IsFiniteSet({}) /\ Cardinality({}) = 0
  BY FS_EmptySet
<1>5. Owned(disk)
  BY <1>1 DEF Owned
<1>6. /\ disk.bgd.blks + Cardinality(Taken(disk, {})) = Blocks
      /\ disk.bgd.inos + Cardinality(Inos(disk) \cup {}) = Cardinality(Ino)
  BY <1>0, <1>1, <1>3, <1>4
<1>7. Good(disk, {}, {})
  BY <1>0, <1>1, <1>2, <1>3, <1>4, <1>5, <1>6 DEF Good
<1>8. Whole(disk, {}, {})
  BY <1>1, <1>3, <1>6 DEF Whole
<1>9. Chain(disk, todo)
  BY <1>1, EmptyList DEF Chain
<1>10. restarts \in 0..Restarts
  BY <1>1, Sizes
<1>11. Final(disk, todo) = disk
  BY <1>1 DEF Final
<1> QED BY <1>1, <1>7, <1>8, <1>9, <1>10, <1>11 DEF DiskInv, Safe
-----------------------------------------------------------------------------
(***************************************************************************)
(* The invariant, and what it says of the disk.                            *)
(***************************************************************************)
LEMMA DiskInvStep ==
  ASSUME DiskInv, [Next]_vars
  PROVE  DiskInv'
<1>1. CASE Next
  <2>1. ASSUME NEW name \in Name, make_file(name) PROVE DiskInv'
    BY <2>1, MakeFile
  <2>2. ASSUME NEW name \in Name, make_dir(name) PROVE DiskInv'
    BY <2>2, MakeDir
  <2>3. ASSUME NEW e \in disk.dir, NEW n \in 0..(Direct + PerBlock),
               write_file_content(e, n)
        PROVE  DiskInv'
    BY <2>3, WriteFile
  <2>4. ASSUME NEW e \in disk.dir, remove_entry(e) PROVE DiskInv'
    BY <2>4, RemoveEntry
  <2>5. CASE DiskWrite
    BY <2>5, NextWrite
  <2>6. CASE Restart
    BY <2>6, StartsAgain
  <2> QED BY <1>1, <2>1, <2>2, <2>3, <2>4, <2>5, <2>6 DEF Next
<1>2. CASE UNCHANGED vars
  BY <1>2 DEF vars, DiskInv
<1> QED BY <1>1, <1>2

LEMMA DiskInvariant == Spec => []DiskInv
<1>1. Init => DiskInv
  BY EmptyDisk
<1>2. DiskInv /\ [Next]_vars => DiskInv'
  BY DiskInvStep
<1> QED BY <1>1, <1>2, PTL DEF Spec

LEMMA SafeDisks ==
  ASSUME DiskInv
  PROVE  DiskIsSafe
<1>1. Good(disk, {}, {}) /\ disk \in Disks
  BY GoodIsSafe DEF DiskInv, Safe
<1>2. /\ IsFiniteSet(disk.dir) /\ Cardinality(disk.dir) <= Room
      /\ Taken(disk, {}) \subseteq disk.blocks
      /\ Inos(disk) \cup {} \subseteq disk.inodes /\ Owned(disk)
      /\ disk.bgd.blks + Cardinality(Taken(disk, {})) <= Blocks
      /\ disk.bgd.inos + Cardinality(Inos(disk) \cup {}) <= Cardinality(Ino)
  BY <1>1 DEF Good
<1>3. Cardinality(Taken(disk, {})) \in Nat /\ Cardinality(Inos(disk) \cup {}) \in Nat
  BY <1>1, TakenIsFinite, InosAreFinite
<1>4. TypeOK
  <2>1. /\ disk.blocks \subseteq Block /\ disk.inodes \subseteq Ino /\ disk.dir \subseteq Entry
        /\ disk.bgd.blks \in Nat /\ disk.bgd.inos \in Nat
        /\ disk.table \in [Ino -> Inode] /\ disk.ptrs \in [Block -> Seq(Block)]
    BY <1>1, DiskParts
  <2>2. disk.bgd.blks \in 0..Blocks /\ disk.bgd.inos \in 0..Inodes
    <3> DEFINE x == Cardinality(Taken(disk, {}))
               y == Cardinality(Inos(disk) \cup {})
               z == Cardinality(Ino)
    <3>1. /\ x \in Nat /\ y \in Nat /\ z \in 0..Inodes /\ Blocks \in Nat /\ Inodes \in Nat
          /\ disk.bgd.blks + x <= Blocks /\ disk.bgd.inos + y <= z
      BY <1>2, <1>3, Sizes
    <3> HIDE DEF x, y, z
    <3> QED BY <2>1, <3>1
  <2> QED BY <1>2, <2>1, <2>2 DEF TypeOK, DiskInv
<1>5. ReachableAreMarked
  BY <1>2, <1>4 DEF ReachableAreMarked, Taken, Inos
<1>6. OwnedOnce
  BY <1>2 DEF Owned, OwnedOnce, Mine
<1> QED BY <1>5, <1>6 DEF DiskIsSafe

LEMMA WholePools ==
  ASSUME DiskInv
  PROVE  PoolIsWhole
<1> SUFFICES ASSUME Idle, intact
             PROVE  /\ disk.blocks = Metadata \cup Reached(disk)
                    /\ disk.inodes = {e.ino : e \in disk.dir}
                    /\ disk.bgd.blks = Cardinality(Block \ disk.blocks)
                    /\ disk.bgd.inos = Cardinality(Ino \ disk.inodes)
  BY DEF PoolIsWhole
<1>1. Whole(disk, {}, {}) /\ disk \in Disks
  BY GoodIsSafe DEF DiskInv, Idle, Final, Safe
<1>2. /\ disk.blocks = Taken(disk, {}) /\ disk.inodes = Inos(disk) \cup {}
      /\ disk.bgd.blks + Cardinality(Taken(disk, {})) = Blocks
      /\ disk.bgd.inos + Cardinality(Inos(disk) \cup {}) = Cardinality(Ino)
  BY <1>1 DEF Whole
<1>3. disk.blocks \subseteq Block /\ disk.inodes \subseteq Ino
      /\ disk.bgd.blks \in Nat /\ disk.bgd.inos \in Nat
  BY <1>1, DiskParts
<1>4. ASSUME NEW S, IsFiniteSet(S), NEW X, X \subseteq S
      PROVE  /\ Cardinality(S \ X) + Cardinality(X) = Cardinality(S)
             /\ Cardinality(S \ X) \in Nat /\ Cardinality(X) \in Nat
  <2>1. S \cap X = X /\ IsFiniteSet(X) /\ IsFiniteSet(S \ X)
    BY <1>4, FS_Subset, FS_Difference
  <2>2. Cardinality(S \ X) = Cardinality(S) - Cardinality(S \cap X)
    BY <1>4, FS_Difference
  <2>3. /\ Cardinality(S) \in Nat /\ Cardinality(X) \in Nat
        /\ Cardinality(S \ X) \in Nat
    BY <1>4, <2>1, FS_CardinalityType
  <2> DEFINE x == Cardinality(S \ X)
             y == Cardinality(S)
             z == Cardinality(X)
  <2>4. x = y - z /\ x \in Nat /\ y \in Nat /\ z \in Nat
    BY <2>1, <2>2, <2>3
  <2> HIDE DEF x, y, z
  <2>5. x + z = y
    BY <2>4
  <2> QED BY <2>4, <2>5 DEF x, y, z
<1>5. disk.bgd.blks = Cardinality(Block \ disk.blocks)
  <2> DEFINE x == Cardinality(Block \ disk.blocks)
             z == Cardinality(disk.blocks)
  <2>1. x + z = Blocks /\ x \in Nat /\ z \in Nat
    BY <1>3, <1>4, Sizes
  <2>2. disk.bgd.blks + z = Blocks /\ disk.bgd.blks \in Nat
    BY <1>2, <1>3
  <2> HIDE DEF x, z
  <2>3. disk.bgd.blks = x
    BY <2>1, <2>2, Sizes
  <2> QED BY <2>3 DEF x
<1>6. disk.bgd.inos = Cardinality(Ino \ disk.inodes)
  <2> DEFINE x == Cardinality(Ino \ disk.inodes)
             y == Cardinality(Ino)
             z == Cardinality(disk.inodes)
  <2>1. x + z = y /\ x \in Nat /\ z \in Nat /\ y \in Nat
    BY <1>3, <1>4, Sizes
  <2>2. disk.bgd.inos + z = y /\ disk.bgd.inos \in Nat
    BY <1>2, <1>3
  <2> HIDE DEF x, y, z
  <2>3. disk.bgd.inos = x
    BY <2>1, <2>2
  <2> QED BY <2>3 DEF x
<1> QED BY <1>2, <1>5, <1>6 DEF Taken, Inos

(***************************************************************************)
(* Wherever the machine stops, and on a disk of any size, what the         *)
(* directory reaches is marked used and owned once (DiskIsSafe).           *)
(***************************************************************************)
THEOREM DiskStaysSafe == Spec => []DiskIsSafe
<1>1. DiskInv => DiskIsSafe
  BY SafeDisks
<1> QED BY <1>1, DiskInvariant, PTL

(***************************************************************************)
(* As long as nothing is cut off and no table is removed, every block and  *)
(* inode is free or in a file, and the counts tell how many (PoolIsWhole). *)
(***************************************************************************)
THEOREM PoolStaysWhole == Spec => []PoolIsWhole
<1>1. DiskInv => PoolIsWhole
  BY WholePools
<1> QED BY <1>1, DiskInvariant, PTL

(***************************************************************************)
(* No write takes a block from a file that keeps its name                  *)
(* (FilesKeepTheirBlocks).                                                 *)
(***************************************************************************)
THEOREM FilesKeepBlocks == Spec => FilesKeepTheirBlocks
<1> DEFINE Kept == \A e \in disk.dir \cap disk'.dir :
                     /\ IsPrefix(disk.table[e.ino].direct, disk'.table[e.ino].direct)
                     /\ ToSet(BlocksOf(disk, e)) \subseteq ToSet(BlocksOf(disk', e))
<1>1. ASSUME DiskInv, [Next]_vars PROVE [Kept]_vars
  <2>1. CASE DiskWrite
    BY <1>1, <2>1, NextWrite DEF Keeps, Mine
  <2>2. CASE UNCHANGED vars
    BY <2>2
  <2>3. CASE disk' = disk
    <3>1. disk \in Disks
      BY <1>1, GoodIsSafe DEF DiskInv, Safe
    <3>2. ASSUME NEW e \in disk.dir
          PROVE  IsPrefix(disk.table[e.ino].direct, disk.table[e.ino].direct)
      BY <3>1, EntryParts, PrefixOfItself
    <3> QED BY <2>3, <3>2
  <2>4. DiskWrite \/ UNCHANGED vars \/ disk' = disk
    BY <1>1 DEF Next, make_file, make_dir, write_file_content, remove_entry, Restart, Do
  <2> QED BY <2>1, <2>2, <2>3, <2>4
<1>2. DiskInv /\ [Next]_vars => [Kept]_vars
  BY <1>1
<1> QED BY <1>2, DiskInvariant, PTL DEF Spec, FilesKeepTheirBlocks
=============================================================================
