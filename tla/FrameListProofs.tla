--------------------------- MODULE FrameListProofs ---------------------------
(***************************************************************************)
(* The list of page frames, for every number of frames and of metadata     *)
(* slots: when a step keeps it sound.                                      *)
(***************************************************************************)
EXTENDS FrameList, FiniteSetTheorems, SequenceTheorems, NaturalsInduction,
        WellFoundedInduction, TLAPS

(***************************************************************************)
(* The inductive invariants, in parts.                                     *)
(***************************************************************************)
\* The node of low_alloc_mem_head is never given away, and no other begins there;
\* whatever leads to a slot leads to one that has been a block.
Based(m) ==
  /\ m \in [Slots -> Node]
  /\ m[Head0].addr = LOW_DATA_START_ADDR /\ m[Head0].size = Reserved /\ ~m[Head0].free
  /\ \A s \in Slots :
       /\ s # Head0 /\ m[s].size > 0 => m[s].addr > LOW_DATA_START_ADDR
       /\ m[s].next # nullptr => m[m[s].next].size > 0
       /\ m[s].prev # nullptr => m[m[s].prev].size > 0

\* Who is not in the list is not forgotten: what callers hold and have found.
Remembered(m) ==
  /\ \A i \in 1..Len(live) : live[i].addr > LOW_DATA_START_ADDR
  /\ found # Nothing => found.slot # Head0 /\ m[found.slot].size > 0

BaseInv == TypeOK /\ Based(node) /\ Remembered(node)

\* L are the slots of the list: their blocks follow each other and do not overlap.
Tiles(m, L) ==
  /\ L \subseteq Slots /\ Head0 \in L
  /\ \A s \in L :
       /\ m[s].size > 0 /\ LOW_DATA_START_ADDR <= m[s].addr /\ m[s].addr + m[s].size <= Limit
       /\ IF m[s].next = nullptr THEN m[s].addr + m[s].size = Limit
          ELSE m[s].next \in L /\ m[m[s].next].addr = m[s].addr + m[s].size
  /\ \A s, t \in L : s # t => \/ m[s].addr + m[s].size <= m[t].addr
                              \/ m[t].addr + m[t].size <= m[s].addr

BlockOf(n) == [addr |-> n.addr, size |-> n.size]

\* The used blocks among L, but for the first one, are those of l.
HeldIn(m, L, l) ==
  /\ {BlockOf(m[s]) : s \in {t \in L \ {Head0} : ~m[t].free}} = Range(l)
  /\ IsInjective(l)

\* One caller that frees in reverse order: its blocks lie in the slots in the
\* order in which it got them, and the rest in the slot after them.
Stack(m, l, top) ==
  /\ top \in Slots /\ top \in {Len(l), Len(l) + 1}
  /\ \A i \in 0..top : /\ m[i].next = IF i = top THEN nullptr ELSE i + 1
                       /\ m[i].prev = IF i = 0 THEN nullptr ELSE i - 1
                       /\ m[i].size > 0 /\ m[i].free = (i > Len(l))
  /\ \A i \in 1..top : m[i].addr = m[i - 1].addr + m[i - 1].size
  /\ \A i, j \in 0..top : i < j => m[i].addr + m[i].size <= m[j].addr
  /\ m[top].addr + m[top].size = Limit
  /\ \A i \in 1..Len(l) : l[i] = BlockOf(m[i])

StackInv ==
  reverse => /\ \E top \in Slots : Stack(node, live, top)
             /\ total_used_ram = Held(live)
             /\ status = "ok"
             /\ found # Nothing => /\ found.slot = Len(live) + 1
                                   /\ StillFits(found.slot, found.size)
-----------------------------------------------------------------------------
(***************************************************************************)
(* Induction over the natural numbers, by sets, and the least of a set.    *)
(***************************************************************************)
LEMMA LeastOf ==
  ASSUME NEW S \in SUBSET Nat, S # {}
  PROVE  \E x \in S : \A y \in S : x <= y
<1> DEFINE R == OpToRel(<, Nat)
<1>1. \A x, y \in Nat : x < y => <<x, y>> \in R
  BY DEF OpToRel
<1>2. IsWellFoundedOn(R, Nat)
  BY NatLessThanWellFounded
<1> HIDE DEF R
<1>3. PICK x \in S : \A y \in S : ~ (<<y, x>> \in R)
  BY <1>2, WFMin
<1>4. ASSUME NEW y \in S PROVE x <= y
  <2>1. x \in Nat /\ y \in Nat
    OBVIOUS
  <2>2. ~ (y < x)
    BY <1>1, <1>3, <2>1
  <2> QED BY <2>1, <2>2
<1> QED BY <1>4

LEMMA MinOf ==
  ASSUME NEW S \in SUBSET Nat, S # {}
  PROVE  Min(S) \in S
<1>1. \E x \in S : \A y \in S : x =< y
  BY LeastOf
<1> QED BY <1>1 DEF Min

LEMMA Induction ==
  ASSUME NEW T \in SUBSET Nat, 0 \in T, \A n \in T : n + 1 \in T
  PROVE  T = Nat
<1> DEFINE S == Nat \ T
<1> SUFFICES ASSUME S # {} PROVE FALSE
  OBVIOUS
<1>1. S \in SUBSET Nat
  OBVIOUS
<1>2. PICK x \in S : \A y \in S : x <= y
  <2> HIDE DEF S
  <2> QED BY <1>1, LeastOf
<1>3. x \in Nat /\ x # 0
  OBVIOUS
<1>4. x - 1 \in Nat /\ ~ (x <= x - 1) /\ (x - 1) + 1 = x
  BY <1>3
<1>5. x - 1 \notin S
  BY <1>2, <1>4
<1>6. x - 1 \in T
  BY <1>4, <1>5
<1>7. x \in T
  BY <1>4, <1>6
<1> QED BY <1>7

\* What a function that is defined by recursion makes of its first value: step
\* takes the number of the value and the one before.
StaysIn(step, S) == \A k \in Nat, v \in S : step[<<k, v>>] \in S
Iterated(g, x, step, n) == g[0] = x /\ \A k \in 1..n : g[k] = step[<<k, g[k - 1]>>]

LEMMA Iterates ==
  ASSUME NEW S, NEW x \in S, NEW step, StaysIn(step, S), NEW n \in Nat
  PROVE  \E g \in [0..n -> S] : Iterated(g, x, step, n)
<1> DEFINE Is(g, k) == /\ g \in [0..k -> S] /\ g[0] = x
                       /\ \A j \in 1..k : g[j] = step[<<j, g[j - 1]>>]
           T == {k \in Nat : \E g : Is(g, k)}
<1>0. \A k \in Nat, v \in S : step[<<k, v>>] \in S
  BY DEF StaysIn
<1>1. 0 \in T
  <2> DEFINE g == [k \in 0..0 |-> x]
  <2>1. Is(g, 0)
    OBVIOUS
  <2> QED BY <2>1
<1>2. ASSUME NEW k \in T PROVE k + 1 \in T
  <2>0. k \in Nat /\ k + 1 \in Nat
    OBVIOUS
  <2>1. PICK g : Is(g, k)
    OBVIOUS
  <2> DEFINE next == step[<<k + 1, g[k]>>]
             f == [j \in 0..(k + 1) |-> IF j = k + 1 THEN next ELSE g[j]]
  <2>2. next \in S
    <3>1. g[k] \in S
      BY <2>0, <2>1
    <3> QED BY <1>0, <2>0, <3>1
  <2>3. f \in [0..(k + 1) -> S]
    <3>1. \A j \in 0..(k + 1) : j # k + 1 => j \in 0..k
      BY <2>0
    <3> HIDE DEF next
    <3> QED BY <2>1, <2>2, <3>1
  <2>4. f[0] = x
    BY <2>0, <2>1
  <2>5. ASSUME NEW j \in 1..(k + 1) PROVE f[j] = step[<<j, f[j - 1]>>]
    <3>1. f[j - 1] = g[j - 1]
      BY <2>0
    <3>2. CASE j = k + 1
      <4>1. f[j] = next /\ j - 1 = k
        BY <2>0, <3>2
      <4> QED BY <3>1, <3>2, <4>1
    <3>3. CASE j \in 1..k
      <4>1. f[j] = g[j]
        BY <2>0, <3>3
      <4>2. g[j] = step[<<j, g[j - 1]>>]
        <5> HIDE DEF f
        <5> QED BY <2>1, <3>3
      <4> QED BY <3>1, <4>1, <4>2
    <3> QED BY <2>0, <3>2, <3>3
  <2> HIDE DEF f
  <2>6. Is(f, k + 1)
    BY <2>3, <2>4, <2>5
  <2> HIDE DEF Is
  <2> QED BY <2>0, <2>6
<1>3. T \in SUBSET Nat
  OBVIOUS
<1>4. n \in T
  <2> HIDE DEF T
  <2> QED BY <1>1, <1>2, <1>3, Induction
<1> QED BY <1>4 DEF Iterated
-----------------------------------------------------------------------------
(***************************************************************************)
(* The list, as the code walks it.                                         *)
(***************************************************************************)
LEMMA SlotFacts ==
  /\ LastSlot \in Nat \ {0} /\ Slots = 0..LastSlot /\ IsFiniteSet(Slots)
  /\ Cardinality(Slots) = LastSlot + 1 /\ Head0 \in Slots /\ nullptr \notin Slots
  /\ Slots \subseteq Nat
  /\ LOW_DATA_START_ADDR \in Nat \ {0} /\ Reserved \in Nat \ {0} /\ Frames \in Nat \ {0}
  /\ Limit \in Nat /\ Blocks \subseteq Nat \ {0} /\ Head0 = 0 /\ nullptr = -1
<1>1. /\ LastSlot \in Nat \ {0} /\ LOW_DATA_START_ADDR \in Nat \ {0} /\ Reserved \in Nat \ {0}
      /\ Frames \in Nat \ {0} /\ Blocks \subseteq Nat \ {0}
  BY FrameAssumption
<1>2. IsFiniteSet(0..LastSlot) /\ Cardinality(0..LastSlot) = LastSlot + 1
  <2>1. Cardinality(0..LastSlot) = LastSlot - 0 + 1
    BY <1>1, FS_Interval
  <2> QED BY <1>1, <2>1, FS_Interval
<1> QED BY <1>1, <1>2 DEF Slots, Head0, nullptr, Limit

LEMMA NodeParts ==
  ASSUME NEW m \in [Slots -> Node], NEW s \in Slots
  PROVE  /\ m[s].addr \in Nat /\ m[s].size \in Nat /\ m[s].free \in BOOLEAN
         /\ m[s].next \in Slots \cup {nullptr} /\ m[s].prev \in Slots \cup {nullptr}
         /\ m[s] \in Node
BY DEF Node

LEMMA ListRange ==
  ASSUME NEW S, NEW l \in Seq(S)
  PROVE  Range(l) = {l[i] : i \in 1..Len(l)} /\ Range(l) \subseteq S
<1>1. DOMAIN l = 1..Len(l) /\ \A i \in 1..Len(l) : l[i] \in S
  OBVIOUS
<1>2. Range(l) = {l[i] : i \in 1..Len(l)}
  BY <1>1 DEF Range
<1> QED BY <1>1, <1>2

\* The list after n steps of the walk: it follows the next pointers, and no slot
\* comes twice.
Walked(m, n, l) ==
  /\ l \in Seq(Slots) /\ Len(l) >= 1 /\ l[1] = Head0
  /\ \A i \in 1..(Len(l) - 1) : l[i + 1] = m[l[i]].next
  /\ \A i, j \in 1..Len(l) : l[i] = l[j] => i = j
  /\ Len(l) = n + 1 \/ m[l[Len(l)]].next \in {nullptr} \cup Range(l)

LEMMA StepWalked ==
  ASSUME NEW m \in [Slots -> Node], NEW n \in Nat, NEW l, Walked(m, n, l)
  PROVE  Walked(m, n + 1, Further(m, l))
<1> DEFINE next == m[Last(l)].next
<1>0. l \in Seq(Slots) /\ Len(l) \in Nat /\ Len(l) >= 1 /\ l[Len(l)] \in Slots
  BY DEF Walked
<1>1. Last(l) = l[Len(l)] /\ next \in Slots \cup {nullptr}
  BY <1>0, NodeParts DEF Last
<1>2. CASE next \in {nullptr} \cup Range(l)
  <2>1. Further(m, l) = l
    BY <1>2 DEF Further
  <2> QED BY <1>1, <1>2, <2>1 DEF Walked
<1>3. CASE next \notin {nullptr} \cup Range(l)
  <2> DEFINE k == Append(l, next)
  <2>1. Further(m, l) = k
    BY <1>3 DEF Further
  <2>2. next \in Slots /\ next \notin Range(l)
    BY <1>1, <1>3
  <2>3. Len(l) = n + 1
    <3> HIDE DEF next
    <3> QED BY <1>1, <1>3 DEF Walked, next
  <2> HIDE DEF next
  <2>4. /\ k \in Seq(Slots) /\ Len(k) = Len(l) + 1 /\ k[Len(l) + 1] = next
        /\ \A i \in 1..Len(l) : k[i] = l[i]
    BY <1>0, <2>2, AppendProperties
  <2> HIDE DEF k
  <2>5. \A i \in 1..(Len(k) - 1) : k[i + 1] = m[k[i]].next
    <3>1. ASSUME NEW i \in 1..(Len(k) - 1) PROVE k[i + 1] = m[k[i]].next
      <4>1. CASE i = Len(l)
        BY <1>0, <1>1, <2>4, <4>1 DEF next
      <4>2. CASE i \in 1..(Len(l) - 1)
        <5>1. l[i + 1] = m[l[i]].next
          BY <4>2 DEF Walked
        <5>2. i \in 1..Len(l) /\ i + 1 \in 1..Len(l)
          BY <1>0, <4>2
        <5> QED BY <2>4, <5>1, <5>2
      <4> QED BY <1>0, <2>4, <4>1, <4>2
    <3> QED BY <3>1
  <2>6. \A i \in 1..Len(l) : l[i] # next
    BY <1>0, <2>2, ListRange
  <2>7. \A i, j \in 1..Len(k) : k[i] = k[j] => i = j
    <3>1. \A i, j \in 1..Len(l) : l[i] = l[j] => i = j
      BY DEF Walked
    <3>2. 1..Len(k) = 1..Len(l) \cup {Len(l) + 1}
      BY <1>0, <2>4
    <3> QED BY <2>4, <2>6, <3>1, <3>2
  <2>8. k[1] = Head0
    <3>1. 1 \in 1..Len(l)
      BY <1>0
    <3> QED BY <2>4, <3>1 DEF Walked
  <2>9. Len(k) = (n + 1) + 1 /\ Len(k) >= 1
    BY <1>0, <2>3, <2>4
  <2> QED BY <2>1, <2>4, <2>5, <2>7, <2>8, <2>9 DEF Walked
<1> QED BY <1>2, <1>3

LEMMA FurtherType ==
  ASSUME NEW m \in [Slots -> Node], NEW l \in Seq(Slots) \ {<<>>}
  PROVE  Further(m, l) \in Seq(Slots) \ {<<>>}
<1> DEFINE next == m[Last(l)].next
<1>1. Last(l) \in Slots
  BY DEF Last
<1>2. next \in Slots \cup {nullptr}
  BY <1>1, NodeParts
<1>3. CASE next \in {nullptr} \cup Range(l)
  BY <1>3 DEF Further
<1>4. CASE next \notin {nullptr} \cup Range(l)
  <2>1. Further(m, l) = Append(l, next)
    BY <1>4 DEF Further
  <2> HIDE DEF next
  <2>2. next \in Slots
    BY <1>2, <1>4
  <2> QED BY <2>1, <2>2
<1> QED BY <1>3, <1>4

LEMMA ListedSteps ==
  ASSUME NEW m \in [Slots -> Node]
  PROVE  \E g : /\ Listed(m) = g[LastSlot] /\ g[0] = <<Head0>>
                /\ \A k \in 1..LastSlot : g[k] = Further(m, g[k - 1])
<1> DEFINE S == Seq(Slots) \ {<<>>}
           Is(f) == f = [n \in Slots |-> IF n = 0 THEN <<Head0>> ELSE Further(m, f[n - 1])]
           step == [p \in Nat \X S |-> Further(m, p[2])]
           one == <<Head0>>
<1>1. one \in S
  BY SlotFacts
<1>2. \A k \in Nat, v \in S : step[<<k, v>>] = Further(m, v)
  OBVIOUS
<1>3. StaysIn(step, S)
  BY <1>2, FurtherType DEF StaysIn
<1> HIDE DEF S, step
<1>4. LastSlot \in Nat
  BY SlotFacts
<1> HIDE DEF one
<1>50. \E g \in [0..LastSlot -> S] : Iterated(g, one, step, LastSlot)
  <2> HIDE DEF Is
  <2> QED BY ONLY <1>1, <1>3, <1>4, Iterates
<1>5. PICK g \in [0..LastSlot -> S] :
        g[0] = one /\ \A k \in 1..LastSlot : g[k] = step[<<k, g[k - 1]>>]
  BY <1>50 DEF Iterated
<1>6. Is(g)
  <2>1. ASSUME NEW k \in Slots
        PROVE  g[k] = IF k = 0 THEN <<Head0>> ELSE Further(m, g[k - 1])
    <3>1. CASE k = 0
      BY <1>5, <3>1 DEF one
    <3>2. CASE k \in 1..LastSlot
      <4>1. g[k - 1] \in S /\ k \in Nat /\ k # 0
        BY <1>4, <1>5, <3>2
      <4> QED BY <1>2, <1>5, <3>2, <4>1
    <3> QED BY <1>4, <3>1, <3>2, SlotFacts
  <2> QED BY <1>5, <2>1, SlotFacts
<1> DEFINE w == CHOOSE f : Is(f)
<1>7. Listed(m) = w[LastSlot]
  BY DEF Listed
<1>8. Is(w)
  BY <1>6
<1> HIDE DEF w
<1>9. w[0] = <<Head0>>
  BY <1>4, <1>8, SlotFacts
<1>10. \A k \in 1..LastSlot : w[k] = Further(m, w[k - 1])
  BY <1>4, <1>8, SlotFacts
<1> QED BY <1>7, <1>9, <1>10

\* The list begins at the head, follows the next pointers, and ends where the
\* next pointer is null or leads back into it.
LEMMA ListedIs ==
  ASSUME NEW m \in [Slots -> Node]
  PROVE  LET l == Listed(m) IN
           /\ l \in Seq(Slots) /\ Len(l) \in Nat /\ Len(l) >= 1 /\ l[1] = Head0
           /\ \A i \in 1..(Len(l) - 1) : l[i + 1] = m[l[i]].next
           /\ \A i, j \in 1..Len(l) : l[i] = l[j] => i = j
           /\ m[l[Len(l)]].next \in {nullptr} \cup Range(l)
           /\ Range(l) = {l[i] : i \in 1..Len(l)} /\ Range(l) \subseteq Slots
<1>1. PICK g : /\ Listed(m) = g[LastSlot] /\ g[0] = <<Head0>>
               /\ \A k \in 1..LastSlot : g[k] = Further(m, g[k - 1])
  BY ListedSteps
<1>2. LastSlot \in Nat
  BY SlotFacts
<1>3. Walked(m, 0, <<Head0>>)
  <2> DEFINE l == <<Head0>>
  <2>1. l \in Seq(Slots) /\ Len(l) = 1 /\ l[1] = Head0
    BY SlotFacts
  <2> HIDE DEF l
  <2>2. \A i \in 1..(Len(l) - 1) : l[i + 1] = m[l[i]].next
    BY <2>1
  <2>3. \A i, j \in 1..Len(l) : l[i] = l[j] => i = j
    BY <2>1
  <2>4. Walked(m, 0, l)
    BY <2>1, <2>2, <2>3 DEF Walked
  <2> QED BY <2>4 DEF l
<1> DEFINE T == {n \in Nat : n <= LastSlot => Walked(m, n, g[n])}
<1>4. 0 \in T
  BY <1>1, <1>3
<1>5. ASSUME NEW n \in T PROVE n + 1 \in T
  <2>1. ASSUME n + 1 <= LastSlot PROVE Walked(m, n + 1, g[n + 1])
    <3>1. n <= LastSlot /\ n + 1 \in 1..LastSlot /\ (n + 1) - 1 = n
      BY <1>2, <2>1
    <3>2. Walked(m, n, g[n])
      BY <3>1
    <3>3. g[n + 1] = Further(m, g[n])
      BY <1>1, <3>1
    <3> QED BY <3>2, <3>3, StepWalked
  <2> QED BY <2>1
<1>6. LastSlot \in T
  <2>1. T \in SUBSET Nat
    OBVIOUS
  <2> HIDE DEF T
  <2> QED BY <1>2, <1>4, <1>5, <2>1, Induction
<1> DEFINE l == Listed(m)
           last == l[Len(l)]
<1>7. Walked(m, LastSlot, l)
  BY <1>1, <1>2, <1>6
<1> HIDE DEF l, T
<1>8. l \in Seq(Slots) /\ Len(l) \in Nat /\ Len(l) >= 1 /\ last \in Slots
      /\ Range(l) = {l[i] : i \in 1..Len(l)} /\ Range(l) \subseteq Slots
  <2>1. l \in Seq(Slots) /\ Len(l) >= 1
    BY <1>7 DEF Walked
  <2> QED BY <2>1, ListRange
<1>9. m[last].next \in {nullptr} \cup Range(l)
  <2>1. SUFFICES ASSUME Len(l) = LastSlot + 1 PROVE m[last].next \in {nullptr} \cup Range(l)
    BY <1>7 DEF Walked
  <2>2. \A i, j \in 1..Len(l) : l[i] = l[j] => i = j
    BY <1>7 DEF Walked
  <2>3. IsFiniteSet(1..Len(l)) /\ Cardinality(1..Len(l)) = LastSlot + 1
    <3>1. Cardinality(1..(LastSlot + 1)) = (LastSlot + 1) - 1 + 1 /\ IsFiniteSet(1..(LastSlot + 1))
      BY <1>2, FS_Interval
    <3> QED BY <1>2, <2>1, <3>1
  <2>4. l \in Bijection(1..Len(l), Range(l))
    <3>1. l \in [1..Len(l) -> Range(l)]
      BY <1>8
    <3> QED BY <1>8, <2>2, <3>1 DEF Bijection, Injection, Surjection, IsInjective
  <2>5. IsFiniteSet(Range(l)) /\ Cardinality(Range(l)) = LastSlot + 1
    BY <2>3, <2>4, FS_Bijection DEF ExistsBijection
  <2>6. Range(l) = Slots
    BY <1>8, <2>5, FS_Subset, SlotFacts
  <2>7. m[last].next \in Slots \cup {nullptr}
    BY <1>8, NodeParts
  <2> QED BY <2>6, <2>7
<1> QED BY <1>7, <1>8, <1>9 DEF Walked, l
-----------------------------------------------------------------------------
(***************************************************************************)
(* What a sound list is, without the order of the walk.                    *)
(***************************************************************************)
\* Blocks that follow each other do not overlap.
LEMMA InOrder ==
  ASSUME NEW m \in [Slots -> Node], NEW l \in Seq(Slots),
         \A i \in 1..(Len(l) - 1) : m[l[i + 1]].addr = m[l[i]].addr + m[l[i]].size
  PROVE  \A i, j \in 1..Len(l) : i < j => m[l[i]].addr + m[l[i]].size <= m[l[j]].addr
<1>0. Len(l) \in Nat /\ \A i \in 1..Len(l) : l[i] \in Slots
  OBVIOUS
<1> DEFINE addr(i) == m[l[i]].addr
           size(i) == m[l[i]].size
<1>1. \A i \in 1..Len(l) : addr(i) \in Nat /\ size(i) \in Nat
  BY <1>0, NodeParts
<1>2. \A i \in 1..(Len(l) - 1) : addr(i + 1) = addr(i) + size(i)
  OBVIOUS
<1> HIDE DEF addr, size
<1>3. ASSUME NEW i \in 1..Len(l), NEW j \in 1..Len(l), i < j PROVE addr(i) + size(i) <= addr(j)
  <2> DEFINE T == {d \in Nat : i + 1 + d <= Len(l) => addr(i) + size(i) <= addr(i + 1 + d)}
  <2>1. 0 \in T
    <3>1. ASSUME i + 1 + 0 <= Len(l) PROVE addr(i) + size(i) <= addr(i + 1 + 0)
      <4>1. i \in 1..(Len(l) - 1) /\ i + 1 + 0 = i + 1 /\ i + 1 \in 1..Len(l)
        BY <1>0, <3>1
      <4>2. addr(i + 1) = addr(i) + size(i) /\ addr(i + 1) \in Nat
        BY <1>1, <1>2, <4>1
      <4> QED BY <4>1, <4>2
    <3> QED BY <3>1
  <2>2. ASSUME NEW d \in T PROVE d + 1 \in T
    <3>1. ASSUME i + 1 + (d + 1) <= Len(l) PROVE addr(i) + size(i) <= addr(i + 1 + (d + 1))
      <4> DEFINE k == i + 1 + d
      <4>1. k \in 1..(Len(l) - 1) /\ k \in 1..Len(l) /\ i + 1 + (d + 1) = k + 1 /\ k <= Len(l)
            /\ k + 1 \in 1..Len(l)
        BY <1>0, <3>1
      <4>2. addr(i) + size(i) <= addr(k)
        BY <4>1
      <4> HIDE DEF k
      <4>3. addr(k + 1) = addr(k) + size(k)
        BY <1>2, <4>1
      <4>4. addr(k) \in Nat /\ size(k) \in Nat /\ addr(i) \in Nat /\ size(i) \in Nat
        BY <1>1, <4>1
      <4>5. addr(i) + size(i) <= addr(k + 1)
        BY <4>2, <4>3, <4>4
      <4> QED BY <4>1, <4>5
    <3> QED BY <3>1
  <2>3. j - i - 1 \in T
    <3>1. T \in SUBSET Nat /\ j - i - 1 \in Nat
      BY <1>0, <1>3
    <3> HIDE DEF T
    <3> QED BY <2>1, <2>2, <3>1, Induction
  <2>4. i + 1 + (j - i - 1) = j /\ j <= Len(l)
    BY <1>0
  <2>5. addr(i) + size(i) <= addr(i + 1 + (j - i - 1))
    BY <2>3, <2>4
  <2> QED BY <2>4, <2>5
<1> QED BY <1>3 DEF addr, size

LEMMA SizeOfListed ==
  ASSUME NEW m, Based(m)
  PROVE  \A s \in Range(Listed(m)) : m[s].size > 0
<1>0. m \in [Slots -> Node] /\ m[Head0].size = Reserved
  BY DEF Based
<1> DEFINE l == Listed(m)
<1>1. /\ Len(l) \in Nat /\ l[1] = Head0 /\ Range(l) = {l[i] : i \in 1..Len(l)}
      /\ Range(l) \subseteq Slots
      /\ \A i \in 1..(Len(l) - 1) : l[i + 1] = m[l[i]].next
  BY <1>0, ListedIs
<1> HIDE DEF l
<1>2. ASSUME NEW i \in 1..Len(l) PROVE m[l[i]].size > 0
  <2>1. CASE i = 1
    BY <1>0, <1>1, <2>1, SlotFacts
  <2>2. CASE i # 1
    <3>1. i - 1 \in 1..(Len(l) - 1) /\ i - 1 \in 1..Len(l) /\ (i - 1) + 1 = i
      BY <1>1, <2>2
    <3>2. l[i] = m[l[i - 1]].next /\ l[i - 1] \in Slots /\ l[i] \in Slots
      BY <1>1, <3>1
    <3>3. l[i] # nullptr
      BY <3>2, SlotFacts
    <3> QED BY <3>2, <3>3 DEF Based
  <2> QED BY <2>1, <2>2
<1> QED BY <1>1, <1>2 DEF l

LEMMA SoundTiles ==
  ASSUME NEW m, NEW v, Based(m), IsSound(m, v)
  PROVE  Tiles(m, Range(Listed(m))) /\ HeldIn(m, Range(Listed(m)), v)
<1>0. m \in [Slots -> Node]
  BY DEF Based
<1> DEFINE l == Listed(m)
           L == Range(l)
           last == l[Len(l)]
<1>1. /\ l \in Seq(Slots) /\ Len(l) \in Nat /\ Len(l) >= 1 /\ l[1] = Head0
      /\ \A i \in 1..(Len(l) - 1) : l[i + 1] = m[l[i]].next
      /\ \A i, j \in 1..Len(l) : l[i] = l[j] => i = j
      /\ L = {l[i] : i \in 1..Len(l)} /\ L \subseteq Slots
  BY <1>0, ListedIs
<1>2. /\ m[last].next = nullptr
      /\ m[l[1]].addr = LOW_DATA_START_ADDR
      /\ \A i \in 1..(Len(l) - 1) : m[l[i + 1]].addr = m[l[i]].addr + m[l[i]].size
      /\ m[last].addr + m[last].size = Limit
  BY DEF IsSound, Cyclic, Last
<1>3. \A s \in L : m[s].size > 0
  BY SizeOfListed
<1>4. HeldIn(m, L, v)
  BY DEF IsSound, HeldIn, Used, BlockOf
<1> HIDE DEF l
<1>5. \A i, j \in 1..Len(l) : i < j => m[l[i]].addr + m[l[i]].size <= m[l[j]].addr
  <2> HIDE DEF L, last
  <2> QED BY <1>0, <1>1, <1>2, InOrder
<1> HIDE DEF L
<1>6. \A s \in L : m[s].addr \in Nat /\ m[s].size \in Nat
  BY <1>0, <1>1, NodeParts
<1>7. Head0 \in L /\ 1 \in 1..Len(l) /\ Len(l) \in 1..Len(l) /\ last \in L
  BY <1>1
<1>8. ASSUME NEW s \in L
      PROVE  /\ LOW_DATA_START_ADDR <= m[s].addr /\ m[s].addr + m[s].size <= Limit
             /\ IF m[s].next = nullptr THEN m[s].addr + m[s].size = Limit
                ELSE m[s].next \in L /\ m[m[s].next].addr = m[s].addr + m[s].size
  <2>1. PICK i \in 1..Len(l) : s = l[i]
    BY <1>1
  <2>2. m[s].addr \in Nat /\ m[s].size \in Nat /\ m[l[1]].addr \in Nat /\ m[l[1]].size \in Nat
        /\ m[last].addr \in Nat /\ m[last].size \in Nat
    BY <1>1, <1>6, <1>7
  <2>3. LOW_DATA_START_ADDR <= m[s].addr
    <3>1. CASE i = 1
      BY <1>2, <2>1, <2>2, <3>1
    <3>2. CASE i # 1
      <4>1. m[l[1]].addr + m[l[1]].size <= m[s].addr
        BY <1>1, <1>5, <1>7, <2>1, <3>2
      <4> QED BY <1>2, <2>2, <4>1
    <3> QED BY <3>1, <3>2
  <2>4. CASE i = Len(l)
    <3>1. s = last
      BY <2>1, <2>4
    <3>2. m[s].next = nullptr /\ m[s].addr + m[s].size = Limit
      BY <1>2, <3>1
    <3> QED BY <2>2, <2>3, <3>2
  <2>5. CASE i # Len(l)
    <3>1. i \in 1..(Len(l) - 1) /\ i + 1 \in 1..Len(l) /\ i < Len(l)
      BY <1>1, <2>5
    <3>2. m[s].next = l[i + 1] /\ m[l[i + 1]].addr = m[s].addr + m[s].size
      BY <1>1, <1>2, <2>1, <3>1
    <3>3. l[i + 1] \in L /\ l[i + 1] # nullptr
      BY <1>1, <3>1, SlotFacts
    <3>4. m[s].addr + m[s].size <= m[last].addr
      BY <1>5, <1>7, <2>1, <3>1
    <3>5. m[s].addr + m[s].size <= Limit
      <4>1. m[last].addr + m[last].size = Limit
        BY <1>2
      <4> HIDE DEF last
      <4> QED BY ONLY <2>2, <3>4, <4>1
    <3> QED BY <2>3, <3>2, <3>3, <3>5
  <2> QED BY <2>4, <2>5
<1>9. ASSUME NEW s \in L, NEW t \in L, s # t
      PROVE  m[s].addr + m[s].size <= m[t].addr \/ m[t].addr + m[t].size <= m[s].addr
  <2>1. PICK i \in 1..Len(l) : s = l[i]
    BY <1>1
  <2>2. PICK j \in 1..Len(l) : t = l[j]
    BY <1>1
  <2>3. i < j \/ j < i
    BY <1>9, <2>1, <2>2
  <2> QED BY <1>5, <2>1, <2>2, <2>3
<1>10. Tiles(m, L)
  BY <1>1, <1>3, <1>7, <1>8, <1>9 DEF Tiles
<1> QED BY <1>4, <1>10 DEF L, l

LEMMA TilesSound ==
  ASSUME NEW m \in [Slots -> Node], m[Head0].addr = LOW_DATA_START_ADDR,
         NEW L, Tiles(m, L)
  PROVE  /\ Range(Listed(m)) = L /\ ~Cyclic(m)
         /\ \A v : HeldIn(m, L, v) => IsSound(m, v)
<1> DEFINE l == Listed(m)
           last == l[Len(l)]
<1>1. /\ l \in Seq(Slots) /\ Len(l) \in Nat /\ Len(l) >= 1 /\ l[1] = Head0
      /\ \A i \in 1..(Len(l) - 1) : l[i + 1] = m[l[i]].next
      /\ m[last].next \in {nullptr} \cup Range(l)
      /\ Range(l) = {l[i] : i \in 1..Len(l)} /\ Range(l) \subseteq Slots
  BY ListedIs
<1> HIDE DEF l
<1>2. /\ L \subseteq Slots /\ Head0 \in L
      /\ \A s \in L : /\ m[s].size > 0 /\ m[s].addr + m[s].size <= Limit
                      /\ LOW_DATA_START_ADDR <= m[s].addr
                      /\ IF m[s].next = nullptr THEN m[s].addr + m[s].size = Limit
                         ELSE m[s].next \in L /\ m[m[s].next].addr = m[s].addr + m[s].size
      /\ \A s, t \in L : s # t => \/ m[s].addr + m[s].size <= m[t].addr
                                  \/ m[t].addr + m[t].size <= m[s].addr
  BY DEF Tiles
<1>3. \A s \in L : s \in Slots /\ m[s].addr \in Nat /\ m[s].size \in Nat
  BY <1>2, NodeParts
<1>4. \A i \in 1..Len(l) : l[i] \in L
  <2> DEFINE T == {n \in Nat : n + 1 <= Len(l) => l[n + 1] \in L}
  <2>1. 0 \in T
    BY <1>1, <1>2
  <2>2. ASSUME NEW n \in T PROVE n + 1 \in T
    <3>1. ASSUME (n + 1) + 1 <= Len(l) PROVE l[(n + 1) + 1] \in L
      <4>1. n + 1 \in 1..(Len(l) - 1) /\ n + 1 <= Len(l) /\ (n + 1) + 1 \in 1..Len(l)
        BY <1>1, <3>1
      <4>2. l[n + 1] \in L
        BY <4>1
      <4>3. l[(n + 1) + 1] = m[l[n + 1]].next
        BY <1>1, <4>1
      <4>4. l[(n + 1) + 1] # nullptr
        BY <1>1, <4>1, SlotFacts
      <4> QED BY <1>2, <4>2, <4>3, <4>4
    <3> QED BY <3>1
  <2>3. T = Nat
    <3>1. T \in SUBSET Nat
      OBVIOUS
    <3> HIDE DEF T
    <3> QED BY <2>1, <2>2, <3>1, Induction
  <2>4. ASSUME NEW i \in 1..Len(l) PROVE l[i] \in L
    <3>1. i - 1 \in Nat /\ (i - 1) + 1 = i /\ i <= Len(l)
      BY <1>1
    <3>2. i - 1 \in T
      <4> HIDE DEF T
      <4> QED BY <2>3, <3>1
    <3> QED BY <3>1, <3>2
  <2> QED BY <2>4
<1>5. \A i \in 1..(Len(l) - 1) : m[l[i + 1]].addr = m[l[i]].addr + m[l[i]].size
  <2>1. ASSUME NEW i \in 1..(Len(l) - 1) PROVE m[l[i + 1]].addr = m[l[i]].addr + m[l[i]].size
    <3>1. i \in 1..Len(l) /\ i + 1 \in 1..Len(l)
      BY <1>1
    <3>2. l[i + 1] = m[l[i]].next /\ l[i] \in L /\ l[i + 1] # nullptr
      BY <1>1, <1>4, <3>1, SlotFacts
    <3> QED BY <1>2, <3>2
  <2> QED BY <2>1
<1>6. \A i, j \in 1..Len(l) : i < j => m[l[i]].addr + m[l[i]].size <= m[l[j]].addr
  BY <1>1, <1>5, InOrder
<1>7. Len(l) \in 1..Len(l) /\ 1 \in 1..Len(l) /\ last \in L
  BY <1>1, <1>4
<1>8. m[last].next = nullptr
  <2>1. SUFFICES ASSUME m[last].next # nullptr PROVE FALSE
    OBVIOUS
  <2>2. PICK i \in 1..Len(l) : m[last].next = l[i]
    BY <1>1, <2>1
  <2>3. m[l[i]].addr = m[last].addr + m[last].size
    BY <1>2, <1>7, <2>1, <2>2
  <2>4. m[l[i]].addr \in Nat /\ m[l[i]].size \in Nat /\ m[last].addr \in Nat
        /\ m[last].size \in Nat /\ m[last].size > 0 /\ m[l[i]].size > 0
    BY <1>2, <1>3, <1>4, <1>7
  <2>5. CASE i = Len(l)
    BY <2>3, <2>4, <2>5
  <2>6. CASE i < Len(l)
    <3>1. m[l[i]].addr + m[l[i]].size <= m[last].addr
      BY <1>6, <1>7, <2>6
    <3> QED BY <2>3, <2>4, <3>1
  <2> QED BY <1>1, <2>5, <2>6
<1>9. m[last].addr + m[last].size = Limit
  BY <1>2, <1>7, <1>8
<1>10. ASSUME NEW b \in L PROVE b \in Range(l)
  <2> DEFINE T == {n \in Nat : n + 1 <= Len(l) => (m[b].addr <= m[l[n + 1]].addr => b \in Range(l))}
  <2>0. m[b].addr \in Nat /\ m[b].size \in Nat /\ m[b].size > 0
    BY <1>2, <1>3
  <2>1. 0 \in T
    <3>1. ASSUME m[b].addr <= m[l[0 + 1]].addr PROVE b \in Range(l)
      <4>1. m[b].addr <= m[Head0].addr /\ LOW_DATA_START_ADDR <= m[b].addr
        BY <1>1, <1>2, <3>1
      <4>2. m[b].addr = m[Head0].addr /\ m[Head0].size > 0 /\ m[Head0].size \in Nat
        BY <1>2, <1>3, <2>0, <4>1, SlotFacts
      <4>3. b = Head0
        BY <1>2, <2>0, <4>2
      <4> QED BY <1>1, <1>7, <4>3
    <3> QED BY <3>1
  <2>2. ASSUME NEW n \in T PROVE n + 1 \in T
    <3>1. ASSUME (n + 1) + 1 <= Len(l), m[b].addr <= m[l[(n + 1) + 1]].addr PROVE b \in Range(l)
      <4> DEFINE s == l[n + 1]
                 t == l[(n + 1) + 1]
      <4>1. n + 1 \in 1..(Len(l) - 1) /\ n + 1 \in 1..Len(l) /\ (n + 1) + 1 \in 1..Len(l)
            /\ n + 1 <= Len(l)
        BY <1>1, <3>1
      <4>2. s \in L /\ t \in L /\ t \in Range(l) /\ s \in Range(l)
        BY <1>1, <1>4, <4>1
      <4>3. m[t].addr = m[s].addr + m[s].size
        BY <1>5, <4>1
      <4>4. m[b].addr <= m[s].addr => b \in Range(l)
        BY <4>1
      <4>5. m[b].addr <= m[t].addr
        BY <3>1
      <4> HIDE DEF s, t
      <4>6. /\ m[s].addr \in Nat /\ m[s].size \in Nat /\ m[s].size > 0
            /\ m[t].addr \in Nat /\ m[t].size \in Nat /\ m[t].size > 0
        BY <1>2, <1>3, <4>2
      <4>7. SUFFICES ASSUME b # s, b # t, ~(m[b].addr <= m[s].addr) PROVE FALSE
        BY <4>2, <4>4
      <4>8. m[s].addr + m[s].size <= m[b].addr \/ m[b].addr + m[b].size <= m[s].addr
        BY <1>2, <4>2, <4>7
      <4>9. m[t].addr + m[t].size <= m[b].addr \/ m[b].addr + m[b].size <= m[t].addr
        BY <1>2, <4>2, <4>7
      <4>10. m[b].addr \in Nat /\ m[b].size \in Nat /\ m[b].size > 0
        BY <1>2, <1>3, <2>0
      <4> HIDE DEF T
      <4>11. m[s].addr + m[s].size <= m[b].addr
        BY ONLY <4>6, <4>7, <4>8, <4>10
      <4>12. m[b].addr = m[t].addr
        BY ONLY <4>3, <4>5, <4>6, <4>10, <4>11
      <4> QED BY ONLY <4>6, <4>9, <4>10, <4>12
    <3> QED BY <3>1
  <2>3. T = Nat
    <3>1. T \in SUBSET Nat
      OBVIOUS
    <3> HIDE DEF T
    <3> QED BY <2>1, <2>2, <3>1, Induction
  <2>4. Len(l) - 1 \in Nat /\ (Len(l) - 1) + 1 = Len(l) /\ Len(l) <= Len(l)
    BY <1>1
  <2>9. Len(l) - 1 \in T
    <3> HIDE DEF T
    <3> QED BY <2>3, <2>4
  <2>5. m[b].addr <= m[last].addr => b \in Range(l)
    BY <2>4, <2>9
  <2>6. SUFFICES ASSUME b # last, ~(m[b].addr <= m[last].addr) PROVE FALSE
    BY <1>1, <1>7, <2>5
  <2>7. m[last].addr + m[last].size <= m[b].addr \/ m[b].addr + m[b].size <= m[last].addr
    BY <1>2, <1>7, <2>6
  <2>8. m[last].addr \in Nat /\ m[last].size \in Nat /\ m[b].addr + m[b].size <= Limit
    BY <1>2, <1>3, <1>7
  <2> QED BY <1>9, <2>0, <2>6, <2>7, <2>8, SlotFacts
<1>11. Range(l) = L
  BY <1>1, <1>4, <1>10
<1>12. ~Cyclic(m)
  BY <1>8 DEF Cyclic, Last, l
<1>13. ASSUME NEW v, HeldIn(m, L, v) PROVE IsSound(m, v)
  <2>1. /\ m[l[1]].addr = LOW_DATA_START_ADDR
        /\ m[Last(l)].addr + m[Last(l)].size = Limit
    BY <1>1, <1>9 DEF Last
  <2>2. Used(m) = {t \in L \ {Head0} : ~m[t].free}
    BY <1>11 DEF Used, l
  <2>3. {[addr |-> m[s].addr, size |-> m[s].size] : s \in Used(m)} = Range(v) /\ IsInjective(v)
    BY <1>13, <2>2 DEF HeldIn, BlockOf
  <2> QED BY <1>5, <1>12, <2>1, <2>3 DEF IsSound, l
<1> QED BY <1>11, <1>12, <1>13 DEF l
-----------------------------------------------------------------------------
(***************************************************************************)
(* alloc_frame.                                                            *)
(***************************************************************************)
LEMMA AppendHeld ==
  ASSUME NEW S, NEW v \in Seq(S), NEW b \in S
  PROVE  /\ Append(v, b) \in Seq(S) /\ Range(Append(v, b)) = Range(v) \cup {b}
         /\ IsInjective(v) /\ b \notin Range(v) => IsInjective(Append(v, b))
<1> DEFINE w == Append(v, b)
<1>1. /\ w \in Seq(S) /\ Len(v) \in Nat /\ Len(w) = Len(v) + 1 /\ w[Len(v) + 1] = b
      /\ \A i \in 1..Len(v) : w[i] = v[i]
  BY AppendProperties
<1> HIDE DEF w
<1>2. 1..Len(w) = 1..Len(v) \cup {Len(v) + 1} /\ Len(v) + 1 \notin 1..Len(v)
  BY <1>1
<1>3. Range(v) = {v[i] : i \in 1..Len(v)} /\ Range(w) = {w[i] : i \in 1..Len(w)}
  BY <1>1, ListRange
<1>4. Range(w) = Range(v) \cup {b}
  BY <1>1, <1>2, <1>3
<1>5. ASSUME IsInjective(v), b \notin Range(v) PROVE IsInjective(w)
  <2>1. \A i, j \in 1..Len(v) : v[i] = v[j] => i = j
    BY <1>1, <1>5 DEF IsInjective
  <2>2. \A i \in 1..Len(v) : v[i] # b
    BY <1>3, <1>5
  <2>3. ASSUME NEW i \in 1..Len(w), NEW j \in 1..Len(w), w[i] = w[j] PROVE i = j
    BY <1>1, <1>2, <2>1, <2>2, <2>3
  <2>4. DOMAIN w = 1..Len(w)
    BY <1>1
  <2> QED BY <2>3, <2>4 DEF IsInjective
<1> QED BY <1>1, <1>4, <1>5 DEF w

\* What Taken makes of the slots: k, from m.
TakenIs(m, c, size, k) ==
  LET p == m[c].prev
      splits == m[c].size > size
  IN /\ k \in [Slots -> Node]
     /\ \A t \in Slots : t # c /\ (splits => t # c + 1) => k[t] = m[t]
     /\ k[c].size = size /\ k[c].free = FALSE /\ k[c].prev = p
     /\ k[c].next = IF splits THEN c + 1 ELSE m[c].next
     /\ splits => k[c + 1] = Slot(m[c].addr + size, m[c].size - size, TRUE, m[c].next, c)
     /\ k[c].addr = CASE p = nullptr -> m[c].addr
                      [] p = c -> m[c].addr + size
                      [] splits /\ p = c + 1 -> m[c].addr + m[c].size
                      [] OTHER -> m[p].addr + m[p].size

LEMMA TakenParts ==
  ASSUME NEW m \in [Slots -> Node], NEW c \in Slots, NEW size \in Nat,
         m[c].size > size => c + 1 \in Slots
  PROVE  TakenIs(m, c, size, Taken(m, c, size))
<1> DEFINE splits == m[c].size > size
           rest == Slot(m[c].addr + size, m[c].size - size, TRUE, m[c].next, c)
           s == IF splits THEN Split(m, c, size) ELSE m
           p == m[c].prev
           addr == IF p = nullptr THEN m[c].addr
                   ELSE IF p = c THEN m[c].addr + size ELSE s[p].addr + s[p].size
           k == Taken(m, c, size)
<1>1. /\ m[c].addr \in Nat /\ m[c].size \in Nat /\ m[c].next \in Slots \cup {nullptr}
      /\ p \in Slots \cup {nullptr} /\ c \in Nat /\ c + 1 # c
      /\ m[c] = [addr |-> m[c].addr, size |-> m[c].size, free |-> m[c].free,
                 next |-> m[c].next, prev |-> p]
  BY SlotFacts DEF Node
<1>2. splits => rest \in Node
  <2>1. splits => m[c].addr + size \in Nat /\ m[c].size - size \in Nat
    BY <1>1
  <2> QED BY <1>1, <2>1 DEF Slot, Node
<1> HIDE DEF rest
<1>3. /\ s \in [Slots -> Node]
      /\ \A t \in Slots : t # c /\ (splits => t # c + 1) => s[t] = m[t]
      /\ s[c] = [m[c] EXCEPT !.next = IF splits THEN c + 1 ELSE @]
      /\ splits => s[c + 1] = rest
  <2>1. CASE splits
    <3>1. s = [m EXCEPT ![c + 1] = rest, ![c].next = c + 1]
      BY <2>1 DEF Split, rest
    <3> DEFINE q == [m EXCEPT ![c + 1] = rest]
    <3>2. q \in [Slots -> Node] /\ q[c] = m[c] /\ q[c + 1] = rest
          /\ \A t \in Slots : t # c + 1 => q[t] = m[t]
      BY <1>1, <1>2, <2>1
    <3>3. s = [q EXCEPT ![c].next = c + 1]
      BY <3>1
    <3> HIDE DEF q, s
    <3>4. [m[c] EXCEPT !.next = c + 1] \in Node
      BY <1>1, <2>1, SlotFacts DEF Node
    <3>5. s = [q EXCEPT ![c] = [m[c] EXCEPT !.next = c + 1]]
      BY <3>2, <3>3
    <3> HIDE DEF splits
    <3> QED BY <1>1, <2>1, <3>2, <3>4, <3>5
  <2>2. CASE ~splits
    <3>1. s = m
      BY <2>2
    <3>2. [m[c] EXCEPT !.next = IF splits THEN c + 1 ELSE @] = m[c]
      <4> HIDE DEF splits
      <4> QED BY <1>1, <2>2
    <3> HIDE DEF splits, s
    <3> QED BY <2>2, <3>1, <3>2
  <2> QED BY <2>1, <2>2
<1>4. s[c].prev = p /\ s[c].addr = m[c].addr
  <2> HIDE DEF s, splits
  <2>1. s[c].prev = m[c].prev
    BY ONLY <1>1, <1>3
  <2> QED BY <1>1, <1>3, <2>1
<1>5. k = [s EXCEPT ![c].size = size, ![c].free = FALSE, ![c].addr = addr]
  <2>1. k = [s EXCEPT ![c].size = size, ![c].free = FALSE,
               ![c].addr = IF s[c].prev = nullptr THEN @
                           ELSE IF s[c].prev = c THEN @ + size
                           ELSE s[s[c].prev].addr + s[s[c].prev].size]
    BY DEF Taken
  <2> HIDE DEF s
  <2>2. k = [s EXCEPT ![c] = [[[s[c] EXCEPT !.size = size] EXCEPT !.free = FALSE] EXCEPT
               !.addr = IF s[c].prev = nullptr THEN s[c].addr
                           ELSE IF s[c].prev = c THEN s[c].addr + size
                           ELSE s[s[c].prev].addr + s[s[c].prev].size]]
    BY <1>3, <2>1 DEF Node
  <2> QED BY <1>3, <1>4, <2>2
<1>6. addr \in Nat
  <2> HIDE DEF s
  <2>1. p \in Slots => s[p].addr \in Nat /\ s[p].size \in Nat
    BY <1>3, NodeParts
  <2> QED BY <1>1, <2>1
<1>7. addr = CASE p = nullptr -> m[c].addr
              [] p = c -> m[c].addr + size
              [] splits /\ p = c + 1 -> m[c].addr + m[c].size
              [] OTHER -> m[p].addr + m[p].size
  <2> HIDE DEF s
  <2>1. splits /\ p = c + 1 => s[p].addr + s[p].size = m[c].addr + m[c].size
    <3>1. SUFFICES ASSUME splits, p = c + 1 PROVE s[p].addr + s[p].size = m[c].addr + m[c].size
      OBVIOUS
    <3>2. s[p] = rest
      BY <1>3, <3>1
    <3>3. rest.addr = m[c].addr + size /\ rest.size = m[c].size - size
      BY DEF rest, Slot
    <3>4. (m[c].addr + size) + (m[c].size - size) = m[c].addr + m[c].size
      BY <1>1
    <3> QED BY <3>2, <3>3, <3>4
  <2>2. p # c /\ p # nullptr /\ ~(splits /\ p = c + 1) => s[p] = m[p]
    BY <1>1, <1>3
  <2>3. CASE p = nullptr
    <3>1. p # c /\ p # c + 1
      BY <1>1, <2>3, SlotFacts
    <3> HIDE DEF splits, p
    <3> QED BY <2>3, <3>1 DEF addr
  <2>4. CASE p # nullptr /\ p = c
    <3>1. p # c + 1
      BY <1>1, <2>4
    <3> HIDE DEF splits, p
    <3> QED BY <2>4, <3>1 DEF addr
  <2>5. CASE p # nullptr /\ p # c /\ splits /\ p = c + 1
    <3> HIDE DEF splits, p
    <3> QED BY <2>1, <2>5
  <2>6. CASE p # nullptr /\ p # c /\ ~(splits /\ p = c + 1)
    <3> HIDE DEF splits, p
    <3> QED BY <2>2, <2>6
  <2> QED BY <2>3, <2>4, <2>5, <2>6
<1> HIDE DEF addr, s, k
<1>8. /\ k[c] \in Node /\ k[c].addr = addr /\ k[c].size = size /\ k[c].free = FALSE
      /\ k[c].next = s[c].next /\ k[c].prev = p
      /\ k \in [Slots -> Node] /\ \A t \in Slots : t # c => k[t] = s[t]
  <2> DEFINE r == s[c]
             r1 == [r EXCEPT !.size = size]
             r2 == [r1 EXCEPT !.free = FALSE]
             r3 == [r2 EXCEPT !.addr = addr]
  <2>1. r \in Node
    BY <1>3
  <2>2. k = [s EXCEPT ![c] = r3]
    BY <1>3, <1>5
  <2> HIDE DEF r
  <2>3. /\ r1 \in Node /\ r1.addr = r.addr /\ r1.size = size /\ r1.free = r.free
        /\ r1.next = r.next /\ r1.prev = r.prev
    BY <2>1 DEF Node
  <2> HIDE DEF r1
  <2>4. /\ r2 \in Node /\ r2.addr = r.addr /\ r2.size = size /\ r2.free = FALSE
        /\ r2.next = r.next /\ r2.prev = r.prev
    BY <2>3 DEF Node
  <2> HIDE DEF r2
  <2>5. /\ r3 \in Node /\ r3.addr = addr /\ r3.size = size /\ r3.free = FALSE
        /\ r3.next = r.next /\ r3.prev = r.prev
    BY <1>6, <2>4 DEF Node
  <2> HIDE DEF r3
  <2>6. r.prev = p /\ r.next = s[c].next
    BY <1>4 DEF r
  <2>7. k[c] = r3 /\ k \in [Slots -> Node] /\ \A t \in Slots : t # c => k[t] = s[t]
    BY <1>3, <2>2, <2>5
  <2> QED BY <2>5, <2>6, <2>7
<1>9. s[c].next = IF splits THEN c + 1 ELSE m[c].next
  <2> HIDE DEF splits
  <2> QED BY <1>1, <1>3
<1>10. /\ k[c].size = size /\ k[c].free = FALSE /\ k[c].prev = p
       /\ k[c].next = IF splits THEN c + 1 ELSE m[c].next
       /\ k[c].addr = addr
  BY <1>8, <1>9
<1>11. \A t \in Slots : t # c /\ (splits => t # c + 1) => k[t] = m[t]
  <2> HIDE DEF splits
  <2> QED BY <1>3, <1>8
<1>12. splits => k[c + 1] = rest
  <2> HIDE DEF splits
  <2>1. splits => c + 1 \in Slots
    BY DEF splits
  <2> QED BY <1>1, <1>3, <1>8, <2>1
<1> QED BY <1>7, <1>8, <1>10, <1>11, <1>12 DEF k, rest, TakenIs
LEMMA TileFacts ==
  ASSUME NEW m \in [Slots -> Node], NEW L, Tiles(m, L), NEW s \in L
  PROVE  /\ s \in Slots /\ s \in Nat /\ m[s].addr \in Nat /\ m[s].size \in Nat /\ m[s].size > 0
         /\ m[s].free \in BOOLEAN
         /\ LOW_DATA_START_ADDR <= m[s].addr /\ m[s].addr + m[s].size <= Limit
         /\ m[s].next = nullptr => m[s].addr + m[s].size = Limit
         /\ m[s].next # nullptr =>
              m[s].next \in L /\ m[s].next # s /\ m[m[s].next].addr = m[s].addr + m[s].size
         /\ \A t \in L : t # s => /\ \/ m[s].addr + m[s].size <= m[t].addr
                                     \/ m[t].addr + m[t].size <= m[s].addr
                                  /\ m[t].addr # m[s].addr
<1>1. s \in Slots /\ L \subseteq Slots
  BY DEF Tiles
<1>2. \A t \in L : m[t].addr \in Nat /\ m[t].size \in Nat /\ m[t].free \in BOOLEAN
  BY <1>1, NodeParts
<1>3. \A t \in L : m[t].size > 0
  BY DEF Tiles
<1>4. /\ LOW_DATA_START_ADDR <= m[s].addr /\ m[s].addr + m[s].size <= Limit
      /\ m[s].next = nullptr => m[s].addr + m[s].size = Limit
      /\ m[s].next # nullptr =>
              m[s].next \in L /\ m[m[s].next].addr = m[s].addr + m[s].size
  BY DEF Tiles
<1>5. m[s].next # nullptr => m[s].next # s
  BY <1>2, <1>3, <1>4
<1>6. ASSUME NEW t \in L, t # s
      PROVE  /\ \/ m[s].addr + m[s].size <= m[t].addr
                \/ m[t].addr + m[t].size <= m[s].addr
             /\ m[t].addr # m[s].addr
  <2>1. \/ m[s].addr + m[s].size <= m[t].addr
        \/ m[t].addr + m[t].size <= m[s].addr
    BY <1>6 DEF Tiles
  <2> QED BY <1>2, <1>3, <2>1
<1> QED BY <1>1, <1>2, <1>3, <1>4, <1>5, <1>6, SlotFacts

\* The slots of the used blocks, without the one that nobody has asked for.
UsedIn(m, L) == {t \in L \ {Head0} : ~m[t].free}

LEMMA HeldFacts ==
  ASSUME NEW m, NEW L, NEW v
  PROVE  HeldIn(m, L, v) <=> {BlockOf(m[s]) : s \in UsedIn(m, L)} = Range(v) /\ IsInjective(v)
BY DEF HeldIn, UsedIn

\* What a step leaves of the links and blocks: all but those of c.
LEMMA TakeTiles ==
  ASSUME NEW m \in [Slots -> Node], NEW L, Tiles(m, L), NEW c \in L,
         NEW size \in Nat \ {0}, m[c].size >= size,
         m[c].size > size => c + 1 \in Slots /\ c + 1 \notin L,
         m[c].prev # nullptr => m[c].prev \in L /\ m[m[c].prev].next = c
  PROVE  LET k == Taken(m, c, size)
             M == IF m[c].size > size THEN L \cup {c + 1} ELSE L
         IN /\ Tiles(k, M) /\ k \in [Slots -> Node]
            /\ k[c].addr = m[c].addr /\ k[c].size = size /\ k[c].free = FALSE
            /\ \A t \in L \ {c} : k[t] = m[t]
            /\ m[c].size > size => k[c + 1].free
<1> DEFINE k == Taken(m, c, size)
           p == m[c].prev
           splits == m[c].size > size
           M == IF splits THEN L \cup {c + 1} ELSE L
<1>1. /\ c \in Slots /\ c \in Nat /\ m[c].addr \in Nat /\ m[c].size \in Nat /\ m[c].size > 0
      /\ LOW_DATA_START_ADDR <= m[c].addr /\ m[c].addr + m[c].size <= Limit
      /\ m[c].next = nullptr => m[c].addr + m[c].size = Limit
      /\ m[c].next # nullptr =>
           m[c].next \in L /\ m[c].next # c /\ m[m[c].next].addr = m[c].addr + m[c].size
      /\ L \subseteq Slots /\ Head0 \in L
  BY TileFacts DEF Tiles
<1>2. /\ k \in [Slots -> Node]
      /\ \A t \in Slots : t # c /\ (splits => t # c + 1) => k[t] = m[t]
      /\ k[c].size = size /\ k[c].free = FALSE
      /\ k[c].next = IF splits THEN c + 1 ELSE m[c].next
      /\ splits => k[c + 1] = Slot(m[c].addr + size, m[c].size - size, TRUE, m[c].next, c)
      /\ k[c].addr = CASE p = nullptr -> m[c].addr
                       [] p = c -> m[c].addr + size
                       [] splits /\ p = c + 1 -> m[c].addr + m[c].size
                       [] OTHER -> m[p].addr + m[p].size
  <2>1. size \in Nat /\ (m[c].size > size => c + 1 \in Slots)
    OBVIOUS
  <2>2. TakenIs(m, c, size, k)
    BY <1>1, <2>1, TakenParts
  <2> HIDE DEF k
  <2> QED BY <2>2 DEF TakenIs
<1> HIDE DEF k
<1>3. k[c].addr = m[c].addr
  <2>1. CASE p = nullptr
    <3>1. p # c /\ p # c + 1
      BY <1>1, <2>1, SlotFacts
    <3> HIDE DEF splits, p
    <3> QED BY <1>2, <2>1, <3>1
  <2>2. CASE p # nullptr
    <3>1. p \in L /\ m[p].next = c
      BY <2>2
    <3>2. c # nullptr
      BY <1>1, SlotFacts
    <3>3. p # c /\ m[c].addr = m[p].addr + m[p].size
      BY <3>1, <3>2, TileFacts
    <3>4. ~(splits /\ p = c + 1)
      BY <3>1
    <3> HIDE DEF splits, p
    <3> QED BY <1>2, <2>2, <3>3, <3>4
  <2> QED BY <2>1, <2>2
<1>4. splits => /\ c + 1 \in Slots /\ c + 1 \notin L
                /\ k[c + 1].addr = m[c].addr + size /\ k[c + 1].size = m[c].size - size
                /\ k[c + 1].free /\ k[c + 1].next = m[c].next
  BY <1>2 DEF Slot
<1>5. \A t \in L \ {c} : k[t] = m[t]
  BY <1>1, <1>2, <1>4
<1>6. /\ M \subseteq Slots /\ Head0 \in M /\ L \subseteq M
      /\ splits => c + 1 \in M
  BY <1>1
<1>7. ASSUME NEW s \in M
      PROVE  /\ k[s].size > 0 /\ LOW_DATA_START_ADDR <= k[s].addr
             /\ k[s].addr + k[s].size <= Limit
             /\ IF k[s].next = nullptr THEN k[s].addr + k[s].size = Limit
                ELSE k[s].next \in M /\ k[k[s].next].addr = k[s].addr + k[s].size
  <2>1. CASE s = c
    <3>1. CASE splits
      <4>1. k[c].next = c + 1 /\ c + 1 # nullptr /\ k[c + 1].addr = m[c].addr + size
        BY <1>1, <1>2, <1>4, <3>1, SlotFacts
      <4>2. /\ m[c].addr \in Nat /\ m[c].size \in Nat /\ size \in Nat /\ size > 0
            /\ size <= m[c].size /\ LOW_DATA_START_ADDR <= m[c].addr
            /\ m[c].addr + m[c].size <= Limit /\ Limit \in Nat
        BY <1>1, SlotFacts
      <4>3. k[c].addr = m[c].addr /\ k[c].size = size /\ c + 1 \in M
        BY <1>2, <1>3, <1>6, <3>1
      <4>4. k[c].addr + k[c].size <= Limit
        BY ONLY <4>2, <4>3
      <4> HIDE DEF M, splits
      <4> QED BY <2>1, <4>1, <4>2, <4>3, <4>4
    <3>2. CASE ~splits
      <4>1. k[c].next = m[c].next /\ size = m[c].size
        BY <1>1, <1>2, <3>2
      <4>2. m[c].next # nullptr => k[m[c].next] = m[m[c].next]
        BY <1>1, <1>5
      <4> HIDE DEF splits
      <4> QED BY <1>1, <1>2, <1>3, <1>6, <2>1, <4>1, <4>2
    <3> QED BY <3>1, <3>2
  <2>2. CASE s = c + 1 /\ splits
    <3>1. /\ k[s].addr = m[c].addr + size /\ k[s].size = m[c].size - size
          /\ k[s].next = m[c].next
      BY <1>4, <2>2
    <3>2. k[s].addr + k[s].size = m[c].addr + m[c].size /\ k[s].size > 0
      BY <1>1, <2>2, <3>1
    <3>3. m[c].next # nullptr => k[m[c].next] = m[m[c].next] /\ m[c].next \in M
      BY <1>1, <1>5, <1>6
    <3>4. LOW_DATA_START_ADDR <= k[s].addr
      BY <1>1, <3>1, SlotFacts
    <3> HIDE DEF splits, M
    <3> QED BY <1>1, <3>1, <3>2, <3>3, <3>4
  <2>3. CASE s \in L /\ s # c
    <3>1. k[s] = m[s]
      BY <1>5, <2>3
    <3>2. m[s].next # nullptr => k[m[s].next].addr = m[m[s].next].addr /\ m[s].next \in L
      <4>1. m[s].next # nullptr => m[s].next \in L
        BY <2>3, TileFacts
      <4> QED BY <1>3, <1>5, <4>1
    <3> HIDE DEF M, splits
    <3> QED BY <1>6, <2>3, <3>1, <3>2, TileFacts
  <2> QED BY <2>1, <2>2, <2>3
<1>8. ASSUME NEW s \in M, NEW t \in M, s # t
      PROVE  k[s].addr + k[s].size <= k[t].addr \/ k[t].addr + k[t].size <= k[s].addr
  <2>1. \A u \in L : u # c => /\ \/ m[u].addr + m[u].size <= m[c].addr
                                 \/ m[c].addr + m[c].size <= m[u].addr
                              /\ m[u].addr \in Nat /\ m[u].size \in Nat /\ k[u] = m[u]
    BY <1>5, TileFacts
  <2>2. CASE s \in L \ {c} /\ t \in L \ {c}
    BY <1>5, <1>8, <2>2, TileFacts
  <2>3. CASE s = c /\ t \in L \ {c}
    <3> HIDE DEF splits
    <3> QED BY <1>1, <1>2, <1>3, <2>1, <2>3
  <2>4. CASE t = c /\ s \in L \ {c}
    <3> HIDE DEF splits
    <3> QED BY <1>1, <1>2, <1>3, <2>1, <2>4
  <2>5. CASE splits /\ s = c + 1 /\ t \in L \ {c}
    BY <1>1, <1>4, <2>1, <2>5
  <2>6. CASE splits /\ t = c + 1 /\ s \in L \ {c}
    BY <1>1, <1>4, <2>1, <2>6
  <2>7. CASE splits /\ s = c /\ t = c + 1
    BY <1>1, <1>2, <1>3, <1>4, <2>7
  <2>8. CASE splits /\ t = c /\ s = c + 1
    BY <1>1, <1>2, <1>3, <1>4, <2>8
  <2> QED BY <1>8, <2>2, <2>3, <2>4, <2>5, <2>6, <2>7, <2>8
<1>9. Tiles(k, M)
  <2> HIDE DEF M, splits
  <2> QED BY <1>6, <1>7, <1>8 DEF Tiles
<1> QED BY <1>2, <1>3, <1>4, <1>5, <1>9 DEF k

\* The block that is taken is added to those that are held.
LEMMA TakeHolds ==
  ASSUME NEW m \in [Slots -> Node], NEW L, Tiles(m, L), NEW S, NEW v \in Seq(S),
         HeldIn(m, L, v), NEW c \in L, c # Head0, m[c].free, NEW k, NEW M,
         M = L \/ (M = L \cup {c + 1} /\ c + 1 \notin L /\ k[c + 1].free),
         k[c].addr = m[c].addr, k[c].free = FALSE, \A t \in L \ {c} : k[t] = m[t],
         BlockOf(k[c]) \in S
  PROVE  HeldIn(k, M, Append(v, BlockOf(k[c])))
<1> DEFINE b == BlockOf(k[c])
<1>1. {BlockOf(m[s]) : s \in UsedIn(m, L)} = Range(v) /\ IsInjective(v)
  BY HeldFacts
<1>2. UsedIn(k, M) = UsedIn(m, L) \cup {c} /\ c \notin UsedIn(m, L)
  <2>1. \A t \in L : t # c => k[t] = m[t]
    OBVIOUS
  <2> QED BY <2>1 DEF UsedIn
<1>3. \A s \in UsedIn(m, L) : BlockOf(k[s]) = BlockOf(m[s])
  BY DEF UsedIn
<1>4. {BlockOf(k[s]) : s \in UsedIn(k, M)} = Range(v) \cup {b}
  BY <1>1, <1>2, <1>3
<1>5. b \notin Range(v)
  <2>1. ASSUME NEW s \in UsedIn(m, L) PROVE BlockOf(m[s]) # b
    <3>1. s \in L /\ s # c
      BY DEF UsedIn
    <3>2. m[s].addr # m[c].addr
      BY <3>1, TileFacts
    <3>3. BlockOf(m[s]).addr = m[s].addr /\ b.addr = m[c].addr
      BY DEF BlockOf
    <3> QED BY <3>2, <3>3
  <2> QED BY <1>1, <2>1
<1> HIDE DEF b
<1>6. Range(Append(v, b)) = Range(v) \cup {b} /\ IsInjective(Append(v, b))
  BY <1>1, <1>5, AppendHeld DEF b
<1>7. HeldIn(k, M, Append(v, b))
  BY <1>4, <1>6, HeldFacts
<1> QED BY <1>7 DEF b
-----------------------------------------------------------------------------
(***************************************************************************)
(* free_frame: the merging passes.                                         *)
(***************************************************************************)
LEMMA AbsorbedParts ==
  ASSUME NEW m \in [Slots -> Node], NEW s \in Slots, m[s].next # nullptr
  PROVE  LET n == m[s].next
             k == Absorbed(m, s)
         IN /\ n \in Slots /\ k \in [Slots -> Node]
            /\ k[s].size = m[s].size + m[n].size /\ k[s].next = m[n].next
            /\ \A t \in Slots :
                 /\ k[t].addr = m[t].addr /\ k[t].free = m[t].free
                 /\ t # s => k[t].size = m[t].size /\ k[t].next = m[t].next
                 /\ k[t].prev = IF t = m[n].next THEN s ELSE m[t].prev
<1> DEFINE n == m[s].next
           next == m[n].next
           size == m[s].size + m[n].size
           r1 == [m[s] EXCEPT !.size = size]
           r == [r1 EXCEPT !.next = next]
           a == [m EXCEPT ![s] = r]
           k == Absorbed(m, s)
<1>1. n \in Slots /\ next \in Slots \cup {nullptr} /\ size \in Nat /\ m[s] \in Node
  BY NodeParts
<1>2. k = IF next = nullptr THEN a ELSE [a EXCEPT ![next].prev = s]
  BY DEF Absorbed
<1>3. /\ r1 \in Node /\ r1.size = size /\ r1.addr = m[s].addr /\ r1.free = m[s].free
      /\ r1.prev = m[s].prev
  BY <1>1 DEF Node
<1> HIDE DEF next, size, r1
<1>4. /\ r \in Node /\ r.size = size /\ r.next = next /\ r.addr = m[s].addr
      /\ r.free = m[s].free /\ r.prev = m[s].prev
  BY <1>1, <1>3 DEF Node
<1> HIDE DEF r
<1>5. a \in [Slots -> Node] /\ a[s] = r /\ \A t \in Slots : t # s => a[t] = m[t]
  BY <1>4
<1> HIDE DEF a
<1> DEFINE Goal == /\ k \in [Slots -> Node] /\ k[s].size = size /\ k[s].next = next
                   /\ \A t \in Slots :
                        /\ k[t].addr = m[t].addr /\ k[t].free = m[t].free
                        /\ t # s => k[t].size = m[t].size /\ k[t].next = m[t].next
                        /\ k[t].prev = IF t = next THEN s ELSE m[t].prev
<1>6. ASSUME next = nullptr PROVE Goal
  <2>1. k = a
    BY <1>2, <1>6
  <2>2. \A t \in Slots : t # next
    BY <1>6, SlotFacts
  <2> HIDE DEF k, n
  <2> QED BY <1>4, <1>5, <2>1, <2>2
<1>7. ASSUME next # nullptr PROVE Goal
  <2> DEFINE q == [a[next] EXCEPT !.prev = s]
  <2>1. k = [a EXCEPT ![next] = q] /\ next \in Slots
    BY <1>1, <1>2, <1>5, <1>7
  <2>2. a[next] \in Node
    BY <1>5, <2>1
  <2>3. /\ q \in Node /\ q.prev = s /\ q.addr = a[next].addr /\ q.size = a[next].size
        /\ q.free = a[next].free /\ q.next = a[next].next
    BY <2>2 DEF Node
  <2> HIDE DEF q
  <2>4. k \in [Slots -> Node] /\ k[next] = q /\ \A t \in Slots : t # next => k[t] = a[t]
    BY <1>5, <2>1, <2>3
  <2> HIDE DEF k, n
  <2>5. /\ \A t \in Slots : /\ k[t].addr = a[t].addr /\ k[t].size = a[t].size
                            /\ k[t].free = a[t].free /\ k[t].next = a[t].next
                            /\ k[t].prev = IF t = next THEN s ELSE a[t].prev
    BY <2>1, <2>3, <2>4
  <2>6. /\ \A t \in Slots : /\ a[t].addr = m[t].addr /\ a[t].free = m[t].free
                            /\ a[t].prev = m[t].prev
                            /\ t # s => a[t].size = m[t].size /\ a[t].next = m[t].next
        /\ a[s].size = size /\ a[s].next = next
    BY <1>4, <1>5
  <2> QED BY <2>4, <2>5, <2>6
<1>8. Goal
  BY <1>6, <1>7
<1> HIDE DEF k, n
<1>9. n \in Slots
  BY <1>1
<1> QED BY <1>8, <1>9 DEF k, n, next, size

LEMMA AbsorbTiles ==
  ASSUME NEW m \in [Slots -> Node], ~m[Head0].free, NEW L, Tiles(m, L),
         NEW s \in L, Mergeable(m, s)
  PROVE  LET n == m[s].next
             k == Absorbed(m, s)
         IN /\ Tiles(k, L \ {n}) /\ n # s
            /\ \A v : HeldIn(m, L, v) => HeldIn(k, L \ {n}, v)
<1> DEFINE n == m[s].next
           k == Absorbed(m, s)
           M == L \ {n}
<1>1. /\ m[s].free /\ n # nullptr /\ m[n].free /\ m[n].addr = m[s].addr + m[s].size
  BY DEF Mergeable
<1>2. /\ s \in Slots /\ n \in L /\ n # s /\ m[s].addr \in Nat /\ m[s].size \in Nat
      /\ m[s].size > 0 /\ LOW_DATA_START_ADDR <= m[s].addr
  BY <1>1, TileFacts
<1>3. /\ m[n].addr \in Nat /\ m[n].size \in Nat /\ m[n].size > 0
      /\ m[n].addr + m[n].size <= Limit
      /\ m[n].next = nullptr => m[n].addr + m[n].size = Limit
      /\ m[n].next # nullptr =>
           m[n].next \in L /\ m[n].next # n /\ m[m[n].next].addr = m[n].addr + m[n].size
  BY <1>2, TileFacts
<1>4. /\ k[s].size = m[s].size + m[n].size /\ k[s].next = m[n].next
      /\ \A t \in Slots : /\ k[t].addr = m[t].addr /\ k[t].free = m[t].free
                          /\ t # s => k[t].size = m[t].size /\ k[t].next = m[t].next
  BY <1>1, <1>2, AbsorbedParts
<1> HIDE DEF n, k
<1>5. \A t \in L : t \in Slots
  BY TileFacts
<1>6. Head0 # n /\ Head0 # s /\ Head0 \in L
  BY <1>1 DEF Tiles
<1>7. M \subseteq Slots /\ Head0 \in M
  BY <1>5, <1>6
<1>8. ASSUME NEW t \in M
      PROVE  /\ k[t].size > 0 /\ LOW_DATA_START_ADDR <= k[t].addr
             /\ k[t].addr + k[t].size <= Limit
             /\ IF k[t].next = nullptr THEN k[t].addr + k[t].size = Limit
                ELSE k[t].next \in M /\ k[k[t].next].addr = k[t].addr + k[t].size
  <2>1. CASE t = s
    <3>1. k[t].addr + k[t].size = m[n].addr + m[n].size /\ k[t].size > 0
          /\ k[t].addr = m[s].addr
      BY <1>1, <1>2, <1>3, <1>4, <2>1
    <3>2. m[n].next # nullptr => m[n].next \in M /\ k[m[n].next].addr = m[m[n].next].addr
      BY <1>3, <1>4, <1>5
    <3> HIDE DEF M
    <3> QED BY <1>2, <1>3, <1>4, <2>1, <3>1, <3>2
  <2>2. CASE t # s
    <3>1. /\ t \in L /\ t \in Slots /\ t # n
          /\ k[t].addr = m[t].addr /\ k[t].size = m[t].size /\ k[t].next = m[t].next
      BY <1>4, <1>5, <2>2
    <3>2. m[t].next # n
      <4>1. SUFFICES ASSUME m[t].next = n PROVE FALSE
        OBVIOUS
      <4>2. m[t].addr + m[t].size = m[s].addr + m[s].size
        BY <1>1, <3>1, <4>1, TileFacts
      <4>3. /\ m[t].addr \in Nat /\ m[t].size \in Nat /\ m[t].size > 0
            /\ \/ m[t].addr + m[t].size <= m[s].addr
               \/ m[s].addr + m[s].size <= m[t].addr
        BY <2>2, <3>1, TileFacts
      <4> QED BY <1>2, <4>2, <4>3
    <3>3. m[t].next # nullptr =>
            m[t].next \in M /\ k[m[t].next].addr = m[t].addr + m[t].size
      <4>1. m[t].next # nullptr => m[t].next \in L /\ m[m[t].next].addr = m[t].addr + m[t].size
        BY <3>1, TileFacts
      <4> QED BY <1>4, <1>5, <3>2, <4>1
    <3>4. /\ m[t].size > 0 /\ LOW_DATA_START_ADDR <= m[t].addr /\ m[t].addr + m[t].size <= Limit
          /\ m[t].next = nullptr => m[t].addr + m[t].size = Limit
      BY <3>1, TileFacts
    <3> HIDE DEF M
    <3> QED BY <3>1, <3>3, <3>4
  <2> QED BY <2>1, <2>2
<1>9. ASSUME NEW t \in L, t # s, t # n
      PROVE  \/ k[t].addr + k[t].size <= k[s].addr
             \/ k[s].addr + k[s].size <= k[t].addr
  <2>1. /\ k[t].addr = m[t].addr /\ k[t].size = m[t].size /\ k[s].addr = m[s].addr
        /\ k[s].size = m[s].size + m[n].size
    BY <1>2, <1>4, <1>5, <1>9
  <2>2. /\ m[t].addr \in Nat /\ m[t].size \in Nat /\ m[t].size > 0
        /\ \/ m[t].addr + m[t].size <= m[s].addr
           \/ m[s].addr + m[s].size <= m[t].addr
        /\ \/ m[t].addr + m[t].size <= m[n].addr
           \/ m[n].addr + m[n].size <= m[t].addr
    BY <1>2, <1>9, TileFacts
  <2> QED BY <1>1, <1>2, <1>3, <2>1, <2>2
<1>10. ASSUME NEW t \in M, NEW u \in M, t # u
       PROVE  k[t].addr + k[t].size <= k[u].addr \/ k[u].addr + k[u].size <= k[t].addr
  <2>1. CASE t = s
    BY <1>9, <1>10, <2>1
  <2>2. CASE u = s
    BY <1>9, <1>10, <2>2
  <2>3. CASE t # s /\ u # s
    <3>1. /\ k[t].addr = m[t].addr /\ k[t].size = m[t].size
          /\ k[u].addr = m[u].addr /\ k[u].size = m[u].size
      BY <1>4, <1>5, <2>3
    <3> QED BY <1>10, <3>1, TileFacts
  <2> QED BY <2>1, <2>2, <2>3
<1>11. Tiles(k, M)
  <2> HIDE DEF M
  <2> QED BY <1>7, <1>8, <1>10 DEF Tiles
<1>12. UsedIn(k, M) = UsedIn(m, L)
  BY <1>1, <1>4, <1>5 DEF UsedIn
<1>13. \A t \in UsedIn(m, L) : BlockOf(k[t]) = BlockOf(m[t])
  <2>1. \A t \in UsedIn(m, L) : t \in Slots /\ t # s
    BY <1>1, <1>5 DEF UsedIn
  <2> QED BY <1>4, <2>1 DEF BlockOf
<1>14. ASSUME NEW v, HeldIn(m, L, v) PROVE HeldIn(k, M, v)
  <2>1. {BlockOf(m[t]) : t \in UsedIn(m, L)} = Range(v) /\ IsInjective(v)
    BY <1>14, HeldFacts
  <2>2. {BlockOf(k[t]) : t \in UsedIn(k, M)} = Range(v)
    BY <1>12, <1>13, <2>1
  <2> QED BY <2>1, <2>2, HeldFacts
<1> QED BY <1>2, <1>11, <1>14 DEF n, k
LEMMA AbsorbBased ==
  ASSUME NEW m, Based(m), NEW s \in Slots, m[s].size > 0, Mergeable(m, s)
  PROVE  /\ Based(Absorbed(m, s)) /\ Absorbed(m, s)[s].next \in Slots \cup {nullptr}
         /\ \A t \in Slots : m[t].size > 0 => Absorbed(m, s)[t].size > 0
<1> DEFINE n == m[s].next
           k == Absorbed(m, s)
<1>1. m \in [Slots -> Node] /\ m[s].free /\ n # nullptr /\ n \in Slots /\ m[n].size > 0
  <2>1. m \in [Slots -> Node] /\ m[s].free /\ n # nullptr
    BY DEF Based, Mergeable
  <2> QED BY <2>1, NodeParts DEF Based
<1>2. /\ k \in [Slots -> Node]
      /\ k[s].size = m[s].size + m[n].size /\ k[s].next = m[n].next
      /\ \A t \in Slots :
           /\ k[t].addr = m[t].addr /\ k[t].free = m[t].free
           /\ t # s => k[t].size = m[t].size /\ k[t].next = m[t].next
           /\ k[t].prev = IF t = m[n].next THEN s ELSE m[t].prev
  BY <1>1, AbsorbedParts
<1> HIDE DEF n, k
<1>3. /\ m[Head0].addr = LOW_DATA_START_ADDR /\ m[Head0].size = Reserved /\ ~m[Head0].free
      /\ \A t \in Slots : /\ t # Head0 /\ m[t].size > 0 => m[t].addr > LOW_DATA_START_ADDR
                          /\ m[t].next # nullptr => m[m[t].next].size > 0
                          /\ m[t].prev # nullptr => m[m[t].prev].size > 0
  BY DEF Based
<1>4. \A t \in Slots : /\ m[t].size \in Nat
                       /\ m[t].next \in Slots \cup {nullptr}
                       /\ m[t].prev \in Slots \cup {nullptr}
  BY <1>1, NodeParts
<1>5. s # Head0 /\ Head0 \in Slots
  BY <1>1, <1>3, SlotFacts
<1>6. \A t \in Slots : m[t].size > 0 => k[t].size > 0
  <2>1. k[s].size > 0
    BY <1>1, <1>2, <1>4
  <2> QED BY <1>2, <2>1
<1>7. \A t \in Slots : t # Head0 /\ k[t].size > 0 => k[t].addr > LOW_DATA_START_ADDR
  BY <1>2, <1>3
<1>8. \A t \in Slots : k[t].next # nullptr => k[k[t].next].size > 0
  <2>1. \A t \in Slots : \E u \in Slots : k[t].next = m[u].next
    BY <1>1, <1>2
  <2>2. \A u \in Slots : m[u].next # nullptr => k[m[u].next].size > 0
    BY <1>3, <1>4, <1>6
  <2> QED BY <2>1, <2>2
<1>9. \A t \in Slots : k[t].prev # nullptr => k[k[t].prev].size > 0
  <2>1. ASSUME NEW t \in Slots, k[t].prev # nullptr PROVE k[k[t].prev].size > 0
    <3>1. CASE k[t].prev = s
      BY <1>6, <3>1
    <3>2. CASE k[t].prev = m[t].prev
      BY <1>3, <1>4, <1>6, <2>1, <3>2
    <3> QED BY <1>2, <3>1, <3>2
  <2> QED BY <2>1
<1>10. Based(k)
  BY <1>2, <1>3, <1>5, <1>7, <1>8, <1>9 DEF Based
<1>11. k[s].next \in Slots \cup {nullptr}
  BY <1>1, <1>2, <1>4
<1> QED BY <1>6, <1>10, <1>11 DEF k

Passes == [node : [Slots -> Node], at : Slots \cup {nullptr}, merged_frames : BOOLEAN]

LEMMA TurnIs ==
  ASSUME NEW c \in Passes
  PROVE  /\ c.at # nullptr /\ Mergeable(c.node, c.at) =>
              /\ Turn(c).node = Absorbed(c.node, c.at)
              /\ Turn(c).at = Absorbed(c.node, c.at)[c.at].next
              /\ Turn(c).merged_frames
         /\ c.at # nullptr /\ ~Mergeable(c.node, c.at) =>
              /\ Turn(c).node = c.node /\ Turn(c).at = c.node[c.at].next
              /\ Turn(c).merged_frames = c.merged_frames
         /\ c.at = nullptr /\ c.merged_frames =>
              Turn(c).node = c.node /\ Turn(c).at = Head0 /\ ~Turn(c).merged_frames
         /\ c.at = nullptr /\ ~c.merged_frames => Turn(c) = c
         /\ Turn(c) \in Passes
<1> DEFINE m == c.node
           s == c.at
           a == Absorbed(m, s)
<1>0. m \in [Slots -> Node] /\ s \in Slots \cup {nullptr} /\ c.merged_frames \in BOOLEAN
  BY DEF Passes
<1>1. CASE s # nullptr /\ Mergeable(m, s)
  <2>1. Turn(c) = [node |-> a, at |-> a[s].next, merged_frames |-> TRUE]
    <3>1. (c.merged_frames \/ Mergeable(m, s)) = TRUE
      BY <1>1
    <3> QED BY <1>1, <3>1 DEF Turn, Pass
  <2>2. a \in [Slots -> Node]
    BY <1>0, <1>1, AbsorbedParts DEF Mergeable
  <2> HIDE DEF a
  <2>3. a[s].next \in Slots \cup {nullptr}
    BY <1>0, <1>1, <2>2, NodeParts
  <2>4. Turn(c) \in Passes
    BY <2>1, <2>2, <2>3 DEF Passes
  <2> QED BY <1>1, <2>1, <2>4 DEF a
<1>2. CASE s # nullptr /\ ~Mergeable(m, s)
  <2>1. Turn(c) = [node |-> m, at |-> m[s].next, merged_frames |-> c.merged_frames]
    <3>1. (c.merged_frames \/ Mergeable(m, s)) = c.merged_frames
      BY <1>0, <1>2
    <3> QED BY <1>2, <3>1 DEF Turn, Pass
  <2>2. m[s].next \in Slots \cup {nullptr}
    BY <1>0, <1>2, NodeParts
  <2>3. Turn(c) \in Passes
    BY <1>0, <2>1, <2>2 DEF Passes
  <2> QED BY <1>2, <2>1, <2>3
<1>3. CASE s = nullptr /\ c.merged_frames
  <2>1. Turn(c) = [node |-> m, at |-> Head0, merged_frames |-> FALSE]
    BY <1>3 DEF Turn, Pass
  <2>2. Turn(c) \in Passes
    BY <1>0, <2>1, SlotFacts DEF Passes
  <2> QED BY <1>3, <2>1, <2>2
<1>4. CASE s = nullptr /\ ~c.merged_frames
  <2>1. Turn(c) = c
    BY <1>4 DEF Turn
  <2> QED BY <1>4, <2>1
<1> QED BY <1>1, <1>2, <1>3, <1>4

LEMMA MergedSteps ==
  ASSUME NEW m \in [Slots -> Node]
  PROVE  /\ Turns \in Nat
         /\ \E g : /\ Merged(m) = g[Turns].node /\ g[0] = Pass(m, Head0, FALSE)
                   /\ \A k \in 1..Turns : g[k] = Turn(g[k - 1])
<1> DEFINE Is(f) == f = [n \in 0..Turns |-> IF n = 0 THEN Pass(m, Head0, FALSE) ELSE Turn(f[n - 1])]
           step == [q \in Nat \X Passes |-> Turn(q[2])]
           first == Pass(m, Head0, FALSE)
<1>0. Turns \in Nat
  BY SlotFacts DEF Turns
<1>1. first \in Passes
  BY SlotFacts DEF Pass, Passes
<1>2. \A k \in Nat, c \in Passes : step[<<k, c>>] = Turn(c)
  OBVIOUS
<1>3. StaysIn(step, Passes)
  BY <1>2, TurnIs DEF StaysIn
<1> HIDE DEF step, first
<1>4. \E g \in [0..Turns -> Passes] : Iterated(g, first, step, Turns)
  <2> HIDE DEF Is
  <2> QED BY ONLY <1>0, <1>1, <1>3, Iterates
<1>5. PICK g \in [0..Turns -> Passes] :
        g[0] = first /\ \A k \in 1..Turns : g[k] = step[<<k, g[k - 1]>>]
  BY <1>4 DEF Iterated
<1>6. Is(g)
  <2>1. ASSUME NEW k \in 0..Turns
        PROVE  g[k] = IF k = 0 THEN Pass(m, Head0, FALSE) ELSE Turn(g[k - 1])
    <3> HIDE DEF Is
    <3>1. CASE k = 0
      BY <1>5, <3>1 DEF first
    <3>2. CASE k \in 1..Turns
      <4>1. g[k - 1] \in Passes /\ k \in Nat /\ k # 0
        BY <1>0, <1>5, <3>2
      <4> QED BY <1>2, <1>5, <3>2, <4>1
    <3>3. k = 0 \/ k \in 1..Turns
      BY <1>0
    <3> QED BY ONLY <3>1, <3>2, <3>3
  <2> QED BY <1>5, <2>1
<1> DEFINE w == CHOOSE f : Is(f)
<1>7. Merged(m) = w[Turns].node
  BY DEF Merged
<1>8. Is(w)
  BY <1>6
<1> HIDE DEF w
<1>9. w[0] = Pass(m, Head0, FALSE)
  BY <1>0, <1>8
<1>10. ASSUME NEW k \in 1..Turns PROVE w[k] = Turn(w[k - 1])
  <2>1. k \in 0..Turns /\ k # 0
    BY <1>0
  <2> QED BY <1>8, <2>1
<1> QED BY <1>0, <1>7, <1>9, <1>10

\* What holds in each turn, of a list in whatever order.
KeptFrom(m, c) ==
  /\ c \in Passes /\ Based(c.node)
  /\ c.at # nullptr => c.node[c.at].size > 0
  /\ \A s \in Slots : m[s].size > 0 => c.node[s].size > 0

LEMMA TurnKept ==
  ASSUME NEW m, NEW c, KeptFrom(m, c)
  PROVE  KeptFrom(m, Turn(c))
<1> DEFINE k == c.node
           s == c.at
<1>0. /\ c \in Passes /\ Based(k) /\ Turn(c) \in Passes
      /\ s # nullptr => s \in Slots /\ k[s].size > 0
      /\ \A t \in Slots : m[t].size > 0 => k[t].size > 0
  <2>1. c \in Passes => c.at \in Slots \cup {nullptr}
    BY DEF Passes
  <2> QED BY <2>1, TurnIs DEF KeptFrom
<1>1. CASE s # nullptr /\ Mergeable(k, s)
  <2> DEFINE a == Absorbed(k, s)
  <2>1. /\ Based(a) /\ a[s].next \in Slots \cup {nullptr}
        /\ \A t \in Slots : k[t].size > 0 => a[t].size > 0
    BY <1>0, <1>1, AbsorbBased
  <2>2. Turn(c).node = a /\ Turn(c).at = a[s].next
    BY <1>0, <1>1, TurnIs
  <2> HIDE DEF a, k, s
  <2>3. a[s].next # nullptr => a[a[s].next].size > 0
    BY <1>0, <1>1, <2>1 DEF Based
  <2> QED BY <1>0, <2>1, <2>2, <2>3 DEF KeptFrom
<1>2. CASE s # nullptr /\ ~Mergeable(k, s)
  <2>1. Turn(c).node = k /\ Turn(c).at = k[s].next
    BY <1>0, <1>2, TurnIs
  <2>2. k[s].next # nullptr => k[k[s].next].size > 0
    BY <1>0, <1>2 DEF Based
  <2> QED BY <1>0, <2>1, <2>2 DEF KeptFrom
<1>3. CASE s = nullptr /\ c.merged_frames
  <2>1. Turn(c).node = k /\ Turn(c).at = Head0
    BY <1>0, <1>3, TurnIs
  <2>2. k[Head0].size > 0
    BY <1>0, SlotFacts DEF Based
  <2> QED BY <1>0, <2>1, <2>2 DEF KeptFrom
<1>4. CASE s = nullptr /\ ~c.merged_frames
  BY <1>0, <1>4, TurnIs
<1>5. c.merged_frames \in BOOLEAN
  BY <1>0 DEF Passes
<1> QED BY <1>1, <1>2, <1>3, <1>4

LEMMA MergedKept ==
  ASSUME NEW m, Based(m)
  PROVE  /\ Based(Merged(m)) /\ Merged(m) \in [Slots -> Node]
         /\ \A s \in Slots : m[s].size > 0 => Merged(m)[s].size > 0
<1>0. m \in [Slots -> Node] /\ m[Head0].size > 0
  BY SlotFacts DEF Based
<1>1. Turns \in Nat
  BY <1>0, MergedSteps
<1>2. PICK g : /\ Merged(m) = g[Turns].node /\ g[0] = Pass(m, Head0, FALSE)
               /\ \A k \in 1..Turns : g[k] = Turn(g[k - 1])
  BY <1>0, MergedSteps
<1> DEFINE T == {n \in Nat : n <= Turns => KeptFrom(m, g[n])}
<1>3. 0 \in T
  <2>1. /\ g[0].node = m /\ g[0].at = Head0 /\ g[0] \in Passes
    BY <1>0, <1>2, SlotFacts DEF Pass, Passes
  <2>2. KeptFrom(m, g[0])
    BY <1>0, <2>1 DEF KeptFrom
  <2> QED BY <2>2
<1>4. ASSUME NEW n \in T PROVE n + 1 \in T
  <2>1. ASSUME n + 1 <= Turns PROVE KeptFrom(m, g[n + 1])
    <3>1. n <= Turns /\ n + 1 \in 1..Turns /\ (n + 1) - 1 = n
      BY <1>1, <2>1
    <3>2. KeptFrom(m, g[n]) /\ g[n + 1] = Turn(g[n])
      BY <1>2, <3>1
    <3> QED BY <3>2, TurnKept
  <2> QED BY <2>1
<1>5. Turns \in T
  <2>1. T \in SUBSET Nat
    OBVIOUS
  <2> HIDE DEF T
  <2> QED BY <1>1, <1>3, <1>4, <2>1, Induction
<1>6. KeptFrom(m, g[Turns])
  BY <1>1, <1>5
<1> QED BY <1>2, <1>6 DEF KeptFrom, Based
\* What holds in each turn, of a sound list.
SoundPass(c, v) ==
  /\ c \in Passes /\ Based(c.node)
  /\ \E L : Tiles(c.node, L) /\ HeldIn(c.node, L, v) /\ (c.at # nullptr => c.at \in L)

LEMMA TurnSound ==
  ASSUME NEW c, NEW v, SoundPass(c, v)
  PROVE  SoundPass(Turn(c), v)
<1> DEFINE m == c.node
           s == c.at
<1>1. c \in Passes /\ Based(m) /\ m \in [Slots -> Node] /\ ~m[Head0].free
  BY DEF SoundPass, Based
<1>2. PICK L : Tiles(m, L) /\ HeldIn(m, L, v) /\ (s # nullptr => s \in L)
  BY DEF SoundPass
<1>3. KeptFrom(m, c)
  <2>1. s # nullptr => m[s].size > 0
    BY <1>1, <1>2, TileFacts
  <2> QED BY <1>1, <2>1 DEF KeptFrom
<1>4. Turn(c) \in Passes /\ Based(Turn(c).node)
  BY <1>3, TurnKept DEF KeptFrom
<1>5. CASE s # nullptr /\ Mergeable(m, s)
  <2> DEFINE n == m[s].next
             a == Absorbed(m, s)
  <2>1. /\ Tiles(a, L \ {n}) /\ n # s /\ HeldIn(a, L \ {n}, v)
    BY <1>1, <1>2, <1>5, AbsorbTiles
  <2>2. Turn(c).node = a /\ Turn(c).at = a[s].next
    BY <1>1, <1>5, TurnIs
  <2>3. a \in [Slots -> Node] /\ s \in L \ {n}
    BY <1>2, <1>4, <1>5, <2>1, <2>2 DEF Based
  <2> HIDE DEF a, n
  <2>4. a[s].next # nullptr => a[s].next \in L \ {n}
    BY <2>1, <2>3, TileFacts
  <2> QED BY <1>4, <2>1, <2>2, <2>4 DEF SoundPass
<1>6. CASE s # nullptr /\ ~Mergeable(m, s)
  <2>1. Turn(c).node = m /\ Turn(c).at = m[s].next
    BY <1>1, <1>6, TurnIs
  <2>2. m[s].next # nullptr => m[s].next \in L
    BY <1>1, <1>2, <1>6, TileFacts
  <2> QED BY <1>2, <1>4, <2>1, <2>2 DEF SoundPass
<1>7. CASE s = nullptr /\ c.merged_frames
  <2>1. Turn(c).node = m /\ Turn(c).at = Head0
    BY <1>1, <1>7, TurnIs
  <2>2. Head0 \in L
    BY <1>2 DEF Tiles
  <2> QED BY <1>2, <1>4, <2>1, <2>2 DEF SoundPass
<1>8. CASE s = nullptr /\ ~c.merged_frames
  BY <1>1, <1>8, TurnIs
<1>9. c.merged_frames \in BOOLEAN
  BY <1>1 DEF Passes
<1> QED BY <1>5, <1>6, <1>7, <1>8, <1>9

LEMMA MergedSound ==
  ASSUME NEW m, Based(m), NEW L, NEW v, Tiles(m, L), HeldIn(m, L, v)
  PROVE  IsSound(Merged(m), v)
<1>0. m \in [Slots -> Node] /\ Head0 \in L
  BY DEF Based, Tiles
<1>1. Turns \in Nat
  BY <1>0, MergedSteps
<1>2. PICK g : /\ Merged(m) = g[Turns].node /\ g[0] = Pass(m, Head0, FALSE)
               /\ \A k \in 1..Turns : g[k] = Turn(g[k - 1])
  BY <1>0, MergedSteps
<1> DEFINE T == {n \in Nat : n <= Turns => SoundPass(g[n], v)}
<1>3. 0 \in T
  <2>1. /\ g[0].node = m /\ g[0].at = Head0 /\ g[0] \in Passes
    BY <1>0, <1>2, SlotFacts DEF Pass, Passes
  <2>2. SoundPass(g[0], v)
    BY <1>0, <2>1 DEF SoundPass
  <2> QED BY <2>2
<1>4. ASSUME NEW n \in T PROVE n + 1 \in T
  <2>1. ASSUME n + 1 <= Turns PROVE SoundPass(g[n + 1], v)
    <3>1. n <= Turns /\ n + 1 \in 1..Turns /\ (n + 1) - 1 = n
      BY <1>1, <2>1
    <3>2. SoundPass(g[n], v) /\ g[n + 1] = Turn(g[n])
      BY <1>2, <3>1
    <3> QED BY <3>2, TurnSound
  <2> QED BY <2>1
<1>5. Turns \in T
  <2>1. T \in SUBSET Nat
    OBVIOUS
  <2> HIDE DEF T
  <2> QED BY <1>1, <1>3, <1>4, <2>1, Induction
<1>6. SoundPass(g[Turns], v)
  BY <1>1, <1>5
<1> DEFINE k == Merged(m)
<1> HIDE DEF T, k
<1>7. Based(k) /\ \E M : Tiles(k, M) /\ HeldIn(k, M, v)
  BY <1>2, <1>6 DEF SoundPass, k
<1>8. k \in [Slots -> Node] /\ k[Head0].addr = LOW_DATA_START_ADDR
  BY <1>7 DEF Based
<1>9. IsSound(k, v)
  BY <1>7, <1>8, TilesSound
<1> QED BY <1>9 DEF k

LEMMA WithoutOne ==
  ASSUME NEW S, NEW v \in Seq(S), NEW i \in 1..Len(v)
  PROVE  /\ RemoveAt(v, i) \in Seq(S) /\ Len(RemoveAt(v, i)) = Len(v) - 1
         /\ \A j \in 1..(Len(v) - 1) : RemoveAt(v, i)[j] = IF j < i THEN v[j] ELSE v[j + 1]
<1> DEFINE a == SubSeq(v, 1, i - 1)
           b == SubSeq(v, i + 1, Len(v))
           w == RemoveAt(v, i)
<1>0. Len(v) \in Nat /\ i \in Nat /\ 1 <= i /\ i <= Len(v)
  OBVIOUS
<1>1. a \in Seq(S) /\ Len(a) = i - 1 /\ \A j \in 1..(i - 1) : a[j] = v[j]
  <2>1. \A j \in 1..(i - 1) : j \in 1..Len(v)
    BY <1>0
  <2> QED BY <1>0, <2>1
<1>2. b \in Seq(S) /\ Len(b) = Len(v) - i /\ \A j \in 1..(Len(v) - i) : b[j] = v[i + j]
  <2>1. \A j \in (i + 1)..Len(v) : j \in 1..Len(v)
    BY <1>0
  <2> QED BY <1>0, <2>1
<1>3. w = a \o b
  BY DEF RemoveAt
<1> HIDE DEF a, b, w
<1>4. w \in Seq(S) /\ Len(w) = Len(v) - 1
  <2>1. w \in Seq(S) /\ Len(w) = Len(a) + Len(b)
    BY <1>1, <1>2, <1>3, ConcatProperties
  <2> QED BY <1>0, <1>1, <1>2, <2>1
<1>5. ASSUME NEW j \in 1..(Len(v) - 1) PROVE w[j] = IF j < i THEN v[j] ELSE v[j + 1]
  <2>1. w[j] = IF j <= Len(a) THEN a[j] ELSE b[j - Len(a)]
    <3>1. j \in 1..(Len(a) + Len(b))
      BY <1>0, <1>1, <1>2
    <3> QED BY <1>1, <1>2, <1>3, <3>1, ConcatProperties
  <2>2. CASE j < i
    <3>1. j \in 1..(i - 1) /\ j <= Len(a)
      BY <1>0, <1>1, <2>2
    <3> QED BY <1>1, <2>1, <2>2, <3>1
  <2>3. CASE ~(j < i)
    <3>1. /\ ~(j <= Len(a)) /\ j - Len(a) \in 1..(Len(v) - i) /\ i + (j - Len(a)) = j + 1
      BY <1>0, <1>1, <2>3
    <3> QED BY <1>2, <2>1, <2>3, <3>1
  <2> QED BY <2>2, <2>3
<1> QED BY <1>4, <1>5 DEF w

LEMMA RemoveHeld ==
  ASSUME NEW S, NEW v \in Seq(S), IsInjective(v), NEW i \in 1..Len(v)
  PROVE  Range(RemoveAt(v, i)) = Range(v) \ {v[i]} /\ IsInjective(RemoveAt(v, i))
<1> DEFINE w == RemoveAt(v, i)
<1>0. Len(v) \in Nat
  OBVIOUS
<1>1. /\ w \in Seq(S) /\ Len(w) = Len(v) - 1
      /\ \A j \in 1..(Len(v) - 1) : w[j] = IF j < i THEN v[j] ELSE v[j + 1]
  BY WithoutOne
<1> HIDE DEF w
<1>2. Range(v) = {v[j] : j \in 1..Len(v)} /\ Range(w) = {w[j] : j \in 1..Len(w)}
  BY <1>1, ListRange
<1>3. \A j, k \in 1..Len(v) : v[j] = v[k] => j = k
  BY DEF IsInjective
<1>4. ASSUME NEW j \in 1..Len(w) PROVE w[j] \in Range(v) \ {v[i]}
  <2>1. \E k \in 1..Len(v) : k # i /\ w[j] = v[k]
    <3>1. CASE j < i
      BY <1>0, <1>1, <3>1
    <3>2. CASE ~(j < i)
      <4>1. j + 1 \in 1..Len(v) /\ j + 1 # i /\ w[j] = v[j + 1]
        BY <1>0, <1>1, <3>2
      <4> QED BY <4>1
    <3> QED BY <3>1, <3>2
  <2> QED BY <1>2, <1>3, <2>1
<1>5. ASSUME NEW k \in 1..Len(v), k # i PROVE v[k] \in Range(w)
  <2>1. CASE k < i
    <3>1. k \in 1..(Len(v) - 1)
      BY <1>0, <2>1
    <3> QED BY <1>1, <1>2, <2>1, <3>1
  <2>2. CASE i < k
    <3>1. k - 1 \in 1..(Len(v) - 1) /\ ~(k - 1 < i) /\ (k - 1) + 1 = k
      BY <1>0, <2>2
    <3>2. w[k - 1] = v[k]
      BY <1>1, <3>1
    <3> QED BY <1>1, <1>2, <3>1, <3>2
  <2> QED BY <1>5, <2>1, <2>2
<1>6. Range(w) = Range(v) \ {v[i]}
  BY <1>2, <1>4, <1>5
<1>7. ASSUME NEW j \in 1..Len(w), NEW k \in 1..Len(w), w[j] = w[k] PROVE j = k
  <2> DEFINE f(x) == IF x < i THEN x ELSE x + 1
  <2>1. \A x \in 1..Len(w) : f(x) \in 1..Len(v) /\ w[x] = v[f(x)]
    <3>1. ASSUME NEW x \in 1..Len(w) PROVE f(x) \in 1..Len(v) /\ w[x] = v[f(x)]
      <4>1. x \in 1..(Len(v) - 1)
        BY <1>1
      <4>2. w[x] = IF x < i THEN v[x] ELSE v[x + 1]
        BY <1>1, <4>1
      <4> QED BY <1>0, <4>1, <4>2
    <3> QED BY <3>1
  <2>2. f(j) = f(k)
    <3> HIDE DEF f
    <3> QED BY <1>3, <1>7, <2>1
  <2>3. j \in Nat /\ k \in Nat
    BY <1>0, <1>1
  <2> QED BY <2>2, <2>3
<1>8. IsInjective(w)
  <2>1. DOMAIN w = 1..Len(w)
    BY <1>1
  <2> QED BY <1>7, <2>1 DEF IsInjective
<1> QED BY <1>6, <1>8 DEF w
-----------------------------------------------------------------------------
(***************************************************************************)
(* What the searches find, and what every step keeps.                      *)
(***************************************************************************)
LEMMA FoundIn ==
  ASSUME NEW l \in Seq(Slots), NEW places \in SUBSET (DOMAIN l), places # {}
  PROVE  Min(places) \in places /\ l[Min(places)] \in Range(l)
<1>1. places \in SUBSET Nat
  OBVIOUS
<1>2. Min(places) \in places
  BY <1>1, MinOf
<1> QED BY <1>2 DEF Range

LEMMA FitsFacts ==
  ASSUME NEW m \in [Slots -> Node], NEW size, Fits(m, size) # {}
  PROVE  LET c == FirstFit(m, size) IN
           /\ c \in Range(Listed(m)) /\ c \in Slots
           /\ m[c].free /\ m[c].size >= size
<1> DEFINE l == Listed(m)
           i == Min(Fits(m, size))
<1>1. l \in Seq(Slots) /\ Range(l) \subseteq Slots
  BY ListedIs
<1>2. Fits(m, size) = {j \in DOMAIN l : m[l[j]].free /\ m[l[j]].size >= size}
  BY DEF Fits, Places
<1> HIDE DEF l
<1>3. i \in Fits(m, size) /\ l[i] \in Range(l)
  BY <1>1, <1>2, FoundIn
<1>4. FirstFit(m, size) = l[i]
  BY DEF FirstFit, First, l
<1> HIDE DEF i
<1> QED BY <1>1, <1>2, <1>3, <1>4 DEF l

LEMMA AtFacts ==
  ASSUME NEW m \in [Slots -> Node], NEW addr
  PROVE  /\ At(m, addr) # {} => LET b == First(m, At(m, addr)) IN
                                  b \in Range(Listed(m)) /\ b \in Slots /\ m[b].addr = addr
         /\ \A s \in Range(Listed(m)) : m[s].addr = addr => At(m, addr) # {}
<1> DEFINE l == Listed(m)
           i == Min(At(m, addr))
<1>1. l \in Seq(Slots) /\ Range(l) \subseteq Slots /\ Range(l) = {l[j] : j \in 1..Len(l)}
      /\ DOMAIN l = 1..Len(l)
  BY ListedIs
<1>2. At(m, addr) = {j \in DOMAIN l : m[l[j]].addr = addr}
  BY DEF At, Places
<1> HIDE DEF l
<1>3. ASSUME At(m, addr) # {}
      PROVE  LET b == First(m, At(m, addr)) IN b \in Range(l) /\ b \in Slots /\ m[b].addr = addr
  <2>1. i \in At(m, addr) /\ l[i] \in Range(l)
    BY <1>1, <1>2, <1>3, FoundIn
  <2>2. First(m, At(m, addr)) = l[i]
    BY DEF First, l
  <2> HIDE DEF i
  <2> QED BY <1>1, <1>2, <2>1, <2>2
<1>4. ASSUME NEW s \in Range(l), m[s].addr = addr PROVE At(m, addr) # {}
  BY <1>1, <1>2, <1>4
<1> QED BY <1>3, <1>4 DEF l

LEMMA TakeBased ==
  ASSUME NEW m, Based(m), NEW c \in Slots, c # Head0, m[c].size > 0,
         NEW size \in Nat \ {0}, m[c].size > size => c + 1 \in Slots
  PROVE  LET k == Taken(m, c, size) IN
           /\ Based(k) /\ k \in [Slots -> Node] /\ k[c].addr > LOW_DATA_START_ADDR
           /\ \A s \in Slots : m[s].size > 0 => k[s].size > 0
<1> DEFINE k == Taken(m, c, size)
           p == m[c].prev
           splits == m[c].size > size
<1>0. /\ m \in [Slots -> Node] /\ size \in Nat /\ size > 0 /\ c \in Nat /\ Head0 \in Slots
      /\ Head0 = 0 /\ LOW_DATA_START_ADDR \in Nat
  BY SlotFacts DEF Based
<1>1. TakenIs(m, c, size, k)
  BY <1>0, TakenParts
<1> HIDE DEF k
<1>2. /\ k \in [Slots -> Node]
      /\ \A t \in Slots : t # c /\ (splits => t # c + 1) => k[t] = m[t]
      /\ k[c].size = size /\ k[c].free = FALSE /\ k[c].prev = p
      /\ k[c].next = IF splits THEN c + 1 ELSE m[c].next
      /\ splits => k[c + 1] = Slot(m[c].addr + size, m[c].size - size, TRUE, m[c].next, c)
      /\ k[c].addr = CASE p = nullptr -> m[c].addr
                       [] p = c -> m[c].addr + size
                       [] splits /\ p = c + 1 -> m[c].addr + m[c].size
                       [] OTHER -> m[p].addr + m[p].size
  BY <1>1 DEF TakenIs
<1>3. /\ m[Head0].addr = LOW_DATA_START_ADDR /\ m[Head0].size = Reserved /\ ~m[Head0].free
      /\ \A t \in Slots : /\ t # Head0 /\ m[t].size > 0 => m[t].addr > LOW_DATA_START_ADDR
                          /\ m[t].next # nullptr => m[m[t].next].size > 0
                          /\ m[t].prev # nullptr => m[m[t].prev].size > 0
  BY DEF Based
<1>4. \A t \in Slots : /\ m[t].size \in Nat /\ m[t].addr \in Nat
                       /\ m[t].next \in Slots \cup {nullptr}
                       /\ m[t].prev \in Slots \cup {nullptr}
  BY <1>0, NodeParts
<1>5. k[c].addr > LOW_DATA_START_ADDR
  <2>1. m[c].addr > LOW_DATA_START_ADDR /\ m[c].addr \in Nat /\ m[c].size \in Nat
    BY <1>3, <1>4
  <2>2. p # nullptr => /\ m[p].size > 0 /\ m[p].size \in Nat /\ m[p].addr \in Nat
                       /\ m[p].addr >= LOW_DATA_START_ADDR
    <3>1. SUFFICES ASSUME p # nullptr
                   PROVE  /\ m[p].size > 0 /\ m[p].size \in Nat /\ m[p].addr \in Nat
                          /\ m[p].addr >= LOW_DATA_START_ADDR
      OBVIOUS
    <3>2. p \in Slots /\ m[p].size > 0
      BY <1>3, <1>4, <3>1
    <3> HIDE DEF p
    <3>3. m[p].size \in Nat /\ m[p].addr \in Nat
      BY <1>4, <3>2
    <3> QED BY <1>0, <1>3, <3>2, <3>3
  <2>3. p # nullptr => m[p].addr + m[p].size > LOW_DATA_START_ADDR
    <3> HIDE DEF p
    <3> QED BY <1>0, <2>2
  <2>4. m[c].addr + size > LOW_DATA_START_ADDR /\ m[c].addr + m[c].size > LOW_DATA_START_ADDR
    BY <1>0, <2>1
  <2> DEFINE addr == k[c].addr
  <2>5. \/ addr = m[c].addr \/ addr = m[c].addr + size \/ addr = m[c].addr + m[c].size
        \/ p # nullptr /\ addr = m[p].addr + m[p].size
    <3> HIDE DEF p, splits
    <3> QED BY <1>2
  <2> HIDE DEF addr, p
  <2>6. addr > LOW_DATA_START_ADDR
    BY <2>1, <2>3, <2>4, <2>5
  <2> QED BY <2>6 DEF addr
<1>6. splits => /\ c + 1 \in Slots /\ c + 1 # Head0 /\ c + 1 # nullptr
                /\ k[c + 1].addr > LOW_DATA_START_ADDR /\ k[c + 1].size > 0
                /\ k[c + 1].next = m[c].next /\ k[c + 1].prev = c
  <2>1. SUFFICES ASSUME splits
                 PROVE  /\ c + 1 \in Slots /\ c + 1 # Head0 /\ c + 1 # nullptr
                        /\ k[c + 1].addr > LOW_DATA_START_ADDR /\ k[c + 1].size > 0
                        /\ k[c + 1].next = m[c].next /\ k[c + 1].prev = c
    OBVIOUS
  <2>2. /\ k[c + 1].addr = m[c].addr + size /\ k[c + 1].size = m[c].size - size
        /\ k[c + 1].next = m[c].next /\ k[c + 1].prev = c
    BY <1>2, <2>1 DEF Slot
  <2>3. m[c].addr > LOW_DATA_START_ADDR /\ m[c].addr \in Nat /\ m[c].size \in Nat
    BY <1>3, <1>4
  <2> QED BY <1>0, <2>1, <2>2, <2>3, SlotFacts
<1>7. \A s \in Slots : m[s].size > 0 => k[s].size > 0
  <2> HIDE DEF splits
  <2> QED BY <1>0, <1>2, <1>6
<1>8. k[Head0] = m[Head0]
  <2> HIDE DEF splits
  <2> QED BY <1>0, <1>2, <1>6
<1>9. \A t \in Slots : t # Head0 /\ k[t].size > 0 => k[t].addr > LOW_DATA_START_ADDR
  <2> HIDE DEF splits
  <2> QED BY <1>2, <1>3, <1>5, <1>6
<1>10. ASSUME NEW t \in Slots
       PROVE  /\ k[t].next # nullptr => k[k[t].next].size > 0
              /\ k[t].prev # nullptr => k[k[t].prev].size > 0
  <2>0. \A u \in Slots : /\ m[u].next # nullptr => k[m[u].next].size > 0
                         /\ m[u].prev # nullptr => k[m[u].prev].size > 0
    BY <1>3, <1>4, <1>7
  <2> HIDE DEF splits
  <2>1. CASE t = c
    <3>1. k[c].prev = m[c].prev
      BY <1>2
    <3>2. CASE splits
      BY <1>2, <1>6, <2>0, <2>1, <3>1, <3>2
    <3>3. CASE ~splits
      BY <1>2, <2>0, <2>1, <3>1, <3>3
    <3> QED BY <3>2, <3>3
  <2>2. CASE splits /\ t = c + 1
    BY <1>6, <1>7, <2>0, <2>2
  <2>3. CASE t # c /\ (splits => t # c + 1)
    <3>1. k[t] = m[t]
      BY <1>2, <2>3
    <3> QED BY <2>0, <3>1
  <2> QED BY <2>1, <2>2, <2>3
<1>11. Based(k)
  BY <1>2, <1>3, <1>8, <1>9, <1>10 DEF Based
<1> QED BY <1>2, <1>5, <1>7, <1>11 DEF k

LEMMA FreedBased ==
  ASSUME NEW m, Based(m), NEW b \in Slots, b # Head0
  PROVE  LET k == [m EXCEPT ![b].free = TRUE] IN
           /\ Based(k) /\ k \in [Slots -> Node] /\ k[b].free
           /\ \A s \in Slots : /\ k[s].addr = m[s].addr /\ k[s].size = m[s].size
                               /\ k[s].next = m[s].next /\ k[s].prev = m[s].prev
                               /\ s # b => k[s].free = m[s].free
<1> DEFINE r == [m[b] EXCEPT !.free = TRUE]
           k == [m EXCEPT ![b].free = TRUE]
<1>1. m \in [Slots -> Node] /\ m[b] \in Node
  BY DEF Based
<1>2. k = [m EXCEPT ![b] = r]
  BY <1>1
<1>3. /\ r \in Node /\ r.free /\ r.addr = m[b].addr /\ r.size = m[b].size
      /\ r.next = m[b].next /\ r.prev = m[b].prev
  BY <1>1 DEF Node
<1> HIDE DEF r
<1>4. k \in [Slots -> Node] /\ k[b] = r /\ \A s \in Slots : s # b => k[s] = m[s]
  BY <1>1, <1>2, <1>3
<1> HIDE DEF k
<1>5. \A s \in Slots : /\ k[s].addr = m[s].addr /\ k[s].size = m[s].size
                       /\ k[s].next = m[s].next /\ k[s].prev = m[s].prev
                       /\ s # b => k[s].free = m[s].free
  BY <1>3, <1>4
<1>6. k[Head0].free = m[Head0].free /\ Head0 \in Slots
  BY <1>5, SlotFacts
<1>7. \A s \in Slots : /\ m[s].next \in Slots \cup {nullptr}
                       /\ m[s].prev \in Slots \cup {nullptr}
  BY <1>1, NodeParts
<1>8. Based(k)
  BY <1>4, <1>5, <1>6, <1>7 DEF Based
<1> QED BY <1>3, <1>4, <1>5, <1>8 DEF k
LEMMA TypeParts ==
  ASSUME TypeOK
  PROVE  /\ node \in [Slots -> Node] /\ total_used_ram \in Int /\ mapped \subseteq Nat
         /\ live \in Seq([addr : Nat, size : Blocks]) /\ reverse \in BOOLEAN
         /\ found = Nothing \/ found \in [slot : Slots, size : Blocks]
         /\ status \in {"ok", "hung", "wild", "stale"}
         /\ Len(live) \in Nat
         /\ \A i \in 1..Len(live) : /\ live[i] \in [addr : Nat, size : Blocks]
                                    /\ live[i].addr \in Nat /\ live[i].size \in Nat \ {0}
<1> DEFINE B == [addr : Nat, size : Blocks]
<1>1. live \in Seq(B)
  BY DEF TypeOK
<1>2. \A b \in B : b.addr \in Nat /\ b.size \in Nat \ {0}
  BY SlotFacts
<1> HIDE DEF B
<1>3. Len(live) \in Nat /\ \A i \in 1..Len(live) : live[i] \in B
  BY <1>1
<1>4. \A i \in 1..Len(live) : live[i].addr \in Nat /\ live[i].size \in Nat \ {0}
  BY <1>2, <1>3
<1>5. /\ node \in [Slots -> Node] /\ total_used_ram \in Int /\ mapped \subseteq Nat
      /\ reverse \in BOOLEAN /\ status \in {"ok", "hung", "wild", "stale"}
      /\ found = Nothing \/ found \in [slot : Slots, size : Blocks]
  BY DEF TypeOK
<1> QED BY <1>1, <1>3, <1>4, <1>5 DEF B

\* What a caller gets, when it takes block c.
LEMMA TakeBase ==
  ASSUME BaseInv, NEW c \in Slots, c # Head0, node[c].size > 0, NEW size \in Blocks,
         Take(c, size)
  PROVE  /\ node' \in [Slots -> Node] /\ Based(node')
         /\ total_used_ram' \in Int /\ mapped' \subseteq Nat
         /\ live' \in Seq([addr : Nat, size : Blocks])
         /\ \A i \in 1..Len(live') : live'[i].addr > LOW_DATA_START_ADDR
         /\ \A s \in Slots : node[s].size > 0 => node'[s].size > 0
<1>0. TypeOK /\ Based(node) /\ Remembered(node) /\ size \in Nat \ {0}
  BY SlotFacts DEF BaseInv
<1>1. node' = Taken(node, c, size) /\ (node[c].size > size => c + 1 \in Slots)
  BY DEF Take
<1>2. /\ Based(node') /\ node' \in [Slots -> Node] /\ node'[c].addr > LOW_DATA_START_ADDR
      /\ \A s \in Slots : node[s].size > 0 => node'[s].size > 0
  BY <1>0, <1>1, TakeBased
<1> DEFINE addr == node'[c].addr
           b == [addr |-> addr, size |-> size]
<1>3. addr \in Nat
  BY <1>2, NodeParts
<1>4. mapped' = mapped \cup (addr..(addr + size)) /\ live' = Append(live, b)
      /\ total_used_ram' = total_used_ram + size
  BY DEF Take
<1>5. b \in [addr : Nat, size : Blocks] /\ b.addr = addr
  BY <1>3
<1> HIDE DEF addr, b
<1>6. /\ live' \in Seq([addr : Nat, size : Blocks]) /\ Len(live') = Len(live) + 1
      /\ \A i \in 1..Len(live) : live'[i] = live[i]
      /\ live'[Len(live) + 1] = b /\ Len(live) \in Nat
  BY <1>0, <1>4, <1>5, TypeParts, AppendProperties
<1>7. \A i \in 1..Len(live') : live'[i].addr > LOW_DATA_START_ADDR
  <2>1. \A i \in 1..Len(live) : live[i].addr > LOW_DATA_START_ADDR
    BY <1>0 DEF Remembered
  <2>2. b.addr > LOW_DATA_START_ADDR
    BY <1>2, <1>5 DEF addr
  <2>3. 1..Len(live') = 1..Len(live) \cup {Len(live) + 1}
    BY <1>6
  <2> QED BY <1>6, <2>1, <2>2, <2>3
<1>8. mapped' \subseteq Nat
  <2>1. addr..(addr + size) \subseteq Nat
    BY <1>0, <1>3
  <2> QED BY <1>0, <1>4, <2>1, TypeParts
<1>9. total_used_ram' \in Int
  BY <1>0, <1>4, TypeParts
<1> QED BY <1>2, <1>6, <1>7, <1>8, <1>9

LEMMA FitBase ==
  ASSUME BaseInv, NEW size, Fits(node, size) # {}
  PROVE  LET c == FirstFit(node, size) IN
           /\ c \in Slots /\ c # Head0 /\ node[c].size > 0
           /\ c \in Range(Listed(node)) /\ node[c].free /\ node[c].size >= size
<1>1. Based(node) /\ node \in [Slots -> Node] /\ ~node[Head0].free
  BY DEF BaseInv, Based
<1>2. LET c == FirstFit(node, size) IN
        c \in Range(Listed(node)) /\ c \in Slots /\ node[c].free /\ node[c].size >= size
  BY <1>1, FitsFacts
<1> QED BY <1>1, <1>2, SizeOfListed

\* The block that a caller gives back.
LEMMA GivenBack ==
  ASSUME BaseInv, NEW i \in 1..Len(live), At(node, live[i].addr) # {}
  PROVE  LET b == First(node, At(node, live[i].addr)) IN
           /\ b \in Slots /\ b # Head0 /\ b \in Range(Listed(node))
           /\ node[b].addr = live[i].addr
<1>1. /\ Based(node) /\ node \in [Slots -> Node] /\ node[Head0].addr = LOW_DATA_START_ADDR
      /\ live[i].addr > LOW_DATA_START_ADDR
  BY DEF BaseInv, Based, Remembered
<1>2. LET b == First(node, At(node, live[i].addr)) IN
        b \in Range(Listed(node)) /\ b \in Slots /\ node[b].addr = live[i].addr
  BY <1>1, AtFacts
<1> QED BY <1>1, <1>2, SlotFacts

LEMMA FreeBase ==
  ASSUME BaseInv, NEW i \in 1..Len(live), free_frame(i)
  PROVE  /\ node' \in [Slots -> Node] /\ Based(node')
         /\ total_used_ram' \in Int /\ mapped' \subseteq Nat
         /\ live' \in Seq([addr : Nat, size : Blocks])
         /\ \A j \in 1..Len(live') : live'[j].addr > LOW_DATA_START_ADDR
         /\ \A s \in Slots : node[s].size > 0 => node'[s].size > 0
         /\ status' \in {status, "hung", "wild"}
<1>0. TypeOK /\ Based(node) /\ Remembered(node) /\ node \in [Slots -> Node]
  BY DEF BaseInv, Based
<1> DEFINE at == At(node, live[i].addr)
           block == First(node, at)
           k == [node EXCEPT ![block].free = TRUE]
<1>1. live' = RemoveAt(live, i)
  BY DEF free_frame
<1>2. /\ live' \in Seq([addr : Nat, size : Blocks]) /\ Len(live') = Len(live) - 1
      /\ \A j \in 1..(Len(live) - 1) : live'[j] = IF j < i THEN live[j] ELSE live[j + 1]
      /\ Len(live) \in Nat
  <2>1. live \in Seq([addr : Nat, size : Blocks]) /\ Len(live) \in Nat
    BY <1>0, TypeParts
  <2> QED BY <1>1, <2>1, WithoutOne
<1>3. \A j \in 1..Len(live') : live'[j].addr > LOW_DATA_START_ADDR
  <2>1. \A j \in 1..Len(live) : live[j].addr > LOW_DATA_START_ADDR
    BY <1>0 DEF Remembered
  <2>2. ASSUME NEW j \in 1..Len(live') PROVE live'[j].addr > LOW_DATA_START_ADDR
    <3>1. j \in 1..(Len(live) - 1) /\ j \in 1..Len(live) /\ j + 1 \in 1..Len(live)
      BY <1>2
    <3>2. live'[j] = live[j] \/ live'[j] = live[j + 1]
      BY <1>2, <3>1
    <3> QED BY <2>1, <3>1, <3>2
  <2> QED BY <2>2
<1>4. CASE at # {} /\ ~Cyclic(node)
  <2>1. /\ node' = Merged(k) /\ total_used_ram' = total_used_ram - node[block].size
        /\ mapped' = mapped \ Unmapped(node', block) /\ status' = status
    BY <1>4 DEF free_frame
  <2>2. block \in Slots /\ block # Head0
    BY <1>4, GivenBack
  <2> HIDE DEF block
  <2>3. Based(k) /\ \A s \in Slots : k[s].size = node[s].size
    <3>1. Based(node)
      BY <1>0
    <3> QED BY ONLY <2>2, <3>1, FreedBased
  <2> HIDE DEF k
  <2>4. /\ Based(Merged(k)) /\ Merged(k) \in [Slots -> Node]
        /\ \A s \in Slots : k[s].size > 0 => Merged(k)[s].size > 0
    BY <2>3, MergedKept
  <2>5. node[block].size \in Nat
    BY <1>0, <2>2, NodeParts
  <2>6. total_used_ram' \in Int /\ mapped' \subseteq Nat
    BY <1>0, <2>1, <2>5, TypeParts
  <2> QED BY <1>2, <1>3, <2>1, <2>3, <2>4, <2>6
<1>5. CASE at = {} \/ Cyclic(node)
  <2>1. UNCHANGED <<node, total_used_ram, mapped>> /\ status' \in {"hung", "wild"}
    BY <1>5 DEF free_frame
  <2> QED BY <1>0, <1>2, <1>3, <2>1, TypeParts
<1> QED BY <1>4, <1>5

LEMMA InitBase == Init => BaseInv
<1> SUFFICES ASSUME Init PROVE BaseInv
  OBVIOUS
<1>0. /\ LastSlot \in Nat \ {0} /\ Slots = 0..LastSlot /\ Head0 = 0 /\ nullptr = -1
      /\ LOW_DATA_START_ADDR \in Nat \ {0} /\ Reserved \in Nat \ {0} /\ Frames \in Nat \ {0}
  BY SlotFacts
<1> DEFINE head == Slot(LOW_DATA_START_ADDR, Reserved, FALSE, 1, nullptr)
           one == Slot(LOW_DATA_START_ADDR + Reserved, Frames, TRUE, nullptr, Head0)
           none == Slot(0, 0, FALSE, nullptr, nullptr)
<1>1. head \in Node /\ one \in Node /\ none \in Node
  BY <1>0 DEF Slot, Node
<1>2. /\ head.addr = LOW_DATA_START_ADDR /\ head.size = Reserved /\ ~head.free
      /\ head.next = 1 /\ head.prev = nullptr
      /\ one.addr = LOW_DATA_START_ADDR + Reserved /\ one.size = Frames /\ one.free
      /\ one.next = nullptr /\ one.prev = Head0
      /\ none.size = 0 /\ none.next = nullptr /\ none.prev = nullptr /\ ~none.free
  BY DEF Slot
<1>3. node = [s \in Slots |-> CASE s = Head0 -> head [] s = 1 -> one [] OTHER -> none]
  BY DEF Init
<1> HIDE DEF head, one, none
<1>4. /\ node \in [Slots -> Node] /\ node[Head0] = head /\ node[1] = one
      /\ \A s \in Slots : s # Head0 /\ s # 1 => node[s] = none
      /\ Head0 \in Slots /\ 1 \in Slots
  BY <1>0, <1>1, <1>3
<1>5. ASSUME NEW s \in Slots
      PROVE  /\ s # Head0 /\ node[s].size > 0 => node[s].addr > LOW_DATA_START_ADDR
             /\ node[s].next # nullptr => node[node[s].next].size > 0
             /\ node[s].prev # nullptr => node[node[s].prev].size > 0
  <2>1. CASE s = Head0
    BY <1>0, <1>2, <1>4, <2>1
  <2>2. CASE s = 1
    BY <1>0, <1>2, <1>4, <2>2
  <2>3. CASE s # Head0 /\ s # 1
    BY <1>2, <1>4, <2>3
  <2> QED BY <2>1, <2>2, <2>3
<1>6. Based(node)
  BY <1>2, <1>4, <1>5 DEF Based
<1>7. /\ total_used_ram = Reserved /\ mapped = 0..(LOW_DATA_START_ADDR + Reserved)
      /\ live = <<>> /\ reverse \in BOOLEAN /\ found = Nothing /\ status = "ok"
  BY DEF Init
<1>8. TypeOK
  BY <1>0, <1>4, <1>7 DEF TypeOK
<1>9. Remembered(node)
  BY <1>7 DEF Remembered
<1> QED BY <1>6, <1>8, <1>9 DEF BaseInv

LEMMA NextBase == BaseInv /\ [Next]_vars => BaseInv'
<1> SUFFICES ASSUME BaseInv, [Next]_vars PROVE BaseInv'
  OBVIOUS
<1>0. TypeOK /\ Based(node) /\ Remembered(node)
  BY DEF BaseInv
<1>1. CASE UNCHANGED vars
  BY <1>0, <1>1 DEF vars, BaseInv, TypeOK, Based, Remembered
<1>2. CASE Next
  <2>0. reverse' = reverse /\ status = "ok"
    BY <1>2 DEF Next
  <2>1. ASSUME NEW size \in Blocks, alloc_frame(size) PROVE BaseInv'
    <3>1. CASE /\ Fits(node, size) # {} /\ Take(FirstFit(node, size), size)
               /\ UNCHANGED <<found, status>>
      <4> DEFINE c == FirstFit(node, size)
      <4>1. c \in Slots /\ c # Head0 /\ node[c].size > 0
        BY <3>1, FitBase
      <4> HIDE DEF c
      <4>2. /\ node' \in [Slots -> Node] /\ Based(node')
            /\ total_used_ram' \in Int /\ mapped' \subseteq Nat
            /\ live' \in Seq([addr : Nat, size : Blocks])
            /\ \A i \in 1..Len(live') : live'[i].addr > LOW_DATA_START_ADDR
            /\ \A s \in Slots : node[s].size > 0 => node'[s].size > 0
        BY <3>1, <4>1, TakeBase DEF c
      <4>3. Remembered(node)'
        BY <1>0, <3>1, <4>2, TypeParts DEF Remembered, Nothing
      <4> QED BY <1>0, <2>0, <3>1, <4>2, <4>3 DEF BaseInv, TypeOK, Based
    <3>2. CASE /\ Fits(node, size) # {} /\ found = Nothing
               /\ found' = [slot |-> FirstFit(node, size), size |-> size]
               /\ UNCHANGED <<node, total_used_ram, mapped, live, status>>
      <4> DEFINE c == FirstFit(node, size)
      <4>1. c \in Slots /\ c # Head0 /\ node[c].size > 0
        BY <3>2, FitBase
      <4>2. found' = [slot |-> c, size |-> size]
        BY <3>2
      <4> HIDE DEF c
      <4>3. found' \in [slot : Slots, size : Blocks] /\ found'.slot = c
        BY <4>1, <4>2
      <4>4. Remembered(node)'
        BY <1>0, <3>2, <4>1, <4>3 DEF Remembered
      <4>5. TypeOK'
        BY <1>0, <2>0, <3>2, <4>3 DEF TypeOK
      <4>6. Based(node)'
        BY <1>0, <3>2 DEF Based
      <4> QED BY <4>4, <4>5, <4>6 DEF BaseInv
    <3>3. CASE /\ status' = "hung" /\ UNCHANGED <<node, total_used_ram, mapped, live, found>>
      BY <1>0, <2>0, <3>3 DEF BaseInv, TypeOK, Based, Remembered
    <3> QED BY <2>1, <3>1, <3>2, <3>3 DEF alloc_frame
  <2>2. ASSUME Resume PROVE BaseInv'
    <3> DEFINE c == found.slot
               size == found.size
    <3>1. /\ found # Nothing /\ Take(c, size) /\ found' = Nothing
          /\ status' \in {"ok", "stale"}
      BY <2>2 DEF Resume
    <3>2. c \in Slots /\ size \in Blocks /\ c # Head0 /\ node[c].size > 0
      BY <1>0, <3>1, TypeParts DEF Remembered
    <3> HIDE DEF c, size
    <3>3. /\ node' \in [Slots -> Node] /\ Based(node')
          /\ total_used_ram' \in Int /\ mapped' \subseteq Nat
          /\ live' \in Seq([addr : Nat, size : Blocks])
          /\ \A i \in 1..Len(live') : live'[i].addr > LOW_DATA_START_ADDR
      BY <3>1, <3>2, TakeBase
    <3>4. Remembered(node)'
      BY <3>1, <3>3 DEF Remembered
    <3> QED BY <1>0, <2>0, <3>1, <3>3, <3>4 DEF BaseInv, TypeOK, Based
  <2>3. ASSUME NEW i \in 1..Len(live), free_frame(i), UNCHANGED found PROVE BaseInv'
    <3>1. /\ node' \in [Slots -> Node] /\ Based(node')
          /\ total_used_ram' \in Int /\ mapped' \subseteq Nat
          /\ live' \in Seq([addr : Nat, size : Blocks])
          /\ \A j \in 1..Len(live') : live'[j].addr > LOW_DATA_START_ADDR
          /\ \A s \in Slots : node[s].size > 0 => node'[s].size > 0
          /\ status' \in {status, "hung", "wild"}
      BY <2>3, FreeBase
    <3>2. Remembered(node)'
      BY <1>0, <2>3, <3>1, TypeParts DEF Remembered, Nothing
    <3> QED BY <1>0, <2>0, <2>3, <3>1, <3>2 DEF BaseInv, TypeOK, Based
  <2> QED BY <1>2, <2>1, <2>2, <2>3 DEF Next
<1> QED BY <1>1, <1>2

\* In every state, in order or not, the first block stays and pointers lead to
\* slots that have been blocks (pmm::init, alloc_frame, free_frame).
THEOREM NothingIsForgotten == Spec => []BaseInv
<1>1. Init => BaseInv
  BY InitBase
<1>2. BaseInv /\ [Next]_vars => BaseInv'
  BY NextBase
<1> QED BY <1>1, <1>2, PTL DEF Spec
-----------------------------------------------------------------------------
(***************************************************************************)
(* A sound list and what breaks it.                                        *)
(***************************************************************************)
\* A caller gives back one of the blocks that are held.
LEMMA FreeKeeps ==
  ASSUME BaseInv, Sound, NEW i \in 1..Len(live), free_frame(i)
  PROVE  /\ IsSound(node', live')
         /\ LET b == First(node, At(node, live[i].addr)) IN
              /\ b \in Range(Listed(node)) /\ b # Head0 /\ BlockOf(node[b]) = live[i]
              /\ node' = Merged([node EXCEPT ![b].free = TRUE])
              /\ total_used_ram' = total_used_ram - node[b].size
              /\ status' = status
<1> DEFINE at == At(node, live[i].addr)
           b == First(node, at)
           L == Range(Listed(node))
           k == [node EXCEPT ![b].free = TRUE]
           S == [addr : Nat, size : Blocks]
<1>0. TypeOK /\ Based(node) /\ node \in [Slots -> Node] /\ live \in Seq(S) /\ Len(live) \in Nat
  BY TypeParts DEF BaseInv
<1>1. Tiles(node, L) /\ HeldIn(node, L, live) /\ ~Cyclic(node)
  BY <1>0, SoundTiles DEF Sound, IsSound
<1>2. {BlockOf(node[s]) : s \in UsedIn(node, L)} = Range(live) /\ IsInjective(live)
  BY <1>1, HeldFacts
<1>3. live[i] \in Range(live)
  BY <1>0, ListRange
<1>4. PICK s \in UsedIn(node, L) : BlockOf(node[s]) = live[i]
  BY <1>2, <1>3
<1>5. s \in L /\ s # Head0 /\ ~node[s].free /\ node[s].addr = live[i].addr
  <2>1. BlockOf(node[s]).addr = node[s].addr
    BY DEF BlockOf
  <2> QED BY <1>4, <2>1 DEF UsedIn
<1>6. at # {}
  BY <1>0, <1>5, AtFacts
<1>7. b \in Slots /\ b # Head0 /\ b \in L /\ node[b].addr = live[i].addr
  BY <1>6, GivenBack
<1>8. b = s
  <2> HIDE DEF b, L
  <2> QED BY <1>0, <1>1, <1>5, <1>7, TileFacts
<1>9. /\ node' = Merged(k) /\ total_used_ram' = total_used_ram - node[b].size
      /\ status' = status /\ live' = RemoveAt(live, i)
  BY <1>1, <1>6 DEF free_frame
<1> HIDE DEF b, L, at
<1>10. /\ Based(k) /\ k \in [Slots -> Node] /\ k[b].free
       /\ \A t \in Slots : /\ k[t].addr = node[t].addr /\ k[t].size = node[t].size
                           /\ k[t].next = node[t].next /\ k[t].prev = node[t].prev
                           /\ t # b => k[t].free = node[t].free
  <2>1. Based(node) /\ b \in Slots /\ b # Head0
    BY <1>0, <1>7
  <2> QED BY ONLY <2>1, FreedBased
<1> HIDE DEF k
<1>11. Tiles(k, L)
  <2>1. /\ L \subseteq Slots /\ Head0 \in L
        /\ \A t \in L : /\ node[t].size > 0 /\ LOW_DATA_START_ADDR <= node[t].addr
                        /\ node[t].addr + node[t].size <= Limit
                        /\ IF node[t].next = nullptr THEN node[t].addr + node[t].size = Limit
                           ELSE /\ node[t].next \in L
                                /\ node[node[t].next].addr = node[t].addr + node[t].size
        /\ \A t, u \in L : t # u => \/ node[t].addr + node[t].size <= node[u].addr
                                    \/ node[u].addr + node[u].size <= node[t].addr
    BY <1>1 DEF Tiles
  <2>2. \A t \in L : k[t].addr = node[t].addr /\ k[t].size = node[t].size
                     /\ k[t].next = node[t].next
    BY <1>10, <2>1
  <2>3. \A t \in L : /\ k[t].size > 0 /\ LOW_DATA_START_ADDR <= k[t].addr
                     /\ k[t].addr + k[t].size <= Limit
                     /\ IF k[t].next = nullptr THEN k[t].addr + k[t].size = Limit
                        ELSE k[t].next \in L /\ k[k[t].next].addr = k[t].addr + k[t].size
    <3>1. ASSUME NEW t \in L
          PROVE  /\ k[t].size > 0 /\ LOW_DATA_START_ADDR <= k[t].addr
                 /\ k[t].addr + k[t].size <= Limit
                 /\ IF k[t].next = nullptr THEN k[t].addr + k[t].size = Limit
                    ELSE k[t].next \in L /\ k[k[t].next].addr = k[t].addr + k[t].size
      <4>1. CASE node[t].next = nullptr
        BY <2>1, <2>2, <4>1
      <4>2. CASE node[t].next # nullptr
        <5>1. node[t].next \in L /\ node[node[t].next].addr = node[t].addr + node[t].size
          BY <2>1, <4>2
        <5>2. k[node[t].next].addr = node[node[t].next].addr
          BY <2>2, <5>1
        <5> QED BY <2>1, <2>2, <4>2, <5>1, <5>2
      <4> QED BY <4>1, <4>2
    <3> QED BY <3>1
  <2>4. \A t, u \in L : t # u => \/ k[t].addr + k[t].size <= k[u].addr
                                 \/ k[u].addr + k[u].size <= k[t].addr
    BY <2>1, <2>2
  <2> QED BY <2>1, <2>3, <2>4 DEF Tiles
<1>12. HeldIn(k, L, live')
  <2>1. Range(live') = Range(live) \ {live[i]} /\ IsInjective(live')
    BY <1>0, <1>2, <1>9, RemoveHeld
  <2>2. UsedIn(k, L) = UsedIn(node, L) \ {b}
    BY <1>1, <1>10 DEF UsedIn, Tiles
  <2>3. \A t \in UsedIn(node, L) : t \in Slots /\ BlockOf(k[t]) = BlockOf(node[t])
    <3>1. \A t \in UsedIn(node, L) : t \in Slots
      BY <1>1 DEF UsedIn, Tiles
    <3> QED BY <1>10, <3>1 DEF BlockOf
  <2>4. \A t \in UsedIn(node, L) : t # b => BlockOf(node[t]) # live[i]
    <3>1. ASSUME NEW t \in UsedIn(node, L), t # b PROVE BlockOf(node[t]) # live[i]
      <4>1. t \in L /\ BlockOf(node[t]).addr = node[t].addr
        BY DEF UsedIn, BlockOf
      <4>2. node[t].addr # node[b].addr
        BY <1>0, <1>1, <1>7, <3>1, <4>1, TileFacts
      <4> QED BY <1>7, <4>1, <4>2
    <3> QED BY <3>1
  <2>5. {BlockOf(k[t]) : t \in UsedIn(k, L)} = Range(live')
    BY <1>2, <1>4, <1>8, <2>1, <2>2, <2>3, <2>4
  <2> QED BY <2>1, <2>5, HeldFacts
<1>13. IsSound(node', live')
  BY <1>9, <1>10, <1>11, <1>12, MergedSound
<1> QED BY <1>4, <1>7, <1>8, <1>9, <1>13 DEF b, L, at, k

\* A caller that takes a block in one of the ways that keep the list sound.
LEMMA TakeKeeps ==
  ASSUME BaseInv, Sound, NEW c \in Slots, NEW size \in Blocks, Take(c, size), TakesWell(c, size)
  PROVE  IsSound(node', live')
<1> DEFINE L == Range(Listed(node))
           k == Taken(node, c, size)
           M == IF node[c].size > size THEN L \cup {c + 1} ELSE L
           S == [addr : Nat, size : Blocks]
           b == [addr |-> k[c].addr, size |-> size]
<1>0. /\ TypeOK /\ Based(node) /\ node \in [Slots -> Node] /\ live \in Seq(S)
      /\ ~node[Head0].free /\ size \in Nat \ {0}
  BY TypeParts, SlotFacts DEF BaseInv, Based
<1>1. Tiles(node, L) /\ HeldIn(node, L, live)
  BY <1>0, SoundTiles DEF Sound
<1>2. /\ c \in L /\ node[c].free /\ node[c].size >= size /\ c # Head0
      /\ node[c].size > size => c + 1 \in Slots /\ c + 1 \notin L
      /\ node[c].prev # nullptr => node[c].prev \in L /\ node[node[c].prev].next = c
  BY <1>0 DEF TakesWell, StillFits, SplitIntoFreeSlot, PrevIsBefore, Take
<1>3. node' = k /\ live' = Append(live, b)
  BY DEF Take
<1> HIDE DEF L
<1>4. /\ Tiles(k, M) /\ k \in [Slots -> Node]
      /\ k[c].addr = node[c].addr /\ k[c].size = size /\ k[c].free = FALSE
      /\ \A t \in L \ {c} : k[t] = node[t]
      /\ node[c].size > size => k[c + 1].free
  BY <1>0, <1>1, <1>2, TakeTiles
<1> HIDE DEF k
<1>5. b = BlockOf(k[c]) /\ b \in S
  <2>1. k[c].addr \in Nat
    BY <1>4, NodeParts
  <2> QED BY <1>4, <2>1 DEF BlockOf
<1>6. M = L \/ (M = L \cup {c + 1} /\ c + 1 \notin L /\ k[c + 1].free)
  BY <1>2, <1>4
<1> HIDE DEF M, S, b
<1>7. HeldIn(k, M, Append(live, b))
  <2>1. HeldIn(k, M, Append(live, BlockOf(k[c])))
    BY <1>0, <1>1, <1>2, <1>4, <1>5, <1>6, TakeHolds
  <2> QED BY <1>5, <2>1
<1>8. k[Head0].addr = LOW_DATA_START_ADDR
  <2>1. Head0 \in L
    BY <1>1 DEF Tiles
  <2> QED BY <1>0, <1>2, <1>4, <2>1 DEF Based
<1>9. IsSound(k, Append(live, b))
  BY <1>4, <1>7, <1>8, TilesSound
<1> QED BY <1>3, <1>9

\* Only a split over a slot in use, a prev pointer left behind, and a block that
\* was found and is no longer free break the list (alloc_frame, free_frame).
THEOREM TheListBreaksInThreeWays == Spec => OnlyTakesBreakTheList
<1> DEFINE A == /\ Sound
                /\ Len(live') > Len(live) =>
                     IF found' # found THEN TakesWell(found.slot, found.size)
                     ELSE LET size == Last(live').size
                          IN TakesWell(FirstFit(node, size), size)
                => IsSound(node', live')
<1>1. BaseInv /\ [Next]_vars => [A]_vars
  <2> SUFFICES ASSUME BaseInv, Next, Sound,
                      Len(live') > Len(live) =>
                        IF found' # found THEN TakesWell(found.slot, found.size)
                        ELSE LET size == Last(live').size
                             IN TakesWell(FirstFit(node, size), size)
               PROVE  IsSound(node', live')
    OBVIOUS
  <2>0. TypeOK /\ node \in [Slots -> Node] /\ live \in Seq([addr : Nat, size : Blocks])
        /\ Len(live) \in Nat
    BY TypeParts DEF BaseInv
  <2>1. ASSUME NEW c, NEW size \in Blocks, Take(c, size)
        PROVE  Len(live') > Len(live) /\ Last(live').size = size
    <3> DEFINE b == [addr |-> node'[c].addr, size |-> size]
    <3>1. live' = Append(live, b) /\ b.size = size
      BY <2>1 DEF Take
    <3> HIDE DEF b
    <3>2. Len(live') = Len(live) + 1 /\ live'[Len(live) + 1] = b
      BY <2>0, <3>1, AppendProperties
    <3> QED BY <2>0, <3>1, <3>2 DEF Last
  <2>2. ASSUME NEW size \in Blocks, alloc_frame(size) PROVE IsSound(node', live')
    <3>1. CASE /\ Fits(node, size) # {} /\ Take(FirstFit(node, size), size)
               /\ UNCHANGED <<found, status>>
      <4> DEFINE c == FirstFit(node, size)
      <4>1. Len(live') > Len(live) /\ Last(live').size = size /\ found' = found
        BY <2>1, <3>1
      <4>2. TakesWell(c, size)
        BY <4>1
      <4>3. c \in Slots
        BY <3>1, FitBase
      <4> HIDE DEF c
      <4> QED BY <3>1, <4>2, <4>3, TakeKeeps DEF c
    <3>2. CASE UNCHANGED <<node, live>>
      BY <3>2 DEF Sound
    <3> QED BY <2>2, <3>1, <3>2 DEF alloc_frame
  <2>3. ASSUME Resume PROVE IsSound(node', live')
    <3> DEFINE c == found.slot
               size == found.size
    <3>1. found # Nothing /\ Take(c, size) /\ found' = Nothing
      BY <2>3 DEF Resume
    <3>2. c \in Slots /\ size \in Blocks
      BY <2>0, <3>1, TypeParts
    <3> HIDE DEF c, size
    <3>3. Len(live') > Len(live) /\ found' # found
      BY <2>1, <3>1, <3>2
    <3>4. TakesWell(c, size)
      BY <3>3 DEF c, size
    <3> QED BY <3>1, <3>2, <3>4, TakeKeeps
  <2>4. ASSUME NEW i \in 1..Len(live), free_frame(i) PROVE IsSound(node', live')
    BY <2>4, FreeKeeps
  <2> QED BY <2>2, <2>3, <2>4 DEF Next
<1>2. Spec => []BaseInv
  BY NothingIsForgotten
<1>3. Spec => [][A]_vars
  <2>1. Spec => [][Next]_vars
    BY DEF Spec
  <2> HIDE DEF A
  <2> QED BY <1>1, <1>2, <2>1, PTL
<1> QED BY <1>3 DEF OnlyTakesBreakTheList
-----------------------------------------------------------------------------
(***************************************************************************)
(* One caller, which frees in the reverse order.                           *)
(***************************************************************************)
LEMMA StackFacts ==
  ASSUME NEW m \in [Slots -> Node], NEW S, NEW l \in Seq(S), NEW top, Stack(m, l, top)
  PROVE  /\ top \in Nat /\ Len(l) \in Nat /\ Len(l) <= top /\ 0..top \subseteq Slots
         /\ top = Len(l) \/ top = Len(l) + 1
         /\ \A i \in 0..top : /\ i \in Nat /\ m[i].addr \in Nat /\ m[i].size \in Nat
                              /\ m[i].size > 0 /\ m[i].free = (i > Len(l))
                              /\ m[i].next = IF i = top THEN nullptr ELSE i + 1
                              /\ m[i].prev = IF i = 0 THEN nullptr ELSE i - 1
         /\ \A i \in 1..top : m[i].addr = m[i - 1].addr + m[i - 1].size
         /\ \A i, j \in 0..top : i < j => m[i].addr + m[i].size <= m[j].addr
         /\ m[top].addr + m[top].size = Limit
         /\ \A i \in 1..Len(l) : l[i] = BlockOf(m[i])
<1>1. top \in Slots /\ top \in {Len(l), Len(l) + 1} /\ Len(l) \in Nat
  BY DEF Stack
<1>2. top \in Nat /\ 0..top \subseteq Slots /\ Len(l) <= top
  BY <1>1, SlotFacts
<1>3. \A i \in 0..top : m[i].addr \in Nat /\ m[i].size \in Nat /\ i \in Nat
  BY <1>2, NodeParts
<1> QED BY <1>1, <1>2, <1>3 DEF Stack

LEMMA StackTiles ==
  ASSUME NEW m, Based(m), NEW S, NEW l \in Seq(S), NEW top, Stack(m, l, top)
  PROVE  /\ Tiles(m, 0..top) /\ HeldIn(m, 0..top, l)
         /\ IsSound(m, l) /\ Range(Listed(m)) = 0..top /\ ~Cyclic(m)
<1> DEFINE L == 0..top
<1>0. m \in [Slots -> Node] /\ m[0].addr = LOW_DATA_START_ADDR /\ Head0 = 0
  BY SlotFacts DEF Based
<1>1. /\ top \in Nat /\ Len(l) \in Nat /\ Len(l) <= top /\ L \subseteq Slots
      /\ \A i \in L : /\ i \in Nat /\ m[i].addr \in Nat /\ m[i].size \in Nat
                      /\ m[i].size > 0 /\ m[i].free = (i > Len(l))
                      /\ m[i].next = IF i = top THEN nullptr ELSE i + 1
      /\ \A i \in 1..top : m[i].addr = m[i - 1].addr + m[i - 1].size
      /\ \A i, j \in L : i < j => m[i].addr + m[i].size <= m[j].addr
      /\ m[top].addr + m[top].size = Limit
      /\ \A i \in 1..Len(l) : l[i] = BlockOf(m[i])
  BY <1>0, StackFacts
<1>2. ASSUME NEW i \in L
      PROVE  /\ LOW_DATA_START_ADDR <= m[i].addr /\ m[i].addr + m[i].size <= Limit
             /\ IF m[i].next = nullptr THEN m[i].addr + m[i].size = Limit
                ELSE m[i].next \in L /\ m[m[i].next].addr = m[i].addr + m[i].size
  <2>0. 0 \in L /\ top \in L
    BY <1>1
  <2>1. LOW_DATA_START_ADDR <= m[i].addr
    <3>1. CASE i = 0
      BY <1>0, <3>1, SlotFacts
    <3>2. CASE i # 0
      <4>0. i \in Nat /\ 0 < i
        BY <1>1, <3>2
      <4>1. m[0].addr + m[0].size <= m[i].addr /\ m[0].size \in Nat /\ m[i].addr \in Nat
        BY <1>1, <2>0, <4>0
      <4> QED BY <1>0, <4>1, SlotFacts
    <3> QED BY <3>1, <3>2
  <2>2. CASE i = top
    <3>1. m[i].next = nullptr /\ m[i].addr + m[i].size = Limit /\ Limit \in Nat
      BY <1>1, <2>2, SlotFacts
    <3> QED BY <2>1, <3>1
  <2>3. CASE i # top
    <3>1. i + 1 \in 1..top /\ i + 1 \in L /\ (i + 1) - 1 = i /\ i < top /\ i \in Nat
      BY <1>1, <2>3
    <3>2. m[i].next = i + 1 /\ i + 1 # nullptr
      BY <1>1, <2>3, <3>1, SlotFacts
    <3>3. m[i + 1].addr = m[i].addr + m[i].size
      BY <1>1, <3>1
    <3>4. m[i].addr + m[i].size <= Limit
      <4>1. m[i].addr + m[i].size <= m[top].addr /\ m[i].addr \in Nat /\ m[i].size \in Nat
            /\ m[top].addr \in Nat /\ m[top].size \in Nat
        BY <1>1, <2>0, <3>1
      <4>2. m[top].addr + m[top].size = Limit
        BY <1>1
      <4> QED BY ONLY <4>1, <4>2
    <3> QED BY <2>1, <3>1, <3>2, <3>3, <3>4
  <2> QED BY <2>2, <2>3
<1>3. ASSUME NEW i \in L, NEW j \in L, i # j
      PROVE  m[i].addr + m[i].size <= m[j].addr \/ m[j].addr + m[j].size <= m[i].addr
  <2>1. i < j \/ j < i
    BY <1>3
  <2> QED BY <1>1, <2>1
<1>4. Tiles(m, L)
  <2>1. Head0 \in L /\ \A i \in L : m[i].size > 0
    BY <1>0, <1>1
  <2> HIDE DEF L
  <2> QED BY <1>1, <1>2, <1>3, <2>1 DEF Tiles
<1>5. UsedIn(m, L) = 1..Len(l)
  <2>1. \A i \in L : m[i].free = (i > Len(l))
    BY <1>1
  <2>2. \A i : i \in UsedIn(m, L) <=> i \in L /\ i # 0 /\ ~m[i].free
    BY <1>0 DEF UsedIn
  <2>3. \A i : i \in L /\ i # 0 /\ ~(i > Len(l)) <=> i \in 1..Len(l)
    BY <1>1
  <2> QED BY <2>1, <2>2, <2>3
<1>6. {BlockOf(m[i]) : i \in UsedIn(m, L)} = Range(l)
  <2>1. Range(l) = {l[i] : i \in 1..Len(l)}
    BY ListRange
  <2>2. \A i \in 1..Len(l) : l[i] = BlockOf(m[i])
    BY <1>1
  <2> HIDE DEF L
  <2> QED BY ONLY <1>5, <2>1, <2>2
<1>7. IsInjective(l)
  <2>0. \A i : BlockOf(m[i]).addr = m[i].addr
    BY DEF BlockOf
  <2>1. \A i \in 1..Len(l) : i \in L /\ l[i].addr = m[i].addr
    BY <1>1, <2>0
  <2>2. ASSUME NEW i \in L, NEW j \in L, i < j PROVE m[i].addr # m[j].addr
    <3>1. /\ m[i].addr + m[i].size <= m[j].addr /\ m[i].size > 0
          /\ m[i].addr \in Nat /\ m[i].size \in Nat /\ m[j].addr \in Nat
      BY <1>1, <2>2
    <3> QED BY ONLY <3>1
  <2>3. ASSUME NEW i \in 1..Len(l), NEW j \in 1..Len(l), l[i] = l[j] PROVE i = j
    <3>1. m[i].addr = m[j].addr /\ i \in L /\ j \in L
      BY <2>1, <2>3
    <3>2. ~(i < j) /\ ~(j < i)
      BY <2>2, <3>1
    <3> QED BY <3>2
  <2>4. DOMAIN l = 1..Len(l)
    OBVIOUS
  <2> QED BY <2>3, <2>4 DEF IsInjective
<1>8. HeldIn(m, L, l)
  BY <1>6, <1>7, HeldFacts
<1>9. Head0 \in Slots /\ m[Head0].addr = LOW_DATA_START_ADDR
  BY <1>0, SlotFacts
<1> HIDE DEF L
<1>10. IsSound(m, l) /\ Range(Listed(m)) = L /\ ~Cyclic(m)
  BY <1>0, <1>4, <1>8, <1>9, TilesSound
<1> QED BY <1>4, <1>8, <1>10 DEF L

\* A block is taken: there is one free block, behind those that are held.
LEMMA StackTakes ==
  ASSUME NEW m \in [Slots -> Node], NEW S, NEW l \in Seq(S), NEW top, Stack(m, l, top),
         NEW c, c = Len(l) + 1, c \in 0..top, NEW size \in Nat \ {0}, size <= m[c].size,
         m[c].size > size => c + 1 \in Slots
  PROVE  LET k == Taken(m, c, size)
             b == [addr |-> k[c].addr, size |-> size]
         IN  b \in S => \E t \in Slots : Stack(k, Append(l, b), t)
<1> DEFINE k == Taken(m, c, size)
           b == [addr |-> k[c].addr, size |-> size]
           p == m[c].prev
           splits == m[c].size > size
           t == IF splits THEN c + 1 ELSE c
           w == Append(l, b)
<1> SUFFICES ASSUME b \in S PROVE \E u \in Slots : Stack(k, w, u)
  OBVIOUS
<1>1. /\ top \in Nat /\ Len(l) \in Nat /\ 0..top \subseteq Slots
      /\ top = Len(l) \/ top = Len(l) + 1
      /\ \A i \in 0..top : /\ i \in Nat /\ m[i].addr \in Nat /\ m[i].size \in Nat
                           /\ m[i].size > 0 /\ m[i].free = (i > Len(l))
                           /\ m[i].next = IF i = top THEN nullptr ELSE i + 1
                           /\ m[i].prev = IF i = 0 THEN nullptr ELSE i - 1
      /\ \A i \in 1..top : m[i].addr = m[i - 1].addr + m[i - 1].size
      /\ \A i, j \in 0..top : i < j => m[i].addr + m[i].size <= m[j].addr
      /\ m[top].addr + m[top].size = Limit
      /\ \A i \in 1..Len(l) : l[i] = BlockOf(m[i])
  <2>1. m \in [Slots -> Node] /\ l \in Seq(S) /\ Stack(m, l, top)
    OBVIOUS
  <2> QED BY ONLY <2>1, StackFacts
<1>2. /\ top = c /\ c \in Nat /\ c \in Slots /\ c # 0 /\ c \in 1..top /\ c - 1 \in 0..top
      /\ c - 1 # nullptr /\ size \in Nat /\ size > 0
  <2>1. c \in Nat /\ c <= top /\ c >= 1 /\ top <= c
    BY <1>1
  <2>2. top = c /\ c # 0 /\ c \in 1..top /\ c - 1 \in 0..top
    BY <1>1, <2>1
  <2>3. c \in Slots
    BY <1>1
  <2>4. c - 1 # nullptr
    BY <2>1 DEF nullptr
  <2> QED BY <2>1, <2>2, <2>3, <2>4
<1>3. TakenIs(m, c, size, k)
  BY <1>2, TakenParts
<1> HIDE DEF k
<1>4. /\ k \in [Slots -> Node]
      /\ \A s \in Slots : s # c /\ (splits => s # c + 1) => k[s] = m[s]
      /\ k[c].size = size /\ k[c].free = FALSE /\ k[c].prev = p
      /\ k[c].next = IF splits THEN c + 1 ELSE m[c].next
      /\ splits => k[c + 1] = Slot(m[c].addr + size, m[c].size - size, TRUE, m[c].next, c)
      /\ k[c].addr = CASE p = nullptr -> m[c].addr
                       [] p = c -> m[c].addr + size
                       [] splits /\ p = c + 1 -> m[c].addr + m[c].size
                       [] OTHER -> m[p].addr + m[p].size
  BY <1>3 DEF TakenIs
<1>5. p = c - 1 /\ m[c].next = nullptr /\ m[c].addr = m[c - 1].addr + m[c - 1].size
      /\ m[c].addr \in Nat /\ m[c].size \in Nat
  BY <1>1, <1>2
<1>6. k[c].addr = m[c].addr
  <2>1. p # nullptr /\ p # c /\ p # c + 1
    BY <1>2, <1>5
  <2>2. m[p].addr + m[p].size = m[c].addr
    BY ONLY <1>5
  <2> HIDE DEF p, splits
  <2> QED BY <1>4, <2>1, <2>2
<1>7. splits => /\ k[c + 1].addr = m[c].addr + size /\ k[c + 1].size = m[c].size - size
                /\ k[c + 1].free = TRUE /\ k[c + 1].next = nullptr /\ k[c + 1].prev = c
  BY <1>4, <1>5 DEF Slot
<1>8. ~splits => size = m[c].size
  BY <1>5, <1>2
<1>9. \A i \in 0..(c - 1) : k[i] = m[i] /\ i \in 0..top /\ i \in Nat /\ i < c
  <2>1. \A i \in 0..(c - 1) : i \in Nat /\ i # c /\ i # c + 1 /\ i \in 0..top /\ i < c
    <3>1. c \in Nat /\ top = c
      BY <1>2
    <3> QED BY ONLY <3>1
  <2>2. 0..top \subseteq Slots
    BY <1>1
  <2> HIDE DEF splits
  <2> QED BY <1>4, <2>1, <2>2
<1>10. /\ w \in Seq(S) /\ Len(w) = c /\ w[c] = b /\ \A i \in 1..(c - 1) : w[i] = l[i]
  <2> HIDE DEF b
  <2> QED BY <1>1, AppendProperties
<1>11. t \in Slots /\ t \in Nat /\ t \in {c, c + 1} /\ (t = c + 1 <=> splits)
  BY <1>2
<1>12. 0..t = 0..(c - 1) \cup {c} \cup (IF splits THEN {c + 1} ELSE {})
  BY <1>2
<1> HIDE DEF w
<1>13. ASSUME NEW i \in 0..t
       PROVE  /\ k[i].next = IF i = t THEN nullptr ELSE i + 1
              /\ k[i].prev = IF i = 0 THEN nullptr ELSE i - 1
              /\ k[i].size > 0 /\ k[i].free = (i > Len(w))
  <2>1. CASE i \in 0..(c - 1)
    <3>1. k[i] = m[i] /\ i \in 0..top /\ i # top /\ i # t /\ i \in Nat /\ ~(i > Len(l)) /\ ~(i > c)
      BY <1>1, <1>2, <1>9, <1>11, <2>1
    <3> HIDE DEF t
    <3> QED BY <1>1, <1>10, <3>1
  <2>2. CASE i = c
    <3>1. c # 0 /\ c \in Nat /\ k[c].size > 0 /\ k[c].free = FALSE /\ k[c].prev = c - 1
      BY <1>2, <1>4, <1>5
    <3>2. k[c].free = (c > Len(w))
      <4>1. ~(c > Len(w))
        BY <1>10, <3>1
      <4>2. (c > Len(w)) = FALSE
        BY ONLY <4>1
      <4> QED BY <3>1, <4>2
    <3>3. k[c].next = IF c = t THEN nullptr ELSE c + 1
      BY <1>2, <1>4, <1>5
    <3> QED BY <2>2, <3>1, <3>2, <3>3
  <2>3. CASE splits /\ i = c + 1
    <3>1. i = t /\ i # 0 /\ i - 1 = c /\ i > Len(w)
      BY <1>2, <1>10, <1>11, <2>3
    <3>2. k[i].size > 0
      BY <1>2, <1>5, <1>7, <2>3
    <3> HIDE DEF splits, t
    <3> QED BY <1>7, <2>3, <3>1, <3>2
  <2> QED BY <1>12, <2>1, <2>2, <2>3
<1>14. ASSUME NEW i \in 1..t PROVE k[i].addr = k[i - 1].addr + k[i - 1].size
  <2>1. CASE i \in 1..(c - 1)
    <3>0. i \in 0..(c - 1) /\ i - 1 \in 0..(c - 1) /\ i \in 1..top
      BY <1>1, <1>2, <2>1
    <3>1. k[i] = m[i] /\ k[i - 1] = m[i - 1] /\ i \in 1..top
      BY <1>9, <3>0
    <3> QED BY <1>1, <3>1
  <2>2. CASE i = c
    <3>1. k[c - 1] = m[c - 1]
      BY <1>2, <1>9
    <3> QED BY <1>5, <1>6, <2>2, <3>1
  <2>3. CASE splits /\ i = c + 1
    <3>1. i - 1 = c
      BY <1>2, <2>3
    <3> QED BY <1>4, <1>6, <1>7, <2>3, <3>1
  <2> QED BY <1>2, <1>11, <2>1, <2>2, <2>3
<1>15. ASSUME NEW i \in 0..t, NEW j \in 0..t, i < j PROVE k[i].addr + k[i].size <= k[j].addr
  <2>0. \A x \in 0..(c - 1) : /\ k[x].addr + k[x].size <= m[c].addr
                              /\ k[x].addr \in Nat /\ k[x].size \in Nat
    BY <1>1, <1>2, <1>9
  <2>1. CASE i \in 0..(c - 1) /\ j \in 0..(c - 1)
    BY <1>1, <1>9, <1>15, <2>1
  <2>2. CASE i \in 0..(c - 1) /\ j = c
    BY <1>6, <2>0, <2>2
  <2>3. CASE i \in 0..(c - 1) /\ splits /\ j = c + 1
    <3>1. k[i].addr + k[i].size <= m[c].addr /\ k[i].addr \in Nat /\ k[i].size \in Nat
      BY <2>0, <2>3
    <3>2. k[j].addr = m[c].addr + size /\ size \in Nat /\ m[c].addr \in Nat
      BY <1>2, <1>5, <1>7, <2>3
    <3> HIDE DEF t, splits
    <3> QED BY ONLY <3>1, <3>2
  <2>4. CASE i = c /\ splits /\ j = c + 1
    BY <1>2, <1>4, <1>5, <1>6, <1>7, <2>4
  <2> QED BY <1>2, <1>12, <1>15, <2>1, <2>2, <2>3, <2>4
<1>16. k[t].addr + k[t].size = Limit
  <2>1. CASE splits
    <3>1. t = c + 1
      BY <2>1
    <3>2. m[c].addr + m[c].size = Limit
      BY <1>1, <1>2
    <3>3. k[c + 1].addr = m[c].addr + size /\ k[c + 1].size = m[c].size - size
      BY <1>7, <2>1
    <3> HIDE DEF t, splits
    <3> QED BY <1>2, <1>5, <3>1, <3>2, <3>3
  <2>2. CASE ~splits
    <3>1. t = c
      BY <2>2
    <3> QED BY <1>1, <1>2, <1>4, <1>6, <1>8, <2>2, <3>1
  <2> QED BY <2>1, <2>2
<1>17. ASSUME NEW i \in 1..Len(w) PROVE w[i] = BlockOf(k[i])
  <2>1. CASE i \in 1..(c - 1)
    <3>1. i \in 1..Len(l) /\ k[i] = m[i]
      BY <1>1, <1>2, <1>9, <2>1
    <3> QED BY <1>1, <1>10, <2>1, <3>1
  <2>2. CASE i = c
    BY <1>4, <1>10, <2>2 DEF BlockOf
  <2> QED BY <1>2, <1>10, <2>1, <2>2
<1>18. t \in {Len(w), Len(w) + 1}
  BY <1>10, <1>11
<1> HIDE DEF t
<1>19. Stack(k, w, t)
  BY <1>11, <1>13, <1>14, <1>15, <1>16, <1>17, <1>18 DEF Stack
<1> QED BY <1>11, <1>19

\* The passes over a list that lies in the slots 0 to n in order, where only the
\* last of them may absorb what is behind it.
Settles(m, n, a) ==
  /\ \A i \in 0..(n - 1) : m[i].next = i + 1 /\ ~Mergeable(m, i)
  /\ a = IF Mergeable(m, n) THEN Absorbed(m, n) ELSE m
  /\ \A i \in 0..n : ~Mergeable(a, i) /\ a[i].next = IF i = n THEN nullptr ELSE i + 1

LEMMA MergedSettles ==
  ASSUME NEW m \in [Slots -> Node], NEW n \in Slots, NEW a \in [Slots -> Node],
         Settles(m, n, a)
  PROVE  Merged(m) = a
<1> USE DEF Settles
<1>0. /\ n \in Nat /\ Slots = 0..LastSlot /\ LastSlot \in Nat /\ n <= LastSlot
      /\ Slots \subseteq Nat /\ nullptr \notin Slots /\ Head0 = 0 /\ 0..n \subseteq Slots
  BY SlotFacts
<1>1. Turns \in Nat /\ n < Turns
  <2>1. Turns = LastSlot * LastSlot + 4 * LastSlot + 4
    BY <1>0 DEF Turns
  <2> DEFINE square == LastSlot * LastSlot
  <2>2. square \in Nat
    BY <1>0
  <2>3. Turns = square + 4 * LastSlot + 4
    BY <2>1
  <2> HIDE DEF square
  <2> QED BY <1>0, <2>2, <2>3
<1>2. PICK g : /\ Merged(m) = g[Turns].node /\ g[0] = Pass(m, Head0, FALSE)
               /\ \A k \in 1..Turns : g[k] = Turn(g[k - 1])
  BY MergedSteps
<1> DEFINE Early(k) == g[k].node = m /\ g[k].at = k
           Late(k) == g[k].node = a /\ g[k].at \in 0..n \cup {nullptr}
           P(k) == g[k] \in Passes /\ (k <= n => Early(k)) /\ (k > n => Late(k))
           T == {k \in Nat : k <= Turns => P(k)}
<1>3. 0 \in T
  <2>1. g[0] = [node |-> m, at |-> 0, merged_frames |-> FALSE]
    BY <1>0, <1>2 DEF Pass
  <2>2. g[0] \in Passes
    BY <1>0, <2>1 DEF Passes
  <2>3. Early(0)
    BY <2>1
  <2>4. ~(0 > n)
    BY <1>0
  <2> QED BY <2>2, <2>3, <2>4
<1>4. ASSUME NEW k \in T PROVE k + 1 \in T
  <2>1. SUFFICES ASSUME k + 1 <= Turns PROVE P(k + 1)
    BY <1>4
  <2>2. k \in Nat /\ k + 1 \in 1..Turns /\ (k + 1) - 1 = k /\ k <= Turns
    BY <1>1, <1>4, <2>1
  <2>3. P(k)
    BY <1>4, <2>2
  <2> DEFINE c == g[k]
             d == g[k + 1]
  <2>4. d = Turn(c) /\ c \in Passes
    BY <1>2, <2>2, <2>3
  <2>5. /\ d \in Passes
        /\ c.at # nullptr /\ Mergeable(c.node, c.at) =>
             d.node = Absorbed(c.node, c.at) /\ d.at = Absorbed(c.node, c.at)[c.at].next
        /\ c.at # nullptr /\ ~Mergeable(c.node, c.at) =>
             d.node = c.node /\ d.at = c.node[c.at].next
        /\ c.at = nullptr => d.node = c.node /\ d.at \in {Head0, nullptr}
    <3>1. c.merged_frames \in BOOLEAN
      BY <2>4 DEF Passes
    <3> QED BY <2>4, <3>1, TurnIs
  <2>6. CASE k < n
    <3>1. c.node = m /\ c.at = k /\ k \in 0..(n - 1) /\ k # nullptr /\ k + 1 <= n /\ ~(k + 1 > n)
      BY <1>0, <2>2, <2>3, <2>6
    <3>2. d.node = m /\ d.at = k + 1
      BY <2>5, <3>1
    <3> QED BY <2>5, <3>1, <3>2
  <2>7. CASE k = n
    <3>1. c.node = m /\ c.at = n /\ n # nullptr /\ n \in 0..n /\ ~(k + 1 <= n)
      BY <1>0, <2>2, <2>3, <2>7
    <3>2. d.node = a /\ d.at = a[n].next
      BY <2>5, <3>1
    <3>3. a[n].next = nullptr
      BY <3>1
    <3> QED BY <2>5, <3>1, <3>2, <3>3
  <2>8. CASE k > n
    <3>1. c.node = a /\ c.at \in 0..n \cup {nullptr} /\ ~(k + 1 <= n)
      BY <1>0, <2>2, <2>3, <2>8
    <3>2. CASE c.at = nullptr
      <4>1. d.node = a /\ d.at \in {Head0, nullptr} /\ 0 \in 0..n
        BY <1>0, <2>5, <3>1, <3>2
      <4> QED BY <1>0, <2>5, <3>1, <4>1
    <3>3. CASE c.at # nullptr
      <4>1. c.at \in 0..n
        BY <3>1, <3>3
      <4>2. d.node = a /\ d.at = a[c.at].next
        BY <2>5, <3>1, <3>3, <4>1
      <4>3. a[c.at].next \in 0..n \cup {nullptr}
        BY <1>0, <4>1
      <4> QED BY <2>5, <3>1, <4>2, <4>3
    <3> QED BY <3>2, <3>3
  <2> QED BY <1>0, <2>2, <2>6, <2>7, <2>8
<1>5. Turns \in T
  <2>1. T \in SUBSET Nat
    OBVIOUS
  <2> HIDE DEF T
  <2> QED BY <1>1, <1>3, <1>4, <2>1, Induction
<1>6. g[Turns].node = a
  BY <1>1, <1>5
<1> QED BY <1>2, <1>6

\* The block that was got last is given back: it becomes the free block, with what
\* is behind it.
LEMMA StackFrees ==
  ASSUME NEW m \in [Slots -> Node], NEW S, NEW l \in Seq(S), NEW top, Stack(m, l, top),
         Len(l) # 0, NEW k, k = [m EXCEPT ![Len(l)].free = TRUE],
         NEW w \in Seq(S), Len(w) = Len(l) - 1, \A i \in 1..Len(w) : w[i] = l[i]
  PROVE  Stack(Merged(k), w, Len(l))
<1> DEFINE n == Len(l)
           a == IF Mergeable(k, n) THEN Absorbed(k, n) ELSE k
<1>1. /\ top \in Nat /\ n \in Nat /\ n <= top /\ 0..top \subseteq Slots
      /\ top = n \/ top = n + 1
      /\ \A i \in 0..top : /\ i \in Nat /\ m[i].addr \in Nat /\ m[i].size \in Nat
                           /\ m[i].size > 0 /\ m[i].free = (i > n)
                           /\ m[i].next = IF i = top THEN nullptr ELSE i + 1
                           /\ m[i].prev = IF i = 0 THEN nullptr ELSE i - 1
      /\ \A i \in 1..top : m[i].addr = m[i - 1].addr + m[i - 1].size
      /\ \A i, j \in 0..top : i < j => m[i].addr + m[i].size <= m[j].addr
      /\ m[top].addr + m[top].size = Limit
      /\ \A i \in 1..n : l[i] = BlockOf(m[i])
  BY StackFacts
<1>2. /\ n \in Slots /\ 0 < n /\ n \in 0..top /\ nullptr \notin Slots /\ nullptr = -1
      /\ 0..n \subseteq 0..top /\ \A i \in 0..n : i \in Slots
  BY <1>1, SlotFacts
<1>3. /\ k \in [Slots -> Node] /\ k[n].free
      /\ k[n].addr = m[n].addr /\ k[n].size = m[n].size /\ k[n].next = m[n].next
      /\ k[n].prev = m[n].prev
      /\ \A s \in Slots : s # n => k[s] = m[s]
  <2> DEFINE r == [m[n] EXCEPT !.free = TRUE]
  <2>1. /\ r \in Node /\ r.free /\ r.addr = m[n].addr /\ r.size = m[n].size
        /\ r.next = m[n].next /\ r.prev = m[n].prev
    BY <1>2 DEF Node
  <2>2. k = [m EXCEPT ![n] = r]
    OBVIOUS
  <2> HIDE DEF r, n
  <2> QED BY <1>2, <2>1, <2>2
<1>4. ASSUME NEW i \in 0..(n - 1)
      PROVE  /\ k[i] = m[i] /\ k[i].next = i + 1 /\ ~k[i].free /\ i \in Slots /\ i # n
             /\ i \in 0..top /\ i < n /\ i \in Nat
  <2>1. i \in 0..top /\ i # top /\ i # n /\ ~(i > n) /\ i < n /\ i \in Nat
    BY <1>1
  <2>2. m[i].free = (i > n) /\ m[i].next = i + 1 /\ i \in Slots
    BY <1>1, <2>1
  <2>3. (i > n) = FALSE
    BY ONLY <2>1
  <2>4. k[i] = m[i]
    <3> HIDE DEF n
    <3> QED BY <1>3, <2>1, <2>2
  <2> HIDE DEF n
  <2> QED BY <2>1, <2>2, <2>3, <2>4
<1>5. /\ a \in [Slots -> Node] /\ a[n].next = nullptr /\ a[n].addr + a[n].size = Limit
      /\ a[n].size > 0
      /\ \A s \in Slots : /\ a[s].addr = m[s].addr /\ a[s].free = k[s].free
                          /\ a[s].prev = m[s].prev
                          /\ s # n => a[s].size = m[s].size /\ a[s].next = m[s].next
  <2>0. \A s \in Slots : /\ k[s].addr = m[s].addr /\ k[s].prev = m[s].prev
                         /\ k[s].size = m[s].size /\ k[s].next = m[s].next
    BY <1>3
  <2>1. CASE top = n
    <3>1. k[n].next = nullptr
      BY <1>1, <1>2, <1>3, <2>1
    <3>2. a = k
      BY <3>1 DEF Mergeable
    <3> HIDE DEF a, n
    <3> QED BY <1>1, <1>2, <1>3, <2>0, <2>1, <3>1, <3>2
  <2>2. CASE top = n + 1
    <3>1. /\ n + 1 \in 0..top /\ n + 1 \in Slots /\ n + 1 # n /\ n # top /\ n + 1 > n
          /\ n + 1 \in 1..top /\ (n + 1) - 1 = n
      BY <1>1, <2>2
    <3>2. /\ k[n].next = n + 1 /\ k[n + 1] = m[n + 1] /\ m[n + 1].next = nullptr
          /\ m[n + 1].free /\ m[n + 1].addr = m[n].addr + m[n].size
          /\ m[n + 1].addr + m[n + 1].size = Limit /\ n + 1 # nullptr
      <4>1. m[n + 1].free = (n + 1 > n)
        BY <1>1, <3>1
      <4>2. m[n + 1].free
        BY <3>1, <4>1
      <4>3. m[n].next = n + 1 /\ m[n + 1].next = nullptr
        BY <1>1, <1>2, <2>2, <3>1
      <4>4. m[n + 1].addr = m[n].addr + m[n].size /\ m[n + 1].addr + m[n + 1].size = Limit
        BY <1>1, <2>2, <3>1
      <4>5. n + 1 # nullptr
        BY <1>1, <1>2
      <4> HIDE DEF n
      <4>6. k[n].next = n + 1 /\ k[n + 1] = m[n + 1]
        BY <1>3, <3>1, <4>3
      <4> QED BY <4>2, <4>3, <4>4, <4>5, <4>6
    <3>3. Mergeable(k, n)
      <4> HIDE DEF n
      <4> QED BY <1>3, <3>2 DEF Mergeable
    <3>4. a = Absorbed(k, n)
      BY <3>3
    <3> HIDE DEF a, n
    <3>5. /\ a \in [Slots -> Node]
          /\ a[n].size = k[n].size + k[n + 1].size /\ a[n].next = k[n + 1].next
          /\ \A t \in Slots :
               /\ a[t].addr = k[t].addr /\ a[t].free = k[t].free
               /\ t # n => a[t].size = k[t].size /\ a[t].next = k[t].next
               /\ a[t].prev = IF t = k[n + 1].next THEN n ELSE k[t].prev
      <4>1. k[n].next = n + 1 /\ n + 1 # nullptr /\ n \in Slots /\ k \in [Slots -> Node]
        BY <1>2, <1>3, <3>2
      <4> QED BY ONLY <3>4, <4>1, AbsorbedParts
    <3>6. m[n].size \in Nat /\ m[n].size > 0 /\ m[n + 1].size \in Nat /\ m[n].addr \in Nat
      BY <1>1, <1>2, <3>1
    <3>7. \A t \in Slots : t # nullptr
      BY <1>2
    <3>8. a[n].size = m[n].size + m[n + 1].size /\ a[n].addr = m[n].addr /\ a[n].next = nullptr
      <4>1. k[n + 1] = m[n + 1] /\ m[n + 1].next = nullptr
        BY <3>2
      <4>2. a[n].size = k[n].size + k[n + 1].size /\ a[n].next = k[n + 1].next
        BY <3>5
      <4>3. a[n].addr = k[n].addr
        BY <1>2, <3>5
      <4> QED BY <1>3, <4>1, <4>2, <4>3
    <3>9. a[n].addr + a[n].size = Limit /\ a[n].size > 0
      BY <3>2, <3>6, <3>8
    <3>10. ASSUME NEW t \in Slots
           PROVE  /\ a[t].addr = m[t].addr /\ a[t].free = k[t].free /\ a[t].prev = m[t].prev
                  /\ t # n => a[t].size = m[t].size /\ a[t].next = m[t].next
      <4>1. t # k[n + 1].next
        BY <3>2, <3>7
      <4>2. /\ a[t].addr = k[t].addr /\ a[t].free = k[t].free /\ a[t].prev = k[t].prev
            /\ t # n => a[t].size = k[t].size /\ a[t].next = k[t].next
        BY <3>5, <4>1
      <4>3. /\ k[t].addr = m[t].addr /\ k[t].prev = m[t].prev
            /\ k[t].size = m[t].size /\ k[t].next = m[t].next
        BY <2>0
      <4> QED BY ONLY <4>2, <4>3
    <3> QED BY <3>5, <3>8, <3>9, <3>10
  <2> QED BY <1>1, <2>1, <2>2
<1>6. ASSUME NEW i \in 0..(n - 1)
      PROVE  ~a[i].free /\ a[i].next = i + 1 /\ a[i].size = m[i].size /\ a[i].addr = m[i].addr
  <2>1. k[i] = m[i] /\ k[i].next = i + 1 /\ ~k[i].free /\ i \in Slots /\ i # n
    BY <1>4
  <2> HIDE DEF a, n
  <2>2. a[i].free = k[i].free /\ a[i].size = m[i].size /\ a[i].addr = m[i].addr
        /\ a[i].next = m[i].next
    BY <1>5, <2>1
  <2> QED BY <2>1, <2>2
<1>7. a[n].free
  <2> HIDE DEF a, n
  <2> QED BY <1>2, <1>3, <1>5
<1>8. \A i \in 0..n : i = n \/ i \in 0..(n - 1)
  BY <1>1
<1>9. Merged(k) = a
  <2>1. \A i \in 0..(n - 1) : k[i].next = i + 1 /\ ~Mergeable(k, i)
    <3> HIDE DEF a, n
    <3> QED BY <1>4 DEF Mergeable
  <2>2. \A i \in 0..n : ~Mergeable(a, i) /\ a[i].next = IF i = n THEN nullptr ELSE i + 1
    <3>1. ~Mergeable(a, n) /\ a[n].next = nullptr
      <4> HIDE DEF a, n
      <4> QED BY <1>5 DEF Mergeable
    <3>2. \A i \in 0..(n - 1) : ~Mergeable(a, i) /\ a[i].next = i + 1 /\ i # n
      <4> HIDE DEF a, n
      <4> QED BY <1>4, <1>6 DEF Mergeable
    <3> HIDE DEF a, n
    <3> QED BY <1>8, <3>1, <3>2
  <2>3. a = IF Mergeable(k, n) THEN Absorbed(k, n) ELSE k
    OBVIOUS
  <2> HIDE DEF a, n
  <2>4. Settles(k, n, a)
    BY ONLY <2>1, <2>2, <2>3 DEF Settles
  <2>5. k \in [Slots -> Node] /\ a \in [Slots -> Node] /\ n \in Slots
    BY <1>2, <1>3, <1>5
  <2> QED BY ONLY <2>4, <2>5, MergedSettles
<1>10. Len(w) = n - 1 /\ Len(w) + 1 = n
  BY <1>1
<1> HIDE DEF a
<1>11. ASSUME NEW i \in 0..n
       PROVE  /\ a[i].next = IF i = n THEN nullptr ELSE i + 1
              /\ a[i].prev = IF i = 0 THEN nullptr ELSE i - 1
              /\ a[i].size > 0 /\ a[i].free = (i > Len(w))
  <2>1. a[i].prev = IF i = 0 THEN nullptr ELSE i - 1
    BY <1>1, <1>2, <1>5
  <2>2. CASE i = n
    <3>1. i > Len(w)
      BY <1>1, <1>10, <2>2
    <3>2. (i > Len(w)) = TRUE
      BY ONLY <3>1
    <3>3. a[i].free = TRUE
      <4>1. a[i].free \in BOOLEAN
        BY <1>2, <1>5, NodeParts
      <4> QED BY <1>7, <2>2, <4>1
    <3> QED BY <1>5, <2>1, <2>2, <3>2, <3>3
  <2>3. CASE i \in 0..(n - 1)
    <3>1. ~(i > Len(w)) /\ i # n
      BY <1>1, <1>10, <2>3
    <3>2. (i > Len(w)) = FALSE
      BY ONLY <3>1
    <3>3. a[i].free = FALSE
      <4>1. a[i].free \in BOOLEAN
        BY <1>2, <1>5, NodeParts
      <4> QED BY <1>6, <2>3, <4>1
    <3>4. a[i].next = i + 1 /\ a[i].size > 0
      BY <1>1, <1>4, <1>6, <2>3
    <3> QED BY <2>1, <3>1, <3>2, <3>3, <3>4
  <2> QED BY <1>8, <2>2, <2>3
<1>12. \A i \in 0..n : a[i].addr = m[i].addr
  BY <1>2, <1>5
<1>13. ASSUME NEW i \in 1..n PROVE a[i].addr = a[i - 1].addr + a[i - 1].size
  <2>1. i \in 1..top /\ i \in 0..n /\ i - 1 \in 0..(n - 1)
    BY <1>1
  <2>2. m[i].addr = m[i - 1].addr + m[i - 1].size
    BY <1>1, <2>1
  <2> HIDE DEF n
  <2> QED BY <1>6, <1>12, <2>1, <2>2
<1>14. ASSUME NEW i \in 0..n, NEW j \in 0..n, i < j PROVE a[i].addr + a[i].size <= a[j].addr
  <2>1. i \in 0..(n - 1) /\ i \in 0..top /\ j \in 0..top
    BY <1>1, <1>14
  <2>2. m[i].addr + m[i].size <= m[j].addr
    BY <1>1, <1>14, <2>1
  <2> HIDE DEF n
  <2> QED BY <1>6, <1>12, <2>1, <2>2
<1>15. ASSUME NEW i \in 1..Len(w) PROVE w[i] = BlockOf(a[i])
  <2>1. i \in 1..n /\ i \in 0..(n - 1)
    BY <1>1, <1>10
  <2>2. w[i] = BlockOf(m[i])
    BY <1>1, <2>1
  <2> HIDE DEF n
  <2> QED BY <1>6, <2>1, <2>2 DEF BlockOf
<1>16. n \in {Len(w), Len(w) + 1}
  BY <1>10
<1>17. Stack(a, w, n)
  <2> HIDE DEF n
  <2> QED BY <1>2, <1>5, <1>11, <1>13, <1>14, <1>15, <1>16 DEF Stack
<1> QED BY <1>9, <1>17

\* The count of the used frames, one block after the other.
Sized(S) == \A e \in S : e.size \in Nat

LEMMA HeldSteps ==
  ASSUME NEW S, Sized(S), NEW l \in Seq(S)
  PROVE  \E g \in [0..Len(l) -> Nat] : /\ Held(l) = g[Len(l)] /\ g[0] = Reserved
                                       /\ \A k \in 1..Len(l) : g[k] = g[k - 1] + l[k].size
<1> DEFINE n == Len(l)
           Is(f) == f = [k \in 0..n |-> IF k = 0 THEN Reserved ELSE f[k - 1] + l[k].size]
           step == [q \in Nat \X Nat |-> q[2] + (IF q[1] \in 1..n THEN l[q[1]].size ELSE 0)]
<1>0. n \in Nat /\ Reserved \in Nat /\ \A k \in 1..n : l[k].size \in Nat
  <2>1. n \in Nat /\ \A k \in 1..n : l[k] \in S
    OBVIOUS
  <2> QED BY <2>1, SlotFacts DEF Sized
<1>1. \A k \in Nat, v \in Nat : k \in 1..n => step[<<k, v>>] = v + l[k].size
  OBVIOUS
<1>2. StaysIn(step, Nat)
  <2>1. ASSUME NEW k \in Nat, NEW v \in Nat PROVE step[<<k, v>>] \in Nat
    <3>1. step[<<k, v>>] = v + (IF k \in 1..n THEN l[k].size ELSE 0)
      OBVIOUS
    <3> HIDE DEF step, n
    <3> QED BY <1>0, <3>1
  <2> HIDE DEF step
  <2> QED BY <2>1 DEF StaysIn
<1> HIDE DEF step, n
<1>3. \E g \in [0..n -> Nat] : Iterated(g, Reserved, step, n)
  BY ONLY <1>0, <1>2, Iterates
<1>4. PICK g \in [0..n -> Nat] :
        g[0] = Reserved /\ \A k \in 1..n : g[k] = step[<<k, g[k - 1]>>]
  BY <1>3 DEF Iterated
<1>5. \A k \in 1..n : g[k] = g[k - 1] + l[k].size
  <2>1. ASSUME NEW k \in 1..n PROVE g[k] = g[k - 1] + l[k].size
    <3>1. k \in Nat /\ k - 1 \in 0..n
      BY <1>0
    <3>2. g[k - 1] \in Nat
      BY <1>4, <3>1
    <3> QED BY <1>1, <1>4, <3>1, <3>2
  <2> QED BY <2>1
<1>6. Is(g)
  <2>1. ASSUME NEW k \in 0..n
        PROVE  g[k] = IF k = 0 THEN Reserved ELSE g[k - 1] + l[k].size
    <3>1. k = 0 \/ (k # 0 /\ k \in 1..n)
      BY <1>0
    <3> QED BY <1>4, <1>5, <3>1
  <2> QED BY <1>4, <2>1
<1> DEFINE w == CHOOSE f : Is(f)
<1>7. Held(l) = w[n]
  BY DEF Held, n
<1>8. Is(w)
  BY <1>6
<1> HIDE DEF w
<1>9. /\ w[0] = Reserved /\ DOMAIN w = 0..n
      /\ \A k \in 1..n : w[k] = w[k - 1] + l[k].size
  <2>1. \A k \in 0..n : w[k] = IF k = 0 THEN Reserved ELSE w[k - 1] + l[k].size
    BY <1>8
  <2>2. 0 \in 0..n /\ \A k \in 1..n : k \in 0..n /\ k # 0
    BY <1>0
  <2>3. DOMAIN w = 0..n
    BY <1>8
  <2> HIDE DEF Is
  <2> QED BY <2>1, <2>2, <2>3
<1> HIDE DEF Is
<1>10. \A k \in Nat : k <= n => w[k] = g[k]
  <2> DEFINE T == {k \in Nat : k <= n => w[k] = g[k]}
  <2>1. 0 \in T
    BY <1>4, <1>9
  <2>2. ASSUME NEW k \in T PROVE k + 1 \in T
    <3>1. SUFFICES ASSUME k + 1 <= n PROVE w[k + 1] = g[k + 1]
      OBVIOUS
    <3>2. k \in Nat /\ k + 1 \in 1..n /\ (k + 1) - 1 = k /\ k <= n
      BY <1>0, <3>1
    <3>3. w[k] = g[k]
      BY <3>2
    <3>4. w[k + 1] = w[k] + l[k + 1].size
      BY <1>9, <3>2
    <3>5. g[k + 1] = g[k] + l[k + 1].size
      BY <1>5, <3>2
    <3> QED BY <3>3, <3>4, <3>5
  <2>3. T \in SUBSET Nat
    OBVIOUS
  <2>4. T = Nat
    <3> HIDE DEF T
    <3> QED BY <2>1, <2>2, <2>3, Induction
  <2> QED BY <2>4
<1>11. Held(l) = g[n]
  BY <1>0, <1>7, <1>10
<1> QED BY <1>4, <1>5, <1>11 DEF n

\* One block more.
LEMMA HeldGrows ==
  ASSUME NEW S, Sized(S), NEW l \in Seq(S), NEW w \in Seq(S), Len(w) = Len(l) + 1,
         \A i \in 1..Len(l) : w[i] = l[i]
  PROVE  Held(l) \in Nat /\ Held(w) = Held(l) + w[Len(w)].size
<1> DEFINE n == Len(l)
<1>0. n \in Nat /\ Len(w) = n + 1
  OBVIOUS
<1>1. PICK g \in [0..n -> Nat] : /\ Held(l) = g[n] /\ g[0] = Reserved
                                 /\ \A k \in 1..n : g[k] = g[k - 1] + l[k].size
  BY HeldSteps
<1>2. PICK h \in [0..Len(w) -> Nat] :
        /\ Held(w) = h[Len(w)] /\ h[0] = Reserved
        /\ \A k \in 1..Len(w) : h[k] = h[k - 1] + w[k].size
  BY HeldSteps
<1> HIDE DEF n
<1>3. \A k \in Nat : k <= n => h[k] = g[k]
  <2> DEFINE T == {k \in Nat : k <= n => h[k] = g[k]}
  <2>1. 0 \in T
    BY <1>1, <1>2
  <2>2. ASSUME NEW k \in T PROVE k + 1 \in T
    <3>1. SUFFICES ASSUME k + 1 <= n PROVE h[k + 1] = g[k + 1]
      OBVIOUS
    <3>2. k \in Nat /\ k + 1 \in 1..n /\ (k + 1) - 1 = k /\ k <= n /\ k + 1 \in 1..Len(w)
      BY <1>0, <3>1
    <3>3. h[k] = g[k] /\ w[k + 1] = l[k + 1]
      BY <3>2 DEF n
    <3>4. h[k + 1] = h[k] + w[k + 1].size
      BY <1>2, <3>2
    <3>5. g[k + 1] = g[k] + l[k + 1].size
      BY <1>1, <3>2
    <3> QED BY <3>3, <3>4, <3>5
  <2>3. T \in SUBSET Nat
    OBVIOUS
  <2>4. T = Nat
    <3> HIDE DEF T
    <3> QED BY <2>1, <2>2, <2>3, Induction
  <2> QED BY <2>4
<1>4. h[n] = g[n] /\ g[n] \in Nat
  BY <1>0, <1>1, <1>3
<1>5. h[n + 1] = h[n] + w[n + 1].size
  <2>1. n + 1 \in 1..Len(w) /\ (n + 1) - 1 = n
    BY <1>0
  <2> QED BY <1>2, <2>1
<1> QED BY <1>0, <1>1, <1>2, <1>4, <1>5

LEMMA InitStack == Init => StackInv
<1> SUFFICES ASSUME Init PROVE StackInv
  OBVIOUS
<1>0. 1 \in Slots /\ 0 \in Slots /\ Head0 = 0 /\ nullptr = -1
      /\ LOW_DATA_START_ADDR \in Nat /\ Reserved \in Nat \ {0} /\ Frames \in Nat \ {0}
  BY SlotFacts
<1>1. live = <<>> /\ found = Nothing /\ status = "ok" /\ total_used_ram = Reserved
  BY DEF Init
<1>2. /\ node[0] = Slot(LOW_DATA_START_ADDR, Reserved, FALSE, 1, nullptr)
      /\ node[1] = Slot(LOW_DATA_START_ADDR + Reserved, Frames, TRUE, nullptr, Head0)
  BY <1>0 DEF Init
<1>3. /\ node[0].addr = LOW_DATA_START_ADDR /\ node[0].size = Reserved /\ ~node[0].free
      /\ node[0].next = 1 /\ node[0].prev = nullptr /\ node[0].free = FALSE
  BY <1>2 DEF Slot
<1>4. /\ node[1].addr = LOW_DATA_START_ADDR + Reserved /\ node[1].size = Frames
      /\ node[1].free = TRUE /\ node[1].next = nullptr /\ node[1].prev = 0
  BY <1>0, <1>2 DEF Slot
<1>5. 0..1 = {0, 1} /\ 1..1 = {1} /\ Len(<<>>) = 0
  OBVIOUS
<1>6. Stack(node, <<>>, 1)
  <2>1. (0 > 0) = FALSE /\ (1 > 0) = TRUE
    OBVIOUS
  <2>2. \A i \in {0, 1} : /\ node[i].next = IF i = 1 THEN nullptr ELSE i + 1
                          /\ node[i].prev = IF i = 0 THEN nullptr ELSE i - 1
                          /\ node[i].size > 0 /\ node[i].free = (i > 0)
    <3>1. /\ node[0].next = IF 0 = 1 THEN nullptr ELSE 0 + 1
          /\ node[0].prev = IF 0 = 0 THEN nullptr ELSE 0 - 1
          /\ node[0].size > 0 /\ node[0].free = (0 > 0)
      <4>1. /\ node[0].next = IF 0 = 1 THEN nullptr ELSE 0 + 1
            /\ node[0].prev = IF 0 = 0 THEN nullptr ELSE 0 - 1
            /\ node[0].size > 0
        BY <1>0, <1>3
      <4>2. node[0].free = (0 > 0)
        BY ONLY <1>3, <2>1, Zenon
      <4> QED BY <4>1, <4>2
    <3>2. /\ node[1].next = IF 1 = 1 THEN nullptr ELSE 1 + 1
          /\ node[1].prev = IF 1 = 0 THEN nullptr ELSE 1 - 1
          /\ node[1].size > 0 /\ node[1].free = (1 > 0)
      <4>1. /\ node[1].next = IF 1 = 1 THEN nullptr ELSE 1 + 1
            /\ node[1].prev = IF 1 = 0 THEN nullptr ELSE 1 - 1
            /\ node[1].size > 0
        BY <1>0, <1>4
      <4>2. node[1].free = (1 > 0)
        BY ONLY <1>4, <2>1, Zenon
      <4> QED BY <4>1, <4>2
    <3> QED BY <3>1, <3>2
  <2>3. \A i \in {1} : node[i].addr = node[i - 1].addr + node[i - 1].size
    BY <1>3, <1>4
  <2>4. \A i, j \in {0, 1} : i < j => node[i].addr + node[i].size <= node[j].addr
    BY <1>0, <1>3, <1>4
  <2>5. node[1].addr + node[1].size = Limit
    BY <1>4 DEF Limit
  <2>6. \A i \in 1..0 : <<>>[i] = BlockOf(node[i])
    OBVIOUS
  <2> QED BY <1>0, <1>5, <2>2, <2>3, <2>4, <2>5, <2>6 DEF Stack
<1>7. Held(<<>>) = Reserved
  <2> DEFINE S == [addr : Nat, size : Nat]
  <2>1. Sized(S) /\ <<>> \in Seq(S) /\ Len(<<>>) = 0
    BY DEF Sized
  <2> HIDE DEF S
  <2>2. PICK g : Held(<<>>) = g[Len(<<>>)] /\ g[0] = Reserved
    BY <2>1, HeldSteps
  <2> QED BY <2>1, <2>2
<1> QED BY <1>0, <1>1, <1>6, <1>7 DEF StackInv

LEMMA NextStack == BaseInv /\ StackInv /\ [Next]_vars => StackInv'
<1> SUFFICES ASSUME BaseInv, StackInv, [Next]_vars, reverse' PROVE StackInv'
  BY DEF StackInv
<1> DEFINE S == [addr : Nat, size : Blocks]
           n == Len(live)
<1>1. CASE UNCHANGED vars
  BY <1>1 DEF vars, StackInv, StillFits
<1>2. CASE Next
  <2>0. reverse /\ status = "ok" /\ reverse' = reverse
    BY <1>2 DEF Next
  <2>1. /\ TypeOK /\ Based(node) /\ node \in [Slots -> Node] /\ live \in Seq(S) /\ n \in Nat
        /\ Sized(S) /\ total_used_ram = Held(live)
        /\ found # Nothing => found.slot = n + 1 /\ StillFits(found.slot, found.size)
    <3>1. Sized(S)
      BY SlotFacts DEF Sized
    <3> QED BY <2>0, <3>1, TypeParts DEF BaseInv, StackInv
  <2>2. PICK top \in Slots : Stack(node, live, top)
    BY <2>0 DEF StackInv
  <2> HIDE DEF S
  <2>3. /\ Range(Listed(node)) = 0..top /\ ~Cyclic(node) /\ IsSound(node, live)
    BY <2>1, <2>2, StackTiles
  <2>4. /\ top \in Nat /\ n <= top
        /\ \A i \in 0..top : i \in Nat /\ node[i].size \in Nat /\ node[i].size > 0
                             /\ node[i].free = (i > n) /\ node[i].addr \in Nat
        /\ \A i, j \in 0..top : i < j => node[i].addr + node[i].size <= node[j].addr
        /\ top = n \/ top = n + 1
        /\ \A i \in 1..n : live[i] = BlockOf(node[i])
    BY <2>1, <2>2, StackFacts
  <2>5. ASSUME NEW c \in 0..top, node[c].free PROVE c = n + 1
    <3>1. node[c].free = (c > n)
      BY <2>4
    <3>2. c > n
      BY <2>5, <3>1
    <3> QED BY <2>1, <2>4, <3>2
  <2>6. ASSUME NEW c, c = n + 1, c \in 0..top, NEW size \in Blocks, node[c].size >= size,
               Take(c, size)
        PROVE  /\ \E t \in Slots : Stack(node', live', t)
               /\ total_used_ram' = Held(live')
    <3> DEFINE b == [addr |-> node'[c].addr, size |-> size]
    <3>1. /\ node[c].size > size => c + 1 \in Slots
          /\ node' = Taken(node, c, size) /\ live' = Append(live, b)
          /\ total_used_ram' = total_used_ram + size
      BY <2>6 DEF Take
    <3>2. c \in Slots /\ size \in Nat \ {0} /\ size \in Nat /\ c \in Nat
      BY <2>1, <2>4, <2>6, SlotFacts DEF Slots
    <3>3. c \in Slots /\ c # Head0 /\ node[c].size > 0
      BY <2>1, <2>4, <2>6, <3>2, SlotFacts
    <3>4. node' \in [Slots -> Node]
      BY <2>6, <3>3, TakeBase
    <3>5. b \in S /\ b.size = size
      BY <2>6, <3>3, <3>4, NodeParts DEF S
    <3>6. size <= node[c].size
      BY <2>4, <2>6, <3>2
    <3>7. \E t \in Slots : Stack(node', live', t)
      <4>1. b = [addr |-> Taken(node, c, size)[c].addr, size |-> size]
        BY <3>1
      <4>2. LET k == Taken(node, c, size)
                d == [addr |-> k[c].addr, size |-> size]
            IN  d \in S => \E t \in Slots : Stack(k, Append(live, d), t)
        <5>1. c = Len(live) + 1 /\ size \in Nat \ {0}
          BY <2>6, <3>2
        <5> HIDE DEF b, n
        <5> QED BY ONLY <2>1, <2>2, <2>6, <3>1, <3>6, <5>1, StackTakes
      <4>3. [addr |-> Taken(node, c, size)[c].addr, size |-> size] \in S
        BY <3>5, <4>1
      <4> QED BY <3>1, <4>2, <4>3
    <3> HIDE DEF b
    <3>8. live' \in Seq(S) /\ Len(live') = n + 1 /\ live'[n + 1] = b
          /\ \A i \in 1..n : live'[i] = live[i]
      BY <2>1, <3>1, <3>5, AppendProperties
    <3>9. Held(live') = Held(live) + live'[Len(live')].size
      BY <2>1, <3>8, HeldGrows
    <3> QED BY <2>1, <3>1, <3>5, <3>7, <3>8, <3>9
  <2>7. ASSUME NEW size \in Blocks, alloc_frame(size), found = Nothing PROVE StackInv'
    <3>0. ASSUME Fits(node, size) # {}
          PROVE  LET c == FirstFit(node, size) IN
                   /\ c = n + 1 /\ c \in 0..top /\ node[c].free /\ node[c].size >= size
                   /\ c \in Range(Listed(node))
      <4> DEFINE c == FirstFit(node, size)
      <4>1. c \in Range(Listed(node)) /\ node[c].free /\ node[c].size >= size
        BY <3>0, FitBase
      <4> HIDE DEF c
      <4>2. c = n + 1 /\ c \in 0..top
        BY <2>3, <2>5, <4>1
      <4> QED BY <4>1, <4>2 DEF c
    <3> DEFINE c == FirstFit(node, size)
    <3>1. CASE /\ Fits(node, size) # {} /\ Take(FirstFit(node, size), size)
               /\ UNCHANGED <<found, status>>
      <4>1. c = n + 1 /\ c \in 0..top /\ node[c].size >= size /\ Take(c, size)
        BY <3>0, <3>1
      <4> HIDE DEF c, n
      <4>2. (\E t \in Slots : Stack(node', live', t)) /\ total_used_ram' = Held(live')
        BY <2>6, <2>7, <4>1
      <4>3. found' = Nothing /\ status' = "ok"
        BY <2>0, <2>7, <3>1
      <4> QED BY <4>2, <4>3 DEF StackInv
    <3>2. CASE /\ Fits(node, size) # {} /\ found = Nothing
               /\ found' = [slot |-> FirstFit(node, size), size |-> size]
               /\ UNCHANGED <<node, total_used_ram, mapped, live, status>>
      <4>1. c = n + 1 /\ node[c].free /\ node[c].size >= size /\ c \in Range(Listed(node))
        BY <3>0, <3>2
      <4>2. found' = [slot |-> c, size |-> size]
        BY <3>2
      <4> HIDE DEF c
      <4>3. found'.slot = c /\ found'.size = size
        BY <4>2
      <4>4. StillFits(found.slot, found.size)'
        BY <3>2, <4>1, <4>3 DEF StillFits
      <4>5. found'.slot = Len(live') + 1
        BY <3>2, <4>1, <4>3
      <4> QED BY <2>0, <2>1, <2>2, <3>2, <4>4, <4>5 DEF StackInv
    <3>3. CASE Fits(node, size) = {} /\ Cyclic(node)
      BY <2>3, <3>3
    <3> QED BY <2>7, <3>1, <3>2, <3>3 DEF alloc_frame
  <2>8. ASSUME Resume PROVE StackInv'
    <3> DEFINE c == found.slot
               size == found.size
    <3>1. /\ found # Nothing /\ Take(c, size) /\ found' = Nothing
          /\ status' = IF StillFits(c, size) THEN "ok" ELSE "stale"
      BY <2>8 DEF Resume
    <3>2. c \in Slots /\ size \in Blocks
      BY <2>1, <3>1, TypeParts
    <3>3. c = n + 1 /\ StillFits(c, size)
      BY <2>1, <3>1
    <3> HIDE DEF c, size
    <3>4. c \in 0..top /\ node[c].size >= size /\ status' = "ok"
      BY <2>3, <3>1, <3>3 DEF StillFits
    <3> HIDE DEF n
    <3>5. (\E t \in Slots : Stack(node', live', t)) /\ total_used_ram' = Held(live')
      BY <2>6, <3>1, <3>2, <3>3, <3>4
    <3> QED BY <3>1, <3>4, <3>5 DEF StackInv
  <2>9. ASSUME NEW i \in 1..Len(live), i = Len(live), free_frame(i), found = Nothing,
               found' = found
        PROVE  StackInv'
    <3> DEFINE b == First(node, At(node, live[i].addr))
               k == [node EXCEPT ![n].free = TRUE]
    <3>1. Sound
      BY <2>3 DEF Sound
    <3>2. /\ b \in Range(Listed(node)) /\ b # Head0 /\ BlockOf(node[b]) = live[i]
          /\ node' = Merged([node EXCEPT ![b].free = TRUE])
          /\ total_used_ram' = total_used_ram - node[b].size /\ status' = status
      BY <2>9, <3>1, FreeKeeps
    <3> HIDE DEF b
    <3>3. n # 0 /\ i = n /\ n \in 0..top /\ n \in 1..n /\ b \in 0..top
      BY <2>1, <2>3, <2>4, <2>9, <3>2
    <3>4. BlockOf(node[b]) = BlockOf(node[n])
      BY <2>4, <3>2, <3>3
    <3>5. node[b].addr = node[n].addr /\ live[i].size = node[b].size
      <4>1. BlockOf(node[b]).addr = node[b].addr /\ BlockOf(node[n]).addr = node[n].addr
            /\ BlockOf(node[b]).size = node[b].size
        BY DEF BlockOf
      <4> QED BY <3>2, <3>4, <4>1
    <3>6. b = n
      <4>1. ~(b < n) /\ ~(n < b)
        BY <2>4, <3>3, <3>5
      <4> QED BY <2>1, <2>4, <3>3, <4>1
    <3>7. live' = RemoveAt(live, i)
      BY <2>9 DEF free_frame
    <3>8. /\ live' \in Seq(S) /\ Len(live') = n - 1
          /\ \A j \in 1..(n - 1) : live'[j] = IF j < i THEN live[j] ELSE live[j + 1]
      BY <2>1, <3>7, WithoutOne
    <3>9. \A j \in 1..Len(live') : live'[j] = live[j]
      BY <2>1, <3>3, <3>8
    <3>10. node' = Merged(k) /\ k = [node EXCEPT ![Len(live)].free = TRUE]
      BY <3>2, <3>6
    <3> HIDE DEF k
    <3>11. Stack(node', live', n)
      BY <2>1, <2>2, <3>3, <3>8, <3>9, <3>10, StackFrees
    <3>12. Held(live') \in Nat /\ Held(live) = Held(live') + live[Len(live)].size
      <4>1. Len(live) = Len(live') + 1 /\ \A j \in 1..Len(live') : live[j] = live'[j]
        BY <2>1, <3>8, <3>9
      <4> QED BY <2>1, <3>8, <4>1, HeldGrows
    <3>13. total_used_ram' = Held(live')
      <4>1. node[b].size \in Nat
        BY <2>4, <3>3
      <4> QED BY <2>1, <2>9, <3>2, <3>5, <3>12, <4>1
    <3>14. n \in Slots
      BY <2>1, <2>4, <3>3, SlotFacts DEF Slots
    <3> QED BY <2>0, <2>9, <3>2, <3>11, <3>13, <3>14 DEF StackInv
  <2> QED BY <1>2, <2>0, <2>7, <2>8, <2>9 DEF Next
<1> QED BY <1>1, <1>2

\* Whoever frees in the reverse order never meets a list that is out of order, and
\* the count of the used frames is right (alloc_frame and free_frame together).
THEOREM ReverseOrderIsSound == Spec => []SoundAndCounted
<1>1. Init => BaseInv /\ StackInv
  BY InitBase, InitStack
<1>2. BaseInv /\ StackInv /\ [Next]_vars => (BaseInv /\ StackInv)'
  BY NextBase, NextStack
<1>3. BaseInv /\ StackInv => SoundAndCounted
  <2> SUFFICES ASSUME BaseInv, StackInv, reverse PROVE Sound /\ total_used_ram = Held(live)
    BY DEF BaseInv, SoundAndCounted
  <2>1. PICK top \in Slots : Stack(node, live, top)
    BY DEF StackInv
  <2>2. Based(node) /\ live \in Seq([addr : Nat, size : Blocks])
    BY TypeParts DEF BaseInv
  <2>3. IsSound(node, live)
    BY <2>1, <2>2, StackTiles
  <2> QED BY <2>3 DEF Sound, StackInv
<1> QED BY <1>1, <1>2, <1>3, PTL DEF Spec
=============================================================================
