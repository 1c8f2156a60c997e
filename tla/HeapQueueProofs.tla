-------------------------- MODULE HeapQueueProofs --------------------------
(***************************************************************************)
(* The run queue and the kernel heap that it lies on.  The linked list,    *)
(* for every set of addresses and of processes: until a tick tears it, it  *)
(* is whole, no node is lost, and it is the atomic queue that the          *)
(* scheduler takes it for.  The heap, for every size and whatever kfree    *)
(* finds where it looks for a header.  Then the one on the other.          *)
(***************************************************************************)
EXTENDS HeapQueue, SequenceTheorems, FiniteSetTheorems, NaturalsInduction,
        WellFoundedInduction, TLAPS

(***************************************************************************)
(* The inductive invariant of the list, in parts.                          *)
(***************************************************************************)
Cell == [value : Proc, next : Node \cup {null}]

IsQueue(q) ==
  /\ q = [head |-> q.head, tail |-> q.tail, node |-> q.node]
  /\ q.head \in Node \cup {null}
  /\ q.tail \in Node \cup {null}
  /\ DOMAIN q.node \subseteq Node
  /\ q.node \in [DOMAIN q.node -> Cell]

RunQueueTypeOK ==
  /\ IsQueue(queue)
  /\ cpu \in Proc
  /\ pc \in [Proc -> Place]
  /\ ptr \in [Proc -> Node \cup {null}]
  /\ seen \in [Proc -> Node \cup {null}]
  /\ chosen \in [Proc -> Proc \cup {null}]
  /\ headFirst \in BOOLEAN
  /\ line \in Seq(Node)
  /\ torn \in BOOLEAN

NodesOf(l) == {l[i] : i \in 1..Len(l)}
End(l) == IF l = <<>> THEN null ELSE l[Len(l)]

\* The nodes of l, in this order, are what head leads to.
Chain(head, node, l) ==
  /\ head = IF l = <<>> THEN null ELSE l[1]
  /\ \A i \in 1..Len(l) :
       /\ l[i] \in DOMAIN node
       /\ node[l[i]].next = IF i = Len(l) THEN null ELSE l[i + 1]
       /\ \A j \in 1..Len(l) : l[i] = l[j] => i = j

\* Where the tail is behind: an emptied list in pop, the second store of push.
TailIsEnd == \/ pc[cpu] = "fix" /\ line = <<>>
             \/ pc[cpu] = "join"
             \/ queue.tail = End(line)

\* A context that a tick has switched away from is not in a gap.
OnlyTheRunningInGap == \A p \in Proc : pc[p] \in Gap => p = cpu

\* What the registers of a context hold where it is.
Popping(p) ==
  pc[p] = "unlink" => /\ line # <<>> /\ ptr[p] = line[1]
                      /\ chosen[p] = queue.node[ptr[p]].value

Pushing(p) ==
  /\ pc[p] \in {"push", "link"} => queue.node[ptr[p]] = [value |-> p, next |-> null]
  /\ pc[p] = "link" => seen[p] = queue.tail
  /\ pc[p] = "join" =>
       IF seen[p] # null \/ headFirst
       THEN line # <<>> /\ line[Len(line)] = ptr[p]
       ELSE /\ line = <<>> /\ queue.tail = ptr[p]
            /\ queue.node[ptr[p]] = [value |-> p, next |-> null]

InHand(p) ==
  /\ ptr[p] # null
       <=> pc[p] \in {"unlink", "fix", "kfree", "push", "link", "join"}
  /\ ptr[p] # null => ptr[p] \in DOMAIN queue.node
  /\ pc[p] \in {"fix", "kfree", "push", "link"} => ptr[p] \notin NodesOf(line)
  /\ chosen[p] # null
       <=> pc[p] \in {"unlink", "fix", "kfree", "requeue", "push", "link", "join",
                      "switch"}

NoNodeShared == \A p, q \in Proc : ptr[p] = ptr[q] /\ ptr[p] # null => p = q
NoNodeLost == DOMAIN queue.node = NodesOf(line) \cup ({ptr[p] : p \in Proc} \ {null})

WholeList ==
  /\ Chain(queue.head, queue.node, line)
  /\ TailIsEnd
  /\ OnlyTheRunningInGap
  /\ \A p \in Proc : Popping(p) /\ Pushing(p) /\ InHand(p)
  /\ NoNodeShared
  /\ NoNodeLost

RunQueueInv == RunQueueTypeOK /\ (torn \/ WholeList)
-----------------------------------------------------------------------------
(***************************************************************************)
(* Lemmas about the list.                                                  *)
(***************************************************************************)

\* The elements of a queue, of what is left of it, and of a longer one.
LEMMA NodesOfQueues ==
  ASSUME NEW l \in Seq(Node)
  PROVE  /\ NodesOf(l) \subseteq Node
         /\ l # <<>> => /\ l[1] \in NodesOf(l) /\ l[Len(l)] \in NodesOf(l)
                        /\ Tail(l) \in Seq(Node) /\ Len(Tail(l)) = Len(l) - 1
                        /\ \A i \in 1..Len(l) - 1 : Tail(l)[i] = l[i + 1]
         /\ \A n \in Node : /\ Append(l, n) \in Seq(Node)
                            /\ Append(l, n) # <<>>
                            /\ NodesOf(Append(l, n)) = NodesOf(l) \cup {n}
                            /\ End(Append(l, n)) = n
<1>1. NodesOf(l) \subseteq Node
  BY DEF NodesOf
<1>2. l # <<>> => /\ l[1] \in NodesOf(l) /\ l[Len(l)] \in NodesOf(l)
                  /\ Tail(l) \in Seq(Node) /\ Len(Tail(l)) = Len(l) - 1
                  /\ \A i \in 1..Len(l) - 1 : Tail(l)[i] = l[i + 1]
  BY DEF NodesOf
<1>3. ASSUME NEW n \in Node
      PROVE  /\ Append(l, n) \in Seq(Node)
             /\ Append(l, n) # <<>>
             /\ NodesOf(Append(l, n)) = NodesOf(l) \cup {n}
             /\ End(Append(l, n)) = n
  <2>1. /\ Append(l, n) \in Seq(Node) /\ Len(Append(l, n)) = Len(l) + 1
        /\ \A i \in 1..Len(l) : Append(l, n)[i] = l[i]
        /\ Append(l, n)[Len(l) + 1] = n
        /\ Append(l, n) # <<>> /\ Len(l) \in Nat
    OBVIOUS
  <2>2. NodesOf(Append(l, n)) = NodesOf(l) \cup {n}
    BY <2>1 DEF NodesOf
  <2> QED BY <2>1, <2>2 DEF End
<1> QED BY <1>1, <1>2, <1>3

\* pop: what the head's node leads to is the chain without the head.
LEMMA TailOfChain ==
  ASSUME NEW head, NEW node, NEW l \in Seq(Node), Chain(head, node, l), l # <<>>
  PROVE  /\ head = l[1] /\ head \in NodesOf(l) /\ head \in DOMAIN node
         /\ Chain(node[head].next, node, Tail(l))
         /\ NodesOf(Tail(l)) = NodesOf(l) \ {head}
         /\ (node[head].next = null) <=> (Tail(l) = <<>>)
         /\ Tail(l) # <<>> => End(Tail(l)) = End(l)
<1>0. Len(l) \in Nat \ {0} /\ 1 \in 1..Len(l) /\ \A i \in 1..Len(l) : l[i] \in Node
  OBVIOUS
<1>1. /\ Tail(l) \in Seq(Node) /\ Len(Tail(l)) = Len(l) - 1 /\ Len(l) \in Nat \ {0}
      /\ \A i \in 1..Len(l) - 1 : Tail(l)[i] = l[i + 1]
      /\ \A i \in 1..Len(l) : l[i] \in Node
      /\ (Tail(l) = <<>>) <=> (Len(l) = 1)
  <2>1. Tail(l) \in Seq(Node) /\ Len(Tail(l)) = Len(l) - 1
    OBVIOUS
  <2>2. \A i \in 1..Len(l) - 1 : Tail(l)[i] = l[i + 1]
    OBVIOUS
  <2>3. (Tail(l) = <<>>) <=> (Len(Tail(l)) = 0)
    BY <2>1, EmptySeq
  <2> QED BY <1>0, <2>1, <2>2, <2>3
<1>2. head = l[1] /\ head \in NodesOf(l) /\ head \in DOMAIN node
  BY <1>0 DEF Chain, NodesOf
<1>3. node[head].next = IF Len(l) = 1 THEN null ELSE l[2]
  <2>1. node[l[1]].next = IF 1 = Len(l) THEN null ELSE l[1 + 1]
    BY <1>0 DEF Chain
  <2> QED BY <1>2, <2>1
<1>4. (node[head].next = null) <=> (Tail(l) = <<>>)
  BY <1>1, <1>3, RunQueueAssumption
<1>5. Chain(node[head].next, node, Tail(l))
  <2>1. node[head].next = IF Tail(l) = <<>> THEN null ELSE Tail(l)[1]
    BY <1>1, <1>3
  <2>2. ASSUME NEW i \in 1..Len(Tail(l))
        PROVE  /\ Tail(l)[i] \in DOMAIN node
               /\ node[Tail(l)[i]].next
                    = IF i = Len(Tail(l)) THEN null ELSE Tail(l)[i + 1]
               /\ \A j \in 1..Len(Tail(l)) : Tail(l)[i] = Tail(l)[j] => i = j
    <3>1. i + 1 \in 1..Len(l) /\ Tail(l)[i] = l[i + 1]
      BY <1>1
    <3>2. l[i + 1] \in DOMAIN node
      BY <3>1 DEF Chain
    <3>3. node[l[i + 1]].next = IF i + 1 = Len(l) THEN null ELSE l[(i + 1) + 1]
      BY <3>1 DEF Chain
    <3>4. i + 1 # Len(l) => i + 1 \in 1..Len(l) - 1 /\ l[(i + 1) + 1] = Tail(l)[i + 1]
      <4>1. i + 1 # Len(l) => i + 1 \in 1..Len(l) - 1
        BY <1>0, <3>1
      <4> QED BY <1>1, <4>1
    <3>5. ASSUME NEW j \in 1..Len(Tail(l)), Tail(l)[i] = Tail(l)[j] PROVE i = j
      <4>1. j + 1 \in 1..Len(l) /\ Tail(l)[j] = l[j + 1]
        BY <1>1
      <4> QED BY <3>1, <3>5, <4>1 DEF Chain
    <3>6. (i + 1 = Len(l)) <=> (i = Len(Tail(l)))
      BY <1>1
    <3> QED BY <3>1, <3>2, <3>3, <3>4, <3>5, <3>6
  <2> QED BY <2>1, <2>2 DEF Chain
<1>6. NodesOf(Tail(l)) = NodesOf(l) \ {head}
  <2>1. ASSUME NEW n \in NodesOf(Tail(l)) PROVE n \in NodesOf(l) \ {head}
    <3>1. PICK i \in 1..Len(Tail(l)) : n = Tail(l)[i]
      BY DEF NodesOf
    <3>2. i + 1 \in 1..Len(l) /\ n = l[i + 1] /\ 1 \in 1..Len(l) /\ i + 1 # 1
      BY <1>1, <3>1
    <3> QED BY <1>2, <3>2 DEF NodesOf, Chain
  <2>2. ASSUME NEW n \in NodesOf(l) \ {head} PROVE n \in NodesOf(Tail(l))
    <3>1. PICK i \in 1..Len(l) : n = l[i]
      BY DEF NodesOf
    <3>2. i - 1 \in 1..Len(Tail(l)) /\ Tail(l)[i - 1] = l[i]
      BY <1>1, <1>2, <3>1
    <3> QED BY <3>1, <3>2 DEF NodesOf
  <2> QED BY <2>1, <2>2
<1>7. Tail(l) # <<>> => End(Tail(l)) = End(l)
  BY <1>1 DEF End
<1> QED BY <1>2, <1>4, <1>5, <1>6, <1>7

\* Nothing that leaves the links of its nodes disturbs a chain.
LEMMA SameLinks ==
  ASSUME NEW head, NEW node, NEW node2, NEW l, Chain(head, node, l),
         \A n \in NodesOf(l) : n \in DOMAIN node2 /\ node2[n].next = node[n].next
  PROVE  Chain(head, node2, l)
BY DEF Chain, NodesOf

\* push: a free node at the end of the chain.
LEMMA LongerChain ==
  ASSUME NEW head, NEW node, NEW node2, NEW l \in Seq(Node), NEW n \in Node,
         Chain(head, node, l), n \notin NodesOf(l),
         n \in DOMAIN node2, node2[n].next = null,
         \A m \in NodesOf(l) : /\ m \in DOMAIN node2
                               /\ node2[m].next = IF m = End(l) THEN n ELSE node[m].next
  PROVE  Chain(IF l = <<>> THEN n ELSE head, node2, Append(l, n))
<1> DEFINE k == Append(l, n)
<1>1. /\ k \in Seq(Node) /\ Len(k) = Len(l) + 1 /\ Len(l) \in Nat
      /\ \A i \in 1..Len(l) : k[i] = l[i]
      /\ k[Len(l) + 1] = n /\ k # <<>>
      /\ (l = <<>>) <=> (Len(l) = 0)
  OBVIOUS
<1> HIDE DEF k
<1>2. (IF l = <<>> THEN n ELSE head) = k[1]
  BY <1>1 DEF Chain
<1>3. ASSUME NEW i \in 1..Len(k)
      PROVE  /\ k[i] \in DOMAIN node2
             /\ node2[k[i]].next = IF i = Len(k) THEN null ELSE k[i + 1]
             /\ \A j \in 1..Len(k) : k[i] = k[j] => i = j
  <2>1. CASE i = Len(k)
    BY <1>1, <2>1 DEF NodesOf
  <2>2. CASE i # Len(k)
    <3>1. i \in 1..Len(l) /\ k[i] = l[i] /\ l[i] \in NodesOf(l)
      BY <1>1, <2>2 DEF NodesOf
    <3>2. (l[i] = End(l)) <=> (i = Len(l))
      BY <1>1, <3>1 DEF End, Chain
    <3>3. node2[l[i]].next = k[i + 1]
      BY <1>1, <3>1, <3>2 DEF Chain
    <3>4. \A j \in 1..Len(k) : k[i] = k[j] => i = j
      BY <1>1, <3>1 DEF Chain, NodesOf
    <3> QED BY <2>2, <3>1, <3>3, <3>4
  <2> QED BY <2>1, <2>2
<1> QED BY <1>1, <1>2, <1>3 DEF Chain, k
-----------------------------------------------------------------------------
(***************************************************************************)
(* The steps of the list.                                                  *)
(***************************************************************************)

\* What kmalloc and kfree do to the nodes.
LEMMA NodesOfHeap ==
  ASSUME IsQueue(queue), NEW n \in Node, NEW p \in Proc
  PROVE  /\ DOMAIN Without(queue.node, n) = DOMAIN queue.node \ {n}
         /\ \A m \in DOMAIN queue.node \ {n} :
              Without(queue.node, n)[m] = queue.node[m]
         /\ Without(queue.node, n) \in [DOMAIN queue.node \ {n} -> Cell]
         /\ DOMAIN With(queue.node, n, p) = DOMAIN queue.node \cup {n}
         /\ With(queue.node, n, p)[n] = [value |-> p, next |-> null]
         /\ \A m \in DOMAIN queue.node \ {n} :
              With(queue.node, n, p)[m] = queue.node[m]
         /\ With(queue.node, n, p) \in [DOMAIN queue.node \cup {n} -> Cell]
BY DEF IsQueue, Without, With, Cell

\* A context outside the gaps whose registers and node a step leaves alone.
LEMMA OtherContext ==
  ASSUME NEW q \in Proc, Popping(q), Pushing(q), InHand(q), pc[q] \notin Gap,
         pc'[q] = pc[q], ptr'[q] = ptr[q], seen'[q] = seen[q],
         chosen'[q] = chosen[q],
         ptr[q] # null => /\ ptr[q] \in DOMAIN queue'.node
                          /\ queue'.node[ptr[q]] = queue.node[ptr[q]]
                          /\ ptr[q] \notin NodesOf(line')
  PROVE  Popping(q)' /\ Pushing(q)' /\ InHand(q)'
BY DEF Popping, Pushing, InHand, Gap

\* Outside the gaps nobody's node is linked in.
LEMMA HandsOffTheList ==
  ASSUME NEW q \in Proc, InHand(q), pc[q] \notin Gap, ptr[q] # null
  PROVE  ptr[q] \notin NodesOf(line)
BY DEF InHand, Gap

LEMMA EntryKeeps ==
  ASSUME RunQueueInv, NEW p \in Proc, Yield(p) \/ Stay(p)
  PROVE  RunQueueInv'
<1> USE DEF Yield, Stay, At, Go, registers
<1>1. RunQueueTypeOK'
  BY DEF RunQueueInv, RunQueueTypeOK, IsQueue, Place
<1>2. WholeList'
  <2> USE DEF RunQueueInv, RunQueueTypeOK, WholeList
  <2>1. Chain(queue.head, queue.node, line)' /\ NoNodeShared' /\ NoNodeLost'
    BY DEF NoNodeShared, NoNodeLost
  <2>2. TailIsEnd'
    BY DEF TailIsEnd
  <2>3. OnlyTheRunningInGap'
    BY DEF OnlyTheRunningInGap, Gap
  <2>4. ASSUME NEW q \in Proc PROVE Popping(q)' /\ Pushing(q)' /\ InHand(q)'
    BY DEF Popping, Pushing, InHand
  <2> QED BY <2>1, <2>2, <2>3, <2>4
<1> QED BY <1>1, <1>2 DEF RunQueueInv

LEMMA LoadHeadKeeps ==
  ASSUME RunQueueInv, NEW p \in Proc, LoadHead(p)
  PROVE  RunQueueInv'
<1> USE DEF LoadHead, At, Go
<1> USE DEF RunQueueInv, RunQueueTypeOK, WholeList
<1>1. /\ line # <<>> /\ queue.head = line[1] /\ queue.head \in NodesOf(line)
      /\ queue.head \in DOMAIN queue.node /\ queue.head \in Node
  <2>1. line # <<>>
    BY DEF Chain
  <2> QED BY <2>1, TailOfChain DEF IsQueue
<1>2. queue.node[queue.head].value \in Proc
  BY <1>1 DEF IsQueue, Cell
<1>3. RunQueueTypeOK'
  BY <1>1, <1>2 DEF IsQueue, Place
<1>4. WholeList'
  <2>1. Chain(queue.head, queue.node, line)'
    OBVIOUS
  <2>2. TailIsEnd'
    BY DEF TailIsEnd
  <2>3. OnlyTheRunningInGap'
    BY DEF OnlyTheRunningInGap
  <2>4. ASSUME NEW q \in Proc PROVE Popping(q)' /\ Pushing(q)' /\ InHand(q)'
    BY <1>1, <1>2, RunQueueAssumption DEF Popping, Pushing, InHand
  <2>5. NoNodeShared' /\ ptr[p] = null
    <3>1. ptr[p] = null
      BY DEF InHand
    <3>2. \A q \in Proc \ {p} : ptr[q] # queue.head
      BY <1>1 DEF InHand, OnlyTheRunningInGap, Gap
    <3> QED BY <3>1, <3>2 DEF NoNodeShared
  <2>6. NoNodeLost'
    <3>1. \A q \in Proc \ {p} : ptr'[q] = ptr[q]
      OBVIOUS
    <3>2. ptr'[p] = queue.head
      OBVIOUS
    <3> QED BY <1>1, <2>5, <3>1, <3>2 DEF NoNodeLost
  <2> QED BY <2>1, <2>2, <2>3, <2>4, <2>5, <2>6
<1> QED BY <1>3, <1>4

LEMMA UnlinkKeeps ==
  ASSUME RunQueueInv, NEW p \in Proc, Unlink(p)
  PROVE  RunQueueInv'
<1> USE DEF Unlink, At, Go, registers
<1> USE DEF RunQueueInv, RunQueueTypeOK, WholeList
<1>1. /\ line # <<>> /\ ptr[p] = queue.head /\ queue.head = line[1]
      /\ queue.head \in NodesOf(line)
      /\ queue.head \in DOMAIN queue.node /\ queue.head \in Node
      /\ Chain(queue.node[queue.head].next, queue.node, Tail(line))
      /\ NodesOf(Tail(line)) = NodesOf(line) \ {queue.head}
      /\ Tail(line) # <<>> => End(Tail(line)) = End(line)
      /\ Tail(line) \in Seq(Node)
  <2>1. line # <<>> /\ ptr[p] = line[1]
    BY DEF Popping
  <2> QED BY <2>1, TailOfChain, NodesOfQueues DEF IsQueue
<1>2. /\ queue'.head = queue.node[queue.head].next
      /\ queue'.tail = queue.tail /\ queue'.node = queue.node
      /\ queue' = [head |-> queue'.head, tail |-> queue'.tail, node |-> queue'.node]
  BY <1>1 DEF IsQueue
<1>3. RunQueueTypeOK'
  <2>1. queue'.head \in Node \cup {null}
    BY <1>1, <1>2 DEF IsQueue, Cell
  <2> QED BY <1>1, <1>2, <2>1 DEF IsQueue, Place
<1>4. WholeList'
  <2>1. Chain(queue.head, queue.node, line)'
    BY <1>1, <1>2
  <2>2. TailIsEnd'
    BY <1>1, <1>2 DEF TailIsEnd
  <2>3. OnlyTheRunningInGap'
    BY DEF OnlyTheRunningInGap, Gap
  <2>4. ASSUME NEW q \in Proc PROVE Popping(q)' /\ Pushing(q)' /\ InHand(q)'
    <3>1. CASE q = p
      BY <1>1, <1>2, <3>1 DEF Popping, Pushing, InHand
    <3>2. CASE q # p
      <4>1. pc[q] \notin Gap /\ Popping(q) /\ Pushing(q) /\ InHand(q)
        BY <3>2 DEF OnlyTheRunningInGap
      <4>2. ptr[q] # null => ptr[q] \in DOMAIN queue.node /\ ptr[q] \notin NodesOf(line)
        BY <4>1, HandsOffTheList DEF InHand
      <4> QED BY <1>1, <1>2, <3>2, <4>1, <4>2, OtherContext
    <3> QED BY <3>1, <3>2
  <2>5. NoNodeShared'
    BY DEF NoNodeShared
  <2>6. NoNodeLost'
    BY <1>1, <1>2, RunQueueAssumption DEF NoNodeLost
  <2> QED BY <2>1, <2>2, <2>3, <2>4, <2>5, <2>6
<1> QED BY <1>3, <1>4

LEMMA FixTailKeeps ==
  ASSUME RunQueueInv, NEW p \in Proc, FixTail(p)
  PROVE  RunQueueInv'
<1> USE DEF FixTail, At, Go, registers
<1> USE DEF RunQueueInv, RunQueueTypeOK, WholeList
<1>1. /\ queue'.head = queue.head /\ queue'.node = queue.node
      /\ queue'.tail = IF queue.head = null THEN null ELSE queue.tail
      /\ queue' = [head |-> queue'.head, tail |-> queue'.tail, node |-> queue'.node]
  BY DEF IsQueue
<1>2. (queue.head = null) <=> (line = <<>>)
  <2>1. line # <<>> => line[1] \in Node
    OBVIOUS
  <2> QED BY <2>1, RunQueueAssumption DEF Chain
<1>3. RunQueueTypeOK'
  BY <1>1 DEF IsQueue, Place
<1>4. WholeList'
  <2>1. Chain(queue.head, queue.node, line)'
    BY <1>1
  <2>2. TailIsEnd'
    BY <1>1, <1>2 DEF TailIsEnd, End
  <2>3. OnlyTheRunningInGap'
    BY DEF OnlyTheRunningInGap, Gap
  <2>4. ASSUME NEW q \in Proc PROVE Popping(q)' /\ Pushing(q)' /\ InHand(q)'
    <3>1. CASE q = p
      BY <1>1, <3>1 DEF Popping, Pushing, InHand
    <3>2. CASE q # p
      <4>1. pc[q] \notin Gap /\ Popping(q) /\ Pushing(q) /\ InHand(q)
        BY <3>2 DEF OnlyTheRunningInGap
      <4> QED BY <1>1, <3>2, <4>1, HandsOffTheList, OtherContext DEF InHand
    <3> QED BY <3>1, <3>2
  <2>5. NoNodeShared'
    BY DEF NoNodeShared
  <2>6. NoNodeLost'
    BY <1>1 DEF NoNodeLost
  <2> QED BY <2>1, <2>2, <2>3, <2>4, <2>5, <2>6
<1> QED BY <1>3, <1>4

LEMMA FreeNodeKeeps ==
  ASSUME RunQueueInv, NEW p \in Proc, FreeNode(p)
  PROVE  RunQueueInv'
<1> USE DEF FreeNode, At, Go
<1> USE DEF RunQueueInv, RunQueueTypeOK, WholeList
<1>1. ptr[p] \in Node /\ ptr[p] \in DOMAIN queue.node /\ ptr[p] \notin NodesOf(line)
  BY DEF InHand, IsQueue
<1>2. /\ queue'.head = queue.head /\ queue'.tail = queue.tail
      /\ queue'.node = Without(queue.node, ptr[p])
      /\ queue' = [head |-> queue'.head, tail |-> queue'.tail, node |-> queue'.node]
  BY DEF IsQueue
<1>3. /\ DOMAIN queue'.node = DOMAIN queue.node \ {ptr[p]}
      /\ \A m \in DOMAIN queue.node \ {ptr[p]} : queue'.node[m] = queue.node[m]
      /\ queue'.node \in [DOMAIN queue'.node -> Cell]
  BY <1>1, <1>2, NodesOfHeap
<1>4. RunQueueTypeOK'
  BY <1>2, <1>3 DEF IsQueue, Place
<1>5. WholeList'
  <2>1. Chain(queue.head, queue.node, line)'
    <3>1. NodesOf(line) \subseteq DOMAIN queue.node \ {ptr[p]}
      BY <1>1 DEF NodesOf, Chain
    <3> QED BY <1>2, <1>3, <3>1, SameLinks
  <2>2. TailIsEnd'
    BY <1>2 DEF TailIsEnd
  <2>3. OnlyTheRunningInGap'
    BY DEF OnlyTheRunningInGap, Gap
  <2>4. ASSUME NEW q \in Proc PROVE Popping(q)' /\ Pushing(q)' /\ InHand(q)'
    <3>1. CASE q = p
      BY <3>1 DEF Popping, Pushing, InHand
    <3>2. CASE q # p
      <4>1. pc[q] \notin Gap /\ Popping(q) /\ Pushing(q) /\ InHand(q)
        BY <3>2 DEF OnlyTheRunningInGap
      <4>2. ptr[q] # null => ptr[q] \in DOMAIN queue.node \ {ptr[p]}
        BY <1>1, <3>2, <4>1 DEF InHand, NoNodeShared
      <4> QED BY <1>3, <3>2, <4>1, <4>2, HandsOffTheList, OtherContext
    <3> QED BY <3>1, <3>2
  <2>5. NoNodeShared'
    BY DEF NoNodeShared
  <2>6. NoNodeLost'
    <3>1. \A q \in Proc \ {p} : ptr'[q] = ptr[q] /\ (ptr[q] = ptr[p] => ptr[q] = null)
      BY DEF NoNodeShared
    <3>2. ptr'[p] = null
      OBVIOUS
    <3>3. {ptr'[q] : q \in Proc} \ {null} = ({ptr[q] : q \in Proc} \ {null}) \ {ptr[p]}
      BY <3>1, <3>2
    <3>4. NodesOf(line) \ {ptr[p]} = NodesOf(line)
      BY <1>1
    <3>5. DOMAIN queue.node = NodesOf(line) \cup ({ptr[q] : q \in Proc} \ {null})
      BY DEF NoNodeLost
    <3>6. DOMAIN queue'.node
            = (NodesOf(line) \ {ptr[p]}) \cup (({ptr[q] : q \in Proc} \ {null}) \ {ptr[p]})
      BY <1>3, <3>5
    <3> QED BY <3>3, <3>4, <3>6 DEF NoNodeLost
  <2> QED BY <2>1, <2>2, <2>3, <2>4, <2>5, <2>6
<1> QED BY <1>4, <1>5

LEMMA NewNodeKeeps ==
  ASSUME RunQueueInv, NEW p \in Proc, NEW n \in Node, NewNode(p, n)
  PROVE  RunQueueInv'
<1> USE DEF NewNode, At, Go
<1> USE DEF RunQueueInv, RunQueueTypeOK, WholeList
<1>1. /\ queue'.head = queue.head /\ queue'.tail = queue.tail
      /\ queue'.node = With(queue.node, n, p)
      /\ queue' = [head |-> queue'.head, tail |-> queue'.tail, node |-> queue'.node]
  BY DEF IsQueue
<1>2. /\ DOMAIN queue'.node = DOMAIN queue.node \cup {n}
      /\ queue'.node[n] = [value |-> p, next |-> null]
      /\ \A m \in DOMAIN queue.node : queue'.node[m] = queue.node[m]
      /\ queue'.node \in [DOMAIN queue'.node -> Cell]
  <2>1. IsQueue(queue) /\ n \notin DOMAIN queue.node
    OBVIOUS
  <2>2. /\ DOMAIN With(queue.node, n, p) = DOMAIN queue.node \cup {n}
        /\ With(queue.node, n, p)[n] = [value |-> p, next |-> null]
        /\ \A m \in DOMAIN queue.node \ {n} :
             With(queue.node, n, p)[m] = queue.node[m]
        /\ With(queue.node, n, p) \in [DOMAIN queue.node \cup {n} -> Cell]
    BY <2>1, NodesOfHeap
  <2> HIDE DEF NewNode, RunQueueInv, RunQueueTypeOK, WholeList
  <2> QED BY <1>1, <2>1, <2>2
<1>3. RunQueueTypeOK'
  BY <1>1, <1>2 DEF IsQueue, Place
<1>4. WholeList'
  <2>1. Chain(queue.head, queue.node, line)'
    <3>1. NodesOf(line) \subseteq DOMAIN queue.node
      BY DEF NodesOf, Chain
    <3>2. \A m \in NodesOf(line) : /\ m \in DOMAIN queue'.node
                                  /\ queue'.node[m].next = queue.node[m].next
      BY <1>2, <3>1
    <3>3. Chain(queue.head, queue.node, line) /\ line' = line
      OBVIOUS
    <3> HIDE DEF NewNode, RunQueueInv, RunQueueTypeOK, WholeList
    <3>4. Chain(queue.head, queue'.node, line)
      BY <3>2, <3>3, SameLinks
    <3> QED BY <1>1, <3>3, <3>4
  <2>2. TailIsEnd'
    BY <1>1 DEF TailIsEnd
  <2>3. OnlyTheRunningInGap'
    BY DEF OnlyTheRunningInGap, Gap
  <2>4. ptr[p] = null /\ n # null
    BY RunQueueAssumption DEF InHand
  <2>5. n \notin NodesOf(line)
    BY DEF NodesOf, Chain
  <2>6. ASSUME NEW q \in Proc PROVE Popping(q)' /\ Pushing(q)' /\ InHand(q)'
    <3>1. CASE q = p
      BY <1>2, <2>4, <2>5, <3>1 DEF Popping, Pushing, InHand
    <3>2. CASE q # p
      <4>1. pc[q] \notin Gap /\ Popping(q) /\ Pushing(q) /\ InHand(q)
        BY <3>2 DEF OnlyTheRunningInGap
      <4>2. ptr[q] # null => ptr[q] \in DOMAIN queue.node
        BY <4>1 DEF InHand
      <4> QED BY <1>2, <3>2, <4>1, <4>2, HandsOffTheList, OtherContext
    <3> QED BY <3>1, <3>2
  <2>7. NoNodeShared'
    BY DEF NoNodeShared, InHand
  <2>8. NoNodeLost'
    <3>1. {ptr'[q] : q \in Proc} \ {null} = ({ptr[q] : q \in Proc} \ {null}) \cup {n}
      BY <2>4
    <3>2. DOMAIN queue.node = NodesOf(line) \cup ({ptr[q] : q \in Proc} \ {null})
      BY DEF NoNodeLost
    <3> QED BY <1>2, <3>1, <3>2 DEF NoNodeLost
  <2> QED BY <2>1, <2>2, <2>3, <2>6, <2>7, <2>8
<1> QED BY <1>3, <1>4

LEMMA LoadTailKeeps ==
  ASSUME RunQueueInv, NEW p \in Proc, LoadTail(p)
  PROVE  RunQueueInv'
<1> USE DEF LoadTail, At, Go
<1> USE DEF RunQueueInv, RunQueueTypeOK, WholeList
<1>1. RunQueueTypeOK'
  BY DEF IsQueue, Place
<1>2. WholeList'
  <2>1. Chain(queue.head, queue.node, line)' /\ NoNodeShared' /\ NoNodeLost'
    BY DEF NoNodeShared, NoNodeLost
  <2>2. TailIsEnd'
    BY DEF TailIsEnd
  <2>3. OnlyTheRunningInGap'
    BY DEF OnlyTheRunningInGap, Gap
  <2>4. ASSUME NEW q \in Proc PROVE Popping(q)' /\ Pushing(q)' /\ InHand(q)'
    BY DEF Popping, Pushing, InHand
  <2> QED BY <2>1, <2>2, <2>3, <2>4
<1> QED BY <1>1, <1>2

(***************************************************************************)
(* What the running context knows at the first store of push: the tail it  *)
(* has loaded is the end of the list, and its node is its own.             *)
(***************************************************************************)
LEMMA AtTheLink ==
  ASSUME RunQueueInv, NEW p \in Proc, At(p, "link")
  PROVE  /\ seen[p] = queue.tail /\ queue.tail = End(line)
         /\ ptr[p] \in Node /\ ptr[p] \in DOMAIN queue.node
         /\ ptr[p] \notin NodesOf(line)
         /\ queue.node[ptr[p]] = [value |-> p, next |-> null]
         /\ (seen[p] = null) <=> (line = <<>>)
         /\ line # <<>> => /\ End(line) \in NodesOf(line)
                           /\ End(line) \in DOMAIN queue.node /\ End(line) \in Node
<1> USE DEF RunQueueInv, RunQueueTypeOK, WholeList, At
<1>1. seen[p] = queue.tail /\ queue.tail = End(line)
  BY DEF Pushing, TailIsEnd
<1>2. ptr[p] \in Node /\ ptr[p] \in DOMAIN queue.node /\ ptr[p] \notin NodesOf(line)
  BY DEF InHand, IsQueue
<1>3. queue.node[ptr[p]] = [value |-> p, next |-> null]
  BY DEF Pushing
<1>4. line # <<>> => /\ End(line) \in NodesOf(line)
                     /\ End(line) \in DOMAIN queue.node /\ End(line) \in Node
  <2>1. line # <<>> => Len(line) \in 1..Len(line) /\ line[Len(line)] \in Node
    OBVIOUS
  <2> QED BY <2>1 DEF End, NodesOf, Chain
<1> QED BY <1>1, <1>2, <1>3, <1>4, RunQueueAssumption DEF End

LEMMA FirstStoreKeeps ==
  ASSUME RunQueueInv, NEW p \in Proc, FirstStore(p)
  PROVE  RunQueueInv'
<1> USE DEF FirstStore, At, Go, registers
<1> USE DEF RunQueueInv, RunQueueTypeOK, WholeList
<1>1. /\ seen[p] = queue.tail /\ queue.tail = End(line)
      /\ ptr[p] \in Node /\ ptr[p] \in DOMAIN queue.node
      /\ ptr[p] \notin NodesOf(line)
      /\ queue.node[ptr[p]] = [value |-> p, next |-> null]
      /\ (seen[p] = null) <=> (line = <<>>)
      /\ line # <<>> => /\ End(line) \in NodesOf(line)
                        /\ End(line) \in DOMAIN queue.node /\ End(line) \in Node
  BY AtTheLink
<1>2. /\ Append(line, ptr[p]) \in Seq(Node) /\ Append(line, ptr[p]) # <<>>
      /\ NodesOf(Append(line, ptr[p])) = NodesOf(line) \cup {ptr[p]}
      /\ End(Append(line, ptr[p])) = ptr[p]
  BY <1>1, NodesOfQueues
<1>3. NodesOf(line) \subseteq DOMAIN queue.node
  BY DEF NodesOf, Chain
<1>4. ASSUME NEW q \in Proc, q # p
      PROVE  /\ pc[q] \notin Gap /\ Popping(q) /\ Pushing(q) /\ InHand(q)
             /\ ptr[q] # null => /\ ptr[q] \in DOMAIN queue.node
                                 /\ ptr[q] \notin NodesOf(line) \cup {ptr[p]}
  <2>1. pc[q] \notin Gap /\ Popping(q) /\ Pushing(q) /\ InHand(q)
    BY <1>4 DEF OnlyTheRunningInGap
  <2>2. ptr[q] # null => ptr[q] \notin NodesOf(line)
    BY <2>1, HandsOffTheList
  <2> QED BY <1>4, <2>1, <2>2 DEF InHand, NoNodeShared
<1>5. OnlyTheRunningInGap' /\ NoNodeShared' /\ TailIsEnd'
  BY DEF OnlyTheRunningInGap, Gap, NoNodeShared, TailIsEnd
<1>6. CASE seen[p] # null
  <2>1. /\ queue'.head = queue.head /\ queue'.tail = queue.tail
        /\ queue'.node = [queue.node EXCEPT ![End(line)].next = ptr[p]]
        /\ queue' = [head |-> queue'.head, tail |-> queue'.tail, node |-> queue'.node]
        /\ line' = Append(line, ptr[p])
    BY <1>1, <1>6 DEF IsQueue
  <2>2. /\ DOMAIN queue'.node = DOMAIN queue.node
        /\ queue'.node \in [DOMAIN queue'.node -> Cell]
        /\ \A m \in DOMAIN queue.node \ {End(line)} : queue'.node[m] = queue.node[m]
        /\ queue'.node[End(line)].next = ptr[p]
    <3> DEFINE end == End(line)
               cell == [queue.node[end] EXCEPT !.next = ptr[p]]
    <3>1. /\ end \in DOMAIN queue.node /\ queue.node \in [DOMAIN queue.node -> Cell]
          /\ ptr[p] \in Node
      BY <1>1, <1>6 DEF IsQueue
    <3>2. cell \in Cell /\ cell.next = ptr[p]
      BY <3>1 DEF Cell
    <3>3. queue'.node = [queue.node EXCEPT ![end] = cell]
      BY <2>1
    <3> HIDE DEF cell, end
    <3>4. queue'.node \in [DOMAIN queue.node -> Cell] /\ queue'.node[end] = cell
          /\ \A m \in DOMAIN queue.node \ {end} : queue'.node[m] = queue.node[m]
      BY ONLY <3>1, <3>2, <3>3
    <3>5. DOMAIN queue'.node = DOMAIN queue.node
      BY ONLY <3>4
    <3> QED BY <3>2, <3>4, <3>5 DEF end
  <2>3. RunQueueTypeOK'
    <3>1. IsQueue(queue')
      BY <2>1, <2>2 DEF IsQueue
    <3>2. line' \in Seq(Node)
      BY <1>2, <2>1
    <3>3. pc' \in [Proc -> Place] /\ UNCHANGED <<cpu, ptr, seen, chosen, headFirst, torn>>
      BY <1>6 DEF Place
    <3> QED BY <3>1, <3>2, <3>3
  <2>4. Chain(queue.head, queue.node, line)'
    <3>1. ptr[p] \in DOMAIN queue'.node /\ queue'.node[ptr[p]].next = null
      BY <1>1, <1>6, <2>2
    <3> HIDE DEF FirstStore, RunQueueInv, WholeList
    <3>2. \A m \in NodesOf(line) :
            /\ m \in DOMAIN queue'.node
            /\ queue'.node[m].next = IF m = End(line) THEN ptr[p]
                                                     ELSE queue.node[m].next
      BY <1>1, <1>3, <1>6, <2>2
    <3>3. Chain(queue.head, queue.node, line) /\ line \in Seq(Node)
      BY DEF RunQueueInv, WholeList, FirstStore
    <3>4. Chain(IF line = <<>> THEN ptr[p] ELSE queue.head, queue'.node,
                Append(line, ptr[p]))
      BY <1>1, <3>1, <3>2, <3>3, LongerChain
    <3> QED BY <1>1, <1>6, <2>1, <3>4
  <2>5. ASSUME NEW q \in Proc PROVE Popping(q)' /\ Pushing(q)' /\ InHand(q)'
    <3>1. CASE q = p
      <4>1. line' # <<>> /\ line'[Len(line')] = ptr[p]
        BY <1>2, <2>1 DEF End
      <4> QED BY <1>1, <1>6, <2>2, <3>1, <4>1 DEF Popping, Pushing, InHand
    <3>2. CASE q # p
      <4>1. ptr[q] # null => /\ ptr[q] \in DOMAIN queue'.node
                             /\ queue'.node[ptr[q]] = queue.node[ptr[q]]
                             /\ ptr[q] \notin NodesOf(line')
        BY <1>1, <1>2, <1>4, <1>6, <2>1, <2>2, <3>2
      <4> QED BY <1>4, <3>2, <4>1, OtherContext
    <3> QED BY <3>1, <3>2
  <2>6. NoNodeLost'
    <3>1. ptr[p] \in {ptr[q] : q \in Proc} \ {null}
      BY <1>1, RunQueueAssumption
    <3> QED BY <1>2, <2>1, <2>2, <3>1 DEF NoNodeLost
  <2> QED BY <1>5, <2>3, <2>4, <2>5, <2>6
<1>7. CASE seen[p] = null /\ headFirst
  <2>1. /\ queue'.head = ptr[p] /\ queue'.tail = queue.tail
        /\ queue'.node = queue.node
        /\ queue' = [head |-> queue'.head, tail |-> queue'.tail, node |-> queue'.node]
        /\ line' = Append(line, ptr[p])
    BY <1>1, <1>7 DEF IsQueue
  <2>2. RunQueueTypeOK'
    BY <1>1, <1>2, <2>1 DEF IsQueue, Place
  <2>3. Chain(queue.head, queue.node, line)'
    <3>1. NodesOf(line) = {}
      BY <1>1, <1>7 DEF NodesOf
    <3>2. queue.node[ptr[p]].next = null /\ line \in Seq(Node)
      BY <1>1
    <3>3. Chain(queue.head, queue.node, line)
      OBVIOUS
    <3> HIDE DEF FirstStore, RunQueueInv, WholeList
    <3>4. Chain(IF line = <<>> THEN ptr[p] ELSE queue.head, queue.node,
                Append(line, ptr[p]))
      BY <1>1, <3>1, <3>2, <3>3, LongerChain
    <3> QED BY <1>1, <1>7, <2>1, <3>4
  <2>4. ASSUME NEW q \in Proc PROVE Popping(q)' /\ Pushing(q)' /\ InHand(q)'
    <3>1. CASE q = p
      <4>1. line' # <<>> /\ line'[Len(line')] = ptr[p]
        BY <1>2, <2>1 DEF End
      <4> QED BY <1>1, <1>7, <2>1, <3>1, <4>1 DEF Popping, Pushing, InHand
    <3>2. CASE q # p
      <4>1. ptr[q] # null => /\ ptr[q] \in DOMAIN queue'.node
                             /\ queue'.node[ptr[q]] = queue.node[ptr[q]]
                             /\ ptr[q] \notin NodesOf(line')
        BY <1>2, <1>4, <2>1, <3>2
      <4> QED BY <1>4, <3>2, <4>1, OtherContext
    <3> QED BY <3>1, <3>2
  <2>5. NoNodeLost'
    <3>1. ptr[p] \in {ptr[q] : q \in Proc} \ {null}
      BY <1>1, RunQueueAssumption
    <3> QED BY <1>2, <2>1, <3>1 DEF NoNodeLost
  <2> QED BY <1>5, <2>2, <2>3, <2>4, <2>5
<1>8. CASE seen[p] = null /\ ~headFirst
  <2>1. /\ queue'.head = queue.head /\ queue'.tail = ptr[p]
        /\ queue'.node = queue.node /\ line' = line
        /\ queue' = [head |-> queue'.head, tail |-> queue'.tail, node |-> queue'.node]
    BY <1>8 DEF IsQueue
  <2>2. RunQueueTypeOK'
    BY <1>1, <2>1 DEF IsQueue, Place
  <2>3. Chain(queue.head, queue.node, line)' /\ NoNodeLost'
    BY <2>1 DEF NoNodeLost
  <2>4. ASSUME NEW q \in Proc PROVE Popping(q)' /\ Pushing(q)' /\ InHand(q)'
    <3>1. CASE q = p
      BY <1>1, <1>8, <2>1, <3>1 DEF Popping, Pushing, InHand
    <3>2. CASE q # p
      BY <1>4, <2>1, <3>2, OtherContext
    <3> QED BY <3>1, <3>2
  <2> QED BY <1>5, <2>2, <2>3, <2>4
<1> QED BY <1>6, <1>7, <1>8

LEMMA SecondStoreKeeps ==
  ASSUME RunQueueInv, NEW p \in Proc, SecondStore(p)
  PROVE  RunQueueInv'
<1> USE DEF SecondStore, At, Go, registers
<1> USE DEF RunQueueInv, RunQueueTypeOK, WholeList
<1>1. ptr[p] \in Node /\ ptr[p] \in DOMAIN queue.node
  BY DEF InHand, IsQueue
<1>2. ASSUME NEW q \in Proc, q # p
      PROVE  /\ pc[q] \notin Gap /\ Popping(q) /\ Pushing(q) /\ InHand(q)
             /\ ptr[q] # null => /\ ptr[q] \in DOMAIN queue.node
                                 /\ ptr[q] \notin NodesOf(line) \cup {ptr[p]}
  <2>1. pc[q] \notin Gap /\ Popping(q) /\ Pushing(q) /\ InHand(q)
    BY <1>2 DEF OnlyTheRunningInGap
  <2>2. ptr[q] # null => ptr[q] \notin NodesOf(line)
    BY <2>1, HandsOffTheList
  <2> QED BY <1>2, <2>1, <2>2 DEF InHand, NoNodeShared
<1>3. OnlyTheRunningInGap' /\ NoNodeShared'
  BY DEF OnlyTheRunningInGap, Gap, NoNodeShared
<1>4. {ptr'[q] : q \in Proc} \ {null} = ({ptr[q] : q \in Proc} \ {null}) \ {ptr[p]}
  BY <1>1, RunQueueAssumption DEF NoNodeShared
<1>5. /\ ptr[p] \in {ptr[q] : q \in Proc} \ {null}
      /\ DOMAIN queue.node = NodesOf(line) \cup ({ptr[q] : q \in Proc} \ {null})
  BY <1>1, RunQueueAssumption DEF NoNodeLost
<1>6. CASE seen[p] # null \/ headFirst
  <2>1. /\ queue'.head = queue.head /\ queue'.tail = ptr[p]
        /\ queue'.node = queue.node /\ line' = line
        /\ queue' = [head |-> queue'.head, tail |-> queue'.tail, node |-> queue'.node]
    BY <1>6 DEF IsQueue
  <2>2. line # <<>> /\ line[Len(line)] = ptr[p] /\ ptr[p] \in NodesOf(line)
    <3>1. line # <<>> /\ line[Len(line)] = ptr[p]
      BY <1>6 DEF Pushing
    <3> QED BY <3>1, NodesOfQueues
  <2>3. RunQueueTypeOK'
    BY <1>1, <2>1 DEF IsQueue, Place
  <2>4. Chain(queue.head, queue.node, line)' /\ TailIsEnd'
    BY <2>1, <2>2 DEF TailIsEnd, End
  <2>5. ASSUME NEW q \in Proc PROVE Popping(q)' /\ Pushing(q)' /\ InHand(q)'
    <3>1. CASE q = p
      BY <3>1 DEF Popping, Pushing, InHand
    <3>2. CASE q # p
      BY <1>2, <2>1, <3>2, OtherContext
    <3> QED BY <3>1, <3>2
  <2>6. NoNodeLost'
    <3>1. DOMAIN queue.node = NodesOf(line) \cup (({ptr[q] : q \in Proc} \ {null}) \ {ptr[p]})
      BY <1>5, <2>2
    <3> QED BY <1>4, <2>1, <3>1 DEF NoNodeLost
  <2> QED BY <1>3, <2>3, <2>4, <2>5, <2>6
<1>7. CASE seen[p] = null /\ ~headFirst
  <2>1. /\ queue'.head = ptr[p] /\ queue'.tail = queue.tail
        /\ queue'.node = queue.node /\ line' = Append(line, ptr[p])
        /\ queue' = [head |-> queue'.head, tail |-> queue'.tail, node |-> queue'.node]
    BY <1>7 DEF IsQueue
  <2>2. /\ line = <<>> /\ queue.tail = ptr[p]
        /\ queue.node[ptr[p]] = [value |-> p, next |-> null]
    BY <1>7 DEF Pushing
  <2>3. NodesOf(line) = {}
    BY <2>2 DEF NodesOf
  <2>4. /\ Append(line, ptr[p]) \in Seq(Node)
        /\ NodesOf(Append(line, ptr[p])) = NodesOf(line) \cup {ptr[p]}
        /\ End(Append(line, ptr[p])) = ptr[p]
    BY <1>1, NodesOfQueues
  <2>5. RunQueueTypeOK'
    BY <1>1, <2>1, <2>4 DEF IsQueue, Place
  <2>6. Chain(queue.head, queue.node, line)'
    <3>1. queue.node[ptr[p]].next = null /\ line \in Seq(Node)
      BY <2>2
    <3>2. Chain(queue.head, queue.node, line)
      OBVIOUS
    <3> HIDE DEF SecondStore, RunQueueInv, WholeList
    <3>3. Chain(IF line = <<>> THEN ptr[p] ELSE queue.head, queue.node,
                Append(line, ptr[p]))
      BY <1>1, <2>3, <3>1, <3>2, LongerChain
    <3> QED BY <2>1, <2>2, <3>3
  <2>7. TailIsEnd'
    BY <2>1, <2>2, <2>4 DEF TailIsEnd
  <2>8. ASSUME NEW q \in Proc PROVE Popping(q)' /\ Pushing(q)' /\ InHand(q)'
    <3>1. CASE q = p
      BY <3>1 DEF Popping, Pushing, InHand
    <3>2. CASE q # p
      <4>1. ptr[q] # null => /\ ptr[q] \in DOMAIN queue'.node
                             /\ queue'.node[ptr[q]] = queue.node[ptr[q]]
                             /\ ptr[q] \notin NodesOf(line')
        BY <1>2, <2>1, <2>4, <3>2
      <4> QED BY <1>2, <3>2, <4>1, OtherContext
    <3> QED BY <3>1, <3>2
  <2>9. NoNodeLost'
    <3>1. DOMAIN queue.node = (NodesOf(line) \cup {ptr[p]})
                                \cup (({ptr[q] : q \in Proc} \ {null}) \ {ptr[p]})
      BY <1>5
    <3> QED BY <1>4, <2>1, <2>4, <3>1 DEF NoNodeLost
  <2> QED BY <1>3, <2>5, <2>6, <2>7, <2>8, <2>9
<1> QED BY <1>6, <1>7

LEMMA SwitchKeeps ==
  ASSUME RunQueueInv, NEW p \in Proc, Switch(p)
  PROVE  RunQueueInv'
<1> USE DEF Switch, At
<1> USE DEF RunQueueInv, RunQueueTypeOK, WholeList
<1>1. chosen[p] \in Proc
  BY DEF InHand
<1>2. RunQueueTypeOK'
  BY <1>1 DEF Place
<1>3. WholeList'
  <2>1. Chain(queue.head, queue.node, line)' /\ NoNodeShared' /\ NoNodeLost'
    BY DEF NoNodeShared, NoNodeLost
  <2>2. TailIsEnd'
    BY DEF TailIsEnd
  <2>3. OnlyTheRunningInGap'
    BY DEF OnlyTheRunningInGap, Gap
  <2>4. ASSUME NEW q \in Proc PROVE Popping(q)' /\ Pushing(q)' /\ InHand(q)'
    BY DEF Popping, Pushing, InHand
  <2> QED BY <2>1, <2>2, <2>3, <2>4
<1> QED BY <1>2, <1>3
-----------------------------------------------------------------------------
(***************************************************************************)
(* pop and push with interrupts disabled.                                  *)
(***************************************************************************)
LEMMA PoppedIsTail ==
  ASSUME NEW q, NEW l \in Seq(Node), IsQueue(q), Chain(q.head, q.node, l),
         q.tail = End(l), l # <<>>
  PROVE  /\ q.head \in NodesOf(l) /\ q.head \in DOMAIN q.node /\ q.head = l[1]
         /\ IsQueue(Popped(q))
         /\ Tail(l) \in Seq(Node)
         /\ Chain(Popped(q).head, Popped(q).node, Tail(l))
         /\ Popped(q).tail = End(Tail(l))
         /\ NodesOf(Tail(l)) = NodesOf(l) \ {q.head}
         /\ DOMAIN Popped(q).node = DOMAIN q.node \ {q.head}
         /\ \A m \in DOMAIN q.node \ {q.head} : Popped(q).node[m] = q.node[m]
<1> DEFINE r == Popped(q)
<1>1. /\ q.head = l[1] /\ q.head \in NodesOf(l) /\ q.head \in DOMAIN q.node
      /\ Chain(q.node[q.head].next, q.node, Tail(l))
      /\ NodesOf(Tail(l)) = NodesOf(l) \ {q.head}
      /\ (q.node[q.head].next = null) <=> (Tail(l) = <<>>)
      /\ Tail(l) # <<>> => End(Tail(l)) = End(l)
  BY TailOfChain
<1>2. Tail(l) \in Seq(Node) /\ NodesOf(Tail(l)) \subseteq DOMAIN q.node
  <2>1. Tail(l) \in Seq(Node)
    BY NodesOfQueues
  <2>2. NodesOf(l) \subseteq DOMAIN q.node
    BY DEF Chain, NodesOf
  <2> QED BY <1>1, <2>1, <2>2
<1>3. /\ r.head = q.node[q.head].next
      /\ r.tail = IF r.head = null THEN null ELSE q.tail
      /\ r.node = Without(q.node, q.head)
      /\ r = [head |-> r.head, tail |-> r.tail, node |-> r.node]
  BY DEF Popped
<1> HIDE DEF r
<1>4. /\ DOMAIN r.node = DOMAIN q.node \ {q.head}
      /\ \A m \in DOMAIN q.node \ {q.head} : r.node[m] = q.node[m]
  BY <1>3 DEF Without
<1>5. IsQueue(r)
  <2>1. r.head \in Node \cup {null} /\ r.tail \in Node \cup {null}
    BY <1>1, <1>3 DEF IsQueue, Cell
  <2>2. r.node \in [DOMAIN r.node -> Cell]
    BY <1>3, <1>4 DEF IsQueue, Without
  <2> QED BY <1>3, <1>4, <2>1, <2>2 DEF IsQueue
<1>6. Chain(r.head, r.node, Tail(l))
  <2>1. \A m \in NodesOf(Tail(l)) : m \in DOMAIN r.node /\ r.node[m].next = q.node[m].next
    BY <1>1, <1>2, <1>4
  <2> QED BY <1>1, <1>3, <2>1, SameLinks
<1>7. r.tail = End(Tail(l))
  BY <1>1, <1>3 DEF End
<1> QED BY <1>1, <1>2, <1>4, <1>5, <1>6, <1>7 DEF r

LEMMA PushedIsAppend ==
  ASSUME NEW q, NEW l \in Seq(Node), IsQueue(q), Chain(q.head, q.node, l),
         q.tail = End(l), NEW n \in Node, n \notin DOMAIN q.node, NEW v \in Proc
  PROVE  /\ IsQueue(Pushed(q, n, v))
         /\ Append(l, n) \in Seq(Node)
         /\ Chain(Pushed(q, n, v).head, Pushed(q, n, v).node, Append(l, n))
         /\ Pushed(q, n, v).tail = End(Append(l, n))
         /\ NodesOf(Append(l, n)) = NodesOf(l) \cup {n}
         /\ DOMAIN Pushed(q, n, v).node = DOMAIN q.node \cup {n}
         /\ Pushed(q, n, v).node[n].value = v
         /\ \A m \in DOMAIN q.node : Pushed(q, n, v).node[m].value = q.node[m].value
         /\ \A m \in DOMAIN q.node \ NodesOf(l) : Pushed(q, n, v).node[m] = q.node[m]
<1> DEFINE r == Pushed(q, n, v)
           w == With(q.node, n, v)
<1>1. /\ Append(l, n) \in Seq(Node)
      /\ NodesOf(Append(l, n)) = NodesOf(l) \cup {n} /\ End(Append(l, n)) = n
      /\ NodesOf(l) \subseteq Node
      /\ NodesOf(l) \subseteq DOMAIN q.node
  BY NodesOfQueues DEF NodesOf, Chain
<1>2. (q.tail = null) <=> (l = <<>>)
  BY NodesOfQueues, RunQueueAssumption DEF End
<1>3. l # <<>> => q.tail \in NodesOf(l)
  BY NodesOfQueues DEF End
<1>4. /\ DOMAIN w = DOMAIN q.node \cup {n}
      /\ w[n] = [value |-> v, next |-> null]
      /\ \A m \in DOMAIN q.node : w[m] = q.node[m]
      /\ w \in [DOMAIN q.node \cup {n} -> Cell]
  BY DEF IsQueue, With, Cell
<1>5. /\ r.head = IF l = <<>> THEN n ELSE q.head
      /\ r.tail = n
      /\ r.node = IF l = <<>> THEN w ELSE [w EXCEPT ![q.tail].next = n]
      /\ r = [head |-> r.head, tail |-> r.tail, node |-> r.node]
  BY <1>2 DEF Pushed
<1> HIDE DEF r, w
<1>6. /\ DOMAIN r.node = DOMAIN q.node \cup {n}
      /\ r.node[n] = [value |-> v, next |-> null]
      /\ \A m \in DOMAIN q.node : /\ r.node[m].value = q.node[m].value
                                  /\ m # End(l) => r.node[m] = q.node[m]
      /\ l # <<>> => r.node[End(l)].next = n
      /\ r.node \in [DOMAIN q.node \cup {n} -> Cell]
  <2>1. CASE l = <<>>
    BY <1>4, <1>5, <2>1
  <2>2. CASE l # <<>>
    BY <1>1, <1>3, <1>4, <1>5, <2>2 DEF Cell
  <2> QED BY <2>1, <2>2
<1>7. IsQueue(r)
  BY <1>5, <1>6 DEF IsQueue
<1>8. Chain(r.head, r.node, Append(l, n))
  <2>1. n \notin NodesOf(l) /\ n \in DOMAIN r.node /\ r.node[n].next = null
    BY <1>1, <1>6
  <2>2. \A m \in NodesOf(l) : /\ m \in DOMAIN r.node
                              /\ r.node[m].next = IF m = End(l) THEN n ELSE q.node[m].next
    <3>1. NodesOf(l) # {} => l # <<>>
      BY DEF NodesOf
    <3> QED BY <1>1, <1>6, <3>1
  <2>3. Chain(IF l = <<>> THEN n ELSE q.head, r.node, Append(l, n))
    BY <2>1, <2>2, LongerChain
  <2> QED BY <1>5, <2>3
<1>9. \A m \in DOMAIN q.node \ NodesOf(l) : r.node[m] = q.node[m]
  <2>1. CASE l = <<>>
    BY <1>4, <1>5, <2>1
  <2>2. CASE l # <<>>
    BY <1>3, <1>6, <2>2
  <2> QED BY <2>1, <2>2
<1> QED BY <1>1, <1>5, <1>6, <1>7, <1>8, <1>9 DEF r

\* When the running context is in no gap, every node in hand is off the list.
LEMMA HandsOff ==
  ASSUME WholeList, pc[cpu] \notin Gap, NEW q \in Proc
  PROVE  /\ pc[q] \notin Gap /\ Popping(q) /\ Pushing(q) /\ InHand(q)
         /\ ptr[q] # null => ptr[q] \in DOMAIN queue.node \ NodesOf(line)
<1>1. pc[q] \notin Gap /\ Popping(q) /\ Pushing(q) /\ InHand(q)
  BY DEF WholeList, OnlyTheRunningInGap
<1>2. ptr[q] # null => ptr[q] \notin NodesOf(line)
  BY <1>1, HandsOffTheList
<1> QED BY <1>1, <1>2 DEF InHand

LEMMA StartKeeps ==
  ASSUME RunQueueInv, NEW p \in Proc, NEW q \in Proc, NEW n \in Node, Start(p, q, n)
  PROVE  RunQueueInv'
<1> USE DEF Start, At, Go, registers
<1> USE DEF RunQueueInv, RunQueueTypeOK
<1>1. queue.tail = End(line) /\ pc[cpu] \notin Gap /\ q # p
  BY DEF WholeList, TailIsEnd, Gap
<1>2. WholeList /\ Chain(queue.head, queue.node, line) /\ n \notin DOMAIN queue.node
  BY DEF WholeList
<1>3. /\ IsQueue(queue') /\ line' \in Seq(Node)
      /\ Chain(queue'.head, queue'.node, line')
      /\ queue'.tail = End(line')
      /\ NodesOf(line') = NodesOf(line) \cup {n}
      /\ DOMAIN queue'.node = DOMAIN queue.node \cup {n}
      /\ \A m \in DOMAIN queue.node \ NodesOf(line) : queue'.node[m] = queue.node[m]
  BY <1>1, <1>2, PushedIsAppend
<1>4. RunQueueTypeOK'
  BY <1>3 DEF Place
<1>5. WholeList'
  <2>1. Chain(queue.head, queue.node, line)' /\ TailIsEnd'
    BY <1>3 DEF TailIsEnd
  <2>2. OnlyTheRunningInGap'
    BY <1>2 DEF WholeList, OnlyTheRunningInGap, Gap
  <2>3. ASSUME NEW r \in Proc PROVE Popping(r)' /\ Pushing(r)' /\ InHand(r)'
    <3>1. /\ pc[r] \notin Gap /\ Popping(r) /\ Pushing(r) /\ InHand(r)
          /\ ptr[r] # null => ptr[r] \in DOMAIN queue.node \ NodesOf(line)
      BY <1>1, <1>2, HandsOff
    <3>2. CASE r = q
      BY <3>1, <3>2 DEF Popping, Pushing, InHand
    <3>3. CASE r # q
      <4>1. ptr[r] # null => /\ ptr[r] \in DOMAIN queue'.node
                             /\ queue'.node[ptr[r]] = queue.node[ptr[r]]
                             /\ ptr[r] \notin NodesOf(line')
        BY <1>2, <1>3, <3>1
      <4> QED BY <3>1, <3>3, <4>1, OtherContext
    <3> QED BY <3>2, <3>3
  <2>4. NoNodeShared'
    BY <1>2 DEF WholeList, NoNodeShared
  <2>5. NoNodeLost'
    <3>1. DOMAIN queue.node = NodesOf(line) \cup ({ptr[r] : r \in Proc} \ {null})
      BY <1>2 DEF WholeList, NoNodeLost
    <3> QED BY <1>3, <3>1 DEF NoNodeLost
  <2> QED BY <2>1, <2>2, <2>3, <2>4, <2>5 DEF WholeList
<1> QED BY <1>4, <1>5

(***************************************************************************)
(* What a pop that is not interrupted leaves, with the running context in  *)
(* no gap: the queue without its first node, and the nodes in hand.        *)
(***************************************************************************)
LEMMA WhatPopLeaves ==
  ASSUME RunQueueTypeOK, WholeList, pc[cpu] \notin Gap, queue.head # null
  PROVE  /\ line # <<>> /\ queue.head = line[1] /\ queue.head \in DOMAIN queue.node
         /\ queue.tail = End(line)
         /\ queue.node[queue.head].value \in Proc
         /\ IsQueue(Popped(queue)) /\ Tail(line) \in Seq(Node)
         /\ Chain(Popped(queue).head, Popped(queue).node, Tail(line))
         /\ Popped(queue).tail = End(Tail(line))
         /\ DOMAIN Popped(queue).node
              = NodesOf(Tail(line)) \cup ({ptr[p] : p \in Proc} \ {null})
         /\ \A m \in DOMAIN queue.node \ {queue.head} :
              Popped(queue).node[m] = queue.node[m]
         /\ \A p \in Proc : ptr[p] # null =>
              /\ ptr[p] \in DOMAIN Popped(queue).node
              /\ Popped(queue).node[ptr[p]] = queue.node[ptr[p]]
              /\ ptr[p] \notin NodesOf(Tail(line))
<1>1. /\ IsQueue(queue) /\ Chain(queue.head, queue.node, line) /\ line \in Seq(Node)
      /\ DOMAIN queue.node = NodesOf(line) \cup ({ptr[p] : p \in Proc} \ {null})
  BY DEF RunQueueTypeOK, WholeList, NoNodeLost
<1>2. line # <<>>
  BY <1>1 DEF Chain
<1>3. queue.tail = End(line)
  BY <1>2 DEF WholeList, TailIsEnd, Gap
<1>4. /\ queue.head \in NodesOf(line) /\ queue.head \in DOMAIN queue.node
      /\ queue.head = line[1]
      /\ IsQueue(Popped(queue)) /\ Tail(line) \in Seq(Node)
      /\ Chain(Popped(queue).head, Popped(queue).node, Tail(line))
      /\ Popped(queue).tail = End(Tail(line))
      /\ NodesOf(Tail(line)) = NodesOf(line) \ {queue.head}
      /\ DOMAIN Popped(queue).node = DOMAIN queue.node \ {queue.head}
      /\ \A m \in DOMAIN queue.node \ {queue.head} :
           Popped(queue).node[m] = queue.node[m]
  BY <1>1, <1>2, <1>3, PoppedIsTail
<1>5. queue.node[queue.head].value \in Proc
  BY <1>1, <1>4 DEF IsQueue, Cell
<1>6. \A p \in Proc : ptr[p] # null => ptr[p] \in DOMAIN queue.node \ NodesOf(line)
  BY HandsOff
<1>7. DOMAIN Popped(queue).node
        = NodesOf(Tail(line)) \cup ({ptr[p] : p \in Proc} \ {null})
  BY <1>1, <1>4, <1>6
<1> QED BY <1>2, <1>3, <1>4, <1>5, <1>6, <1>7

LEMMA ExitKeeps ==
  ASSUME RunQueueInv, NEW p \in Proc, Exit(p)
  PROVE  RunQueueInv'
<1> USE DEF Exit, At, registers
<1> USE DEF RunQueueInv
<1>1. pc[cpu] \notin Gap /\ RunQueueTypeOK /\ WholeList
  BY DEF Gap
<1>2. OnlyTheRunningInGap' /\ NoNodeShared'
  BY <1>1 DEF RunQueueTypeOK, WholeList, OnlyTheRunningInGap, NoNodeShared, Gap
<1>3. \A q \in Proc : /\ pc[q] \notin Gap /\ Popping(q) /\ Pushing(q) /\ InHand(q)
                      /\ ptr[q] # null => ptr[q] \in DOMAIN queue.node \ NodesOf(line)
  BY <1>1, HandsOff
<1>4. ptr[p] = null /\ chosen[p] = null
  BY <1>3 DEF InHand
<1>5. CASE queue.head = null
  <2>1. RunQueueTypeOK'
    BY <1>1, <1>5, RunQueueAssumption DEF RunQueueTypeOK, IsQueue, Place
  <2>2. Chain(queue.head, queue.node, line)' /\ TailIsEnd' /\ NoNodeLost'
    BY <1>1, <1>5 DEF WholeList, TailIsEnd, NoNodeLost
  <2>3. ASSUME NEW q \in Proc PROVE Popping(q)' /\ Pushing(q)' /\ InHand(q)'
    BY <1>1, <1>3, <1>5 DEF RunQueueTypeOK, Popping, Pushing, InHand, Gap
  <2> QED BY <1>2, <2>1, <2>2, <2>3 DEF WholeList
<1>6. CASE queue.head # null
  <2>1. /\ queue.node[queue.head].value \in Proc
        /\ IsQueue(queue') /\ line' \in Seq(Node)
        /\ Chain(queue'.head, queue'.node, line')
        /\ queue'.tail = End(line')
        /\ DOMAIN queue'.node = NodesOf(line') \cup ({ptr[q] : q \in Proc} \ {null})
        /\ \A q \in Proc : ptr[q] # null =>
             /\ ptr[q] \in DOMAIN queue'.node
             /\ queue'.node[ptr[q]] = queue.node[ptr[q]]
             /\ ptr[q] \notin NodesOf(line')
    BY <1>1, <1>6, WhatPopLeaves
  <2>2. RunQueueTypeOK'
    BY <1>1, <1>6, <2>1 DEF RunQueueTypeOK, Place
  <2>3. Chain(queue.head, queue.node, line)' /\ TailIsEnd' /\ NoNodeLost'
    BY <2>1 DEF TailIsEnd, NoNodeLost
  <2>4. ASSUME NEW q \in Proc PROVE Popping(q)' /\ Pushing(q)' /\ InHand(q)'
    <3>1. CASE q = p
      BY <1>1, <1>4, <3>1 DEF RunQueueTypeOK, Popping, Pushing, InHand
    <3>2. CASE q # p
      BY <1>1, <1>3, <2>1, <3>2, OtherContext DEF RunQueueTypeOK
    <3> QED BY <3>1, <3>2
  <2> QED BY <1>2, <2>2, <2>3, <2>4 DEF WholeList
<1> QED BY <1>5, <1>6

LEMMA TickKeeps ==
  ASSUME RunQueueInv, NEW n \in Node, Tick(n)
  PROVE  RunQueueInv'
<1> USE DEF Tick, registers
<1> USE DEF RunQueueInv
<1>1. pc[cpu] \notin Gap /\ RunQueueTypeOK /\ WholeList /\ queue.head # null
  OBVIOUS
<1> DEFINE q == Popped(queue)
<1>2. /\ queue.node[queue.head].value \in Proc
      /\ IsQueue(q) /\ Tail(line) \in Seq(Node)
      /\ Chain(q.head, q.node, Tail(line))
      /\ q.tail = End(Tail(line))
      /\ DOMAIN q.node = NodesOf(Tail(line)) \cup ({ptr[p] : p \in Proc} \ {null})
      /\ \A p \in Proc : ptr[p] # null =>
           /\ ptr[p] \in DOMAIN q.node
           /\ q.node[ptr[p]] = queue.node[ptr[p]]
           /\ ptr[p] \notin NodesOf(Tail(line))
  BY <1>1, WhatPopLeaves
<1>3. n \notin DOMAIN q.node /\ cpu \in Proc
  BY <1>1 DEF RunQueueTypeOK
<1>4. /\ IsQueue(queue') /\ line' \in Seq(Node)
      /\ Chain(queue'.head, queue'.node, line')
      /\ queue'.tail = End(line')
      /\ DOMAIN queue'.node = NodesOf(line') \cup ({ptr[p] : p \in Proc} \ {null})
      /\ \A p \in Proc : ptr[p] # null =>
           /\ ptr[p] \in DOMAIN queue'.node
           /\ queue'.node[ptr[p]] = queue.node[ptr[p]]
           /\ ptr[p] \notin NodesOf(line')
  <2>1. CASE cpu \in {Idle, cpu'}
    BY <1>2, <2>1
  <2>2. CASE cpu \notin {Idle, cpu'}
    <3>1. queue' = Pushed(q, n, cpu) /\ line' = Append(Tail(line), n)
      BY <2>2
    <3> HIDE DEF Tick, q, RunQueueInv
    <3>2. /\ IsQueue(queue') /\ line' \in Seq(Node)
          /\ Chain(queue'.head, queue'.node, line')
          /\ queue'.tail = End(line')
          /\ NodesOf(line') = NodesOf(Tail(line)) \cup {n}
          /\ DOMAIN queue'.node = DOMAIN q.node \cup {n}
          /\ \A m \in DOMAIN q.node \ NodesOf(Tail(line)) : queue'.node[m] = q.node[m]
      <4> DEFINE l == Tail(line)
                 v == cpu
      <4>1. l \in Seq(Node) /\ v \in Proc /\ IsQueue(q) /\ Chain(q.head, q.node, l)
            /\ q.tail = End(l) /\ n \notin DOMAIN q.node
        BY <1>2, <1>3
      <4>2. queue' = Pushed(q, n, v) /\ line' = Append(l, n)
        BY <3>1
      <4> HIDE DEF l, v
      <4>3. /\ IsQueue(Pushed(q, n, v))
            /\ Append(l, n) \in Seq(Node)
            /\ Chain(Pushed(q, n, v).head, Pushed(q, n, v).node, Append(l, n))
            /\ Pushed(q, n, v).tail = End(Append(l, n))
            /\ NodesOf(Append(l, n)) = NodesOf(l) \cup {n}
            /\ DOMAIN Pushed(q, n, v).node = DOMAIN q.node \cup {n}
            /\ \A m \in DOMAIN q.node \ NodesOf(l) :
                 Pushed(q, n, v).node[m] = q.node[m]
        BY <4>1, PushedIsAppend
      <4> QED BY <4>2, <4>3 DEF l
    <3> QED BY <1>2, <1>3, <3>2
  <2> QED BY <2>1, <2>2
<1> HIDE DEF q
<1>5. RunQueueTypeOK'
  BY <1>1, <1>2, <1>4 DEF RunQueueTypeOK
<1>6. Chain(queue.head, queue.node, line)' /\ TailIsEnd' /\ NoNodeLost'
  BY <1>4 DEF TailIsEnd, NoNodeLost
<1>7. OnlyTheRunningInGap' /\ NoNodeShared'
  BY <1>1 DEF WholeList, OnlyTheRunningInGap, NoNodeShared
<1>8. ASSUME NEW p \in Proc PROVE Popping(p)' /\ Pushing(p)' /\ InHand(p)'
  BY <1>1, <1>4, HandsOff, OtherContext
<1> QED BY <1>5, <1>6, <1>7, <1>8 DEF WholeList
-----------------------------------------------------------------------------
(***************************************************************************)
(* The invariant is inductive.                                             *)
(***************************************************************************)
LEMMA RunQueueInvIsInductive == RunQueueInv /\ [Next]_vars => RunQueueInv'
<1> SUFFICES ASSUME RunQueueInv, [Next]_vars PROVE RunQueueInv'
  OBVIOUS
<1>1. ASSUME NEW p \in Proc, Pop(p) \/ Push(p) \/ Yield(p) \/ Switch(p) \/ Exit(p)
      PROVE  RunQueueInv'
  BY <1>1, EntryKeeps, LoadHeadKeeps, UnlinkKeeps, FixTailKeeps, FreeNodeKeeps,
     LoadTailKeeps, FirstStoreKeeps, SecondStoreKeeps, SwitchKeeps, ExitKeeps
     DEF Pop, Push
<1>2. ASSUME NEW p \in Proc, NEW n \in Node, NewNode(p, n) PROVE RunQueueInv'
  BY <1>2, NewNodeKeeps
<1>3. ASSUME NEW p \in Proc, NEW q \in Proc, NEW n \in Node, Start(p, q, n)
      PROVE  RunQueueInv'
  BY <1>3, StartKeeps
<1>4. ASSUME Tears PROVE RunQueueInv'
  BY <1>4 DEF Tears, RunQueueInv, RunQueueTypeOK, registers
<1>5. ASSUME NEW n \in Node, Tick(n) PROVE RunQueueInv'
  BY <1>5, TickKeeps
<1>6. ASSUME UNCHANGED vars PROVE RunQueueInv'
  BY <1>6 DEF vars, registers, RunQueueInv, RunQueueTypeOK, WholeList, TailIsEnd,
              OnlyTheRunningInGap, Popping, Pushing, InHand, NoNodeShared, NoNodeLost
<1> QED BY <1>1, <1>2, <1>3, <1>4, <1>5, <1>6 DEF Next

LEMMA RunQueueStarts == Init => RunQueueInv
<1> SUFFICES ASSUME Init PROVE RunQueueInv
  OBVIOUS
<1> USE DEF Init, RunQueueInv
<1>1. RunQueueTypeOK
  <2>1. IsQueue(queue)
    BY DEF IsQueue
  <2>2. line \in Seq(Node) /\ cpu \in Proc
    OBVIOUS
  <2> QED BY <2>1, <2>2 DEF RunQueueTypeOK, Place
<1>2. NodesOf(line) = {} /\ DOMAIN queue.node = {}
  BY DEF NodesOf
<1>3. Chain(queue.head, queue.node, line)
  BY DEF Chain
<1>4. TailIsEnd /\ OnlyTheRunningInGap /\ NoNodeShared
  BY DEF TailIsEnd, End, OnlyTheRunningInGap, NoNodeShared, Gap
<1>5. \A p \in Proc : Popping(p) /\ Pushing(p) /\ InHand(p)
  BY DEF Popping, Pushing, InHand
<1>6. NoNodeLost
  BY <1>2 DEF NoNodeLost
<1> QED BY <1>1, <1>3, <1>4, <1>5, <1>6 DEF WholeList

LEMMA RunQueueIsInvariant == Spec => []RunQueueInv
BY RunQueueStarts, RunQueueInvIsInductive, PTL DEF Spec

(***************************************************************************)
(* pop and push of lib/data/queue.hpp, called with interrupts enabled by   *)
(* schedule() and disabled by the timer handler, keep the run queue one    *)
(* chain from head to tail, whatever the number of processes and wherever  *)
(* ticks fall outside the gaps.                                            *)
(***************************************************************************)
THEOREM TheQueueStaysWhole == Spec => []QueueIsWhole
<1>1. RunQueueInv => QueueIsWhole
  BY DEF RunQueueInv, WholeList, Chain, TailIsEnd, End, QueueIsWhole
<1> QED BY <1>1, RunQueueIsInvariant, PTL

(***************************************************************************)
(* Every node that push allocates is in the list or held by the one        *)
(* context that will link it in or free it: pop and push, interrupted as   *)
(* they may be, leak none and free none twice.                             *)
(***************************************************************************)
THEOREM EveryNodeHasOneOwner == Spec => []NodesHaveOneOwner
<1>1. RunQueueInv => NodesHaveOneOwner
  BY DEF RunQueueInv, WholeList, InHand, NoNodeShared, NoNodeLost, NodesOf, Linked,
         NodesHaveOneOwner
<1> QED BY <1>1, RunQueueIsInvariant, PTL
-----------------------------------------------------------------------------
(***************************************************************************)
(* The list implements the atomic queue of ReadyQueue.                     *)
(***************************************************************************)

\* The processes in the nodes of l, in the order of the list.
Processes(node, l) == [i \in 1..Len(l) |-> node[l[i]].value]

\* The variables of ReadyQueue.
Waiting == Processes(queue.node, line)
Taken == [p \in Proc |-> IF pc[p] = "unlink" THEN null ELSE chosen[p]]

\* Links, allocations and frees elsewhere leave what the list holds.
LEMMA SameProcesses ==
  ASSUME NEW l \in Seq(Node), NEW node, NEW node2,
         \A n \in NodesOf(l) : node2[n].value = node[n].value
  PROVE  Processes(node2, l) = Processes(node, l)
<1>1. \A i \in 1..Len(l) : node2[l[i]].value = node[l[i]].value
  BY DEF NodesOf
<1> QED BY <1>1 DEF Processes

LEMMA ProcessesAreSeq ==
  ASSUME NEW l \in Seq(Node), NEW node, \A n \in NodesOf(l) : node[n].value \in Proc
  PROVE  /\ Processes(node, l) \in Seq(Proc)
         /\ Len(Processes(node, l)) = Len(l)
         /\ \A i \in 1..Len(l) : Processes(node, l)[i] = node[l[i]].value
         /\ (Processes(node, l) = <<>>) <=> (l = <<>>)
<1>1. Len(l) \in Nat /\ \A i \in 1..Len(l) : node[l[i]].value \in Proc
  BY DEF NodesOf
<1>2. /\ Processes(node, l) \in Seq(Proc)
      /\ Len(Processes(node, l)) = Len(l)
      /\ \A i \in 1..Len(l) : Processes(node, l)[i] = node[l[i]].value
  BY <1>1 DEF Processes
<1>3. (Processes(node, l) = <<>>) <=> (l = <<>>)
  BY <1>2, EmptySeq
<1> QED BY <1>2, <1>3

LEMMA ProcessesOfTail ==
  ASSUME NEW l \in Seq(Node), NEW node, \A n \in NodesOf(l) : node[n].value \in Proc,
         l # <<>>
  PROVE  /\ Processes(node, l) # <<>>
         /\ Head(Processes(node, l)) = node[l[1]].value
         /\ Processes(node, Tail(l)) = Tail(Processes(node, l))
<1> DEFINE s == Processes(node, l)
           t == Processes(node, Tail(l))
<1>1. /\ Tail(l) \in Seq(Node) /\ Len(Tail(l)) = Len(l) - 1
      /\ \A i \in 1..Len(l) - 1 : Tail(l)[i] = l[i + 1]
      /\ Len(l) \in Nat \ {0}
  BY NodesOfQueues, EmptySeq
<1>2. \A n \in NodesOf(Tail(l)) : node[n].value \in Proc
  <2>1. NodesOf(Tail(l)) \subseteq NodesOf(l)
    BY <1>1 DEF NodesOf
  <2> QED BY <2>1
<1>3. /\ s \in Seq(Proc) /\ Len(s) = Len(l) /\ s # <<>>
      /\ \A i \in 1..Len(l) : s[i] = node[l[i]].value
  BY ProcessesAreSeq
<1>4. /\ t \in Seq(Proc) /\ Len(t) = Len(l) - 1
      /\ \A i \in 1..Len(l) - 1 : t[i] = node[Tail(l)[i]].value
  <2> DEFINE k == Tail(l)
  <2>1. k \in Seq(Node) /\ Len(k) = Len(l) - 1 /\ \A n \in NodesOf(k) : node[n].value \in Proc
    BY <1>1, <1>2
  <2> HIDE DEF k
  <2>2. /\ Processes(node, k) \in Seq(Proc) /\ Len(Processes(node, k)) = Len(k)
        /\ \A i \in 1..Len(k) : Processes(node, k)[i] = node[k[i]].value
    BY <2>1, ProcessesAreSeq
  <2> QED BY <2>1, <2>2 DEF k
<1> HIDE DEF s, t
<1>5. Head(s) = s[1] /\ 1 \in 1..Len(l)
  BY <1>1, <1>3
<1>6. /\ Tail(s) \in Seq(Proc) /\ Len(Tail(s)) = Len(l) - 1
      /\ \A i \in 1..Len(l) - 1 : Tail(s)[i] = s[i + 1]
  BY <1>3, HeadTailProperties
<1>7. \A i \in 1..Len(l) - 1 : t[i] = Tail(s)[i]
  <2> TAKE i \in 1..Len(l) - 1
  <2>1. i + 1 \in 1..Len(l)
    BY <1>1
  <2> QED BY <1>1, <1>3, <1>4, <1>6, <2>1
<1>8. t = Tail(s)
  BY <1>4, <1>6, <1>7, SeqEqual
<1> QED BY <1>3, <1>5, <1>8 DEF s, t

LEMMA ProcessesOfAppend ==
  ASSUME NEW l \in Seq(Node), NEW node, NEW n \in Node,
         \A m \in NodesOf(l) \cup {n} : node[m].value \in Proc
  PROVE  Processes(node, Append(l, n)) = Append(Processes(node, l), node[n].value)
<1> DEFINE k == Append(l, n)
           s == Processes(node, l)
           t == Processes(node, k)
           u == Append(s, node[n].value)
<1>1. /\ k \in Seq(Node) /\ Len(k) = Len(l) + 1
      /\ \A i \in 1..Len(l) : k[i] = l[i]
      /\ k[Len(l) + 1] = n /\ Len(l) \in Nat
  OBVIOUS
<1>2. \A m \in NodesOf(k) : node[m].value \in Proc
  BY NodesOfQueues
<1>3. /\ s \in Seq(Proc) /\ Len(s) = Len(l)
      /\ \A i \in 1..Len(l) : s[i] = node[l[i]].value
  BY ProcessesAreSeq
<1> HIDE DEF k, s
<1>4. /\ t \in Seq(Proc) /\ Len(t) = Len(l) + 1
      /\ \A i \in 1..Len(l) + 1 : t[i] = node[k[i]].value
  BY <1>1, <1>2, ProcessesAreSeq
<1>5. /\ u \in Seq(Proc) /\ Len(u) = Len(l) + 1
      /\ \A i \in 1..Len(l) : u[i] = s[i]
      /\ u[Len(l) + 1] = node[n].value
  BY <1>1, <1>3
<1> HIDE DEF t, u
<1>6. ASSUME NEW i \in 1..Len(l) + 1 PROVE t[i] = u[i]
  <2>1. CASE i \in 1..Len(l)
    <3>1. k[i] = l[i] /\ s[i] = node[l[i]].value /\ u[i] = s[i]
      BY <1>1, <1>3, <1>5, <2>1
    <3>2. t[i] = node[k[i]].value
      BY <1>4
    <3> QED BY ONLY <3>1, <3>2
  <2>2. CASE i = Len(l) + 1
    BY <1>1, <1>4, <1>5, <2>2
  <2> QED BY <1>1, <2>1, <2>2
<1>7. t = u
  BY <1>4, <1>5, <1>6, SeqEqual
<1> QED BY <1>7 DEF k, s, t, u

\* The values that a list holds are processes.
LEMMA LinkedValues ==
  ASSUME RunQueueTypeOK, WholeList
  PROVE  /\ NodesOf(line) \subseteq DOMAIN queue.node
         /\ \A n \in DOMAIN queue.node : queue.node[n].value \in Proc
BY DEF RunQueueTypeOK, WholeList, IsQueue, Cell, Chain, NodesOf

\* A step that leaves what is queued and what has been taken.
LEMMA Stutters ==
  ASSUME RunQueueTypeOK, WholeList, line' = line, cpu' = cpu, Taken' = Taken,
         \A n \in NodesOf(line) : queue'.node[n].value = queue.node[n].value
  PROVE  UNCHANGED Ready!vars
<1>1. Waiting' = Waiting
  BY SameProcesses DEF RunQueueTypeOK, Waiting
<1> QED BY <1>1 DEF Ready!vars, Waiting, Taken, Processes

\* A step that only adds to what is queued is a Put.
LEMMA Puts ==
  ASSUME RunQueueTypeOK, WholeList, NEW p \in Proc, NEW n \in Node,
         line' = Append(line, n), cpu' = cpu, Taken' = Taken,
         \A m \in NodesOf(line) : queue'.node[m].value = queue.node[m].value,
         queue'.node[n].value = p
  PROVE  Ready!Put(p)
<1>1. line \in Seq(Node)
  BY DEF RunQueueTypeOK
<1>2. Processes(queue'.node, line) = Processes(queue.node, line)
  BY <1>1, SameProcesses
<1>3. \A m \in NodesOf(line) \cup {n} : queue'.node[m].value \in Proc
  BY LinkedValues
<1>4. Processes(queue'.node, Append(line, n)) = Append(Processes(queue'.node, line), p)
  BY <1>1, <1>3, ProcessesOfAppend
<1>5. Waiting' = Append(Waiting, p)
  BY <1>2, <1>4 DEF Waiting
<1> QED BY <1>5 DEF Ready!Put, Waiting, Taken, Processes

\* pop and the allocation in push: the Unlink is the Take.
LEMMA PopImplements ==
  ASSUME RunQueueInv, NEW p \in Proc, Yield(p) \/ Pop(p) \/ \E n \in Node : NewNode(p, n)
  PROVE  Ready!Take(p) \/ UNCHANGED Ready!vars
<1>1. RunQueueTypeOK /\ WholeList /\ cpu = p /\ cpu' = cpu /\ pc \in [Proc -> Place]
      /\ chosen \in [Proc -> Proc \cup {null}]
  BY DEF Yield, Pop, Stay, LoadHead, Unlink, FixTail, FreeNode, NewNode, At, Go,
         RunQueueInv, RunQueueTypeOK
<1>2. /\ NodesOf(line) \subseteq DOMAIN queue.node /\ line \in Seq(Node)
      /\ \A n \in DOMAIN queue.node : queue.node[n].value \in Proc
      /\ IsQueue(queue) /\ InHand(p) /\ Popping(p)
  BY <1>1, LinkedValues DEF RunQueueTypeOK, WholeList
<1>3. CASE Yield(p) \/ Stay(p) \/ FixTail(p)
  <2>1. line' = line /\ queue'.node = queue.node
    BY <1>2, <1>3 DEF Yield, Stay, FixTail, IsQueue
  <2>2. Taken' = Taken
    BY <1>1, <1>3 DEF Yield, Stay, FixTail, At, Go, Taken, registers
  <2> QED BY <1>1, <2>1, <2>2, Stutters
<1>4. CASE LoadHead(p)
  <2>1. Taken' = Taken
    <3>1. pc[p] = "pop" /\ chosen[p] = null /\ pc' = [pc EXCEPT ![p] = "unlink"]
      BY <1>2, <1>4 DEF LoadHead, At, Go, InHand
    <3>2. \A q \in Proc \ {p} : chosen'[q] = chosen[q]
      BY <1>1, <1>4 DEF LoadHead
    <3> QED BY <1>1, <3>1, <3>2 DEF Taken
  <2> QED BY <1>1, <1>4, <2>1, Stutters DEF LoadHead
<1>5. CASE Unlink(p)
  <2>1. /\ line # <<>> /\ chosen[p] = queue.node[line[1]].value
        /\ line' = Tail(line) /\ queue'.node = queue.node
    BY <1>2, <1>5 DEF Unlink, At, Popping, IsQueue
  <2>2. /\ Waiting # <<>> /\ Head(Waiting) = chosen[p]
        /\ Waiting' = Tail(Waiting)
    BY <1>2, <2>1, ProcessesOfTail DEF Waiting
  <2>3. Taken' = [Taken EXCEPT ![p] = chosen[p]]
    BY <1>1, <1>5 DEF Unlink, At, Go, Taken, registers
  <2>4. Ready!Take(p)
    BY <1>1, <2>2, <2>3 DEF Ready!Take, Waiting, Taken, Processes
  <2> QED BY <2>4
<1>6. CASE FreeNode(p)
  <2>1. ptr[p] \in Node /\ ptr[p] \notin NodesOf(line)
    BY <1>2, <1>6 DEF FreeNode, At, InHand, IsQueue
  <2>2. queue'.node = Without(queue.node, ptr[p]) /\ line' = line
    BY <1>2, <1>6 DEF FreeNode, IsQueue
  <2>3. \A m \in NodesOf(line) : queue'.node[m].value = queue.node[m].value
    BY <1>2, <2>1, <2>2 DEF Without
  <2>4. Taken' = Taken
    BY <1>1, <1>6 DEF FreeNode, At, Go, Taken
  <2> QED BY <1>1, <2>2, <2>3, <2>4, Stutters
<1>7. ASSUME NEW n \in Node, NewNode(p, n) PROVE UNCHANGED Ready!vars
  <2>1. n \notin DOMAIN queue.node /\ queue'.node = With(queue.node, n, p) /\ line' = line
    BY <1>2, <1>7 DEF NewNode, IsQueue
  <2>2. \A m \in NodesOf(line) : queue'.node[m].value = queue.node[m].value
    BY <1>2, <2>1 DEF With
  <2>3. Taken' = Taken
    BY <1>1, <1>7 DEF NewNode, At, Go, Taken
  <2> QED BY <1>1, <2>1, <2>2, <2>3, Stutters
<1> QED BY <1>3, <1>4, <1>5, <1>6, <1>7 DEF Pop

\* push: the store that lets head lead to the node is the Put.
LEMMA PushImplements ==
  ASSUME RunQueueInv, NEW p \in Proc, Push(p)
  PROVE  Ready!Put(p) \/ UNCHANGED Ready!vars
<1>1. RunQueueTypeOK /\ WholeList /\ cpu' = cpu /\ pc \in [Proc -> Place]
      /\ chosen \in [Proc -> Proc \cup {null}] /\ IsQueue(queue) /\ InHand(p)
      /\ ptr \in [Proc -> Node \cup {null}]
  BY DEF Push, LoadTail, FirstStore, SecondStore, At, Go, RunQueueInv, RunQueueTypeOK,
         WholeList
<1>2. Taken' = Taken
  BY <1>1 DEF Push, LoadTail, FirstStore, SecondStore, At, Go, Taken, registers
<1>3. NodesOf(line) \subseteq DOMAIN queue.node
  BY <1>1, LinkedValues
<1>4. CASE LoadTail(p)
  BY <1>1, <1>2, <1>4, Stutters DEF LoadTail
<1>5. CASE FirstStore(p)
  <2>1. /\ seen[p] = queue.tail /\ queue.tail = End(line)
        /\ ptr[p] \in Node /\ ptr[p] \in DOMAIN queue.node
        /\ ptr[p] \notin NodesOf(line)
        /\ queue.node[ptr[p]] = [value |-> p, next |-> null]
        /\ (seen[p] = null) <=> (line = <<>>)
        /\ line # <<>> => /\ End(line) \in NodesOf(line)
                          /\ End(line) \in DOMAIN queue.node /\ End(line) \in Node
    BY <1>5, AtTheLink DEF FirstStore
  <2>2. \A m \in DOMAIN queue.node : queue'.node[m].value = queue.node[m].value
    <3>1. CASE seen[p] # null
      <4>1. queue'.node = [queue.node EXCEPT ![seen[p]].next = ptr[p]]
        BY <1>1, <1>5, <3>1 DEF FirstStore, IsQueue
      <4> QED BY <1>1, <2>1, <3>1, <4>1 DEF IsQueue, Cell
    <3>2. CASE seen[p] = null
      <4>1. queue'.node = queue.node
        BY <1>1, <1>5, <3>2 DEF FirstStore, IsQueue
      <4> QED BY <4>1
    <3> QED BY <3>1, <3>2
  <2>3. queue'.node[ptr[p]].value = p
    BY <2>1, <2>2
  <2>4. CASE line' = line
    BY <1>1, <1>2, <1>3, <2>2, <2>4, Stutters
  <2>5. CASE line' = Append(line, ptr[p])
    BY <1>1, <1>2, <1>3, <2>1, <2>2, <2>3, <2>5, Puts
  <2> QED BY <1>5, <2>4, <2>5 DEF FirstStore
<1>6. CASE SecondStore(p)
  <2>1. queue'.node = queue.node
    BY <1>1, <1>6 DEF SecondStore, IsQueue
  <2>2. CASE line' = line
    BY <1>1, <1>2, <1>3, <2>1, <2>2, Stutters
  <2>3. CASE line' # line
    <3>1. /\ line' = Append(line, ptr[p]) /\ ptr[p] \in Node
          /\ queue.node[ptr[p]].value = p
      <4>1. seen[p] = null /\ ~headFirst /\ line' = Append(line, ptr[p]) /\ pc[p] = "join"
        BY <1>6, <2>3 DEF SecondStore, At
      <4>2. Pushing(p)
        BY <1>1 DEF WholeList
      <4> QED BY <1>1, <4>1, <4>2 DEF InHand, Pushing
    <3> QED BY <1>1, <1>2, <1>3, <2>1, <3>1, Puts
  <2> QED BY <2>2, <2>3
<1> QED BY <1>4, <1>5, <1>6 DEF Push

LEMMA SwitchImplements ==
  ASSUME RunQueueInv, NEW p \in Proc, Switch(p)
  PROVE  Ready!Switch(p)
<1>1. /\ pc \in [Proc -> Place] /\ chosen \in [Proc -> Proc \cup {null}]
      /\ chosen[p] # null /\ pc[p] = "switch"
  BY DEF Switch, At, RunQueueInv, RunQueueTypeOK, WholeList, InHand
<1>2. Taken' = [Taken EXCEPT ![p] = null] /\ Taken[p] = chosen[p]
  BY <1>1 DEF Switch, At, Taken
<1>3. Waiting' = Waiting
  BY DEF Switch, Waiting
<1> QED BY <1>1, <1>2, <1>3 DEF Switch, At, Ready!Switch, Waiting, Taken, Processes

LEMMA StartImplements ==
  ASSUME RunQueueInv, NEW p \in Proc, NEW q \in Proc, NEW n \in Node, Start(p, q, n)
  PROVE  Ready!Put(q)
<1>1. /\ RunQueueTypeOK /\ WholeList /\ cpu' = cpu /\ IsQueue(queue) /\ line \in Seq(Node)
      /\ Chain(queue.head, queue.node, line) /\ n \notin DOMAIN queue.node
      /\ queue.tail = End(line) /\ line' = Append(line, n) /\ queue' = Pushed(queue, n, q)
  BY DEF Start, At, Go, RunQueueInv, RunQueueTypeOK, WholeList, TailIsEnd
<1>2. /\ queue'.node[n].value = q
      /\ \A m \in DOMAIN queue.node : queue'.node[m].value = queue.node[m].value
  BY <1>1, PushedIsAppend
<1>3. Taken' = Taken
  BY <1>1 DEF Start, At, Go, Taken, registers, RunQueueTypeOK
<1>4. NodesOf(line) \subseteq DOMAIN queue.node
  BY <1>1, LinkedValues
<1> QED BY <1>1, <1>2, <1>3, <1>4, Puts

\* What a pop that is not interrupted is for the queue.
LEMMA PopIsTail ==
  ASSUME RunQueueTypeOK, WholeList, pc[cpu] \notin Gap, queue.head # null
  PROVE  /\ Waiting # <<>> /\ Head(Waiting) = queue.node[queue.head].value
         /\ Processes(Popped(queue).node, Tail(line)) = Tail(Waiting)
<1>1. /\ line # <<>> /\ queue.head = line[1] /\ line \in Seq(Node)
      /\ Tail(line) \in Seq(Node)
      /\ \A m \in DOMAIN queue.node \ {queue.head} :
           Popped(queue).node[m] = queue.node[m]
  BY WhatPopLeaves DEF RunQueueTypeOK
<1>2. /\ NodesOf(line) \subseteq DOMAIN queue.node
      /\ \A m \in DOMAIN queue.node : queue.node[m].value \in Proc
  BY LinkedValues
<1>3. NodesOf(Tail(line)) = NodesOf(line) \ {queue.head}
  BY <1>1, TailOfChain DEF WholeList
<1>4. /\ Waiting # <<>> /\ Head(Waiting) = queue.node[queue.head].value
      /\ Processes(queue.node, Tail(line)) = Tail(Waiting)
  BY <1>1, <1>2, ProcessesOfTail DEF Waiting
<1>5. Processes(Popped(queue).node, Tail(line)) = Processes(queue.node, Tail(line))
  BY <1>1, <1>2, <1>3, SameProcesses
<1> QED BY <1>4, <1>5

LEMMA ExitImplements ==
  ASSUME RunQueueInv, NEW p \in Proc, Exit(p)
  PROVE  Ready!Leave
<1>1. /\ RunQueueTypeOK /\ WholeList /\ pc[cpu] \notin Gap /\ line \in Seq(Node)
      /\ Chain(queue.head, queue.node, line)
  BY DEF Exit, At, RunQueueInv, RunQueueTypeOK, WholeList, Gap
<1>2. Taken' = Taken
  BY <1>1 DEF Exit, At, Taken, registers, RunQueueTypeOK
<1>3. CASE queue.head = null
  <2>1. line = <<>>
    <3>1. line # <<>> => line[1] \in Node
      BY <1>1
    <3> QED BY <1>1, <1>3, <3>1, RunQueueAssumption DEF Chain
  <2>2. Waiting = <<>> /\ Waiting' = Waiting /\ cpu' = Idle
    BY <1>3, <2>1 DEF Exit, Waiting, Processes
  <2> QED BY <1>2, <2>2 DEF Ready!Leave, Waiting, Taken, Processes
<1>4. CASE queue.head # null
  <2>1. /\ Waiting # <<>> /\ cpu' = Head(Waiting)
        /\ Waiting' = Tail(Waiting)
    <3>1. queue' = Popped(queue) /\ line' = Tail(line) /\ cpu' = queue.node[queue.head].value
      BY <1>4 DEF Exit
    <3> QED BY <1>1, <1>4, <3>1, PopIsTail DEF Waiting
  <2> QED BY <1>2, <2>1 DEF Ready!Leave, Waiting, Taken, Processes
<1> QED BY <1>3, <1>4

LEMMA TickImplements ==
  ASSUME RunQueueInv, NEW n \in Node, Tick(n)
  PROVE  Ready!Rotate
<1>1. /\ RunQueueTypeOK /\ WholeList /\ pc[cpu] \notin Gap /\ queue.head # null
      /\ cpu' = queue.node[queue.head].value /\ Taken' = Taken /\ cpu \in Proc
  BY DEF Tick, RunQueueInv, RunQueueTypeOK, registers, Taken
<1> DEFINE q == Popped(queue)
<1>2. /\ Waiting # <<>> /\ Head(Waiting) = queue.node[queue.head].value
      /\ Processes(q.node, Tail(line)) = Tail(Waiting)
  BY <1>1, PopIsTail
<1>3. CASE cpu \in {Idle, cpu'}
  <2>1. Waiting' = Tail(Waiting)
    BY <1>2, <1>3 DEF Tick, Waiting
  <2> QED BY <1>1, <1>2, <1>3, <2>1 DEF Ready!Rotate, Waiting, Taken, Processes
<1>4. CASE cpu \notin {Idle, cpu'}
  <2> DEFINE l == Tail(line)
             node == queue'.node
  <2>1. /\ queue' = Pushed(q, n, cpu) /\ line' = Append(l, n) /\ n \notin DOMAIN q.node
    BY <1>4 DEF Tick
  <2>2. /\ IsQueue(q) /\ l \in Seq(Node) /\ Chain(q.head, q.node, l) /\ q.tail = End(l)
    BY <1>1, WhatPopLeaves
  <2>3. /\ \A m \in DOMAIN q.node : q.node[m].value \in Proc
        /\ NodesOf(l) \subseteq DOMAIN q.node
    BY <2>2 DEF IsQueue, Cell, Chain, NodesOf
  <2> HIDE DEF q, l
  <2>4. /\ Pushed(q, n, cpu).node[n].value = cpu
        /\ \A m \in DOMAIN q.node : Pushed(q, n, cpu).node[m].value = q.node[m].value
    BY <1>1, <2>1, <2>2, PushedIsAppend
  <2>5. /\ node[n].value = cpu
        /\ \A m \in DOMAIN q.node : node[m].value = q.node[m].value
    BY <2>1, <2>4
  <2> HIDE DEF node
  <2>6. Processes(node, Append(l, n)) = Append(Processes(node, l), cpu)
    BY <1>1, <2>2, <2>3, <2>5, ProcessesOfAppend
  <2>7. Processes(node, l) = Processes(q.node, l)
    BY <2>2, <2>3, <2>5, SameProcesses
  <2>8. Waiting' = Append(Tail(Waiting), cpu)
    BY <1>2, <2>1, <2>6, <2>7 DEF Waiting, node, l
  <2> QED BY <1>1, <1>2, <1>4, <2>8 DEF Ready!Rotate, Waiting, Taken, Processes
<1> QED BY <1>3, <1>4

(***************************************************************************)
(* To the scheduler the linked list is an atomic first-in-first-out queue: *)
(* the loads and stores of pop and push in lib/data/queue.hpp come to one  *)
(* Take and one Put, between any two of which the timer may rotate.        *)
(***************************************************************************)
THEOREM TheQueueIsAtomic == Spec => ImplementsReadyQueue
<1>1. Init => Ready!Init
  <2> SUFFICES ASSUME Init PROVE Ready!Init
    OBVIOUS
  <2>1. Waiting = <<>> /\ cpu \in Proc /\ Taken = [p \in Proc |-> null]
    BY DEF Init, Waiting, Taken, Processes
  <2> QED BY <2>1 DEF Ready!Init, Waiting, Taken, Processes
<1>2. RunQueueInv /\ [Next]_vars => [Ready!Next]_(Ready!vars)
  <2> SUFFICES ASSUME RunQueueInv, [Next]_vars PROVE [Ready!Next]_(Ready!vars)
    OBVIOUS
  <2>1. ASSUME NEW p \in Proc,
               Yield(p) \/ Pop(p) \/ Push(p) \/ \E n \in Node : NewNode(p, n)
        PROVE  Ready!Take(p) \/ Ready!Put(p) \/ UNCHANGED Ready!vars
    BY <2>1, PopImplements, PushImplements
  <2>2. ASSUME NEW p \in Proc, Switch(p) PROVE Ready!Switch(p)
    BY <2>2, SwitchImplements
  <2>3. ASSUME NEW p \in Proc, Exit(p) PROVE Ready!Leave
    BY <2>3, ExitImplements
  <2>4. ASSUME NEW p \in Proc, NEW q \in Proc, NEW n \in Node, Start(p, q, n)
        PROVE  Ready!Put(q)
    BY <2>4, StartImplements
  <2>5. ASSUME NEW n \in Node, Tick(n) PROVE Ready!Rotate
    BY <2>5, TickImplements
  <2>6. CASE Tears \/ UNCHANGED vars
    BY <2>6 DEF Tears, vars, registers, Ready!vars
  <2> QED BY <2>1, <2>2, <2>3, <2>4, <2>5, <2>6 DEF Next, Ready!Next
<1> QED BY <1>1, <1>2, RunQueueIsInvariant, PTL DEF Spec, ImplementsReadyQueue, Ready!Spec
-----------------------------------------------------------------------------

(***************************************************************************)
(* The inductive invariant of the heap, in parts.                          *)
(***************************************************************************)
End0 == HEAP_START + HEAP_SIZE

\* What the block at b cannot reach beyond.
Behind(h, b) == IF h[b].next = nullptr THEN End0 ELSE h[b].next

Headers(h) == DOMAIN h \subseteq Address /\ \A b \in DOMAIN h : h[b] \in Header

\* A set of headers that lead to each other only, upwards.
Apart(h, N) ==
  /\ N \subseteq DOMAIN h
  /\ \A b \in N : /\ h[b].next \in N \cup {nullptr}
                  /\ b + HeaderSize + h[b].size <= Behind(h, b)

\* L are the blocks of the list: none lies within another.
List(h, L) == /\ HEAP_START \in L /\ Apart(h, L)
              /\ \A a, b \in L : a < b => Behind(h, a) <= b

\* The allocations in v have blocks of their own, and stay within them.
Owned(h, L, v) ==
  /\ v \subseteq [ptr : Nat, size : Nat]
  /\ \A a \in v : LET b == a.ptr - HeaderSize IN
                    b \in L /\ ~h[b].free /\ a.ptr + a.size <= Behind(h, b)
  /\ \A a, b \in v : a.ptr = b.ptr => a = b

Good(h, v) == Headers(h) /\ \E L : List(h, L) /\ Owned(h, L, v)

HeapTypeOK == /\ found \in [Context -> [block : Nat, size : Nat]]
              /\ freed \in [Context -> Nat]
              /\ raced \in BOOLEAN

\* What a process has found is in the heap, also if somebody else takes it.
FoundInHeap == \A c \in Context : found[c] # NotFound => found[c].block + HeaderSize \in Address

HeapInv == HeapTypeOK /\ (raced \/ (Good(hdr, live) /\ FoundInHeap))
-----------------------------------------------------------------------------
(***************************************************************************)
(* Numbers: a set of them has a least one, and induction from it.          *)
(***************************************************************************)
LEMMA LeastIn ==
  ASSUME NEW S \in SUBSET Nat, S # {}
  PROVE  \E x \in S : \A y \in S : x <= y
<1> DEFINE R == OpToRel(<, Nat)
<1>1. \A x, y \in Nat : x < y => <<x, y>> \in R
  BY DEF OpToRel
<1>2. IsWellFoundedOn(R, Nat)
  BY NatLessThanWellFounded
<1> HIDE DEF R
<1>3. PICK x \in S : \A y \in S : ~ (<<y, x>> \in R)
  BY <1>2, WFMin
<1>4. ASSUME NEW y \in S PROVE x <= y
  <2>1. x \in Nat /\ y \in Nat
    OBVIOUS
  <2>2. ~ (y < x)
    BY <1>1, <1>3, <2>1
  <2> QED BY <2>1, <2>2
<1> QED BY <1>4

LEMMA MinIn ==
  ASSUME NEW S \in SUBSET Nat, S # {}
  PROVE  Min(S) \in S
<1>1. \E x \in S : \A y \in S : x =< y
  BY LeastIn
<1> QED BY <1>1 DEF Min

LEMMA NatSetInduction ==
  ASSUME NEW T \in SUBSET Nat, 0 \in T, \A n \in T : n + 1 \in T
  PROVE  T = Nat
<1> DEFINE S == Nat \ T
<1> SUFFICES ASSUME S # {} PROVE FALSE
  OBVIOUS
<1>1. S \in SUBSET Nat
  OBVIOUS
<1>2. PICK x \in S : \A y \in S : x <= y
  <2> HIDE DEF S
  <2> QED BY <1>1, LeastIn
<1>3. x \in Nat /\ x # 0
  OBVIOUS
<1>4. x - 1 \in Nat /\ ~ (x <= x - 1) /\ (x - 1) + 1 = x
  BY <1>3
<1>5. x - 1 \notin S
  BY <1>2, <1>4
<1>6. x - 1 \in T
  BY <1>4, <1>5
<1>7. x \in T
  BY <1>4, <1>6
<1> QED BY <1>7
-----------------------------------------------------------------------------
(***************************************************************************)
(* The walk along the list.                                                *)
(***************************************************************************)
LEMMA HeapBounds ==
  /\ HEAP_START \in Nat \ {0} /\ HEAP_SIZE \in Nat /\ HeaderSize \in Nat \ {0}
  /\ End0 \in Nat /\ Address \subseteq Nat \ {0} /\ IsFiniteSet(Address)
  /\ \A b \in Address : b # nullptr /\ HEAP_START <= b /\ b <= End0
<1>1. HEAP_START \in Nat \ {0} /\ HEAP_SIZE \in Nat /\ HeaderSize \in Nat \ {0}
  BY HeapAssumption
<1>2. Address = HEAP_START..End0 /\ End0 \in Nat
  BY <1>1 DEF Address, End0
<1>3. IsFiniteSet(Address)
  BY <1>1, <1>2, FS_Interval
<1> QED BY <1>1, <1>2, <1>3 DEF nullptr

LEMMA HeaderParts ==
  ASSUME NEW h, Headers(h), NEW b \in DOMAIN h
  PROVE  /\ b \in Address /\ b \in Nat
         /\ h[b].size \in Nat /\ h[b].size <= HEAP_SIZE
         /\ h[b].free \in BOOLEAN
         /\ h[b].next \in Nat /\ (h[b].next # nullptr => h[b].next \in Address)
         /\ h[b] = [size |-> h[b].size, free |-> h[b].free, next |-> h[b].next]
         /\ Behind(h, b) \in Nat /\ Behind(h, b) <= End0
<1>1. b \in Address /\ h[b] \in Header
  BY DEF Headers
<1>2. /\ h[b].size \in 0..HEAP_SIZE /\ h[b].free \in BOOLEAN
      /\ h[b].next \in Address \cup {nullptr}
      /\ h[b] = [size |-> h[b].size, free |-> h[b].free, next |-> h[b].next]
  BY <1>1 DEF Header
<1>3. nullptr = 0
  BY DEF nullptr
<1> QED BY <1>1, <1>2, <1>3, HeapBounds DEF Behind

\* What the walk is after n steps: the lowest blocks, and all or n + 1 of them.
Walked(h, L, n, l) ==
  /\ l \in Seq(L) /\ l # <<>>
  /\ \A i \in 1..Len(l) : l[i] <= l[Len(l)]
  /\ \A b \in L : b <= l[Len(l)] => b \in Range(l)
  /\ IsFiniteSet(Range(l)) /\ Cardinality(Range(l)) = Len(l)
  /\ Len(l) = n + 1 \/ h[l[Len(l)]].next = nullptr

LEMMA RangeIs ==
  ASSUME NEW S, NEW l \in Seq(S)
  PROVE  Range(l) = {l[i] : i \in 1..Len(l)} /\ Range(l) \subseteq S
BY DEF Range

LEMMA WalkStarts ==
  ASSUME NEW h, NEW L, Headers(h), List(h, L)
  PROVE  Walked(h, L, 0, <<HEAP_START>>)
<1> DEFINE l == <<HEAP_START>>
<1>1. HEAP_START \in L /\ L \subseteq DOMAIN h
  BY DEF List, Apart
<1>2. l \in Seq(L) /\ l # <<>> /\ Len(l) = 1 /\ l[1] = HEAP_START
  BY <1>1
<1>3. Range(l) = {HEAP_START}
  <2>1. DOMAIN l = {1}
    BY <1>2
  <2> QED BY <1>2, <2>1 DEF Range
<1>4. \A b \in L : HEAP_START <= b /\ b \in Nat
  BY <1>1, HeaderParts, HeapBounds
<1>5. IsFiniteSet(Range(l)) /\ Cardinality(Range(l)) = 1
  BY <1>3, FS_Singleton
<1> HIDE DEF l
<1>6. \A i \in 1..Len(l) : l[i] <= l[Len(l)]
  BY <1>1, <1>2, <1>4
<1>7. \A b \in L : b <= l[Len(l)] => b \in Range(l)
  BY <1>2, <1>3, <1>4, HeapBounds
<1>8. Walked(h, L, 0, l)
  BY <1>2, <1>5, <1>6, <1>7 DEF Walked
<1> QED BY <1>8 DEF l

LEMMA WalkGoesOn ==
  ASSUME NEW h, NEW L, Headers(h), List(h, L), NEW n \in Nat, NEW l, Walked(h, L, n, l)
  PROVE  Walked(h, L, n + 1, Further(h, l))
<1> DEFINE last == l[Len(l)]
           next == h[last].next
<1>1. l \in Seq(L) /\ l # <<>> /\ Len(l) \in Nat /\ Len(l) >= 1 /\ last \in L
  BY DEF Walked
<1>2. L \subseteq DOMAIN h /\ last \in DOMAIN h
  BY <1>1 DEF List, Apart
<1>3. CASE next = nullptr
  <2>1. Further(h, l) = l
    BY <1>3 DEF Further
  <2> QED BY <1>3, <2>1 DEF Walked
<1>4. CASE next # nullptr
  <2> DEFINE m == Append(l, next)
  <2>1. Further(h, l) = m
    BY <1>4 DEF Further
  <2>2. next \in L /\ last + HeaderSize + h[last].size <= next
    BY <1>1, <1>4 DEF List, Apart, Behind
  <2>3. last \in Nat /\ h[last].size \in Nat /\ next \in Nat
    BY <1>2, HeaderParts
  <2>4. last < next
    <3>1. HeaderSize \in Nat \ {0}
      BY HeapBounds
    <3>2. last + HeaderSize + h[last].size <= next
      BY <2>2
    <3> QED BY ONLY <2>3, <3>1, <3>2
  <2>5. /\ m \in Seq(L) /\ m # <<>> /\ Len(m) = Len(l) + 1
        /\ m[Len(m)] = next /\ \A i \in 1..Len(l) : m[i] = l[i]
    BY <1>1, <2>2, AppendProperties
  <2>6. Range(m) = Range(l) \cup {next}
    <3>1. Range(m) = {m[i] : i \in 1..Len(m)}
      <4> HIDE DEF m
      <4> QED BY <2>5, RangeIs
    <3>2. Range(l) = {l[i] : i \in 1..Len(l)}
      BY <1>1, RangeIs
    <3>3. 1..Len(m) = 1..Len(l) \cup {Len(m)}
      BY <1>1, <2>5
    <3> QED BY <2>5, <3>1, <3>2, <3>3
  <2>7. \A i \in 1..Len(l) : l[i] <= last /\ l[i] \in Nat
    <3>1. \A i \in 1..Len(l) : l[i] \in L
      BY <1>1
    <3> QED BY <1>2, <3>1, HeaderParts DEF Walked
  <2>8. \A i \in 1..Len(m) : m[i] <= m[Len(m)]
    <3>1. ASSUME NEW i \in 1..Len(m) PROVE m[i] <= m[Len(m)]
      <4>1. CASE i \in 1..Len(l)
        BY <4>1, <2>3, <2>4, <2>5, <2>7
      <4>2. CASE i = Len(m)
        BY <4>2, <2>3, <2>5
      <4> QED BY <1>1, <2>5, <4>1, <4>2
    <3> QED BY <3>1
  <2>9. next \notin Range(l)
    <3>1. Range(l) = {l[i] : i \in 1..Len(l)}
      BY <1>1, RangeIs
    <3> QED BY <2>3, <2>4, <2>7, <3>1
  <2>10. IsFiniteSet(Range(m)) /\ Cardinality(Range(m)) = Len(m)
    <3>1. IsFiniteSet(Range(l)) /\ Cardinality(Range(l)) = Len(l)
      BY DEF Walked
    <3>2. IsFiniteSet(Range(l) \cup {next})
          /\ Cardinality(Range(l) \cup {next}) = Cardinality(Range(l)) + 1
      BY <2>9, <3>1, FS_AddElement
    <3> QED BY <2>5, <2>6, <3>1, <3>2
  <2>11. ASSUME NEW b \in L, b <= m[Len(m)] PROVE b \in Range(m)
    <3>0. b \in Nat
      BY <1>2, HeaderParts
    <3>1. CASE b <= last
      BY <2>6, <3>1 DEF Walked
    <3>2. CASE last < b
      <4>1. Behind(h, last) <= b
        BY <1>1, <3>2 DEF List
      <4>2. Behind(h, last) = next
        BY <1>4 DEF Behind
      <4>3. b = next
        BY <2>3, <2>5, <2>11, <3>0, <4>1, <4>2
      <4> QED BY <2>6, <4>3
    <3> QED BY <2>3, <3>0, <3>1, <3>2
  <2>12. Len(m) = (n + 1) + 1 \/ h[m[Len(m)]].next = nullptr
    <3>1. Len(l) = n + 1
      BY <1>4 DEF Walked
    <3> QED BY <2>5, <3>1
  <2> HIDE DEF m
  <2> QED BY <2>1, <2>5, <2>8, <2>10, <2>11, <2>12 DEF Walked
<1> QED BY <1>3, <1>4

\* The walk as a function: what each step makes of the one before.
WalkIs(h, m, g) == /\ Blocks(h) = g[m] /\ g[0] = <<HEAP_START>>
                   /\ \A k \in 1..m : g[k] = Further(h, g[k - 1])

LEMMA WalkSteps ==
  ASSUME NEW h, NEW m \in Nat, m = Cardinality(DOMAIN h)
  PROVE  \E g : WalkIs(h, m, g)
<1> DEFINE Is(g, n) ==
             g = [k \in 0..n |-> IF k = 0 THEN <<HEAP_START>> ELSE Further(h, g[k - 1])]
           T == {n \in Nat : \E g : Is(g, n)}
<1>1. 0 \in T
  <2> DEFINE g == [k \in 0..0 |-> <<HEAP_START>>]
  <2>1. Is(g, 0)
    OBVIOUS
  <2> QED BY <2>1
<1>2. ASSUME NEW n \in T PROVE n + 1 \in T
  <2>1. PICK g : Is(g, n)
    OBVIOUS
  <2> DEFINE f == [k \in 0..(n + 1) |-> IF k = n + 1 THEN Further(h, g[n]) ELSE g[k]]
  <2>2. ASSUME NEW k \in 0..(n + 1)
        PROVE  f[k] = IF k = 0 THEN <<HEAP_START>> ELSE Further(h, f[k - 1])
    <3>1. CASE k = n + 1
      BY <3>1
    <3>2. CASE k \in 0..n /\ k # 0
      <4>1. f[k] = g[k] /\ f[k - 1] = g[k - 1]
        BY <3>2
      <4>2. g[k] = Further(h, g[k - 1])
        <5> HIDE DEF f
        <5> QED BY <2>1, <3>2
      <4> QED BY <3>2, <4>1, <4>2
    <3>3. CASE k = 0
      <4>1. f[0] = g[0]
        OBVIOUS
      <4>2. g[0] = <<HEAP_START>>
        <5> HIDE DEF f
        <5> QED BY <2>1
      <4> QED BY <3>3, <4>1, <4>2
    <3> QED BY <3>1, <3>2, <3>3
  <2>3. Is(f, n + 1)
    BY <2>2
  <2>4. n + 1 \in Nat
    OBVIOUS
  <2> HIDE DEF f, Is
  <2> QED BY <2>3, <2>4
<1>3. \E g : Is(g, m)
  <2> HIDE DEF T
  <2>0. T \in SUBSET Nat
    BY DEF T
  <2>1. m \in T
    BY <1>1, <1>2, <2>0, NatSetInduction
  <2> QED BY <2>1 DEF T
<1> DEFINE w == CHOOSE g : Is(g, m)
<1>4. Blocks(h) = w[m]
  BY DEF Blocks
<1>5. Is(w, m)
  BY <1>3
<1> HIDE DEF w
<1>6. w[0] = <<HEAP_START>>
  BY <1>5
<1>7. \A k \in 1..m : w[k] = Further(h, w[k - 1])
  BY <1>5
<1> QED BY <1>4, <1>6, <1>7 DEF WalkIs

\* The blocks that the code walks over are those of the list.
LEMMA ListIsBlocks ==
  ASSUME NEW h, NEW L, Headers(h), List(h, L)
  PROVE  Blocks(h) \in Seq(L) /\ Range(Blocks(h)) = L
<1> DEFINE m == Cardinality(DOMAIN h)
<1>1. IsFiniteSet(DOMAIN h) /\ m \in Nat
  BY HeapBounds, FS_Subset, FS_CardinalityType DEF Headers
<1> HIDE DEF m
<1>2. PICK g : /\ Blocks(h) = g[m] /\ g[0] = <<HEAP_START>>
               /\ \A k \in 1..m : g[k] = Further(h, g[k - 1])
  <2>1. m = Cardinality(DOMAIN h)
    BY DEF m
  <2>2. \E g : WalkIs(h, m, g)
    BY ONLY <1>1, <2>1, WalkSteps
  <2> QED BY ONLY <2>2 DEF WalkIs
<1> DEFINE T == {n \in Nat : n <= m => Walked(h, L, n, g[n])}
<1>3. 0 \in T
  BY <1>2, WalkStarts
<1>4. ASSUME NEW n \in T PROVE n + 1 \in T
  <2>1. ASSUME n + 1 <= m PROVE Walked(h, L, n + 1, g[n + 1])
    <3>1. n <= m /\ n + 1 \in 1..m /\ (n + 1) - 1 = n
      BY <1>1, <2>1
    <3>2. Walked(h, L, n, g[n])
      BY <3>1
    <3>3. g[n + 1] = Further(h, g[n])
      BY <1>2, <3>1
    <3> QED BY <3>2, <3>3, WalkGoesOn
  <2> QED BY <2>1
<1>5. m \in T
  <2>1. T \in SUBSET Nat
    OBVIOUS
  <2> HIDE DEF T
  <2> QED BY <1>1, <1>3, <1>4, <2>1, NatSetInduction
<1> DEFINE l == Blocks(h)
           last == l[Len(l)]
<1>6. Walked(h, L, m, l)
  BY <1>1, <1>2, <1>5
<1> HIDE DEF l, T
<1>7. l \in Seq(L) /\ Len(l) \in Nat /\ Len(l) >= 1 /\ last \in L /\ Range(l) \subseteq L
  BY <1>6, RangeIs DEF Walked
<1>8. L \subseteq DOMAIN h /\ last \in DOMAIN h
  BY <1>7 DEF List, Apart
<1>9. h[last].next = nullptr
  <2>1. SUFFICES ASSUME Len(l) = m + 1 PROVE FALSE
    BY <1>6 DEF Walked
  <2>2. Cardinality(Range(l)) = m + 1
    BY <1>6, <2>1 DEF Walked
  <2>3. Range(l) \in SUBSET (DOMAIN h)
    BY <1>7, <1>8
  <2>4. Cardinality(Range(l)) <= m
    BY <1>1, <2>3, FS_Subset DEF m
  <2> QED BY <1>1, <2>2, <2>4
<1>10. ASSUME NEW b \in L PROVE b \in Range(l)
  <2>1. b \in Nat /\ last \in Nat /\ h[b].size \in Nat /\ Behind(h, b) \in Nat
        /\ Behind(h, b) <= End0
    BY <1>8, HeaderParts
  <2>2. b <= last
    <3>1. SUFFICES ASSUME last < b PROVE FALSE
      BY <2>1
    <3>2. End0 <= b
      BY <1>7, <1>9, <3>1 DEF List, Behind
    <3>3. b + HeaderSize + h[b].size <= Behind(h, b)
      BY DEF List, Apart
    <3> QED BY <2>1, <3>2, <3>3, HeapBounds
  <2> QED BY <1>6, <2>2 DEF Walked
<1> QED BY <1>7, <1>10 DEF l
-----------------------------------------------------------------------------
(***************************************************************************)
(* kmalloc.                                                                *)
(***************************************************************************)
LEMMA BlocksOfGood ==
  ASSUME NEW h, NEW v, Good(h, v)
  PROVE  List(h, Range(Blocks(h))) /\ Owned(h, Range(Blocks(h)), v)
<1>1. PICK L : List(h, L) /\ Owned(h, L, v)
  BY DEF Good
<1>2. Range(Blocks(h)) = L
  BY <1>1, ListIsBlocks DEF Good
<1> QED BY <1>1, <1>2

LEMMA FirstCanTake ==
  ASSUME NEW h, NEW v, Good(h, v), NEW size, Fits(h, size) # {}
  PROVE  CanTake(h, FirstFit(h, size), size)
<1>1. PICK L : List(h, L) /\ Headers(h)
  BY DEF Good
<1>2. Blocks(h) \in Seq(L)
  BY <1>1, ListIsBlocks
<1> DEFINE l == Blocks(h)
           i == Min(Fits(h, size))
<1>3. Fits(h, size) = {j \in DOMAIN l : h[l[j]].free /\ h[l[j]].size >= size}
  BY DEF Fits
<1> HIDE DEF l
<1>4. DOMAIN l \subseteq Nat
  BY <1>2 DEF l
<1>5. i \in Fits(h, size)
  <2>1. Fits(h, size) \in SUBSET Nat
    BY <1>3, <1>4
  <2> HIDE DEF i
  <2> QED BY <2>1, MinIn DEF i
<1>6. FirstFit(h, size) = l[i]
  BY DEF FirstFit, l
<1> HIDE DEF i
<1>7. l[i] \in Range(l) /\ h[l[i]].free /\ h[l[i]].size >= size
  BY <1>3, <1>5 DEF Range
<1> QED BY <1>6, <1>7 DEF CanTake, l

\* Where a block is in the list, and what can be taken of it.
LEMMA BlockFacts ==
  ASSUME NEW h, NEW L, Headers(h), List(h, L), NEW b \in L
  PROVE  /\ b \in DOMAIN h /\ b \in Address
         /\ h[b].size \in Nat /\ h[b].next \in Nat /\ h[b].free \in BOOLEAN
         /\ b + HeaderSize + h[b].size <= Behind(h, b)
         /\ Behind(h, b) \in Nat /\ Behind(h, b) <= End0
         /\ \A a \in L : a < b => Behind(h, a) <= b
         /\ \A a \in L : b < a => Behind(h, b) <= a
<1>1. b \in DOMAIN h
  BY DEF List, Apart
<1> QED BY <1>1, HeaderParts DEF List, Apart

LEMMA TakeWhole ==
  ASSUME NEW h, NEW v, Good(h, v), NEW size \in Nat, NEW b, CanTake(h, b, size),
         ~(h[b].size > size + HeaderSize)
  PROVE  Good(Take(h, b, size), v \cup {Allocation(b, size)})
<1> DEFINE k == [h EXCEPT ![b].size = size, ![b].free = FALSE]
           a0 == Allocation(b, size)
<1>1. PICK L : List(h, L) /\ Owned(h, L, v) /\ Headers(h) /\ L = Range(Blocks(h))
  BY BlocksOfGood DEF Good
<1>2. b \in L /\ h[b].free /\ size <= h[b].size
  <2>1. b \in L /\ h[b].free /\ h[b].size >= size
    BY <1>1 DEF CanTake
  <2> QED BY <1>1, <2>1, BlockFacts
<1>3. Take(h, b, size) = k
  BY DEF Take
<1>4. b \in DOMAIN h /\ L \subseteq DOMAIN h /\ b \in Nat
  BY <1>1, <1>2, HeapBounds DEF List, Apart, Headers
<1>5. DOMAIN k = DOMAIN h
  OBVIOUS
<1>6. /\ k[b].size = size /\ k[b].free = FALSE /\ k[b].next = h[b].next
      /\ k[b] \in Header
  <2>1. h[b] \in Header
    BY <1>1, <1>4 DEF Headers
  <2>2. size \in 0..HEAP_SIZE
    BY <1>1, <1>2, <1>4, HeaderParts, HeapBounds
  <2>3. k[b] = [[h[b] EXCEPT !.size = size] EXCEPT !.free = FALSE]
    BY <1>4
  <2> QED BY <2>1, <2>2, <2>3 DEF Header
<1>7. \A a \in DOMAIN h : a # b => k[a] = h[a]
  OBVIOUS
<1> HIDE DEF k
<1>8. Headers(k)
  BY <1>1, <1>5, <1>6, <1>7 DEF Headers
<1>9. \A a \in DOMAIN h : Behind(k, a) = Behind(h, a)
  BY <1>6, <1>7 DEF Behind
<1>10. List(k, L)
  <2>1. Apart(k, L)
    <3>1. \A a \in L : k[a].next \in L \cup {nullptr}
      BY <1>1, <1>4, <1>6, <1>7 DEF List, Apart
    <3>2. ASSUME NEW a \in L PROVE a + HeaderSize + k[a].size <= Behind(k, a)
      <4>1. a + HeaderSize + h[a].size <= Behind(h, a)
        BY <1>1 DEF List, Apart
      <4>2. CASE a = b
        <5>1. b + HeaderSize + size <= b + HeaderSize + h[b].size
          BY <1>1, <1>2, BlockFacts, <1>4, HeapBounds
        <5>2. b + HeaderSize + size \in Nat /\ b + HeaderSize + h[b].size \in Nat
              /\ Behind(h, b) \in Nat
          BY <1>1, <1>2, BlockFacts, <1>4, HeapBounds
        <5> QED BY <4>1, <4>2, <5>1, <5>2, <1>4, <1>6, <1>9
      <4>3. CASE a # b
        BY <4>1, <4>3, <1>4, <1>7, <1>9
      <4> QED BY <4>2, <4>3
    <3> QED BY <1>4, <1>5, <3>1, <3>2 DEF Apart
  <2>2. \A x, y \in L : x < y => Behind(k, x) <= y
    BY <1>1, <1>4, <1>9 DEF List
  <2> QED BY <1>1, <2>1, <2>2 DEF List
<1>11. Owned(k, L, v \cup {a0})
  <2>1. a0.ptr = b + HeaderSize /\ a0.size = size /\ a0 \in [ptr : Nat, size : Nat]
    BY <1>4, HeapBounds DEF Allocation
  <2>2. a0.ptr - HeaderSize = b
    BY <1>4, <2>1, HeapBounds
  <2> HIDE DEF a0
  <2>3. ASSUME NEW a \in v
        PROVE  /\ a \in [ptr : Nat, size : Nat] /\ a.ptr - HeaderSize \in L
               /\ a.ptr - HeaderSize # b
               /\ ~k[a.ptr - HeaderSize].free
               /\ a.ptr + a.size <= Behind(k, a.ptr - HeaderSize)
    <3> DEFINE c == a.ptr - HeaderSize
    <3>1. a \in [ptr : Nat, size : Nat] /\ c \in L /\ ~h[c].free /\ a.ptr + a.size <= Behind(h, c)
      BY <1>1 DEF Owned
    <3> HIDE DEF c
    <3>2. c # b
      BY <1>2, <3>1
    <3>3. ~k[c].free /\ a.ptr + a.size <= Behind(k, c)
      BY <1>4, <1>7, <1>9, <3>1, <3>2
    <3> QED BY <3>1, <3>2, <3>3 DEF c
  <2>4. b + HeaderSize + size <= Behind(k, b)
    BY <1>2, <1>6, <1>10 DEF List, Apart
  <2>5. \A a, c \in v \cup {a0} : a.ptr = c.ptr => a = c
    <3>1. \A a, c \in v : a.ptr = c.ptr => a = c
      BY <1>1 DEF Owned
    <3>2. \A a \in v : a.ptr # a0.ptr
      BY <2>2, <2>3
    <3> QED BY <3>1, <3>2
  <2>6. v \cup {a0} \subseteq [ptr : Nat, size : Nat]
    BY <2>1, <2>3
  <2>7. ASSUME NEW a \in v \cup {a0}
        PROVE  LET c == a.ptr - HeaderSize IN
                 c \in L /\ ~k[c].free /\ a.ptr + a.size <= Behind(k, c)
    <3>1. CASE a \in v
      BY <2>3, <3>1
    <3>2. CASE a = a0
      BY <1>2, <1>6, <2>1, <2>2, <2>4, <3>2
    <3> QED BY <3>1, <3>2
  <2> QED BY <2>5, <2>6, <2>7 DEF Owned
<1> QED BY <1>3, <1>8, <1>10, <1>11 DEF Good

LEMMA TakeSplit ==
  ASSUME NEW h, NEW v, Good(h, v), NEW size \in Nat, NEW b, CanTake(h, b, size),
         h[b].size > size + HeaderSize
  PROVE  Good(Take(h, b, size), v \cup {Allocation(b, size)})
<1> DEFINE new == b + HeaderSize + size
           hb == [size |-> size, free |-> FALSE, next |-> new]
           hn == [size |-> h[b].size - size - HeaderSize, free |-> TRUE, next |-> h[b].next]
           k == [a \in DOMAIN h \cup {new} |->
                   CASE a = b   -> hb
                     [] a = new -> hn
                     [] OTHER   -> h[a]]
           a0 == Allocation(b, size)
<1>1. PICK L : List(h, L) /\ Owned(h, L, v) /\ Headers(h) /\ L = Range(Blocks(h))
  BY BlocksOfGood DEF Good
<1>2. b \in L /\ h[b].free
  BY <1>1 DEF CanTake
<1>3. Take(h, b, size) = k
  BY DEF Take
<1>4. /\ b \in DOMAIN h /\ b \in Address /\ b \in Nat
      /\ h[b].size \in Nat /\ h[b].size <= HEAP_SIZE
      /\ h[b].next \in Nat /\ (h[b].next # nullptr => h[b].next \in Address)
      /\ h[b].next \in L \cup {nullptr} /\ L \subseteq DOMAIN h
      /\ Behind(h, b) \in Nat /\ Behind(h, b) <= End0
      /\ b + HeaderSize + h[b].size <= Behind(h, b)
  BY <1>1, <1>2, HeaderParts DEF List, Apart
<1>5. /\ new \in Nat /\ b < new /\ new + HeaderSize < Behind(h, b) /\ new \in Address
      /\ new # nullptr
  <2>1. new \in Nat /\ b < new /\ new + HeaderSize < Behind(h, b)
    BY <1>4, HeapBounds
  <2>2. HEAP_START <= new /\ new <= End0
    BY <2>1, <1>4, HeapBounds
  <2>3. new \in Address
    <3> HIDE DEF new
    <3> QED BY <2>1, <2>2, HeapBounds DEF Address, End0
  <2> QED BY <2>1, <2>3, HeapBounds
<1>6. hb \in Header /\ hn \in Header
  <2>1. size \in 0..HEAP_SIZE /\ h[b].size - size - HeaderSize \in 0..HEAP_SIZE
    BY <1>4, HeapBounds
  <2>2. h[b].next \in Address \cup {nullptr} /\ new \in Address \cup {nullptr}
    BY <1>4, <1>5
  <2> HIDE DEF new
  <2> QED BY <2>1, <2>2 DEF Header
<1>7. /\ hb.size = size /\ hb.free = FALSE /\ hb.next = new
      /\ hn.size = h[b].size - size - HeaderSize /\ hn.next = h[b].next
  OBVIOUS
<1> HIDE DEF hb, hn
<1>8. DOMAIN k = DOMAIN h \cup {new} /\ k[b] = hb /\ k[new] = hn
  <2> HIDE DEF new
  <2> QED BY <1>4, <1>5
<1>9. \A a \in DOMAIN h : a # b /\ a # new => k[a] = h[a]
  <2> HIDE DEF new
  <2> QED OBVIOUS
<1>10. new + HeaderSize + hn.size <= Behind(h, b)
  BY <1>4, <1>7, HeapBounds
<1> HIDE DEF k
<1>11. Headers(k)
  <2> HIDE DEF new
  <2>1. DOMAIN k \subseteq Address
    BY <1>1, <1>5, <1>8 DEF Headers
  <2>2. \A a \in DOMAIN k : k[a] \in Header
    BY <1>1, <1>6, <1>8, <1>9 DEF Headers
  <2> QED BY <2>1, <2>2 DEF Headers
<1> HIDE DEF new
<1>12. new \notin L
  <2>1. SUFFICES ASSUME new \in L PROVE FALSE
    OBVIOUS
  <2>2. Behind(h, b) <= new
    BY <1>1, <1>2, <1>5, <2>1 DEF List
  <2> QED BY <1>4, <1>5, <2>2, HeapBounds
<1>13. Behind(k, b) = new /\ Behind(k, new) = Behind(h, b)
  BY <1>5, <1>7, <1>8 DEF Behind
<1>14. \A a \in L : a # b => k[a] = h[a] /\ Behind(k, a) = Behind(h, a)
  BY <1>4, <1>9, <1>12 DEF Behind
<1> DEFINE M == L \cup {new}
<1>15. Apart(k, M)
  <2>1. M \subseteq DOMAIN k
    BY <1>4, <1>8
  <2>2. ASSUME NEW a \in M PROVE /\ k[a].next \in M \cup {nullptr}
                                 /\ a + HeaderSize + k[a].size <= Behind(k, a)
    <3>1. CASE a = b
      <4>1. b + HeaderSize + size <= new
        BY <1>4, HeapBounds DEF new
      <4> QED BY <1>7, <1>8, <1>13, <3>1, <4>1
    <3>2. CASE a = new
      BY <1>4, <1>7, <1>8, <1>10, <1>13, <3>2
    <3>3. CASE a \in L /\ a # b
      BY <1>1, <1>14, <3>3 DEF List, Apart
    <3> QED BY <3>1, <3>2, <3>3
  <2> QED BY <2>1, <2>2 DEF Apart
<1>16. List(k, M)
  <2>1. ASSUME NEW x \in M, NEW y \in M, x < y PROVE Behind(k, x) <= y
    <3>0. \A a \in L : a \in Nat
      BY <1>1, BlockFacts, HeapBounds
    <3>1. CASE x \in L /\ x # b /\ y \in L
      BY <1>1, <1>14, <2>1, <3>1 DEF List
    <3>2. CASE x = b /\ y \in L
      <4>1. Behind(h, b) <= y
        BY <1>1, <1>2, <2>1, <3>2 DEF List
      <4> QED BY <1>4, <1>5, <1>13, <3>0, <3>2, <4>1, HeapBounds
    <3>3. CASE x \in L /\ x # b /\ y = new
      <4>1. ~(b < x)
        <5>1. SUFFICES ASSUME b < x PROVE FALSE
          OBVIOUS
        <5>2. Behind(h, b) <= x
          BY <1>1, <1>2, <3>3, <5>1 DEF List
        <5> QED BY <1>4, <1>5, <2>1, <3>0, <3>3, <5>2, HeapBounds
      <4>2. x < b
        BY <1>4, <3>0, <3>3, <4>1
      <4>3. Behind(h, x) <= b
        BY <1>1, <1>2, <3>3, <4>2 DEF List
      <4>4. Behind(h, x) \in Nat
        BY <1>1, <3>3, BlockFacts
      <4> QED BY <1>4, <1>5, <1>14, <3>3, <4>3, <4>4
    <3>4. CASE x = b /\ y = new
      BY <1>5, <1>13, <3>4
    <3>5. CASE x = new /\ y \in L
      <4>1. b < y
        BY <1>4, <1>5, <2>1, <3>0, <3>5
      <4>2. Behind(h, b) <= y
        BY <1>1, <1>2, <3>5, <4>1 DEF List
      <4> QED BY <1>13, <3>5, <4>2
    <3>6. CASE x = new /\ y = new
      BY <1>5, <2>1, <3>6
    <3> QED BY <3>1, <3>2, <3>3, <3>4, <3>5, <3>6
  <2>2. HEAP_START \in M
    BY <1>1 DEF List
  <2> QED BY <1>15, <2>1, <2>2 DEF List
<1>17. Owned(k, M, v \cup {a0})
  <2>1. a0.ptr = b + HeaderSize /\ a0.size = size /\ a0 \in [ptr : Nat, size : Nat]
    BY <1>4, HeapBounds DEF Allocation
  <2>2. a0.ptr - HeaderSize = b
    BY <1>4, <2>1, HeapBounds
  <2> HIDE DEF a0
  <2>3. ASSUME NEW a \in v
        PROVE  /\ a \in [ptr : Nat, size : Nat] /\ a.ptr - HeaderSize \in M
               /\ a.ptr - HeaderSize # b
               /\ ~k[a.ptr - HeaderSize].free
               /\ a.ptr + a.size <= Behind(k, a.ptr - HeaderSize)
    <3> DEFINE c == a.ptr - HeaderSize
    <3>1. a \in [ptr : Nat, size : Nat] /\ c \in L /\ ~h[c].free /\ a.ptr + a.size <= Behind(h, c)
      BY <1>1 DEF Owned
    <3> HIDE DEF c
    <3>2. c # b
      BY <1>2, <3>1
    <3>3. ~k[c].free /\ a.ptr + a.size <= Behind(k, c)
      BY <1>14, <3>1, <3>2
    <3> QED BY <3>1, <3>2, <3>3 DEF c
  <2>4. a0.ptr + a0.size <= Behind(k, b)
    BY <1>4, <1>13, <2>1, HeapBounds DEF new
  <2>5. \A a, c \in v \cup {a0} : a.ptr = c.ptr => a = c
    <3>1. \A a, c \in v : a.ptr = c.ptr => a = c
      BY <1>1 DEF Owned
    <3>2. \A a \in v : a.ptr # a0.ptr
      BY <2>2, <2>3
    <3> QED BY <3>1, <3>2
  <2>6. v \cup {a0} \subseteq [ptr : Nat, size : Nat]
    BY <2>1, <2>3
  <2>7. ASSUME NEW a \in v \cup {a0}
        PROVE  LET c == a.ptr - HeaderSize IN
                 c \in M /\ ~k[c].free /\ a.ptr + a.size <= Behind(k, c)
    <3>1. CASE a \in v
      BY <2>3, <3>1
    <3>2. CASE a = a0
      BY <1>2, <1>7, <1>8, <2>2, <2>4, <3>2
    <3> QED BY <3>1, <3>2
  <2> QED BY <2>5, <2>6, <2>7 DEF Owned
<1> QED BY <1>3, <1>11, <1>16, <1>17 DEF Good

\* A block is taken by nobody else: the new allocation is added to the others.
LEMMA TakeKeeps ==
  ASSUME NEW h, NEW v, Good(h, v), NEW size \in Nat, NEW b, CanTake(h, b, size)
  PROVE  Good(Take(h, b, size), v \cup {Allocation(b, size)})
BY TakeWhole, TakeSplit
-----------------------------------------------------------------------------
(***************************************************************************)
(* kfree: what its stores make of the headers.                             *)
(***************************************************************************)
LEMMA ZeroFacts ==
  ASSUME NEW h, Headers(h), NEW word \in Nat
  PROVE  /\ DOMAIN ZeroWord(h, word) = DOMAIN h /\ Headers(ZeroWord(h, word))
         /\ \A b \in DOMAIN h :
              /\ ZeroWord(h, word)[b].free = h[b].free
              /\ ZeroWord(h, word)[b].next = h[b].next
              /\ ZeroWord(h, word)[b].size \in Nat /\ ZeroWord(h, word)[b].size <= h[b].size
              /\ Behind(ZeroWord(h, word), b) = Behind(h, b)
<1> DEFINE k == ZeroWord(h, word)
<1>1. DOMAIN k = DOMAIN h
  BY DEF ZeroWord
<1>2. ASSUME NEW b \in DOMAIN h
      PROVE  /\ k[b] \in Header /\ k[b].free = h[b].free /\ k[b].next = h[b].next
             /\ k[b].size \in Nat /\ k[b].size <= h[b].size
  <2>1. h[b] \in Header /\ h[b].size \in 0..HEAP_SIZE
    BY DEF Headers, Header
  <2> DEFINE n == h[b].size
  <2>2. \A d \in Nat \ {0} : n - (n % d) \in 0..HEAP_SIZE /\ n - (n % d) <= n
    <3>1. ASSUME NEW d \in Nat \ {0} PROVE n % d \in 0..n
      <4>1. n \in Nat
        BY <2>1, HeapBounds
      <4> HIDE DEF n
      <4>2. n % d \in 0..(d - 1) /\ n = d * (n \div d) + (n % d) /\ n \div d \in Nat
        BY <4>1
      <4>3. d * (n \div d) >= 0
        BY <4>2
      <4> QED BY <4>1, <4>2, <4>3
    <3> QED BY <2>1, <3>1, HeapBounds
  <2>3. \E z \in 0..HEAP_SIZE : z <= n /\ k[b] = [h[b] EXCEPT !.size = z]
    <3>1. CASE b \notin word..(word + 3)
      <4>1. k[b] = h[b]
        BY <3>1 DEF ZeroWord
      <4>2. h[b] = [h[b] EXCEPT !.size = n]
        BY <2>1 DEF Header
      <4> QED BY <2>1, <4>1, <4>2, HeapBounds
    <3>2. CASE b \in word..(word + 3)
      <4> DEFINE z == CASE b = word + 3 -> n - (n % 256)
                        [] b = word + 2 -> n - (n % 65536)
                        [] OTHER -> 0
      <4>1. k[b] = [h[b] EXCEPT !.size = z]
        BY <3>2 DEF ZeroWord
      <4>2. z \in 0..HEAP_SIZE /\ z <= n
        <5>1. n - (n % 256) \in 0..HEAP_SIZE /\ n - (n % 256) <= n
          BY <2>2
        <5>2. n - (n % 65536) \in 0..HEAP_SIZE /\ n - (n % 65536) <= n
          BY <2>2
        <5>3. 0 \in 0..HEAP_SIZE /\ 0 <= n
          BY <2>1, HeapBounds
        <5> HIDE DEF n
        <5> QED BY <5>1, <5>2, <5>3
      <4> QED BY <4>1, <4>2
    <3> QED BY <3>1, <3>2
  <2>4. PICK z \in 0..HEAP_SIZE : z <= n /\ k[b] = [h[b] EXCEPT !.size = z]
    BY <2>3
  <2>5. [h[b] EXCEPT !.size = z] \in Header
        /\ [h[b] EXCEPT !.size = z].free = h[b].free
        /\ [h[b] EXCEPT !.size = z].next = h[b].next
        /\ [h[b] EXCEPT !.size = z].size = z
    BY <2>1 DEF Header
  <2>6. z \in Nat
    BY HeapBounds
  <2> HIDE DEF k
  <2> QED BY <2>4, <2>5, <2>6
<1> HIDE DEF k
<1>3. Headers(k)
  BY <1>1, <1>2 DEF Headers
<1>4. \A b \in DOMAIN h : Behind(k, b) = Behind(h, b)
  BY <1>2 DEF Behind
<1> QED BY <1>1, <1>2, <1>3, <1>4 DEF k

\* Headers whose sizes are no greater and which lead on as before.
Shrunk(h, k) ==
  /\ DOMAIN k = DOMAIN h /\ Headers(k)
  /\ \A b \in DOMAIN h : /\ k[b].free = h[b].free /\ k[b].next = h[b].next
                         /\ k[b].size \in Nat /\ k[b].size <= h[b].size
                         /\ Behind(k, b) = Behind(h, b)

LEMMA ShrunkApart ==
  ASSUME NEW h, NEW k, Headers(h), Shrunk(h, k), NEW N, Apart(h, N)
  PROVE  Apart(k, N)
<1>1. N \subseteq DOMAIN k
  BY DEF Shrunk, Apart
<1>2. ASSUME NEW b \in N PROVE b + HeaderSize + k[b].size <= Behind(k, b)
  <2>1. /\ b \in DOMAIN h /\ b \in Nat /\ h[b].size \in Nat /\ Behind(h, b) \in Nat
        /\ b + HeaderSize + h[b].size <= Behind(h, b)
    BY HeaderParts DEF Apart
  <2>2. k[b].size \in Nat /\ k[b].size <= h[b].size /\ Behind(k, b) = Behind(h, b)
    BY <2>1 DEF Shrunk
  <2> QED BY <2>1, <2>2, HeapBounds
<1>3. \A b \in N : k[b].next \in N \cup {nullptr}
  BY DEF Shrunk, Apart
<1> QED BY <1>1, <1>2, <1>3 DEF Apart

LEMMA ShrunkList ==
  ASSUME NEW h, NEW k, Headers(h), Shrunk(h, k), NEW L, List(h, L)
  PROVE  /\ List(k, L)
         /\ \A v : Owned(h, L, v) => Owned(k, L, v)
<1>1. Apart(h, L) /\ L \subseteq DOMAIN h
  BY DEF List, Apart
<1>2. Apart(k, L)
  BY <1>1, ShrunkApart
<1>3. \A b \in L : Behind(k, b) = Behind(h, b) /\ k[b].free = h[b].free
  BY <1>1 DEF Shrunk
<1>4. List(k, L)
  BY <1>2, <1>3 DEF List
<1>5. ASSUME NEW v, Owned(h, L, v) PROVE Owned(k, L, v)
  BY <1>3, <1>5 DEF Owned
<1> QED BY <1>4, <1>5

LEMMA ShrunkGood ==
  ASSUME NEW h, NEW k, NEW v, Good(h, v), Shrunk(h, k)
  PROVE  Good(k, v)
<1>1. PICK L : Headers(h) /\ List(h, L) /\ Owned(h, L, v)
  BY DEF Good
<1>2. List(k, L) /\ Owned(k, L, v)
  BY <1>1, ShrunkList
<1> QED BY <1>2 DEF Good, Shrunk

LEMMA ZeroKeeps ==
  ASSUME NEW h, NEW v, Good(h, v), NEW word \in Nat
  PROVE  Good(ZeroWord(h, word), v)
<1>1. Headers(h)
  BY DEF Good
<1>2. Shrunk(h, ZeroWord(h, word))
  BY <1>1, ZeroFacts DEF Shrunk
<1> QED BY <1>2, ShrunkGood

\* Block b absorbs the one behind it.
LEMMA AbsorbFacts ==
  ASSUME NEW h, Headers(h), NEW N, Apart(h, N), NEW b \in N, h[b].next # nullptr
  PROVE  LET mid == h[b].next
             k == Absorbed(h, b)
         IN /\ DOMAIN k = DOMAIN h /\ Headers(k) /\ Apart(k, N)
            /\ mid \in N /\ b < mid /\ mid \in Nat /\ b \in Nat
            /\ Behind(h, b) = mid /\ mid < Behind(h, mid) /\ Behind(h, mid) \in Nat
            /\ k[b].free = h[b].free /\ k[b].next = h[mid].next
            /\ Behind(k, b) = Behind(h, mid)
            /\ \A a \in DOMAIN h : a # b => k[a] = h[a] /\ Behind(k, a) = Behind(h, a)
<1> DEFINE mid == h[b].next
           k == Absorbed(h, b)
           size == h[b].size + h[mid].size + HeaderSize
<1>1. /\ mid \in N /\ N \subseteq DOMAIN h /\ Behind(h, b) = mid
      /\ b + HeaderSize + h[b].size <= mid
      /\ mid + HeaderSize + h[mid].size <= Behind(h, mid)
      /\ h[mid].next \in N \cup {nullptr}
  BY DEF Apart, Behind
<1>2. b \in DOMAIN h /\ mid \in DOMAIN h
  BY <1>1
<1>3. /\ b \in Nat /\ mid \in Nat /\ h[b].size \in Nat /\ h[mid].size \in Nat
      /\ Behind(h, mid) \in Nat /\ Behind(h, mid) <= End0
  BY <1>2, HeaderParts
<1>4. b < mid /\ mid < Behind(h, mid)
  BY <1>1, <1>3, HeapBounds
<1>5. b + HeaderSize + size <= Behind(h, mid) /\ size \in Nat
  BY <1>1, <1>3, HeapBounds
<1>6. size \in 0..HEAP_SIZE
  <2>1. HEAP_START <= b /\ End0 = HEAP_START + HEAP_SIZE
    BY <1>2, HeapBounds DEF End0, Headers
  <2> HIDE DEF size
  <2> QED BY <1>3, <1>5, <2>1, HeapBounds
<1>7. DOMAIN k = DOMAIN h
  BY DEF Absorbed
<1>8. k[b] = [[h[b] EXCEPT !.size = size] EXCEPT !.next = h[mid].next]
  BY <1>2 DEF Absorbed
<1>9. h[b] \in Header /\ h[mid].next \in Address \cup {nullptr}
  BY <1>2 DEF Headers, Header
<1> HIDE DEF size
<1>10. k[b] \in Header /\ k[b].size = size /\ k[b].free = h[b].free /\ k[b].next = h[mid].next
  BY <1>6, <1>8, <1>9 DEF Header
<1>11. \A a \in DOMAIN h : a # b => k[a] = h[a]
  BY DEF Absorbed
<1> HIDE DEF k
<1>12. Headers(k)
  BY <1>7, <1>10, <1>11 DEF Headers
<1>13. Behind(k, b) = Behind(h, mid) /\ \A a \in DOMAIN h : a # b => Behind(k, a) = Behind(h, a)
  BY <1>10, <1>11 DEF Behind
<1>14. Apart(k, N)
  <2>1. ASSUME NEW a \in N PROVE /\ k[a].next \in N \cup {nullptr}
                                 /\ a + HeaderSize + k[a].size <= Behind(k, a)
    <3>1. CASE a = b
      BY <1>1, <1>5, <1>10, <1>13, <3>1
    <3>2. CASE a # b
      BY <1>1, <1>11, <1>13, <3>2 DEF Apart
    <3> QED BY <3>1, <3>2
  <2> QED BY <1>1, <1>7, <2>1 DEF Apart
<1> QED BY <1>1, <1>3, <1>4, <1>7, <1>10, <1>11, <1>12, <1>13, <1>14 DEF k

\* Free neighbours in the list become one; behind a block that has left it,
\* nothing of the list changes.
LEMMA AbsorbKeeps ==
  ASSUME NEW h, Headers(h), NEW N, Apart(h, N), NEW L, L \subseteq N, List(h, L),
         NEW v, Owned(h, L, v),
         NEW b \in N, h[b].free, h[b].next # nullptr, h[h[b].next].free
  PROVE  \E M : M \subseteq N /\ List(Absorbed(h, b), M) /\ Owned(Absorbed(h, b), M, v)
<1> DEFINE mid == h[b].next
           k == Absorbed(h, b)
<1>1. /\ DOMAIN k = DOMAIN h /\ Headers(k) /\ Apart(k, N)
      /\ mid \in N /\ b < mid /\ mid \in Nat /\ b \in Nat
      /\ Behind(h, b) = mid /\ mid < Behind(h, mid) /\ Behind(h, mid) \in Nat
      /\ k[b].free = h[b].free /\ k[b].next = h[mid].next
      /\ Behind(k, b) = Behind(h, mid)
      /\ \A a \in DOMAIN h : a # b => k[a] = h[a] /\ Behind(k, a) = Behind(h, a)
  <2>1. Headers(h) /\ Apart(h, N) /\ b \in N /\ h[b].next # nullptr
    OBVIOUS
  <2> QED BY ONLY <2>1, AbsorbFacts
<1> HIDE DEF k
<1>2. L \subseteq DOMAIN h /\ HEAP_START \in L /\ \A a \in L : a \in Nat /\ HEAP_START <= a
  BY HeapBounds DEF List, Apart, Headers
<1>3. CASE b \notin L
  <2>1. \A a \in L : k[a] = h[a] /\ Behind(k, a) = Behind(h, a)
    BY <1>1, <1>2, <1>3
  <2>2. List(k, L)
    BY <1>1, <1>2, <2>1 DEF List, Apart
  <2>3. Owned(k, L, v)
    BY <2>1 DEF Owned
  <2> QED BY <2>2, <2>3 DEF k
<1>4. CASE b \in L
  <2> DEFINE M == L \ {mid}
  <2>1. mid \in L
    BY <1>4 DEF List, Apart
  <2>2. \A a \in L : a # b => k[a] = h[a] /\ Behind(k, a) = Behind(h, a)
    BY <1>1, <1>2
  <2>3. ASSUME NEW a \in M, a # b PROVE h[a].next # mid
    <3>1. SUFFICES ASSUME h[a].next = mid PROVE FALSE
      OBVIOUS
    <3>2. Behind(h, a) = mid
      BY <3>1 DEF Behind
    <3>3. a \in Nat /\ a \in L
      BY <1>2
    <3>4. CASE a < b
      <4>1. mid <= b
        BY <1>4, <3>2, <3>3, <3>4 DEF List
      <4> QED BY <1>1, <4>1
    <3>5. CASE b < a
      <4>1. mid <= a
        BY <1>1, <1>4, <3>3, <3>5 DEF List
      <4>2. a + HeaderSize + h[a].size <= mid
        BY <3>2, <3>3 DEF List, Apart
      <4>3. h[a].size \in Nat
        BY <1>2, <3>3, HeaderParts
      <4> QED BY <1>1, <3>3, <4>1, <4>2, <4>3, HeapBounds
    <3> QED BY <1>1, <2>3, <3>3, <3>4, <3>5
  <2>4. Apart(k, M)
    <3>1. ASSUME NEW a \in M PROVE k[a].next \in M \cup {nullptr}
      <4>1. CASE a = b
        <5>1. h[mid].next \in L \cup {nullptr}
          BY <2>1 DEF List, Apart
        <5>2. h[mid].next # mid
          <6>1. SUFFICES ASSUME h[mid].next = mid PROVE FALSE
            OBVIOUS
          <6>2. Behind(h, mid) = mid
            BY <6>1 DEF Behind
          <6> QED BY <1>1, <6>2
        <5> QED BY <1>1, <4>1, <5>1, <5>2
      <4>2. CASE a # b
        <5>1. k[a] = h[a] /\ h[a].next \in L \cup {nullptr}
          BY <2>2, <4>2 DEF List, Apart
        <5> QED BY <2>3, <4>2, <5>1
      <4> QED BY <4>1, <4>2
    <3>2. M \subseteq N /\ M \subseteq DOMAIN k
      BY <1>1, <1>2
    <3> QED BY <1>1, <3>1, <3>2 DEF Apart
  <2>5. ASSUME NEW x \in M, NEW y \in M, x < y PROVE Behind(k, x) <= y
    <3>0. x \in L /\ y \in L /\ y # mid /\ y \in Nat
      BY <1>2
    <3>1. CASE x = b
      <4>1. mid <= y
        BY <1>1, <1>4, <2>5, <3>0, <3>1 DEF List
      <4>2. mid < y
        BY <1>1, <3>0, <4>1
      <4>3. Behind(h, mid) <= y
        BY <2>1, <3>0, <4>2 DEF List
      <4> QED BY <1>1, <3>1, <4>3
    <3>2. CASE x # b
      BY <2>2, <2>5, <3>0, <3>2 DEF List
    <3> QED BY <3>1, <3>2
  <2>6. HEAP_START \in M
    <3>1. HEAP_START <= b /\ HEAP_START # mid
      BY <1>1, <1>2, <1>4, HeapBounds
    <3> QED BY <1>2, <3>1
  <2>7. List(k, M)
    BY <2>4, <2>5, <2>6 DEF List
  <2>8. Owned(k, M, v)
    <3>1. ASSUME NEW a \in v
          PROVE  LET c == a.ptr - HeaderSize IN
                   c \in M /\ ~k[c].free /\ a.ptr + a.size <= Behind(k, c)
      <4> DEFINE c == a.ptr - HeaderSize
      <4>1. c \in L /\ ~h[c].free /\ a.ptr + a.size <= Behind(h, c)
        BY DEF Owned
      <4> HIDE DEF c
      <4>2. c # b /\ c # mid
        BY <4>1
      <4>3. c \in M /\ ~k[c].free /\ a.ptr + a.size <= Behind(k, c)
        BY <2>2, <4>1, <4>2
      <4> QED BY <4>3 DEF c
    <3>2. /\ v \subseteq [ptr : Nat, size : Nat]
          /\ \A a, c \in v : a.ptr = c.ptr => a = c
      BY DEF Owned
    <3> HIDE DEF M
    <3> QED BY <3>1, <3>2 DEF Owned
  <2>9. M \subseteq N
    OBVIOUS
  <2> HIDE DEF M
  <2> QED BY <2>7, <2>8, <2>9 DEF k
<1> QED BY <1>3, <1>4
-----------------------------------------------------------------------------
(***************************************************************************)
(* The merging loop, in whatever calls of kfree it is: blocks of N lead to *)
(* blocks of N only, and some of them are still the list.  A call that     *)
(* goes on may stand at a block that an inner one has merged away.         *)
(***************************************************************************)
Calls(N) == [at : N, clears : N]

Merging(c, N, v) ==
  /\ Headers(c.hdr) /\ Apart(c.hdr, N)
  /\ \E L : L \subseteq N /\ List(c.hdr, L) /\ Owned(c.hdr, L, v)
  /\ c.at \in N \cup {nullptr} /\ c.waiting \in Seq(Calls(N))

LEMMA LoopParts ==
  ASSUME NEW h, NEW b, NEW w
  PROVE  Loop(h, b, w).hdr = h /\ Loop(h, b, w).at = b /\ Loop(h, b, w).waiting = w
BY DEF Loop

LEMMA TurnCases ==
  ASSUME NEW c, NEW d \in Turn(c)
  PROVE  LET h == c.hdr
             mid == h[c.at].next
             next == h[mid].next
             caller == c.waiting[Len(c.waiting)]
             cleared == ZeroWord(h, caller.clears)
         IN \/ d = c
            \/ /\ c.waiting # <<>>
               /\ d = Loop(cleared, cleared[caller.at].next, Front(c.waiting))
            \/ c.at # nullptr /\ d = Loop(h, mid, c.waiting)
            \/ /\ c.at # nullptr /\ h[c.at].free /\ mid # nullptr /\ h[mid].free
               /\ \/ d = Loop(Absorbed(h, c.at), next, c.waiting)
                  \/ /\ next # nullptr
                     /\ d = Loop(Absorbed(h, c.at), HEAP_START,
                                 Append(c.waiting, [at |-> c.at, clears |-> next]))
BY DEF Turn

LEMMA FrontOf ==
  ASSUME NEW S, NEW w \in Seq(S), w # <<>>
  PROVE  Front(w) \in Seq(S) /\ w[Len(w)] \in S
<1>1. Len(w) \in Nat /\ Len(w) >= 1
  OBVIOUS
<1>2. SubSeq(w, 1, Len(w) - 1) \in Seq(S)
  BY <1>1
<1> QED BY <1>1, <1>2 DEF Front

LEMMA TurnKeeps ==
  ASSUME NEW c, NEW N, NEW v, Merging(c, N, v), NEW d \in Turn(c)
  PROVE  Merging(d, N, v)
<1> DEFINE h == c.hdr
           mid == h[c.at].next
           next == h[mid].next
           caller == c.waiting[Len(c.waiting)]
           cleared == ZeroWord(h, caller.clears)
<1>1. PICK L : L \subseteq N /\ List(h, L) /\ Owned(h, L, v)
  BY DEF Merging
<1>2. /\ Headers(h) /\ Apart(h, N) /\ N \subseteq DOMAIN h
      /\ c.at \in N \cup {nullptr} /\ c.waiting \in Seq(Calls(N))
      /\ HEAP_START \in N /\ HEAP_START # nullptr
  BY <1>1, HeapBounds DEF Merging, Apart, List, nullptr
<1>3. CASE d = c
  BY <1>3
<1>4. CASE /\ c.waiting # <<>>
           /\ d = Loop(cleared, cleared[caller.at].next, Front(c.waiting))
  <2>1. caller \in Calls(N) /\ Front(c.waiting) \in Seq(Calls(N))
    BY <1>2, <1>4, FrontOf
  <2>2. caller.at \in N /\ caller.clears \in N
    BY <2>1 DEF Calls
  <2>3. caller.clears \in Nat
    BY <1>2, <2>2, HeaderParts
  <2> HIDE DEF caller, h
  <2>4. Shrunk(h, cleared)
    BY <1>2, <2>3, ZeroFacts DEF Shrunk
  <2> HIDE DEF cleared
  <2>5. Headers(cleared) /\ Apart(cleared, N) /\ List(cleared, L) /\ Owned(cleared, L, v)
    BY <1>1, <1>2, <2>4, ShrunkApart, ShrunkList DEF Shrunk
  <2>6. cleared[caller.at].next \in N \cup {nullptr}
    BY <2>2, <2>5 DEF Apart
  <2>7. /\ d.hdr = cleared /\ d.at = cleared[caller.at].next
        /\ d.waiting = Front(c.waiting)
    BY <1>4, LoopParts
  <2> QED BY <1>1, <2>1, <2>5, <2>6, <2>7 DEF Merging
<1>5. CASE c.at # nullptr /\ d = Loop(h, mid, c.waiting)
  <2>1. d.hdr = h /\ d.at = mid /\ d.waiting = c.waiting
    BY <1>5, LoopParts
  <2>2. mid \in N \cup {nullptr}
    BY <1>2, <1>5 DEF Apart
  <2> HIDE DEF mid, h
  <2> QED BY <1>1, <1>2, <2>1, <2>2 DEF Merging
<1>6. ASSUME c.at # nullptr, h[c.at].free, mid # nullptr, h[mid].free
      PROVE  /\ Headers(Absorbed(h, c.at)) /\ Apart(Absorbed(h, c.at), N)
             /\ \E M : /\ M \subseteq N /\ List(Absorbed(h, c.at), M)
                       /\ Owned(Absorbed(h, c.at), M, v)
             /\ c.at \in N /\ next \in N \cup {nullptr}
  <2>1. c.at \in N
    BY <1>2, <1>6
  <2>2. mid \in N
    BY <1>2, <1>6, <2>1 DEF Apart
  <2>3. next \in N \cup {nullptr}
    BY <1>2, <2>2 DEF Apart
  <2> DEFINE b == c.at
  <2>4. Headers(h) /\ Apart(h, N) /\ b \in N /\ h[b].next # nullptr
    BY <1>2, <1>6, <2>1
  <2>5. /\ L \subseteq N /\ List(h, L) /\ Owned(h, L, v) /\ h[b].free /\ h[h[b].next].free
    BY <1>1, <1>6
  <2> HIDE DEF h, b
  <2>6. Headers(Absorbed(h, b)) /\ Apart(Absorbed(h, b), N)
    BY ONLY <2>4, AbsorbFacts
  <2>7. \E M : M \subseteq N /\ List(Absorbed(h, b), M) /\ Owned(Absorbed(h, b), M, v)
    BY ONLY <2>4, <2>5, AbsorbKeeps
  <2> QED BY <2>1, <2>3, <2>6, <2>7 DEF b
<1>7. CASE /\ c.at # nullptr /\ h[c.at].free /\ mid # nullptr /\ h[mid].free
           /\ d = Loop(Absorbed(h, c.at), next, c.waiting)
  <2> HIDE DEF next, mid, h
  <2>1. /\ d.hdr = Absorbed(h, c.at) /\ d.at = next /\ d.waiting = c.waiting
    BY <1>7, LoopParts
  <2> QED BY <1>2, <1>6, <1>7, <2>1 DEF Merging
<1>8. CASE /\ c.at # nullptr /\ h[c.at].free /\ mid # nullptr /\ h[mid].free
           /\ next # nullptr
           /\ d = Loop(Absorbed(h, c.at), HEAP_START,
                       Append(c.waiting, [at |-> c.at, clears |-> next]))
  <2> DEFINE w == Append(c.waiting, [at |-> c.at, clears |-> next])
             k == Absorbed(h, c.at)
  <2>0. d = Loop(k, HEAP_START, w)
    BY <1>8
  <2> HIDE DEF w, k
  <2>1. d.hdr = k /\ d.at = HEAP_START /\ d.waiting = w
    BY ONLY <2>0, LoopParts
  <2> HIDE DEF next, mid, h
  <2>2. [at |-> c.at, clears |-> next] \in Calls(N)
    BY <1>6, <1>8 DEF Calls
  <2>3. w \in Seq(Calls(N))
    BY <1>2, <2>2, AppendProperties DEF w
  <2> QED BY <1>2, <1>6, <1>8, <2>1, <2>3 DEF Merging, k
<1>9. \/ d = c
      \/ /\ c.waiting # <<>>
         /\ d = Loop(cleared, cleared[caller.at].next, Front(c.waiting))
      \/ c.at # nullptr /\ d = Loop(h, mid, c.waiting)
      \/ /\ c.at # nullptr /\ h[c.at].free /\ mid # nullptr /\ h[mid].free
         /\ \/ d = Loop(Absorbed(h, c.at), next, c.waiting)
            \/ /\ next # nullptr
               /\ d = Loop(Absorbed(h, c.at), HEAP_START,
                           Append(c.waiting, [at |-> c.at, clears |-> next]))
  <2>1. d \in Turn(c)
    OBVIOUS
  <2> QED BY ONLY <2>1, TurnCases
<1> HIDE DEF next, mid, h, caller, cleared
<1> QED BY <1>3, <1>4, <1>5, <1>7, <1>8, <1>9

\* The loop as a function: what each turn makes of the outcomes before it.
LEMMA MergeSteps ==
  ASSUME NEW h, NEW m \in Nat, m = Turns(h)
  PROVE  \E g : /\ Merge(h) = {c.hdr : c \in g[m]} /\ g[0] = {Loop(h, HEAP_START, <<>>)}
                /\ \A k \in 1..m : g[k] = UNION {Turn(c) : c \in g[k - 1]}
<1> DEFINE Is(g, n) ==
             g = [k \in 0..n |-> IF k = 0 THEN {Loop(h, HEAP_START, <<>>)}
                                 ELSE UNION {Turn(c) : c \in g[k - 1]}]
           T == {n \in Nat : \E g : Is(g, n)}
<1>1. 0 \in T
  <2> DEFINE g == [k \in 0..0 |-> {Loop(h, HEAP_START, <<>>)}]
  <2>1. Is(g, 0)
    OBVIOUS
  <2> QED BY <2>1
<1>2. ASSUME NEW n \in T PROVE n + 1 \in T
  <2>1. PICK g : Is(g, n)
    OBVIOUS
  <2> DEFINE f == [k \in 0..(n + 1) |-> IF k = n + 1 THEN UNION {Turn(c) : c \in g[n]}
                                        ELSE g[k]]
  <2>2. ASSUME NEW k \in 0..(n + 1)
        PROVE  f[k] = IF k = 0 THEN {Loop(h, HEAP_START, <<>>)}
                      ELSE UNION {Turn(c) : c \in f[k - 1]}
    <3>1. CASE k = n + 1
      <4>1. f[k] = UNION {Turn(c) : c \in g[n]}
        BY <3>1
      <4>2. k - 1 = n /\ k # 0 /\ n \in 0..(n + 1) /\ n # n + 1
        BY <3>1
      <4>3. f[k - 1] = g[n]
        BY <4>2
      <4> HIDE DEF f
      <4> QED BY <4>1, <4>2, <4>3
    <3>2. CASE k \in 0..n /\ k # 0
      <4>1. f[k] = g[k] /\ f[k - 1] = g[k - 1]
        BY <3>2
      <4>2. g[k] = UNION {Turn(c) : c \in g[k - 1]}
        <5> HIDE DEF f
        <5> QED BY <2>1, <3>2
      <4> QED BY <3>2, <4>1, <4>2
    <3>3. CASE k = 0
      <4>1. f[0] = g[0]
        OBVIOUS
      <4>2. g[0] = {Loop(h, HEAP_START, <<>>)}
        <5> HIDE DEF f
        <5> QED BY <2>1
      <4> QED BY <3>3, <4>1, <4>2
    <3> QED BY <3>1, <3>2, <3>3
  <2>3. Is(f, n + 1)
    BY <2>2
  <2>4. n + 1 \in Nat
    OBVIOUS
  <2> HIDE DEF f, Is
  <2> QED BY <2>3, <2>4
<1>3. \E g : Is(g, m)
  <2> HIDE DEF T
  <2>0. T \in SUBSET Nat
    BY DEF T
  <2>1. m \in T
    BY <1>1, <1>2, <2>0, NatSetInduction
  <2> QED BY <2>1 DEF T
<1> DEFINE w == CHOOSE g : Is(g, m)
<1>4. Merge(h) = {c.hdr : c \in w[m]}
  BY DEF Merge
<1>5. Is(w, m)
  BY <1>3
<1> HIDE DEF w
<1>6. w[0] = {Loop(h, HEAP_START, <<>>)}
  BY <1>5
<1>7. \A k \in 1..m : w[k] = UNION {Turn(c) : c \in w[k - 1]}
  BY <1>5
<1> QED BY <1>4, <1>6, <1>7

LEMMA MergeKeeps ==
  ASSUME NEW h, NEW v, Good(h, v), NEW k \in Merge(h)
  PROVE  Good(k, v)
<1>1. PICK N : Headers(h) /\ List(h, N) /\ Owned(h, N, v)
  BY DEF Good
<1> DEFINE m == Turns(h)
<1>2. m \in Nat
  <2>1. Cardinality(DOMAIN h) \in Nat
    BY <1>1, HeapBounds, FS_Subset, FS_CardinalityType DEF Headers
  <2> QED BY <2>1 DEF Turns
<1> HIDE DEF m
<1>3. PICK g : /\ Merge(h) = {c.hdr : c \in g[m]} /\ g[0] = {Loop(h, HEAP_START, <<>>)}
               /\ \A n \in 1..m : g[n] = UNION {Turn(c) : c \in g[n - 1]}
  BY <1>2, MergeSteps DEF m
<1> DEFINE T == {n \in Nat : n <= m => \A c \in g[n] : Merging(c, N, v)}
<1>4. 0 \in T
  <2> DEFINE c == Loop(h, HEAP_START, <<>>)
  <2>1. c.hdr = h /\ c.at = HEAP_START /\ c.waiting = <<>>
    BY LoopParts
  <2> HIDE DEF c
  <2>2. Merging(c, N, v)
    BY <1>1, <2>1 DEF Merging, List
  <2> QED BY <1>3, <2>2 DEF c
<1>5. ASSUME NEW n \in T PROVE n + 1 \in T
  <2>1. ASSUME n + 1 <= m, NEW d \in g[n + 1] PROVE Merging(d, N, v)
    <3>1. n <= m /\ n + 1 \in 1..m /\ (n + 1) - 1 = n
      BY <1>2, <2>1
    <3>2. PICK c \in g[n] : d \in Turn(c)
      BY <1>3, <2>1, <3>1
    <3>3. Merging(c, N, v)
      BY <3>1, <3>2
    <3> QED BY <3>2, <3>3, TurnKeeps
  <2> QED BY <2>1
<1>6. m \in T
  <2>1. T \in SUBSET Nat
    OBVIOUS
  <2> HIDE DEF T
  <2> QED BY <1>2, <1>4, <1>5, <2>1, NatSetInduction
<1>7. PICK c \in g[m] : k = c.hdr
  BY <1>3
<1>8. Merging(c, N, v)
  BY <1>2, <1>6, <1>7
<1> QED BY <1>7, <1>8 DEF Merging, Good

\* A block of nobody may be marked free.
LEMMA MarkKeeps ==
  ASSUME NEW h, NEW v, Good(h, v), NEW a \in v
  PROVE  LET b == a.ptr - HeaderSize IN
           Good([h EXCEPT ![b].free = TRUE], v \ {a}) /\ Good(h, v \ {a})
<1> DEFINE b == a.ptr - HeaderSize
           k == [h EXCEPT ![b].free = TRUE]
<1>1. PICK L : Headers(h) /\ List(h, L) /\ Owned(h, L, v)
  BY DEF Good
<1>2. b \in L /\ b \in DOMAIN h /\ L \subseteq DOMAIN h
  BY <1>1 DEF Owned, List, Apart
<1>3. Owned(h, L, v \ {a})
  BY <1>1 DEF Owned
<1>4. /\ DOMAIN k = DOMAIN h
      /\ \A c \in DOMAIN h : /\ k[c].next = h[c].next /\ k[c].size = h[c].size
                             /\ k[c] \in Header /\ (c # b => k[c] = h[c])
  <2>1. DOMAIN k = DOMAIN h
    OBVIOUS
  <2>2. h[b] \in Header
    BY <1>1, <1>2 DEF Headers
  <2>3. k[b] = [h[b] EXCEPT !.free = TRUE]
    BY <1>2
  <2>4. k[b].next = h[b].next /\ k[b].size = h[b].size /\ k[b] \in Header
    BY <2>2, <2>3 DEF Header
  <2>5. \A c \in DOMAIN h : c # b => k[c] = h[c]
    OBVIOUS
  <2> HIDE DEF k
  <2> QED BY <1>1, <2>1, <2>4, <2>5 DEF Headers
<1> HIDE DEF k
<1>5. \A c \in DOMAIN h : Behind(k, c) = Behind(h, c)
  BY <1>4 DEF Behind
<1>6. Headers(k)
  BY <1>1, <1>4 DEF Headers
<1>7. List(k, L)
  BY <1>1, <1>2, <1>4, <1>5 DEF List, Apart
<1>8. Owned(k, L, v \ {a})
  <2>1. ASSUME NEW e \in v \ {a}
        PROVE  LET c == e.ptr - HeaderSize IN
                 c \in L /\ ~k[c].free /\ e.ptr + e.size <= Behind(k, c)
    <3> DEFINE c == e.ptr - HeaderSize
    <3>1. c \in L /\ ~h[c].free /\ e.ptr + e.size <= Behind(h, c)
      BY <1>1 DEF Owned
    <3>2. c # b
      <4>1. e.ptr # a.ptr /\ e.ptr \in Nat /\ a.ptr \in Nat
        BY <1>1 DEF Owned
      <4> QED BY <4>1, HeapBounds
    <3> HIDE DEF c, b
    <3>3. c \in L /\ ~k[c].free /\ e.ptr + e.size <= Behind(k, c)
      BY <1>2, <1>4, <1>5, <3>1, <3>2
    <3> QED BY <3>3 DEF c
  <2>2. /\ v \ {a} \subseteq [ptr : Nat, size : Nat]
        /\ \A e, c \in v \ {a} : e.ptr = c.ptr => e = c
    BY <1>1 DEF Owned
  <2> QED BY <2>1, <2>2 DEF Owned
<1>9. Good(k, v \ {a}) /\ Good(h, v \ {a})
  BY <1>1, <1>3, <1>6, <1>7, <1>8 DEF Good
<1> QED BY <1>9 DEF k

LEMMA UnmarkedKeeps ==
  ASSUME NEW h, NEW v, Good(h, v), NEW a \in v, NEW k \in Unmarked(h, a.ptr)
  PROVE  Good(k, v \ {a})
<1> DEFINE b == a.ptr - HeaderSize
           j == [h EXCEPT ![b].free = TRUE]
<1>1. Good(j, v \ {a}) /\ Good(h, v \ {a})
  BY MarkKeeps
<1>2. k = h \/ k \in Merge(j)
  BY DEF Unmarked
<1> HIDE DEF j
<1> QED BY <1>1, <1>2, MergeKeeps

\* Headers that are not of the list do not matter to it.
LEMMA ListedKeeps ==
  ASSUME NEW h, NEW v, Good(h, v)
  PROVE  Good(Listed(h), v)
<1> DEFINE L == Range(Blocks(h))
           k == Listed(h)
           D == L \cup ({found[c].block : c \in Context} \cap DOMAIN h)
<1>1. Headers(h) /\ List(h, L) /\ Owned(h, L, v)
  BY BlocksOfGood DEF Good
<1>2. k = [b \in D |-> h[b]]
  BY DEF Listed
<1>3. L \subseteq D /\ L \subseteq DOMAIN h
  BY <1>1 DEF List, Apart
<1> HIDE DEF L
<1>4. D \subseteq DOMAIN h
  BY <1>3
<1> HIDE DEF D, k
<1>5. DOMAIN k = D /\ \A b \in D : k[b] = h[b] /\ Behind(k, b) = Behind(h, b)
  BY <1>2 DEF Behind
<1>6. Headers(k)
  BY <1>1, <1>4, <1>5 DEF Headers
<1>7. List(k, L)
  BY <1>1, <1>3, <1>5 DEF List, Apart
<1>8. Owned(k, L, v)
  BY <1>1, <1>3, <1>5 DEF Owned
<1> QED BY <1>6, <1>7, <1>8 DEF Good, k
-----------------------------------------------------------------------------
(***************************************************************************)
(* One lemma per operation of the heap.                                    *)
(***************************************************************************)
LEMMA AllocationOf ==
  ASSUME NEW b, NEW size
  PROVE  Allocation(b, size).ptr = b + HeaderSize /\ Allocation(b, size).size = size
BY DEF Allocation

\* What can be taken lies in the heap.
LEMMA TakenInHeap ==
  ASSUME NEW h, NEW v, Good(h, v), NEW b \in Range(Blocks(h))
  PROVE  b \in Nat /\ b + HeaderSize \in Address
<1>1. PICK L : Headers(h) /\ List(h, L) /\ L = Range(Blocks(h))
  BY BlocksOfGood DEF Good
<1>2. /\ b \in Address /\ h[b].size \in Nat /\ Behind(h, b) \in Nat
      /\ b + HeaderSize + h[b].size <= Behind(h, b) /\ Behind(h, b) <= End0
  BY <1>1, BlockFacts
<1>3. b \in Nat /\ HEAP_START <= b + HeaderSize /\ b + HeaderSize <= End0
      /\ b + HeaderSize \in Nat
  BY <1>2, HeapBounds
<1>4. Address = HEAP_START..End0
  BY DEF Address, End0
<1> QED BY <1>3, <1>4, HeapBounds

LEMMA FindKeeps ==
  ASSUME HeapInv, NEW c \in Context, NEW size \in Nat, kmalloc_find(c, size)
  PROVE  HeapInv'
<1> DEFINE b == FirstFit(hdr, size)
<1>1. /\ ~raced /\ Good(hdr, live) /\ FoundInHeap /\ Fits(hdr, size) # {} /\ HeapTypeOK
      /\ found' = [found EXCEPT ![c] = [block |-> b, size |-> size]]
      /\ hdr' = hdr /\ live' = live /\ freed' = freed /\ raced' = raced
  BY DEF kmalloc_find, Outside, HeapInv
<1>2. b \in Range(Blocks(hdr))
  BY <1>1, FirstCanTake DEF CanTake
<1>3. b \in Nat /\ b + HeaderSize \in Address
  BY <1>1, <1>2, TakenInHeap
<1> HIDE DEF b
<1>4. HeapTypeOK'
  BY <1>1, <1>3 DEF HeapTypeOK
<1>5. FoundInHeap'
  BY <1>1, <1>3 DEF FoundInHeap, HeapTypeOK
<1> QED BY <1>1, <1>4, <1>5 DEF HeapInv

LEMMA TakesKeeps ==
  ASSUME HeapInv, NEW c \in Context, kmalloc_take(c)
  PROVE  HeapInv'
<1> DEFINE b == found[c].block
           size == found[c].size
<1>1. /\ ~raced /\ Good(hdr, live) /\ FoundInHeap /\ HeapTypeOK
      /\ raced' = ~CanTake(hdr, b, size) /\ hdr' = Take(hdr, b, size)
      /\ live' = live \cup {Allocation(b, size)}
      /\ found' = [found EXCEPT ![c] = NotFound] /\ freed' = freed
  BY DEF kmalloc_take, HeapInv
<1>2. b \in Nat /\ size \in Nat
  BY <1>1 DEF HeapTypeOK
<1> HIDE DEF b, size
<1>3. raced' \/ Good(hdr', live')
  BY <1>1, <1>2, TakeKeeps
<1>4. NotFound \in [block : Nat, size : Nat]
  BY DEF NotFound, nullptr
<1>5. HeapTypeOK'
  BY <1>1, <1>4 DEF HeapTypeOK
<1>6. FoundInHeap'
  BY <1>1 DEF FoundInHeap, HeapTypeOK
<1> QED BY <1>3, <1>5, <1>6 DEF HeapInv

LEMMA MaskedKmallocKeeps ==
  ASSUME HeapInv, NEW ptr0, NEW size \in Nat, masked_kmalloc(ptr0, size)
  PROVE  HeapInv'
<1> DEFINE b == FirstFit(hdr, size)
<1>1. /\ ~raced /\ Good(hdr, live) /\ FoundInHeap /\ HeapTypeOK /\ Fits(hdr, size) # {}
      /\ ptr0 = b + HeaderSize
      /\ hdr' = Take(hdr, ptr0 - HeaderSize, size)
      /\ live' = live \cup {Allocation(ptr0 - HeaderSize, size)}
      /\ found' = found /\ freed' = freed /\ raced' = raced
  BY DEF masked_kmalloc, HeapInv
<1>2. CanTake(hdr, b, size)
  BY <1>1, FirstCanTake
<1>3. b \in Nat
  BY <1>1, <1>2, TakenInHeap DEF CanTake
<1> HIDE DEF b
<1>4. ptr0 - HeaderSize = b
  BY <1>1, <1>3, HeapBounds
<1>5. Good(hdr', live')
  BY <1>1, <1>2, <1>4, TakeKeeps
<1>6. HeapTypeOK' /\ FoundInHeap'
  BY <1>1 DEF HeapTypeOK, FoundInHeap
<1> QED BY <1>5, <1>6 DEF HeapInv

\* The addresses of allocations are numbers, and nobody has one at 0.
LEMMA PtrIsNat ==
  ASSUME NEW h, NEW v, Good(h, v), NEW a \in v
  PROVE  a.ptr \in Nat \ {nullptr}
<1>1. PICK L : Headers(h) /\ List(h, L) /\ Owned(h, L, v)
  BY DEF Good
<1>2. a.ptr \in Nat /\ a.ptr - HeaderSize \in L
  BY <1>1 DEF Owned
<1>3. a.ptr - HeaderSize \in Nat
  BY <1>1, <1>2, BlockFacts, HeapBounds
<1> QED BY <1>2, <1>3, HeapBounds DEF nullptr

LEMMA FreedKeeps ==
  ASSUME NEW h, NEW v, Good(h, v), NEW a \in v, NEW k \in Freed(h, a.ptr)
  PROVE  Good(k, v \ {a}) /\ Good(Listed(k), v \ {a})
<1>1. PICK j \in Unmarked(h, a.ptr) : k = ZeroWord(j, a.ptr)
  BY DEF Freed
<1>2. a.ptr \in Nat
  BY PtrIsNat
<1>3. Good(k, v \ {a})
  BY <1>1, <1>2, UnmarkedKeeps, ZeroKeeps
<1> QED BY <1>3, ListedKeeps

LEMMA FreeKeeps ==
  ASSUME HeapInv, NEW c \in Context, NEW a, kfree_merge(c, a)
  PROVE  HeapInv'
<1>1. /\ ~raced /\ Good(hdr, live) /\ FoundInHeap /\ HeapTypeOK /\ a \in live
      /\ live' = live \ {a} /\ hdr' \in {Listed(h) : h \in Unmarked(hdr, a.ptr)}
      /\ freed' = [freed EXCEPT ![c] = a.ptr]
      /\ found' = found /\ raced' = raced
  BY DEF kfree_merge, Outside, HeapInv
<1>2. PICK h \in Unmarked(hdr, a.ptr) : hdr' = Listed(h)
  BY <1>1
<1>3. Good(h, live \ {a})
  BY <1>1, <1>2, UnmarkedKeeps
<1>4. Good(hdr', live')
  BY <1>1, <1>2, <1>3, ListedKeeps
<1>5. a.ptr \in Nat
  BY <1>1, PtrIsNat
<1>6. HeapTypeOK' /\ FoundInHeap'
  BY <1>1, <1>5 DEF HeapTypeOK, FoundInHeap
<1> QED BY <1>4, <1>6 DEF HeapInv

LEMMA ClearKeeps ==
  ASSUME HeapInv, NEW c \in Context, kfree_clear(c)
  PROVE  HeapInv'
<1>1. /\ ~raced /\ Good(hdr, live) /\ FoundInHeap /\ HeapTypeOK
      /\ raced' = Overwrites(freed[c]) /\ hdr' = ZeroWord(hdr, freed[c])
      /\ freed' = [freed EXCEPT ![c] = nullptr] /\ live' = live /\ found' = found
  BY DEF kfree_clear, HeapInv
<1>2. freed[c] \in Nat
  BY <1>1 DEF HeapTypeOK
<1>3. Good(hdr', live')
  BY <1>1, <1>2, ZeroKeeps
<1>4. raced' \in BOOLEAN
  BY <1>1 DEF Overwrites
<1>5. HeapTypeOK' /\ FoundInHeap'
  BY <1>1, <1>4 DEF HeapTypeOK, FoundInHeap, nullptr
<1> QED BY <1>3, <1>5 DEF HeapInv

LEMMA MaskedKfreeKeeps ==
  ASSUME HeapInv, NEW a, masked_kfree(a)
  PROVE  HeapInv'
<1>1. /\ ~raced /\ Good(hdr, live) /\ FoundInHeap /\ HeapTypeOK /\ a \in live
      /\ live' = live \ {a} /\ hdr' \in {Listed(h) : h \in Freed(hdr, a.ptr)}
      /\ freed' = freed /\ found' = found /\ raced' = raced
  BY DEF masked_kfree, HeapInv
<1>2. PICK h \in Freed(hdr, a.ptr) : hdr' = Listed(h)
  BY <1>1
<1>3. Good(hdr', live')
  BY <1>1, <1>2, FreedKeeps
<1>4. HeapTypeOK' /\ FoundInHeap'
  BY <1>1 DEF HeapTypeOK, FoundInHeap
<1> QED BY <1>3, <1>4 DEF HeapInv

LEMMA ExchangeKeeps ==
  ASSUME HeapInv, NEW a, NEW ptr0, NEW size \in Nat, masked_exchange(a, ptr0, size)
  PROVE  HeapInv'
<1>1. /\ ~raced /\ Good(hdr, live) /\ FoundInHeap /\ HeapTypeOK /\ a \in live
      /\ live' = (live \ {a}) \cup {Allocation(ptr0 - HeaderSize, size)}
      /\ freed' = freed /\ found' = found /\ raced' = raced
  BY DEF masked_exchange, HeapInv
<1>2. PICK h \in {Listed(k) : k \in Freed(hdr, a.ptr)} :
        /\ Fits(h, size) # {} /\ ptr0 = FirstFit(h, size) + HeaderSize
        /\ hdr' = Take(h, ptr0 - HeaderSize, size)
  BY DEF masked_exchange
<1>3. Good(h, live \ {a})
  BY <1>1, <1>2, FreedKeeps
<1> DEFINE b == FirstFit(h, size)
<1>4. CanTake(h, b, size)
  BY <1>2, <1>3, FirstCanTake
<1>5. b \in Nat
  BY <1>3, <1>4, TakenInHeap DEF CanTake
<1>6. ptr0 = b + HeaderSize
  BY <1>2
<1> HIDE DEF b
<1>7. ptr0 - HeaderSize = b
  BY <1>5, <1>6, HeapBounds
<1>8. Good(hdr', live')
  BY <1>1, <1>2, <1>3, <1>4, <1>7, TakeKeeps
<1>9. HeapTypeOK' /\ FoundInHeap'
  BY <1>1 DEF HeapTypeOK, FoundInHeap
<1> QED BY <1>8, <1>9 DEF HeapInv
-----------------------------------------------------------------------------
(***************************************************************************)
(* What the processes, the scheduler and the timer do to the heap.         *)
(***************************************************************************)
LEMMA HeapStarts == KernelInit => HeapInv
<1> SUFFICES ASSUME HeapInit PROVE HeapInv
  BY DEF KernelInit
<1> DEFINE first == [size |-> HEAP_SIZE - HeaderSize, free |-> TRUE, next |-> nullptr]
           h == [a \in {HEAP_START} |-> first]
<1>1. hdr = h /\ live = {} /\ found = [c \in Context |-> NotFound] /\ raced = FALSE
      /\ freed = [c \in Context |-> nullptr]
  BY DEF HeapInit
<1>2. HEAP_START \in Address /\ HEAP_START \in Nat
  BY HeapAssumption DEF Address
<1>3. HEAP_SIZE - HeaderSize \in 0..HEAP_SIZE
  BY HeapAssumption
<1>4. first \in Header
  BY <1>3 DEF Header
<1>5. DOMAIN h = {HEAP_START} /\ h[HEAP_START] = first
  OBVIOUS
<1>6. first.next = nullptr /\ first.size = HEAP_SIZE - HeaderSize
  OBVIOUS
<1> HIDE DEF first, h
<1>7. Headers(h)
  BY <1>2, <1>4, <1>5 DEF Headers
<1>8. Behind(h, HEAP_START) = End0
  BY <1>5, <1>6 DEF Behind
<1>9. HEAP_START + HeaderSize + (HEAP_SIZE - HeaderSize) <= End0
  BY HeapAssumption DEF End0
<1>10. List(h, {HEAP_START})
  BY <1>2, <1>5, <1>6, <1>8, <1>9 DEF List, Apart
<1>11. Owned(h, {HEAP_START}, {})
  BY DEF Owned
<1>12. Good(hdr, live)
  BY <1>1, <1>7, <1>10, <1>11 DEF Good
<1>13. HeapTypeOK /\ FoundInHeap
  BY <1>1 DEF HeapTypeOK, FoundInHeap, NotFound, nullptr
<1> QED BY <1>12, <1>13 DEF HeapInv

LEMMA SameHeap ==
  ASSUME HeapInv, UNCHANGED heap
  PROVE  HeapInv'
BY DEF heap, HeapInv, HeapTypeOK, FoundInHeap

\* schedule() with interrupts disabled, called by a process.
LEMMA ExitsKeeps ==
  ASSUME HeapInv, NEW p \in Proc, Exits(p)
  PROVE  HeapInv'
<1>1. CASE UNCHANGED heap
  BY <1>1, SameHeap
<1>2. CASE masked_kfree(NodeAt(queue.head))
  BY <1>2, MaskedKfreeKeeps
<1> QED BY <1>1, <1>2 DEF Exits

LEMMA TicksKeeps ==
  ASSUME HeapInv, Ticks
  PROVE  HeapInv'
<1>1. PICK n : \/ masked_exchange(NodeAt(queue.head), n, NodeSize)
               \/ masked_kfree(NodeAt(queue.head))
  BY DEF Ticks
<1>2. NodeSize \in Nat
  BY HeapQueueAssumption
<1> QED BY <1>1, <1>2, ExchangeKeeps, MaskedKfreeKeeps

LEMMA HeapInvIsInductive == HeapInv /\ [KernelNext]_kernel => HeapInv'
<1> SUFFICES ASSUME HeapInv, [KernelNext]_kernel PROVE HeapInv'
  OBVIOUS
<1>0. NodeSize \in Nat /\ Sizes \subseteq Nat /\ Proc \subseteq Context
  BY HeapQueueAssumption
<1>1. CASE UNCHANGED kernel
  BY <1>1, SameHeap DEF kernel
<1>2. ASSUME NEW p \in Proc,
             Allocated(p) \/ Release(p) \/ Cleared(p) \/ \E size \in Sizes : Allocate(p, size)
      PROVE  HeapInv'
  <2>1. \/ kmalloc_take(p) \/ (\E a : kfree_merge(p, a)) \/ kfree_clear(p)
        \/ \E size \in Sizes : kmalloc_find(p, size)
    BY <1>2 DEF Allocated, Release, Cleared, Allocate
  <2> QED BY <1>0, <2>1, TakesKeeps, FreeKeeps, ClearKeeps, FindKeeps
<1>3. ASSUME NEW p \in Proc, Walks(p) \/ FreesNode(p) \/ FindsNode(p) \/ TakesNode(p)
      PROVE  HeapInv'
  <2>1. \/ UNCHANGED heap \/ kfree_merge(p, NodeAt(ptr[p]))
        \/ kmalloc_find(p, NodeSize) \/ kmalloc_take(p)
    BY <1>3 DEF Walks, FreesNode, FindsNode, TakesNode
  <2> QED BY <1>0, <2>1, SameHeap, TakesKeeps, FreeKeeps, FindKeeps
<1>4. ASSUME NEW p \in Proc, NEW q \in Proc, Starts(p, q) PROVE HeapInv'
  <2>1. PICK n : masked_kmalloc(n, NodeSize)
    BY <1>4 DEF Starts
  <2> QED BY <1>0, <2>1, MaskedKmallocKeeps
<1>5. CASE Tears /\ UNCHANGED heap
  BY <1>5, SameHeap
<1> QED BY <1>1, <1>2, <1>3, <1>4, <1>5, ExitsKeeps, TicksKeeps DEF KernelNext

LEMMA HeapInvIsInvariant == KernelSpec => []HeapInv
BY HeapStarts, HeapInvIsInductive, PTL DEF KernelSpec

\* Two allocations, an allocation and a header: never in each other's bytes.
LEMMA GoodIsApart ==
  ASSUME NEW h, NEW v, Good(h, v), NEW a \in v
  PROVE  /\ \A c \in v : a # c => a.ptr + a.size <= c.ptr \/ c.ptr + c.size <= a.ptr
         /\ \A b \in Range(Blocks(h)) : b + HeaderSize <= a.ptr \/ a.ptr + a.size <= b
<1> DEFINE L == Range(Blocks(h))
           b == a.ptr - HeaderSize
<1>1. Headers(h) /\ List(h, L) /\ Owned(h, L, v)
  BY BlocksOfGood DEF Good
<1> HIDE DEF L
<1>2. b \in L /\ a.ptr + a.size <= Behind(h, b) /\ a.ptr \in Nat /\ a.size \in Nat
  BY <1>1 DEF Owned
<1>3. b \in Nat /\ Behind(h, b) \in Nat
  BY <1>1, <1>2, BlockFacts, HeapBounds
<1>4. a.ptr = b + HeaderSize
  BY <1>2, HeapBounds
<1>5. ASSUME NEW d \in L PROVE d + HeaderSize <= a.ptr \/ a.ptr + a.size <= d
  <2>1. d \in Nat
    BY <1>1, BlockFacts, HeapBounds
  <2>2. CASE d <= b
    BY <1>3, <1>4, <2>1, <2>2, HeapBounds
  <2>3. CASE b < d
    <3>1. Behind(h, b) <= d
      BY <1>1, <1>2, <2>3 DEF List
    <3> HIDE DEF b
    <3> QED BY <1>2, <1>3, <2>1, <3>1
  <2> HIDE DEF b
  <2> QED BY <1>3, <2>1, <2>2, <2>3
<1>6. ASSUME NEW c \in v, a # c
      PROVE  a.ptr + a.size <= c.ptr \/ c.ptr + c.size <= a.ptr
  <2> DEFINE d == c.ptr - HeaderSize
  <2>1. d \in L /\ c.ptr + c.size <= Behind(h, d) /\ c.ptr \in Nat /\ c.size \in Nat
    BY <1>1 DEF Owned
  <2>2. d \in Nat /\ Behind(h, d) \in Nat
    BY <1>1, <2>1, BlockFacts, HeapBounds
  <2>3. a.ptr # c.ptr
    BY <1>1, <1>6 DEF Owned
  <2>4. c.ptr = d + HeaderSize
    BY <2>1, HeapBounds
  <2> HIDE DEF b, d
  <2>5. b # d
    BY <1>4, <2>3, <2>4
  <2>6. CASE b < d
    <3>1. Behind(h, b) <= d
      BY <1>1, <1>2, <2>1, <2>6 DEF List
    <3> QED BY <1>2, <1>3, <2>1, <2>2, <2>4, <3>1, HeapBounds
  <2>7. CASE d < b
    <3>1. Behind(h, d) <= b
      BY <1>1, <1>2, <2>1, <2>7 DEF List
    <3> QED BY <1>2, <1>3, <1>4, <2>1, <2>2, <3>1, HeapBounds
  <2> QED BY <1>3, <2>2, <2>5, <2>6, <2>7
<1> QED BY <1>5, <1>6 DEF L

(***************************************************************************)
(* For every heap, kmalloc and kfree of mm/heap.cpp hand out no byte twice *)
(* and keep the headers out of what they have handed out, however the      *)
(* processes, the scheduler and the timer use them and whatever a nested   *)
(* kfree takes for a free flag, until a process marks a block that is no   *)
(* longer free, or clears what is no longer its own.                       *)
(***************************************************************************)
THEOREM TheHeapStaysSound == KernelSpec => []HeapIsSound
<1>1. ASSUME HeapInv PROVE HeapIsSound
  <2> SUFFICES ASSUME ~raced PROVE LiveDisjoint /\ HeadersIntact
    BY DEF HeapIsSound
  <2>1. Good(hdr, live)
    BY <1>1 DEF HeapInv
  <2>2. LiveDisjoint
    BY <2>1, GoodIsApart DEF LiveDisjoint
  <2>3. Headers(hdr) /\ List(hdr, Range(Blocks(hdr)))
    BY <2>1, BlocksOfGood DEF Good
  <2>4. ASSUME NEW b \in Range(Blocks(hdr))
        PROVE  b + HeaderSize + hdr[b].size
                 <= IF hdr[b].next = nullptr THEN HEAP_START + HEAP_SIZE ELSE hdr[b].next
    BY <2>3 DEF List, Apart, Behind, End0
  <2>5. HeadersIntact
    BY <2>1, <2>3, <2>4, GoodIsApart DEF HeadersIntact, Headers
  <2> QED BY <2>2, <2>5
<1> QED BY <1>1, HeapInvIsInvariant, PTL
-----------------------------------------------------------------------------
(***************************************************************************)
(* The run queue on the heap.                                              *)
(***************************************************************************)
LEMMA UsableIsNode ==
  ASSUME HeapInv, NEW n \in Usable
  PROVE  n \in Node
<1>1. ~raced /\ Good(hdr, live)
  BY DEF Usable, HeapInv
<1>2. PICK b \in Range(Blocks(hdr)) : n = b + HeaderSize
  BY <1>1 DEF Usable
<1> QED BY <1>1, <1>2, TakenInHeap, HeapQueueAssumption

LEMMA StepsOfTheQueue == HeapInv /\ [KernelNext]_kernel => [Next]_vars
<1> SUFFICES ASSUME HeapInv, KernelNext, vars' # vars PROVE Next
  BY DEF kernel
<1>1. ASSUME NEW p \in Proc, Walks(p) \/ FreesNode(p) PROVE Next
  BY <1>1 DEF Walks, FreesNode, Next, Pop, Push
<1>2. ASSUME NEW p \in Proc, TakesNode(p) PROVE Next
  <2>1. found[p].block + HeaderSize \in Node
    BY <1>2, HeapQueueAssumption DEF TakesNode, kmalloc_take, HeapInv, FoundInHeap
  <2> QED BY <1>2, <2>1 DEF TakesNode, Next
<1>3. ASSUME NEW p \in Proc, Exits(p) PROVE Next
  BY <1>3 DEF Exits, Next
<1>4. ASSUME NEW p \in Proc, NEW q \in Proc, Starts(p, q) PROVE Next
  <2>1. PICK n \in Usable : Start(p, q, n)
    BY <1>4 DEF Starts
  <2> QED BY <2>1, UsableIsNode DEF Next
<1>5. ASSUME Ticks PROVE Next
  <2>1. PICK n \in Usable : Tick(n)
    BY <1>5 DEF Ticks
  <2> QED BY <2>1, UsableIsNode DEF Next
<1>6. ASSUME Tears PROVE Next
  BY <1>6 DEF Next
<1>7. ASSUME NEW p \in Proc, NEW size \in Sizes
      PROVE  ~Allocate(p, size) /\ ~Allocated(p) /\ ~Release(p) /\ ~Cleared(p)
             /\ ~FindsNode(p)
  BY DEF Allocate, Allocated, Release, Cleared, FindsNode
<1>8. ASSUME NEW p \in Proc
      PROVE  ~Allocated(p) /\ ~Release(p) /\ ~Cleared(p) /\ ~FindsNode(p)
  BY DEF Allocated, Release, Cleared, FindsNode
<1> QED BY <1>1, <1>2, <1>3, <1>4, <1>5, <1>6, <1>7, <1>8 DEF KernelNext

(***************************************************************************)
(* The heap only restricts where the nodes of the run queue lie and when   *)
(* schedule() gets them: beside processes that use the heap, for every     *)
(* heap, the queue stays whole, loses no node and is the atomic queue.     *)
(***************************************************************************)
THEOREM TheKernelHasTheQueue ==
  KernelSpec => Spec /\ [](QueueIsWhole /\ NodesHaveOneOwner) /\ ImplementsReadyQueue
<1>1. KernelInit => Init
  BY DEF KernelInit
<1>2. KernelSpec => Spec
  BY <1>1, StepsOfTheQueue, HeapInvIsInvariant, PTL DEF KernelSpec, Spec
<1> QED BY <1>2, TheQueueStaysWhole, EveryNodeHasOneOwner, TheQueueIsAtomic, PTL
-----------------------------------------------------------------------------
(***************************************************************************)
(* The nodes of the queue are allocations of the heap.                     *)
(***************************************************************************)
NodesAreLive == torn \/ \A n \in DOMAIN queue.node : NodeAt(n) \in live

\* Where a process is that has found a block and not yet marked it.
Finding == \A p \in Proc : found[p] # NotFound =>
             \/ pc[p] = "out"
             \/ pc[p] = "requeue" /\ found[p].size = NodeSize

NodesInv == raced \/ (NodesAreLive /\ Finding)

LEMMA NodesOfPopped ==
  ASSUME NEW q
  PROVE  /\ Popped(q).node = Without(q.node, q.head)
         /\ DOMAIN Popped(q).node = DOMAIN q.node \ {q.head}
BY DEF Popped, Without

LEMMA NodesOfPushed ==
  ASSUME NEW q, NEW n, NEW v
  PROVE  DOMAIN Pushed(q, n, v).node = DOMAIN q.node \cup {n}
<1>1. DOMAIN With(q.node, n, v) = DOMAIN q.node \cup {n}
  BY DEF With
<1> QED BY <1>1 DEF Pushed

\* schedule() step by step does not touch what is allocated.
LEMMA WalksNodes ==
  ASSUME RunQueueTypeOK, NEW p \in Proc, Walks(p)
  PROVE  DOMAIN queue'.node = DOMAIN queue.node
<1>1. IsQueue(queue)
  BY DEF RunQueueTypeOK
<1>2. CASE Yield(p) \/ Stay(p) \/ LoadHead(p) \/ LoadTail(p) \/ Switch(p)
  BY <1>2 DEF Yield, Stay, LoadHead, LoadTail, Switch
<1>3. CASE Unlink(p) \/ FixTail(p) \/ SecondStore(p)
  <2>1. queue'.node = queue.node
    BY <1>1, <1>3 DEF Unlink, FixTail, SecondStore, IsQueue
  <2> QED BY <2>1
<1>4. CASE FirstStore(p)
  <2>1. CASE seen[p] # null
    <3>1. queue'.node = [queue.node EXCEPT ![seen[p]].next = ptr[p]]
      BY <1>1, <1>4, <2>1 DEF FirstStore, IsQueue
    <3> QED BY <3>1
  <2>2. CASE seen[p] = null
    <3>1. queue'.node = queue.node
      BY <1>1, <1>4, <2>2 DEF FirstStore, IsQueue
    <3> QED BY <3>1
  <2> QED BY <2>1, <2>2
<1> QED BY <1>2, <1>3, <1>4 DEF Walks, Push

LEMMA NodesStart == KernelInit => NodesInv
<1> SUFFICES ASSUME Init, HeapInit PROVE NodesAreLive /\ Finding
  BY DEF KernelInit, NodesInv
<1>1. queue.node = <<>> /\ DOMAIN queue.node = {}
  BY DEF Init
<1>2. \A p \in Proc : found[p] = NotFound
  BY HeapQueueAssumption DEF HeapInit
<1> QED BY <1>1, <1>2 DEF NodesAreLive, Finding

\* A process that uses the heap for itself.
LEMMA UserKeepsNodes ==
  ASSUME HeapInv, NodesInv, NEW p \in Proc,
         Allocated(p) \/ Release(p) \/ Cleared(p) \/ \E size \in Sizes : Allocate(p, size)
  PROVE  NodesInv'
<1>0. /\ ~raced /\ NodesAreLive /\ Finding /\ ~torn
      /\ queue' = queue /\ pc' = pc /\ torn' = torn
      /\ p \in Context /\ found \in [Context -> [block : Nat, size : Nat]]
      /\ Proc \subseteq Context
  BY HeapQueueAssumption
     DEF Allocated, Release, Cleared, Allocate, At, vars, NodesInv, HeapInv, HeapTypeOK,
         kmalloc_find, kmalloc_take, kfree_merge, kfree_clear, Outside
<1>1. \A n \in DOMAIN queue.node : NodeAt(n) \in live
  BY <1>0 DEF NodesAreLive
<1>2. CASE Allocated(p)
  <2>1. live \subseteq live' /\ found' = [found EXCEPT ![p] = NotFound]
    BY <1>2 DEF Allocated, kmalloc_take
  <2> QED BY <1>0, <1>1, <2>1 DEF NodesInv, NodesAreLive, Finding
<1>3. CASE Release(p)
  <2>1. PICK a \in Private : live' = live \ {a} /\ found' = found
    BY <1>3 DEF Release, kfree_merge
  <2>2. \A n \in DOMAIN queue.node : NodeAt(n) # a
    BY <2>1 DEF Private, NodeAt
  <2> QED BY <1>0, <1>1, <2>1, <2>2 DEF NodesInv, NodesAreLive, Finding
<1>4. CASE Cleared(p)
  BY <1>0, <1>1, <1>4 DEF Cleared, kfree_clear, NodesInv, NodesAreLive, Finding
<1>5. ASSUME NEW size \in Sizes, Allocate(p, size) PROVE NodesInv'
  <2>1. /\ pc[p] = "out" /\ live' = live
        /\ found' = [found EXCEPT ![p] = [block |-> FirstFit(hdr, size), size |-> size]]
    BY <1>5 DEF Allocate, kmalloc_find, At
  <2>2. \A q \in Proc : q # p => found'[q] = found[q]
    BY <1>0, <2>1
  <2> QED BY <1>0, <1>1, <2>1, <2>2 DEF NodesInv, NodesAreLive, Finding
<1> QED BY <1>2, <1>3, <1>4, <1>5

\* A process in schedule().
LEMMA ScheduleKeepsNodes ==
  ASSUME HeapInv, RunQueueTypeOK, NodesInv, NEW p \in Proc,
         Walks(p) \/ FreesNode(p) \/ FindsNode(p) \/ TakesNode(p)
  PROVE  NodesInv'
<1>0. /\ ~raced /\ NodesAreLive /\ Finding
      /\ p \in Context /\ found \in [Context -> [block : Nat, size : Nat]]
      /\ Proc \subseteq Context /\ pc \in [Proc -> Place] /\ IsQueue(queue)
      /\ ptr \in [Proc -> Node \cup {null}]
  BY HeapQueueAssumption
     DEF Walks, FreesNode, FindsNode, TakesNode, NodesInv, HeapInv, HeapTypeOK,
         kmalloc_find, kmalloc_take, kfree_merge, kfree_clear, Outside, RunQueueTypeOK
<1>1. CASE Walks(p)
  <2>1. DOMAIN queue'.node = DOMAIN queue.node
    BY <1>0, <1>1, WalksNodes
  <2>2. found[p] = NotFound /\ found' = found /\ live' = live
    BY <1>1 DEF Walks, Outside, heap
  <2>3. torn' = torn /\ \A q \in Proc : q # p => pc'[q] = pc[q]
    BY <1>0, <1>1
       DEF Walks, Yield, Stay, LoadHead, Unlink, FixTail, Push, LoadTail, FirstStore,
           SecondStore, Switch, Go
  <2> QED BY <1>0, <2>1, <2>2, <2>3 DEF NodesInv, NodesAreLive, Finding
<1>2. CASE FreesNode(p)
  <2>1. /\ ~torn /\ torn' = torn /\ found' = found /\ found[p] = NotFound
        /\ live' = live \ {NodeAt(ptr[p])}
        /\ queue' = [queue EXCEPT !.node = Without(@, ptr[p])]
        /\ \A q \in Proc : q # p => pc'[q] = pc[q]
    BY <1>0, <1>2 DEF FreesNode, FreeNode, At, Go, kfree_merge, Outside
  <2>2. queue'.node = Without(queue.node, ptr[p])
    BY <1>0, <2>1 DEF IsQueue
  <2>3. DOMAIN queue'.node = DOMAIN queue.node \ {ptr[p]}
    BY <2>2 DEF Without
  <2>4. \A n \in DOMAIN queue'.node : NodeAt(n) # NodeAt(ptr[p])
    BY <2>3 DEF NodeAt
  <2>5. \A n \in DOMAIN queue'.node : NodeAt(n) \in live'
    BY <1>0, <2>1, <2>3, <2>4 DEF NodesAreLive
  <2> QED BY <1>0, <2>1, <2>5 DEF NodesInv, NodesAreLive, Finding
<1>3. CASE FindsNode(p)
  <2>1. /\ pc[p] = "requeue" /\ live' = live /\ queue' = queue /\ torn' = torn /\ pc' = pc
        /\ found' = [found EXCEPT ![p] = [block |-> FirstFit(hdr, NodeSize),
                                          size |-> NodeSize]]
    BY <1>3 DEF FindsNode, kmalloc_find, At, vars
  <2>2. \A q \in Proc : q # p => found'[q] = found[q]
    BY <1>0, <2>1
  <2>3. found'[p].size = NodeSize
    BY <1>0, <2>1
  <2> QED BY <1>0, <2>1, <2>2, <2>3 DEF NodesInv, NodesAreLive, Finding
<1>4. CASE TakesNode(p)
  <2> DEFINE b == found[p].block
             n == b + HeaderSize
  <2>1. /\ ~torn /\ torn' = torn /\ pc[p] = "requeue" /\ found[p] # NotFound
        /\ live' = live \cup {Allocation(b, found[p].size)}
        /\ found' = [found EXCEPT ![p] = NotFound]
        /\ queue' = [queue EXCEPT !.node = With(@, n, p)]
        /\ \A q \in Proc : q # p => pc'[q] = pc[q]
    BY <1>0, <1>4 DEF TakesNode, NewNode, At, Go, kmalloc_take
  <2>2. found[p].size = NodeSize
    BY <1>0, <2>1 DEF Finding
  <2>3. Allocation(b, NodeSize) = NodeAt(n)
    BY DEF Allocation, NodeAt
  <2> HIDE DEF n, b
  <2>4. queue'.node = With(queue.node, n, p)
    BY <1>0, <2>1 DEF IsQueue
  <2>5. DOMAIN queue'.node = DOMAIN queue.node \cup {n}
    BY <2>4 DEF With
  <2>6. \A m \in DOMAIN queue'.node : NodeAt(m) \in live'
    BY <1>0, <2>1, <2>2, <2>3, <2>5 DEF NodesAreLive
  <2>7. found'[p] = NotFound /\ \A q \in Proc : q # p => found'[q] = found[q]
    BY <1>0, <2>1
  <2> QED BY <1>0, <2>1, <2>6, <2>7 DEF NodesInv, NodesAreLive, Finding
<1> QED BY <1>1, <1>2, <1>3, <1>4

\* With interrupts disabled.
LEMMA MaskedKeepNodes ==
  ASSUME HeapInv, RunQueueTypeOK, NodesInv,
         \/ \E p \in Proc : Exits(p) \/ \E q \in Proc : Starts(p, q)
         \/ Ticks
  PROVE  NodesInv'
<1>0. /\ ~raced /\ NodesAreLive /\ Finding /\ IsQueue(queue) /\ Good(hdr, live)
      /\ pc \in [Proc -> Place]
  BY DEF Exits, Starts, Ticks, NodesInv, HeapInv, masked_kmalloc, masked_kfree,
         masked_exchange, Outside, RunQueueTypeOK
<1>1. ASSUME NEW p \in Proc, Exits(p) PROVE NodesInv'
  <2>1. /\ ~torn /\ torn' = torn /\ found[p] = NotFound /\ found' = found
        /\ \A q \in Proc : q # p => pc'[q] = pc[q]
    BY <1>0, <1>1 DEF Exits, Exit, At, Outside, heap, masked_kfree
  <2>2. \A n \in DOMAIN queue'.node : NodeAt(n) \in live'
    <3>1. CASE queue.head = null
      BY <1>0, <1>1, <2>1, <3>1 DEF Exits, Exit, heap, NodesAreLive
    <3>2. CASE queue.head # null
      <4>1. queue' = Popped(queue) /\ live' = live \ {NodeAt(queue.head)}
        BY <1>1, <3>2 DEF Exits, Exit, masked_kfree
      <4>2. DOMAIN queue'.node = DOMAIN queue.node \ {queue.head}
        BY <4>1, NodesOfPopped
      <4>3. \A n \in DOMAIN queue'.node : NodeAt(n) # NodeAt(queue.head)
        BY <4>2 DEF NodeAt
      <4> QED BY <1>0, <2>1, <4>1, <4>2, <4>3 DEF NodesAreLive
    <3> QED BY <3>1, <3>2
  <2> QED BY <1>0, <2>1, <2>2 DEF NodesInv, NodesAreLive, Finding
<1>2. ASSUME NEW p \in Proc, NEW q \in Proc, Starts(p, q) PROVE NodesInv'
  <2>1. PICK n \in Usable : Start(p, q, n) /\ masked_kmalloc(n, NodeSize)
    BY <1>2 DEF Starts
  <2>2. /\ ~torn /\ torn' = torn /\ found' = found /\ queue' = Pushed(queue, n, q)
        /\ live' = live \cup {Allocation(n - HeaderSize, NodeSize)}
        /\ pc' = [pc EXCEPT ![q] = "out"]
    BY <2>1 DEF Start, At, Go, masked_kmalloc
  <2>3. n = (n - HeaderSize) + HeaderSize
    <3>1. n \in Address
      <4>1. PICK b \in Range(Blocks(hdr)) : n = b + HeaderSize
        BY <1>0, <2>1 DEF Usable
      <4> QED BY <1>0, <4>1, TakenInHeap
    <3> QED BY <3>1, HeapBounds
  <2>4. Allocation(n - HeaderSize, NodeSize) = NodeAt(n)
    BY <2>3 DEF Allocation, NodeAt
  <2>5. DOMAIN queue'.node = DOMAIN queue.node \cup {n}
    BY <2>2, NodesOfPushed
  <2>6. \A m \in DOMAIN queue'.node : NodeAt(m) \in live'
    BY <1>0, <2>2, <2>4, <2>5 DEF NodesAreLive
  <2>7. pc'[q] = "out" /\ \A r \in Proc : r # q => pc'[r] = pc[r]
    BY <1>0, <2>2
  <2> QED BY <1>0, <2>2, <2>6, <2>7 DEF NodesInv, NodesAreLive, Finding
<1>3. ASSUME Ticks PROVE NodesInv'
  <2>1. PICK n \in Usable :
          /\ Tick(n)
          /\ IF n \in DOMAIN queue'.node \ (DOMAIN queue.node \ {queue.head})
             THEN masked_exchange(NodeAt(queue.head), n, NodeSize)
             ELSE masked_kfree(NodeAt(queue.head))
    BY <1>3 DEF Ticks
  <2> DEFINE D == DOMAIN queue.node \ {queue.head}
  <2>2. ~torn /\ torn' = torn /\ pc' = pc /\ found' = found
    BY <2>1 DEF Tick, masked_exchange, masked_kfree
  <2>3. DOMAIN queue'.node \in {D, D \cup {n}} /\ n \notin D
    <3> DEFINE q == Popped(queue)
    <3>1. /\ queue' = q \/ queue' = Pushed(q, n, cpu)
          /\ n \notin DOMAIN q.node
      BY <2>1 DEF Tick
    <3>2. DOMAIN q.node = D
      BY NodesOfPopped
    <3> HIDE DEF q, D
    <3>3. DOMAIN Pushed(q, n, cpu).node = D \cup {n}
      BY <3>2, NodesOfPushed
    <3> QED BY <3>1, <3>2, <3>3
  <2>4. \A m \in D : NodeAt(m) \in live /\ NodeAt(m) # NodeAt(queue.head)
    BY <1>0, <2>2 DEF NodesAreLive, NodeAt
  <2>5. CASE n \in DOMAIN queue'.node
    <3>1. live' = (live \ {NodeAt(queue.head)}) \cup {Allocation(n - HeaderSize, NodeSize)}
      BY <2>1, <2>3, <2>5 DEF masked_exchange
    <3>2. n = (n - HeaderSize) + HeaderSize
      <4>1. PICK b \in Range(Blocks(hdr)) : n = b + HeaderSize
        BY <1>0, <2>1 DEF Usable
      <4>2. n \in Address
        BY <1>0, <4>1, TakenInHeap
      <4> QED BY <4>2, HeapBounds
    <3>3. Allocation(n - HeaderSize, NodeSize) = NodeAt(n)
      BY <3>2 DEF Allocation, NodeAt
    <3> HIDE DEF D
    <3> QED BY <1>0, <2>2, <2>3, <2>4, <3>1, <3>3 DEF NodesInv, NodesAreLive, Finding
  <2>6. CASE n \notin DOMAIN queue'.node
    <3>1. live' = live \ {NodeAt(queue.head)}
      BY <2>1, <2>6 DEF masked_kfree
    <3> HIDE DEF D
    <3> QED BY <1>0, <2>2, <2>3, <2>4, <2>6, <3>1 DEF NodesInv, NodesAreLive, Finding
  <2> QED BY <2>5, <2>6
<1> QED BY <1>1, <1>2, <1>3

LEMMA NodesInvIsInductive ==
  HeapInv /\ RunQueueTypeOK /\ NodesInv /\ [KernelNext]_kernel => NodesInv'
<1> SUFFICES ASSUME HeapInv, RunQueueTypeOK, NodesInv, [KernelNext]_kernel PROVE NodesInv'
  OBVIOUS
<1>1. CASE UNCHANGED kernel
  BY <1>1 DEF kernel, vars, heap, NodesInv, NodesAreLive, Finding
<1>2. CASE Tears /\ UNCHANGED heap
  BY <1>2 DEF Tears, heap, NodesInv, NodesAreLive, Finding
<1> QED BY <1>1, <1>2, UserKeepsNodes, ScheduleKeepsNodes, MaskedKeepNodes DEF KernelNext

(***************************************************************************)
(* As long as neither the list nor the heap has met its race, every node   *)
(* of the run queue is an allocation that no process may free, and kmalloc *)
(* returns no node that is in the queue or in the hands of a context:      *)
(* delete in queue::pop always frees what new in queue::push allocated.    *)
(***************************************************************************)
THEOREM NodesStayAllocated ==
  KernelSpec => [](raced \/ /\ NodesAreLive
                            /\ \A size \in Nat : Fits(hdr, size) # {} =>
                                 torn \/ FirstFit(hdr, size) + HeaderSize
                                           \notin DOMAIN queue.node)
<1>1. KernelSpec => []NodesInv
  <2>1. RunQueueInv => RunQueueTypeOK
    BY DEF RunQueueInv
  <2>2. KernelSpec => []RunQueueInv
    BY TheKernelHasTheQueue, RunQueueIsInvariant, PTL
  <2> QED BY <2>1, <2>2, NodesStart, NodesInvIsInductive, HeapInvIsInvariant, PTL
          DEF KernelSpec
<1>2. ASSUME HeapInv, NodesInv
      PROVE  raced \/ /\ NodesAreLive
                      /\ \A size \in Nat : Fits(hdr, size) # {} =>
                           torn \/ FirstFit(hdr, size) + HeaderSize \notin DOMAIN queue.node
  <2> SUFFICES ASSUME ~raced, ~torn, NEW size \in Nat, Fits(hdr, size) # {},
                      FirstFit(hdr, size) + HeaderSize \in DOMAIN queue.node
               PROVE  FALSE
    BY <1>2 DEF NodesInv
  <2> DEFINE b == FirstFit(hdr, size)
             a == NodeAt(b + HeaderSize)
  <2>1. Good(hdr, live) /\ a \in live
    BY <1>2 DEF HeapInv, NodesInv, NodesAreLive
  <2>2. CanTake(hdr, b, size)
    BY <2>1, FirstCanTake
  <2>3. hdr[b].free /\ b \in Range(Blocks(hdr))
    BY <2>2 DEF CanTake
  <2>4. b \in Nat
    BY <2>1, <2>3, TakenInHeap
  <2>5. a.ptr = b + HeaderSize
    BY DEF NodeAt
  <2> HIDE DEF a, b
  <2>6. a.ptr - HeaderSize = b
    BY <2>4, <2>5, HeapBounds
  <2>7. ~hdr[a.ptr - HeaderSize].free
    BY <2>1, BlocksOfGood DEF Owned
  <2> QED BY <2>3, <2>6, <2>7
<1> QED BY <1>1, <1>2, HeapInvIsInvariant, PTL
=============================================================================
