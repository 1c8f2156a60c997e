----------------------------- MODULE HeapQueue -----------------------------
(***************************************************************************)
(* The run queue on the kernel heap: sched/scheduler.cpp and               *)
(* lib/data/queue.hpp with the nodes that they allocate and free by        *)
(* mm/heap.cpp, beside processes that use the heap for themselves.         *)
(***************************************************************************)
EXTENDS RunQueue, Heap, FiniteSets

CONSTANTS NodeSize,  \* sizeof(data::queue<Process*>::node)
          Sizes,     \* the sizes that processes ask for
          MaxBlocks  \* bound: the blocks that they hold at a time

ASSUME HeapQueueAssumption ==
  /\ Sizes \cup {NodeSize} \subseteq Nat \ {0}
  /\ Proc \subseteq Context /\ Address \subseteq Node /\ null = nullptr

kernel == <<vars, heap>>

KernelInit == Init /\ HeapInit

NodeAt(n) == [ptr |-> n, size |-> NodeSize]
Private == {a \in live : a.ptr \notin DOMAIN queue.node}

\* What kmalloc can return.
Usable == IF raced THEN {} ELSE {b + HeaderSize : b \in Range(Blocks(hdr))}
-----------------------------------------------------------------------------
\* A process uses the heap outside schedule().
Allocate(p, size) == /\ At(p, "out") /\ p # Idle /\ Cardinality(Private) < MaxBlocks
                     /\ kmalloc_find(p, size)
                     /\ UNCHANGED vars
Allocated(p) == At(p, "out") /\ kmalloc_take(p) /\ UNCHANGED vars
Release(p) == /\ At(p, "out") /\ p # Idle
              /\ \E a \in Private : kfree_merge(p, a)
              /\ UNCHANGED vars
Cleared(p) == cpu = p /\ ~torn /\ kfree_clear(p) /\ UNCHANGED vars

\* schedule() of a process: its node is freed, and a new one allocated.
Walks(p) == /\ Outside(p)
            /\ \/ Yield(p) \/ Stay(p) \/ LoadHead(p) \/ Unlink(p) \/ FixTail(p)
               \/ Push(p) \/ Switch(p)
            /\ UNCHANGED heap
FreesNode(p) == FreeNode(p) /\ kfree_merge(p, NodeAt(ptr[p]))
FindsNode(p) == At(p, "requeue") /\ kmalloc_find(p, NodeSize) /\ UNCHANGED vars
TakesNode(p) == NewNode(p, found[p].block + HeaderSize) /\ kmalloc_take(p)

\* With interrupts disabled.
Starts(p, q) == /\ At(p, "out") /\ Outside(p) /\ pc[q] = "none"
                /\ \E n \in Usable : Start(p, q, n) /\ masked_kmalloc(n, NodeSize)
Exits(p) == /\ Outside(p) /\ Exit(p)
            /\ IF queue.head = null THEN UNCHANGED heap
                                    ELSE masked_kfree(NodeAt(queue.head))
Ticks == \E n \in Usable :
           /\ Tick(n)
           /\ IF n \in DOMAIN queue'.node \ (DOMAIN queue.node \ {queue.head})
              THEN masked_exchange(NodeAt(queue.head), n, NodeSize)
              ELSE masked_kfree(NodeAt(queue.head))
-----------------------------------------------------------------------------
KernelNext ==
  \/ \E p \in Proc : \/ \E size \in Sizes : Allocate(p, size)
                     \/ Allocated(p) \/ Release(p) \/ Cleared(p)
                     \/ Walks(p) \/ FreesNode(p) \/ FindsNode(p) \/ TakesNode(p)
                     \/ Exits(p) \/ \E q \in Proc : Starts(p, q)
  \/ Ticks
  \/ Tears /\ UNCHANGED heap

KernelSpec == KernelInit /\ [][KernelNext]_kernel
=============================================================================
