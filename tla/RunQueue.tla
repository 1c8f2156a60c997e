------------------------------ MODULE RunQueue ------------------------------
(***************************************************************************)
(* The run queue of sched/scheduler.cpp as the linked list that it is,     *)
(* lib/data/queue.hpp.  schedule() called by a process pops and pushes     *)
(* with interrupts enabled, one load or store after the other; the timer   *)
(* handler and start() pop and push with interrupts disabled.  The list is *)
(* followed up to the first tick that finds a context between a load of    *)
(* head or tail and the store that relies on it.                           *)
(***************************************************************************)
EXTENDS Integers, Sequences

CONSTANTS Node,        \* the addresses that a node can have
          Proc, Idle,  \* the processes, and the one that is never queued
          null

ASSUME RunQueueAssumption == Idle \in Proc /\ null \notin Proc \cup Node

VARIABLES
  queue,   \* process_queue: head, tail, and the nodes that are allocated
  cpu,     \* curr_process
  pc,      \* pc[p]: where the context of p is
  ptr,     \* ptr[p]: the node that its pop or push has in a register
  seen,    \* seen[p]: the tail that its push has loaded
  chosen,  \* chosen[p]: the process that it has popped
  headFirst, \* the order of the stores in `head = tail = n`, the compiler's choice
  line,    \* history: the nodes in the order in which they were linked in
  torn     \* history: a tick has come between a load and its store

registers == <<ptr, seen, chosen>>
vars == <<queue, cpu, pc, registers, headFirst, line, torn>>

Place == {"none",                                  \* no such process
          "out",                                   \* outside schedule()
          "pop", "unlink", "fix", "kfree",         \* in pop
          "requeue", "push", "link", "join",       \* in push
          "switch"}

\* Between a load of head or tail and the last store that relies on it.
Gap == {"unlink", "link", "join"}

Without(node, n) == [m \in DOMAIN node \ {n} |-> node[m]]
With(node, n, v) == [m \in DOMAIN node \cup {n} |->
                       IF m = n THEN [value |-> v, next |-> null] ELSE node[m]]

Init == /\ queue = [head |-> null, tail |-> null, node |-> <<>>]
        /\ cpu \in Proc \ {Idle}
        /\ pc = [p \in Proc |-> IF p \in {cpu, Idle} THEN "out" ELSE "none"]
        /\ ptr = [p \in Proc |-> null]
        /\ seen = ptr /\ chosen = ptr
        /\ headFirst \in BOOLEAN
        /\ line = <<>> /\ torn = FALSE
-----------------------------------------------------------------------------
At(p, place) == ~torn /\ cpu = p /\ pc[p] = place

Go(p, place) == pc' = [pc EXCEPT ![p] = place] /\ UNCHANGED <<cpu, headFirst, torn>>

\* Process::yield
Yield(p) == /\ At(p, "out") /\ p # Idle
            /\ Go(p, "pop")
            /\ UNCHANGED <<queue, registers, line>>

\* Nothing is queued: the caller goes on.
Stay(p) == /\ At(p, "pop") /\ queue.head = null
           /\ Go(p, "out")
           /\ UNCHANGED <<queue, registers, line>>

LoadHead(p) == /\ At(p, "pop") /\ queue.head # null
               /\ ptr' = [ptr EXCEPT ![p] = queue.head]
               /\ chosen' = [chosen EXCEPT ![p] = queue.node[queue.head].value]
               /\ Go(p, "unlink")
               /\ UNCHANGED <<queue, seen, line>>

Unlink(p) == /\ At(p, "unlink")
             /\ queue' = [queue EXCEPT !.head = queue.node[ptr[p]].next]
             /\ line' = Tail(line)
             /\ Go(p, "fix")
             /\ UNCHANGED registers

\* Mutant: the tail keeps naming the last node that was popped.
KeepTail(p) == /\ At(p, "fix")
               /\ Go(p, "kfree")
               /\ UNCHANGED <<queue, registers, line>>

FixTail(p) == /\ At(p, "fix")
              /\ queue' = IF queue.head = null THEN [queue EXCEPT !.tail = null]
                                               ELSE queue
              /\ Go(p, "kfree")
              /\ UNCHANGED <<registers, line>>

\* A process that has popped its own entry is not pushed and stays.
FreeNode(p) == /\ At(p, "kfree")
               /\ queue' = [queue EXCEPT !.node = Without(@, ptr[p])]
               /\ ptr' = [ptr EXCEPT ![p] = null]
               /\ Go(p, IF chosen[p] = p THEN "switch" ELSE "requeue")
               /\ UNCHANGED <<seen, chosen, line>>

\* The node n that kmalloc has returned to push.
NewNode(p, n) == /\ At(p, "requeue") /\ n \notin DOMAIN queue.node
                 /\ queue' = [queue EXCEPT !.node = With(@, n, p)]
                 /\ ptr' = [ptr EXCEPT ![p] = n]
                 /\ Go(p, "push")
                 /\ UNCHANGED <<seen, chosen, line>>

LoadTail(p) == /\ At(p, "push")
               /\ seen' = [seen EXCEPT ![p] = queue.tail]
               /\ Go(p, "link")
               /\ UNCHANGED <<queue, ptr, chosen, line>>

\* The two stores of push; a node counts as linked in when head leads to it.
FirstStore(p) ==
  /\ At(p, "link")
  /\ queue' = IF seen[p] # null THEN [queue EXCEPT !.node[seen[p]].next = ptr[p]]
              ELSE IF headFirst THEN [queue EXCEPT !.head = ptr[p]]
              ELSE [queue EXCEPT !.tail = ptr[p]]
  /\ line' = IF seen[p] # null \/ headFirst THEN Append(line, ptr[p]) ELSE line
  /\ Go(p, "join")
  /\ UNCHANGED registers

SecondStore(p) ==
  /\ At(p, "join")
  /\ queue' = IF seen[p] = null /\ ~headFirst THEN [queue EXCEPT !.head = ptr[p]]
                                              ELSE [queue EXCEPT !.tail = ptr[p]]
  /\ line' = IF seen[p] = null /\ ~headFirst THEN Append(line, ptr[p]) ELSE line
  /\ ptr' = [ptr EXCEPT ![p] = null] /\ seen' = [seen EXCEPT ![p] = null]
  /\ Go(p, "switch")
  /\ UNCHANGED chosen

Switch(p) == /\ At(p, "switch")
             /\ cpu' = chosen[p]
             /\ chosen' = [chosen EXCEPT ![p] = null]
             /\ pc' = [pc EXCEPT ![p] = "out"]
             /\ UNCHANGED <<queue, ptr, seen, headFirst, line, torn>>
-----------------------------------------------------------------------------
(***************************************************************************)
(* pop and push with interrupts disabled, at once.                         *)
(***************************************************************************)
Popped(q) == LET next == q.node[q.head].next IN
               [head |-> next,
                tail |-> IF next = null THEN null ELSE q.tail,
                node |-> Without(q.node, q.head)]

Pushed(q, n, v) ==
  LET node == With(q.node, n, v) IN
    IF q.tail = null THEN [head |-> n, tail |-> n, node |-> node]
    ELSE [head |-> q.head, tail |-> n, node |-> [node EXCEPT ![q.tail].next = n]]

\* Process::start of q by p
Start(p, q, n) == /\ At(p, "out") /\ p # Idle /\ pc[q] = "none"
                  /\ n \notin DOMAIN queue.node
                  /\ queue' = Pushed(queue, n, q)
                  /\ line' = Append(line, n)
                  /\ Go(q, "out")
                  /\ UNCHANGED registers

\* Mutant: what the head was before is not freed.
ExitLeaks(p) == /\ At(p, "out") /\ p # Idle /\ queue.head # null
                /\ queue' = [Popped(queue) EXCEPT !.node = queue.node]
                /\ cpu' = queue.node[queue.head].value
                /\ line' = Tail(line)
                /\ pc' = [pc EXCEPT ![p] = "none"]
                /\ UNCHANGED <<registers, headFirst, torn>>

\* A process ends.  The timer does not preempt it in schedule().
Exit(p) == /\ At(p, "out") /\ p # Idle
           /\ IF queue.head = null
              THEN cpu' = Idle /\ UNCHANGED <<queue, line>>
              ELSE /\ queue' = Popped(queue)
                   /\ cpu' = queue.node[queue.head].value
                   /\ line' = Tail(line)
           /\ pc' = [pc EXCEPT ![p] = "none"]
           /\ UNCHANGED <<registers, headFirst, torn>>

\* onIrq0 at the end of a slice; an empty queue changes nothing.
Tears == /\ ~torn /\ queue.head # null /\ pc[cpu] \in Gap
         /\ torn' = TRUE
         /\ UNCHANGED <<queue, cpu, pc, registers, headFirst, line>>

\* Mutant: the handler pushes at the head.
TickPushesHead(n) ==
  /\ ~torn /\ queue.head # null /\ pc[cpu] \notin Gap
  /\ LET q == Popped(queue) IN
       /\ n \notin DOMAIN q.node
       /\ cpu' = queue.node[queue.head].value
       /\ IF cpu \in {Idle, cpu'}
          THEN queue' = q /\ line' = Tail(line)
          ELSE /\ queue' = [head |-> n, tail |-> IF q.tail = null THEN n ELSE q.tail,
                            node |-> [With(q.node, n, cpu) EXCEPT ![n].next = q.head]]
               /\ line' = <<n>> \o Tail(line)
  /\ UNCHANGED <<pc, registers, headFirst, torn>>

Tick(n) == /\ ~torn /\ queue.head # null /\ pc[cpu] \notin Gap
           /\ LET q == Popped(queue) IN
                /\ n \notin DOMAIN q.node
                /\ cpu' = queue.node[queue.head].value
                /\ IF cpu \in {Idle, cpu'}
                   THEN queue' = q /\ line' = Tail(line)
                   ELSE queue' = Pushed(q, n, cpu) /\ line' = Append(Tail(line), n)
           /\ UNCHANGED <<pc, registers, headFirst, torn>>
-----------------------------------------------------------------------------
Pop(p) == Stay(p) \/ LoadHead(p) \/ Unlink(p) \/ FixTail(p) \/ FreeNode(p)
Push(p) == LoadTail(p) \/ FirstStore(p) \/ SecondStore(p)

Next == \/ \E p \in Proc : \/ Yield(p) \/ Pop(p) \/ Push(p) \/ Switch(p) \/ Exit(p)
                           \/ \E n \in Node : \/ NewNode(p, n)
                                              \/ \E q \in Proc : Start(p, q, n)
        \/ Tears \/ \E n \in Node : Tick(n)

Spec == Init /\ [][Next]_vars
-----------------------------------------------------------------------------
Linked == {line[i] : i \in 1..Len(line)}

(***************************************************************************)
(* A list that no tick has torn is one chain of allocated nodes from head  *)
(* to null, and tail is its end but for the moment in which the running    *)
(* context is about to set it.  So ticks may fall anywhere else in pop,    *)
(* push, kmalloc and kfree.                                                *)
(***************************************************************************)
QueueIsWhole ==
  torn \/
  /\ queue.head = IF line = <<>> THEN null ELSE line[1]
  /\ \A i \in 1..Len(line) :
       /\ line[i] \in DOMAIN queue.node
       /\ queue.node[line[i]].next = IF i = Len(line) THEN null ELSE line[i + 1]
       /\ \A j \in 1..Len(line) : line[i] = line[j] => i = j
  /\ pc[cpu] \notin {"fix", "join"}
       => queue.tail = IF line = <<>> THEN null ELSE line[Len(line)]

(***************************************************************************)
(* Every allocated node is in the list or in the hands of one context that *)
(* frees it or links it in: none is leaked and none is freed twice.        *)
(***************************************************************************)
NodesHaveOneOwner ==
  torn \/
  /\ DOMAIN queue.node = Linked \cup ({ptr[p] : p \in Proc} \ {null})
  /\ \A p \in Proc : pc[p] \in {"fix", "kfree", "push"} => ptr[p] \notin Linked
  /\ \A p, q \in Proc : ptr[p] = ptr[q] /\ ptr[p] # null => p = q

(***************************************************************************)
(* A list that is not torn does what the scheduler relies on: its pop and  *)
(* push are those of an atomic queue.                                      *)
(***************************************************************************)
Ready == INSTANCE ReadyQueue
           WITH ready <- [i \in 1..Len(line) |-> queue.node[line[i]].value],
                taken <- [p \in Proc |-> IF pc[p] = "unlink" THEN null ELSE chosen[p]],
                none <- null

ImplementsReadyQueue == Ready!Spec
=============================================================================
