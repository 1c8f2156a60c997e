-------------------------------- MODULE Heap --------------------------------
(***************************************************************************)
(* The kernel heap, mm/heap.cpp: a first-fit allocator on a linked list of *)
(* block headers that lie in the heap itself.  Memory that is not a header *)
(* of the list is not modelled: where the code reads it, any value is      *)
(* read.  Nothing locks the heap, so kmalloc and kfree of a process are    *)
(* two steps each, and those of the timer handler one.  HeapQueue composes *)
(* them with the run queue.                                                *)
(***************************************************************************)
EXTENDS Integers, Sequences, SequencesExt, FiniteSetsExt

CONSTANTS HEAP_START, HEAP_SIZE,
          HeaderSize,  \* sizeof(HeapBlock)
          Context      \* the processes

ASSUME HeapAssumption ==
  /\ HEAP_START \in Nat \ {0} /\ HEAP_SIZE \in Nat
  /\ HeaderSize \in Nat \ {0} /\ HEAP_SIZE > HeaderSize

VARIABLES hdr,    \* hdr[a]: the header at address a
          live,   \* the allocations that their owners have not freed
          found,  \* found[c]: the block and size of c inside kmalloc
          freed,  \* freed[c]: the address that c inside kfree has still to clear
          raced   \* history: a process took a block that was no longer free, or
                  \* cleared what was no longer its own; nothing follows

heap == <<hdr, live, found, freed, raced>>

nullptr == 0
Address == HEAP_START..(HEAP_START + HEAP_SIZE)
Header == [size : 0..HEAP_SIZE, free : BOOLEAN, next : Address \cup {nullptr}]
NotFound == [block |-> nullptr, size |-> 0]

HeapInit == /\ hdr = [a \in {HEAP_START} |->
                         [size |-> HEAP_SIZE - HeaderSize, free |-> TRUE, next |-> nullptr]]
            /\ live = {}
            /\ found = [c \in Context |-> NotFound]
            /\ freed = [c \in Context |-> nullptr]
            /\ raced = FALSE

\* c is not inside kmalloc or kfree.
Outside(c) == ~raced /\ found[c] = NotFound /\ freed[c] = nullptr
-----------------------------------------------------------------------------
\* The list l and the block behind it.
Further(h, l) == LET next == h[l[Len(l)]].next IN
                   IF next = nullptr THEN l ELSE Append(l, next)

\* The list, as the code walks it: it is no longer than there are headers.
Blocks(h) ==
  LET walk[n \in 0..Cardinality(DOMAIN h)] ==
        IF n = 0 THEN <<HEAP_START>> ELSE Further(h, walk[n - 1])
  IN walk[Cardinality(DOMAIN h)]

\* Headers that left the list are ordinary memory again.
Listed(h) == [b \in Range(Blocks(h)) \cup ({found[c].block : c \in Context} \cap DOMAIN h)
                |-> h[b]]
-----------------------------------------------------------------------------
\* The places in the list of the blocks that can take size bytes.
Fits(h, size) == LET l == Blocks(h) IN {i \in DOMAIN l : h[l[i]].free /\ h[l[i]].size >= size}

FirstFit(h, size) == Blocks(h)[Min(Fits(h, size))]

CanTake(h, b, size) == b \in Range(Blocks(h)) /\ h[b].free /\ h[b].size >= size

\* Mutant: the new block does not account for its own header.
TakeHeaderless(h, b, size) ==
  LET new == b + HeaderSize + size IN
    IF h[b].size > size + HeaderSize
    THEN [a \in DOMAIN h \cup {new} |->
            CASE a = b   -> [size |-> size, free |-> FALSE, next |-> new]
              [] a = new -> [size |-> h[b].size - size, free |-> TRUE, next |-> h[b].next]
              [] OTHER   -> h[a]]
    ELSE [h EXCEPT ![b].size = size, ![b].free = FALSE]

\* Take block b, split if the rest has room for a header and a byte.
Take(h, b, size) ==
  LET new == b + HeaderSize + size IN
    IF h[b].size > size + HeaderSize
    THEN [a \in DOMAIN h \cup {new} |->
            CASE a = b   -> [size |-> size, free |-> FALSE, next |-> new]
              [] a = new -> [size |-> h[b].size - size - HeaderSize,
                             free |-> TRUE, next |-> h[b].next]
              [] OTHER   -> h[a]]
    ELSE [h EXCEPT ![b].size = size, ![b].free = FALSE]

Allocation(b, size) == [ptr |-> b + HeaderSize, size |-> size]

\* kmalloc of c, interrupted between its test and its writes.
kmalloc_find(c, size) ==
  /\ Outside(c) /\ Fits(hdr, size) # {}
  /\ found' = [found EXCEPT ![c] = [block |-> FirstFit(hdr, size), size |-> size]]
  /\ UNCHANGED <<hdr, live, freed, raced>>

kmalloc_take(c) ==
  LET b == found[c].block
      size == found[c].size
  IN /\ ~raced /\ found[c] # NotFound
     /\ raced' = ~CanTake(hdr, b, size)
     /\ hdr' = Take(hdr, b, size)
     /\ live' = live \cup {Allocation(b, size)}
     /\ found' = [found EXCEPT ![c] = NotFound]
     /\ UNCHANGED freed

\* kmalloc with interrupts disabled, which returns ptr.
masked_kmalloc(ptr, size) ==
  /\ ~raced /\ Fits(hdr, size) # {} /\ ptr = FirstFit(hdr, size) + HeaderSize
  /\ hdr' = Take(hdr, ptr - HeaderSize, size)
  /\ live' = live \cup {Allocation(ptr - HeaderSize, size)}
  /\ UNCHANGED <<found, freed, raced>>
-----------------------------------------------------------------------------
\* *(uint32_t*)ptr = 0: a header less than four bytes on loses the low bytes
\* of its size, which has no more than three.
ZeroWord(h, ptr) ==
  [a \in DOMAIN h |->
     IF a \in ptr..(ptr + 3)
     THEN [h[a] EXCEPT !.size = CASE a = ptr + 3 -> @ - (@ % 256)
                                  [] a = ptr + 2 -> @ - (@ % 65536)
                                  [] OTHER -> 0]
     ELSE h[a]]

\* kfree in its merging loop: `at` is the block that the loop has come to,
\* `waiting` the calls of kfree around it, each with its own block and the
\* address that the call inside it has to clear.
Loop(h, at, waiting) == [hdr |-> h, at |-> at, waiting |-> waiting]

Absorbed(h, b) == LET mid == h[b].next IN
                    [h EXCEPT ![b].size = @ + h[mid].size + HeaderSize,
                              ![b].next = h[mid].next]

\* One turn of the loop: the set of its outcomes.  It calls kfree on the address
\* of the header that follows the merged pair, and what that call takes for a
\* header is HeaderSize bytes before, in the data of the block just merged: its
\* free flag is any byte, unless that block is empty and the byte is its own flag.
Turn(c) ==
  LET h == c.hdr
      b == c.at
      goes_on == b # nullptr
      mid == h[b].next
      merges == goes_on /\ h[b].free /\ mid # nullptr /\ h[mid].free
      next == h[mid].next
      caller == c.waiting[Len(c.waiting)]
      cleared == ZeroWord(h, caller.clears)
  IN CASE ~goes_on /\ c.waiting = <<>> -> {c}
       [] ~goes_on /\ c.waiting # <<>> ->
            {Loop(cleared, cleared[caller.at].next, Front(c.waiting))}
       [] goes_on /\ ~merges -> {Loop(h, mid, c.waiting)}
       [] OTHER ->
            {Loop(Absorbed(h, b), next, c.waiting)} \cup
            (IF next \in {nullptr, mid + HeaderSize} THEN {}
             ELSE {Loop(Absorbed(h, b), HEAP_START,
                        Append(c.waiting, [at |-> b, clears |-> next]))})

\* Each call walks the list once, and there is one for each block that is merged.
Turns(h) == LET n == Cardinality(DOMAIN h) IN n * (n + 1)

\* The outcomes of the merging loop.
Merge(h) ==
  LET turn[n \in 0..Turns(h)] ==
        IF n = 0 THEN {Loop(h, HEAP_START, <<>>)}
        ELSE UNION {Turn(c) : c \in turn[n - 1]}
  IN {c.hdr : c \in turn[Turns(h)]}

\* The block becomes free and neighbours are merged.
Unmarked(h, ptr) ==
  LET block == ptr - HeaderSize IN
    IF h[block].free THEN {h} ELSE Merge([h EXCEPT ![block].free = TRUE])

\* The word at ptr, which kfree clears, is in an allocation of somebody else.
Overwrites(ptr) == \E a \in live : a.ptr <= ptr + 3 /\ ptr < a.ptr + a.size

\* kfree of c by the owner of a, interrupted before it clears the first word.
kfree_merge(c, a) == /\ Outside(c) /\ a \in live
                     /\ live' = live \ {a}
                     /\ hdr' \in {Listed(h) : h \in Unmarked(hdr, a.ptr)}
                     /\ freed' = [freed EXCEPT ![c] = a.ptr]
                     /\ UNCHANGED <<found, raced>>

kfree_clear(c) == /\ ~raced /\ freed[c] # nullptr
                  /\ raced' = Overwrites(freed[c])
                  /\ hdr' = ZeroWord(hdr, freed[c])
                  /\ freed' = [freed EXCEPT ![c] = nullptr]
                  /\ UNCHANGED <<live, found>>

\* What kfree with interrupts disabled makes of the list.
Freed(h, ptr) == {ZeroWord(k, ptr) : k \in Unmarked(h, ptr)}

masked_kfree(a) == /\ ~raced /\ a \in live
                   /\ live' = live \ {a}
                   /\ hdr' \in {Listed(h) : h \in Freed(hdr, a.ptr)}
                   /\ UNCHANGED <<found, freed, raced>>

\* kfree and then kmalloc with interrupts disabled, as a tick does.
masked_exchange(a, ptr, size) ==
  /\ ~raced /\ a \in live
  /\ \E h \in {Listed(k) : k \in Freed(hdr, a.ptr)} :
       /\ Fits(h, size) # {} /\ ptr = FirstFit(h, size) + HeaderSize
       /\ hdr' = Take(h, ptr - HeaderSize, size)
  /\ live' = (live \ {a}) \cup {Allocation(ptr - HeaderSize, size)}
  /\ UNCHANGED <<found, freed, raced>>
-----------------------------------------------------------------------------
(***************************************************************************)
(* kmalloc hands out no byte twice, whatever kfree does to the list, and   *)
(* no allocation, used to its last byte, overwrites a header: the list     *)
(* ascends, and no block reaches into the next one.                        *)
(***************************************************************************)
LiveDisjoint ==
  \A a, b \in live : a # b => a.ptr + a.size <= b.ptr \/ b.ptr + b.size <= a.ptr

HeadersIntact ==
  /\ DOMAIN hdr \subseteq Address /\ \A a \in DOMAIN hdr : hdr[a] \in Header
  /\ \A b \in Range(Blocks(hdr)) :
       LET end == b + HeaderSize + hdr[b].size IN
         IF hdr[b].next = nullptr THEN end <= HEAP_START + HEAP_SIZE
                                  ELSE end <= hdr[b].next
  /\ \A a \in live, b \in Range(Blocks(hdr)) :
       b + HeaderSize <= a.ptr \/ a.ptr + a.size <= b

(***************************************************************************)
(* Two processes that interrupt each other in kmalloc and kfree, and the   *)
(* queue of the scheduler beside them, keep the heap sound, but for one    *)
(* exception each: somebody takes or merges away the block that a process  *)
(* has found and not yet marked, or takes the block that a process has     *)
(* marked free and not yet cleared (kmalloc, kfree).                       *)
(***************************************************************************)
HeapIsSound == raced \/ (LiveDisjoint /\ HeadersIntact)
=============================================================================
