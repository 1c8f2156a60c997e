------------------------------ MODULE FrameList ------------------------------
(***************************************************************************)
(* The physical memory manager, mm/pmm.cpp: a first-fit list of blocks of  *)
(* page frames.  Its nodes lie in an array of metadata slots; a split puts *)
(* the new node into the slot after the node that is split, whether that   *)
(* slot is in use or not.  Addresses and sizes are counted in frames.      *)
(***************************************************************************)
EXTENDS Integers, Sequences, SequencesExt, FiniteSetsExt

CONSTANTS LOW_DATA_START_ADDR, \* the first frame that can be allocated
          Reserved,            \* the frames that vmm::init takes, as one block
          Frames,              \* the number of frames behind them
          LastSlot,            \* bound: the last metadata slot that is used
          Blocks               \* the numbers of frames that callers ask for

ASSUME FrameAssumption ==
  /\ {LOW_DATA_START_ADDR, Reserved, Frames, LastSlot} \subseteq Nat \ {0}
  /\ Blocks \subseteq Nat \ {0}

VARIABLES node,   \* the metadata slots
          total_used_ram,
          mapped, \* the pages mapped to the frame of the same number
          live,   \* what callers hold, in the order they got it
          reverse,\* whether there is one caller, which frees in the reverse of that order
          found,  \* what a caller that was interrupted has found
          status  \* "wild": a write through an uninitialised pointer,
                  \* "hung": a walk of the list that does not end,
                  \* "stale": a block taken that was no longer free

vars == <<node, total_used_ram, mapped, live, reverse, found, status>>

nullptr == -1
Nothing == [slot |-> nullptr, size |-> 0]
Head0 == 0 \* the slot of low_alloc_mem_head
Slots == 0..LastSlot
Node == [addr : Nat, size : Nat, free : BOOLEAN,
         next : Slots \cup {nullptr}, prev : Slots \cup {nullptr}]
Limit == LOW_DATA_START_ADDR + Reserved + Frames

TypeOK == /\ node \in [Slots -> Node]
          /\ total_used_ram \in Int \* unsigned: below zero it wraps
          /\ mapped \subseteq Nat
          /\ live \in Seq([addr : Nat, size : Blocks])
          /\ reverse \in BOOLEAN
          /\ found = Nothing \/ found \in [slot : Slots, size : Blocks]
          /\ status \in {"ok", "hung", "wild", "stale"}

Slot(addr, size, free, next, prev) ==
  [addr |-> addr, size |-> size, free |-> free, next |-> next, prev |-> prev]

\* After pmm::init and vmm::init, 32-bit paging: the block of the page directory
\* and the page tables, which nobody frees, and one free block.  The slots behind
\* are zero.  Every page table that is needed exists.
Init == /\ node = [s \in Slots |->
               CASE s = Head0 -> Slot(LOW_DATA_START_ADDR, Reserved, FALSE, 1, nullptr)
                 [] s = 1 -> Slot(LOW_DATA_START_ADDR + Reserved, Frames, TRUE, nullptr, Head0)
                 [] OTHER -> Slot(0, 0, FALSE, nullptr, nullptr)]
        /\ total_used_ram = Reserved
        /\ mapped = 0..(LOW_DATA_START_ADDR + Reserved)
        /\ live = <<>>
        /\ reverse \in BOOLEAN
        /\ found = Nothing
        /\ status = "ok"
-----------------------------------------------------------------------------
\* The list l and the node behind it, unless it ends or comes back.
Further(m, l) == LET next == m[Last(l)].next IN
                   IF next \in {nullptr} \cup Range(l) THEN l ELSE Append(l, next)

\* The list, as the code walks it, up to where it ends or comes back.
Listed(m) == LET walk[n \in Slots] == IF n = 0 THEN <<Head0>> ELSE Further(m, walk[n - 1])
             IN walk[LastSlot]

Cyclic(m) == m[Last(Listed(m))].next # nullptr

\* Mutant: the rest of a split block begins where the block begins.
SplitAtStart(m, c, size) ==
  [m EXCEPT ![c + 1] = Slot(m[c].addr, m[c].size - size, TRUE, m[c].next, c),
            ![c].next = c + 1]

\* The rest of block c becomes a node in the slot after c.
Split(m, c, size) ==
  [m EXCEPT ![c + 1] = Slot(m[c].addr + size, m[c].size - size, TRUE, m[c].next, c),
            ![c].next = c + 1]

\* The address is computed anew from the node that prev names.
Taken(m, c, size) ==
  LET s == IF m[c].size > size THEN Split(m, c, size) ELSE m
      p == s[c].prev
  IN [s EXCEPT ![c].size = size, ![c].free = FALSE,
               ![c].addr = IF p = nullptr THEN @
                           ELSE IF p = c THEN @ + size
                           ELSE s[p].addr + s[p].size]

\* The first node of the list that Is holds of, if there is one.
Places(m, Is(_)) == LET l == Listed(m) IN {i \in DOMAIN l : Is(m[l[i]])}
First(m, places) == Listed(m)[Min(places)]

Fits(m, size) == Places(m, LAMBDA n : n.free /\ n.size >= size)
FirstFit(m, size) == First(m, Fits(m, size))

\* The rest of alloc_frame once it has found slot c.  identity_map_region maps
\* the page after the block, too.
Take(c, size) ==
  /\ node[c].size > size => c + 1 \in Slots
  /\ node' = Taken(node, c, size)
  /\ LET addr == node'[c].addr IN
       /\ mapped' = mapped \cup (addr..(addr + size))
       /\ live' = Append(live, [addr |-> addr, size |-> size])
  /\ total_used_ram' = total_used_ram + size

alloc_frame(size) ==
  \/ /\ Fits(node, size) # {}
     /\ Take(FirstFit(node, size), size)
     /\ UNCHANGED <<found, status>>
  \/ /\ Fits(node, size) # {} /\ found = Nothing
     /\ found' = [slot |-> FirstFit(node, size), size |-> size]
     /\ UNCHANGED <<node, total_used_ram, mapped, live, status>>
  \/ /\ Fits(node, size) = {} /\ Cyclic(node)
     /\ status' = "hung"
     /\ UNCHANGED <<node, total_used_ram, mapped, live, found>>

StillFits(c, size) == c \in Range(Listed(node)) /\ node[c].free /\ node[c].size >= size

\* The caller that was interrupted behind its search goes on, without a look.
Resume == /\ found # Nothing
          /\ Take(found.slot, found.size)
          /\ status' = IF StillFits(found.slot, found.size) THEN "ok" ELSE "stale"
          /\ found' = Nothing
-----------------------------------------------------------------------------
Mergeable(m, s) == LET n == m[s].next IN
                     /\ m[s].free /\ n # nullptr
                     /\ m[n].free /\ m[n].addr = m[s].addr + m[s].size

Absorbed(m, s) ==
  LET n == m[s].next
      k == m[n].next
      a == [m EXCEPT ![s].size = @ + m[n].size, ![s].next = k]
  IN IF k = nullptr THEN a ELSE [a EXCEPT ![k].prev = s]

\* free_frame in its merging passes: `at` is the slot that the pass has come to,
\* and every block absorbs at most the next one before the pass goes on.
Pass(m, at, merged) == [node |-> m, at |-> at, merged_frames |-> merged]

Turn(c) ==
  LET m == c.node
      s == c.at
      a == IF Mergeable(m, s) THEN Absorbed(m, s) ELSE m
  IN CASE s # nullptr -> Pass(a, a[s].next, c.merged_frames \/ Mergeable(m, s))
       [] s = nullptr /\ c.merged_frames -> Pass(m, Head0, FALSE)
       [] OTHER -> c

\* No pass is longer than the list, and each but the last makes it shorter.
Turns == (LastSlot + 2) * (LastSlot + 2)

Merged(m) ==
  LET turn[n \in 0..Turns] == IF n = 0 THEN Pass(m, Head0, FALSE) ELSE Turn(turn[n - 1])
  IN turn[Turns].node

\* The pages unmapped after block b was freed: one for every slot from b to
\* the first empty one, and they begin at page 0, since ptr was cleared.
Unmapped(m, b) ==
  LET empty == {s \in Slots : s >= b /\ m[s].size = 0} IN
    0..((IF empty = {} THEN LastSlot + 1 ELSE Min(empty)) - b - 1)

At(m, addr) == Places(m, LAMBDA n : n.addr = addr)

\* Mutant: the block is found and not marked free.
free_frame_unmarked(i) ==
  /\ LET block == First(node, At(node, live[i].addr)) IN
       /\ At(node, live[i].addr) # {} /\ ~Cyclic(node)
       /\ node' = Merged(node)
       /\ total_used_ram' = total_used_ram - node[block].size
       /\ mapped' = mapped \ Unmapped(node', block)
       /\ UNCHANGED status
  /\ live' = RemoveAt(live, i)

\* free_frame for the i-th of the allocations.
free_frame(i) ==
  /\ LET at == At(node, live[i].addr)
         block == First(node, at)
     IN
       \/ /\ at # {} /\ ~Cyclic(node)
          /\ node' = Merged([node EXCEPT ![block].free = TRUE])
          /\ total_used_ram' = total_used_ram - node[block].size
          /\ mapped' = mapped \ Unmapped(node', block)
          /\ UNCHANGED status
       \/ /\ at = {} \/ Cyclic(node)
          /\ status' = IF Cyclic(node) THEN "hung" ELSE "wild"
          /\ UNCHANGED <<node, total_used_ram, mapped>>
  /\ live' = RemoveAt(live, i)
-----------------------------------------------------------------------------
Next == /\ status = "ok"
        /\ \/ /\ reverse => found = Nothing
              /\ \E size \in Blocks : alloc_frame(size)
           \/ Resume
           \/ /\ reverse => found = Nothing
              /\ \E i \in 1..Len(live) : (reverse => i = Len(live)) /\ free_frame(i)
              /\ UNCHANGED found
        /\ UNCHANGED reverse

Spec == Init /\ [][Next]_vars
-----------------------------------------------------------------------------
Used(m) == {s \in Range(Listed(m)) \ {Head0} : ~m[s].free}

\* The list of m covers the frames in order, and its used blocks are those of l,
\* each of them held once.
IsSound(m, l) ==
  /\ ~Cyclic(m)
  /\ LET list == Listed(m) IN
       /\ m[list[1]].addr = LOW_DATA_START_ADDR
       /\ \A i \in 1..(Len(list) - 1) :
            m[list[i + 1]].addr = m[list[i]].addr + m[list[i]].size
       /\ m[Last(list)].addr + m[Last(list)].size = Limit
  /\ {[addr |-> m[s].addr, size |-> m[s].size] : s \in Used(m)} = Range(l)
  /\ IsInjective(l)

Sound == IsSound(node, live)

\* The frames that are in use while callers hold l.
Held(l) == LET sum[n \in 0..Len(l)] == IF n = 0 THEN Reserved ELSE sum[n - 1] + l[n].size
           IN sum[Len(l)]

(***************************************************************************)
(* Callers that free in reverse order of allocation never meet a list that *)
(* is out of order, and the count of the used frames is right (alloc_frame *)
(* and free_frame together).                                               *)
(***************************************************************************)
SoundAndCounted ==
  TypeOK /\ (reverse =>
    Sound /\ total_used_ram = Held(live))

(***************************************************************************)
(* For callers that free in any order, and may be interrupted behind their *)
(* search, the list goes wrong in three ways only: a split writes the new  *)
(* node over a slot in use, a block is taken whose prev pointer a split    *)
(* before it has left behind, or somebody else has taken or merged the     *)
(* block since it was found.                                               *)
(***************************************************************************)
SplitIntoFreeSlot(c, size) ==
  node[c].size > size => c + 1 \notin Range(Listed(node))

PrevIsBefore(c) ==
  LET p == node[c].prev IN p # nullptr => p \in Range(Listed(node)) /\ node[p].next = c

TakesWell(c, size) == SplitIntoFreeSlot(c, size) /\ PrevIsBefore(c) /\ StillFits(c, size)

OnlyTakesBreakTheList ==
  [][/\ Sound
     /\ Len(live') > Len(live) =>
          IF found' # found THEN TakesWell(found.slot, found.size)
                            ELSE LET size == Last(live').size
                                 IN TakesWell(FirstFit(node, size), size)
     => IsSound(node', live')]_vars
=============================================================================
