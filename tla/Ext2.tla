-------------------------------- MODULE Ext2 --------------------------------
(***************************************************************************)
(* The ext2 file system, fs/ext/*.cpp: one directory with its files and    *)
(* empty directories, on a disk of one block group.  An operation is a     *)
(* plan, the sequence of the disk writes it makes; the machine may stop    *)
(* after any of them.  Operations follow each other, as the command line   *)
(* is the only caller; so what the kernel caches (the descriptor, the      *)
(* inodes) is what the disk has whenever no write is left.                 *)
(***************************************************************************)
EXTENDS Integers, Sequences, SequencesExt, FiniteSetsExt

CONSTANTS Blocks,     \* the number of blocks of the group
          Metadata,   \* the blocks that are in use on an empty disk, 0 with them
          EXT2_FIRST_NONRESERVED_INO,
          Inodes,     \* the number of inodes of the group
          Name,
          Room,       \* the entries that the directory's block takes
          Direct,     \* direct pointers of an inode, 12 in the code
          PerBlock,   \* pointers that a block takes
          BLK_SIZE,   \* the super block's blk_size: log2 of the block size, less 10
          Restarts    \* bound: how often the machine is cut off and started again

Block == 0..(Blocks - 1)
Ino == EXT2_FIRST_NONRESERVED_INO..Inodes

ASSUME Ext2Assumption ==
  /\ Blocks \in Nat /\ 0 \in Metadata /\ Metadata \subseteq Block
  /\ {EXT2_FIRST_NONRESERVED_INO, Inodes, Direct, PerBlock} \subseteq Nat \ {0}
  /\ {Room, Restarts} \subseteq Nat /\ BLK_SIZE \in 0..6

VARIABLES disk,
          todo,      \* what the writes that the operation has still to make
                     \* turn the disk into, one after another
          panic,     \* the operation ends in kernel_panic
          intact,    \* history: no operation was cut off, nothing removed but
                     \* files whose blocks are direct
          restarts

vars == <<disk, todo, panic, intact, restarts>>

Kind == {"file", "dir"}
Entry == [name : Name, kind : Kind, ino : Ino]
Inode == [links : 0..2, direct : Seq(Block), indirect : Block]
NoInode == [links |-> 0, direct |-> <<>>, indirect |-> 0]

Init == /\ disk = [blocks |-> Metadata, \* the block bitmap
                   inodes |-> {},       \* the inode bitmap
                   bgd |-> [blks |-> Blocks - Cardinality(Metadata),
                            inos |-> Cardinality(Ino)],
                   table |-> [i \in Ino |-> NoInode],
                   dir |-> {},
                   ptrs |-> [b \in Block |-> <<>>]] \* a block as a table of pointers
        /\ todo = <<>> /\ panic = FALSE /\ intact = TRUE /\ restarts = 0
-----------------------------------------------------------------------------
(***************************************************************************)
(* Plans: the disk as it will be, what it is after each write so far, and  *)
(* the list of pointers at work.  After a panic nothing is added.          *)
(***************************************************************************)
Plan == [disk |-> disk, todo |-> <<>>, ok |-> TRUE, list |-> <<>>]

Put(p, d) == IF p.ok THEN [p EXCEPT !.disk = d, !.todo = Append(@, d)] ELSE p

\* rewrite_bgds; rewrite_sb reads the super block twice and writes nothing.
PutCounts(p, blks, inos) ==
  Put(p, [p.disk EXCEPT !.bgd = [blks |-> @.blks + blks, inos |-> @.inos + inos]])

PutBlocks(p, blocks) == Put(p, [p.disk EXCEPT !.blocks = blocks])
PutInodes(p, inodes) == Put(p, [p.disk EXCEPT !.inodes = inodes])
PutDir(p, dir) == Put(p, [p.disk EXCEPT !.dir = dir])
PutPtrs(p, b, list) == Put(p, [p.disk EXCEPT !.ptrs = [@ EXCEPT ![b] = list]])

FreeBlocks(p) == IF p.disk.bgd.blks = 0 THEN {} ELSE Block \ p.disk.blocks
FreeInodes(p) == IF p.disk.bgd.inos = 0 THEN {} ELSE Ino \ p.disk.inodes

\* Mutant: the bitmap is not written.
alloc_block_unmarked(p) ==
  IF p.ok /\ FreeBlocks(p) # {}
  THEN [PutCounts(p, -1, 0) EXCEPT !.list = Append(@, Min(FreeBlocks(p)))]
  ELSE [p EXCEPT !.ok = FALSE]

alloc_block(p) ==
  IF p.ok /\ FreeBlocks(p) # {}
  THEN LET b == Min(FreeBlocks(p))
       IN [PutCounts(PutBlocks(p, p.disk.blocks \cup {b}), -1, 0) EXCEPT !.list = Append(@, b)]
  ELSE [p EXCEPT !.ok = FALSE]

alloc_inode(p) ==
  IF FreeInodes(p) # {}
  THEN PutCounts(PutInodes(p, p.disk.inodes \cup {Min(FreeInodes(p))}), 0, -1)
  ELSE [p EXCEPT !.ok = FALSE]

free_block(p, b) == PutCounts(PutBlocks(p, p.disk.blocks \ {b}), 1, 0)

\* Mutant: the bitmap is not written.
free_inode_uncleared(p, i) == PutCounts(p, 0, 1)

free_inode(p, i) == PutCounts(PutInodes(p, p.disk.inodes \ {i}), 0, 1)

\* The loop over the pointers of an indirect block runs to blk_size / 4, where
\* blk_size is the logarithm.
Freed(d, inode) ==
  LET table == d.ptrs[inode.indirect]
  IN IF inode.indirect = 0 THEN inode.direct
     ELSE inode.direct \o SubSeq(table, 1, Min({Len(table), BLK_SIZE \div 4}))
                       \o <<inode.indirect>>

free_all(p, list) ==
  LET after[k \in 0..Len(list)] == IF k = 0 THEN p ELSE free_block(after[k - 1], list[k])
  IN after[Len(list)]

free_blocks(p, inode) == free_all(p, Freed(p.disk, inode))

write_inode(p, i, inode) == Put(p, [p.disk EXCEPT !.table = [@ EXCEPT ![i] = inode]])
zero_block(p, b) == PutPtrs(p, b, <<>>)

alloc_blocks(p, n) ==
  LET after[k \in 0..n] == IF k = 0 THEN p ELSE alloc_block(after[k - 1]) IN after[n]

\* Steps until the list has n pointers; those it has are used again.
Extended(p, n) == IF n > Len(p.list) THEN alloc_blocks(p, n - Len(p.list)) ELSE p
-----------------------------------------------------------------------------
Idle == todo = <<>> /\ ~panic

Do(p) == /\ todo' = p.todo /\ panic' = ~p.ok
         /\ UNCHANGED <<disk, restarts>>

Named(name, kind) == {e \in disk.dir : e.name = name /\ e.kind = kind}

another_block(p) == LET a == alloc_block(p) IN zero_block(a, Last(a.list))

\* insert_directory_entry: without room in the block new blocks are added and
\* zeroed, and an entry of length zero is taken for the end: none is ever used,
\* so the disk fills up.
insert_directory_entry(p, e) ==
  IF Cardinality(p.disk.dir) < Room THEN PutDir(p, p.disk.dir \cup {e})
  ELSE LET after[k \in 0..(Blocks + 1)] == IF k = 0 THEN p ELSE another_block(after[k - 1])
       IN after[Blocks + 1]

make_file(name) ==
  /\ Idle /\ Named(name, "file") = {}
  /\ LET i == Min(FreeInodes(Plan))
         p == alloc_inode(Plan)
     IN Do(insert_directory_entry(write_inode(p, i, [NoInode EXCEPT !.links = 1]),
                                  [name |-> name, kind |-> "file", ino |-> i]))
  /\ UNCHANGED intact

make_dir(name) ==
  /\ Idle /\ Named(name, "dir") = {}
  /\ LET i == Min(FreeInodes(Plan))
         q == alloc_block(alloc_inode(Plan))
     IN Do(insert_directory_entry(
             write_inode(q, i, [links |-> 2, direct |-> q.list, indirect |-> 0]),
             [name |-> name, kind |-> "dir", ino |-> i]))
  /\ UNCHANGED intact
-----------------------------------------------------------------------------
\* The indirect block of an inode, a new one if it has none.
Indirect(p, inode) ==
  IF inode.indirect # 0 THEN [p EXCEPT !.list = <<inode.indirect>>]
  ELSE LET a == alloc_block([p EXCEPT !.list = <<>>]) IN zero_block(a, a.list[1])

\* write_indirect_block: its table is written when all its entries are there.
write_indirect_block(p, b, n) ==
  LET q == Extended([p EXCEPT !.list = p.disk.ptrs[b]], n) IN PutPtrs(q, b, q.list)

\* Mutant: the blocks that the file has are not used again.
HeldAnew(inode) == <<>>

Held(inode) == inode.direct

\* write_file_content that comes to the first n blocks of the file, to overwrite
\* it or to append to it: both begin at its first block.
write_file_content(e, n) ==
  /\ Idle /\ e.kind = "file"
  /\ LET old == disk.table[e.ino]
         p == Extended([Plan EXCEPT !.list = Held(old)], Min({n, Direct}))
         q == Indirect(p, old)
         new == [old EXCEPT !.direct = p.list]
     IN Do(IF n <= Direct THEN write_inode(p, e.ino, new)
           ELSE IF ~q.ok THEN q
           ELSE write_inode(write_indirect_block(q, q.list[1], n - Direct), e.ino,
                            [new EXCEPT !.indirect = q.list[1]]))
  /\ UNCHANGED intact

\* Mutant: the entry goes last.
remove_entry_last(e) ==
  /\ Idle
  /\ LET inode == disk.table[e.ino] IN
       /\ Do(PutDir(IF e.kind = "file"
                    THEN free_blocks(free_inode(Plan, e.ino), inode) ELSE Plan,
                    disk.dir \ {e}))
       /\ intact' = (intact /\ e.kind = "file" /\ inode.indirect = 0)

\* remove_entry: the link of a directory's own "." is never taken away, so
\* neither its inode nor its block is freed.
remove_entry(e) ==
  /\ Idle
  /\ LET inode == disk.table[e.ino]
         p == PutDir(Plan, disk.dir \ {e})
     IN /\ Do(IF inode.links - 1 = 0 THEN free_blocks(free_inode(p, e.ino), inode) ELSE p)
        /\ intact' = (intact /\ e.kind = "file" /\ inode.indirect = 0)
-----------------------------------------------------------------------------
DiskWrite == /\ todo # <<>>
             /\ disk' = Head(todo)
             /\ todo' = Tail(todo)
             /\ UNCHANGED <<panic, intact, restarts>>

\* Power is lost, or the panic ended by a reset; init_ext2_device reads the disk.
Restart == /\ ~Idle /\ restarts < Restarts
           /\ restarts' = restarts + 1
           /\ todo' = <<>> /\ panic' = FALSE /\ intact' = FALSE
           /\ UNCHANGED disk

Next == \/ \E name \in Name : make_file(name) \/ make_dir(name)
        \/ \E e \in disk.dir : \/ \E n \in 0..(Direct + PerBlock) : write_file_content(e, n)
                               \/ remove_entry(e)
        \/ DiskWrite \/ Restart

Spec == Init /\ [][Next]_vars
-----------------------------------------------------------------------------
\* The blocks of a file or directory on disk d, in the order of its pointers.
BlocksOf(d, e) ==
  LET inode == d.table[e.ino] IN
    inode.direct \o (IF inode.indirect = 0 THEN <<>>
                     ELSE d.ptrs[inode.indirect] \o <<inode.indirect>>)

Reached(d) == UNION {ToSet(BlocksOf(d, e)) : e \in d.dir}

(***************************************************************************)
(* The counts of the descriptor stay counts, and what is cut off leaves    *)
(* values that a disk can have.                                            *)
(***************************************************************************)
TypeOK == /\ disk.blocks \subseteq Block /\ disk.inodes \subseteq Ino
          /\ disk.bgd.blks \in 0..Blocks /\ disk.bgd.inos \in 0..Inodes
          /\ disk.table \in [Ino -> Inode]
          /\ disk.dir \subseteq Entry /\ Cardinality(disk.dir) <= Room
          /\ disk.ptrs \in [Block -> Seq(Block)]
          /\ panic \in BOOLEAN /\ intact \in BOOLEAN /\ restarts \in 0..Restarts

(***************************************************************************)
(* Wherever the machine stops, what the directory reaches is marked used   *)
(* in the bitmaps, so no later allocation takes it: bitmaps are written    *)
(* before the inode and the entry (alloc_block, make_file), the entry goes *)
(* before the bits (remove_entry).                                         *)
(***************************************************************************)
ReachableAreMarked ==
  /\ TypeOK
  /\ Reached(disk) \subseteq disk.blocks
  /\ {e.ino : e \in disk.dir} \subseteq disk.inodes

(***************************************************************************)
(* Wherever the machine stops, a block belongs to one file, to one pointer *)
(* of it, and is none of the disk's metadata; an inode has one name.       *)
(***************************************************************************)
OwnedOnce ==
  /\ \A e \in disk.dir : /\ IsInjective(BlocksOf(disk, e))
                         /\ ToSet(BlocksOf(disk, e)) \cap Metadata = {}
  /\ \A e, f \in disk.dir : e # f =>
       /\ e.ino # f.ino
       /\ ToSet(BlocksOf(disk, e)) \cap ToSet(BlocksOf(disk, f)) = {}

(***************************************************************************)
(* Wherever the machine stops and whatever is made, written and removed    *)
(* after it starts again, the files on the disk keep their blocks to       *)
(* themselves, now and for every later allocation (alloc_block,            *)
(* free_block, make_file, write_file, remove_entry).                       *)
(***************************************************************************)
DiskIsSafe == ReachableAreMarked /\ OwnedOnce

(***************************************************************************)
(* As long as nothing was cut off and only files with direct blocks were   *)
(* removed, every block and inode that is in no file is free, and the      *)
(* counts are those of the bitmaps.  (What an indirect block points to and *)
(* what a directory has is not given back.)                                *)
(***************************************************************************)
PoolIsWhole ==
  Idle /\ intact =>
    /\ disk.blocks = Metadata \cup Reached(disk)
    /\ disk.inodes = {e.ino : e \in disk.dir}
    /\ disk.bgd.blks = Cardinality(Block \ disk.blocks)
    /\ disk.bgd.inos = Cardinality(Ino \ disk.inodes)

(***************************************************************************)
(* No write of any operation takes a block from a file that keeps its      *)
(* name, or puts another one in its place.                                 *)
(***************************************************************************)
FilesKeepTheirBlocks ==
  [][\A e \in disk.dir \cap disk'.dir :
       /\ IsPrefix(disk.table[e.ino].direct, disk'.table[e.ino].direct)
       /\ ToSet(BlocksOf(disk, e)) \subseteq ToSet(BlocksOf(disk', e))]_vars
=============================================================================
