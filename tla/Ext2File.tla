------------------------------ MODULE Ext2File ------------------------------
(***************************************************************************)
(* The contents of a file, fs/ext/ext2.cpp: write_file_content, which      *)
(* overwrites or appends, and get_file_contents, which cat prints.  One    *)
(* file with direct blocks and those of its indirect block; which blocks   *)
(* of the disk they are is in module Ext2.                                 *)
(***************************************************************************)
EXTENDS Integers, Sequences, SequencesExt

CONSTANTS BlockSize,
          Direct,   \* the direct blocks of a file, 12 in the code
          PerBlock, \* the blocks that an indirect block names
          Imported, \* what files on the disk may hold when it is mounted
          Inputs,   \* what users write and append
          Writes    \* bound: the calls of write_file_content

Index == 0..(Direct + PerBlock - 1)
Capacity == (Direct + PerBlock) * BlockSize

Byte == STRING
Zero == "0"  \* the byte 0
Junk == "~"  \* a byte from outside of the input

ASSUME Ext2FileAssumption ==
  /\ {BlockSize, Direct, PerBlock} \subseteq Nat \ {0} /\ Writes \in Nat
  /\ Imported \cup Inputs \subseteq Seq(Byte) /\ {Zero, Junk} \subseteq Byte
  /\ \A s \in Imported \cup Inputs : Len(s) <= Capacity

VARIABLES size, blocks, \* the inode: the length, and the blocks in their order
          printed,      \* what cat printed: known bytes, and whether more followed
          last,         \* history: the call before, its input and the contents before it
          writes

fileVars == <<size, blocks, printed, last, writes>>

NoBlock == <<>>
Zeros == [k \in 1..BlockSize |-> Zero]

Least(a, b) == IF a < b THEN a ELSE b

\* The bytes of s that are in block i.
Slice(s, i) == SubSeq(s, i * BlockSize + 1, Least(Len(s), (i + 1) * BlockSize))
Padded(s) == [k \in 1..BlockSize |-> IF k \in DOMAIN s THEN s[k] ELSE Zero]

\* What the blocks hold of the file; a block that is missing is zeros.
Contents == [n \in 1..size |->
               LET b == blocks[(n - 1) \div BlockSize] IN
                 IF b = NoBlock THEN Zero ELSE b[((n - 1) % BlockSize) + 1]]

Nothing == [known |-> <<>>, more |-> FALSE]

\* A file on the disk: a block may be missing whose bytes are all zero.
FileInit ==
  \E s \in Imported :
    /\ size = Len(s)
    /\ blocks \in {f \in [Index -> {NoBlock} \cup {Padded(Slice(s, i)) : i \in Index}] :
                     \A i \in Index : \/ f[i] = Padded(Slice(s, i)) /\ Slice(s, i) # <<>>
                                      \/ f[i] = NoBlock /\ ToSet(Slice(s, i)) \subseteq {Zero}}
    /\ printed = Nothing /\ writes = 0
    /\ last = [call |-> "none", input |-> <<>>, before |-> <<>>]
-----------------------------------------------------------------------------
\* The byte at n of the input; its terminator lies behind it.
At(input, n) == IF n < Len(input) THEN input[n + 1]
                ELSE IF n = Len(input) THEN Zero ELSE Junk

\* Mutant: what the block holds is not read before it is overwritten.
LoadedBlank(b) == Zeros

Loaded(b) == IF b = NoBlock THEN Zeros ELSE b

\* One block, beginning with byte w.written % BlockSize of whichever it is.
write_file_block(w, i, input, total) ==
  LET offset == w.written % BlockSize
      n == Least(total - w.written, BlockSize - offset)
      old == Loaded(w.blocks[i])
      new == [k \in 1..BlockSize |->
                IF k \in (offset + 1)..(offset + n)
                THEN At(input, w.written + k - 1 - offset) ELSE old[k]]
  IN IF w.written >= total THEN w
     ELSE [blocks |-> [w.blocks EXCEPT ![i] = new], written |-> w.written + n]

FirstByte(overwrite) == IF overwrite THEN 0 ELSE size

\* All blocks in their order, the direct ones and those of the indirect block,
\* from the first one on; an append, too, begins with the first block.
write_file_content(input, overwrite) ==
  /\ writes < Writes /\ FirstByte(overwrite) + Len(input) <= Capacity
  /\ LET total == FirstByte(overwrite) + Len(input)
         after[k \in 0..(Direct + PerBlock)] ==
           IF k = 0 THEN [blocks |-> blocks, written |-> FirstByte(overwrite)]
                    ELSE write_file_block(after[k - 1], k - 1, input, total)
         w == after[Direct + PerBlock]
     IN /\ blocks' = w.blocks /\ size' = total
        /\ last' = [call |-> IF overwrite THEN "write" ELSE "append",
                    input |-> input, before |-> Contents]
  /\ writes' = writes + 1
  /\ printed' = Nothing
-----------------------------------------------------------------------------
\* Mutant: whole blocks are copied.
ToCopyWhole(read) == BlockSize

ToCopy(read) == Least(size - read, BlockSize)

\* A byte 0 is an empty string to large_string::append, and is left out.
Appended(out, b, n) ==
  LET after[k \in 0..n] == IF k = 0 THEN out
                           ELSE IF b[k] = Zero THEN after[k - 1]
                           ELSE Append(after[k - 1], b[k])
  IN after[n]

\* read_file_block for a block that is named.
Copied(r, i) ==
  IF blocks[i] = NoBlock \/ r.read >= size THEN r
  ELSE [out |-> Appended(r.out, blocks[i], ToCopy(r.read)), read |-> r.read + ToCopy(r.read)]

\* The direct blocks, up to the first that is missing.
NamedDirect == CHOOSE n \in 0..Direct : /\ \A i \in 0..(n - 1) : blocks[i] # NoBlock
                                        /\ n = Direct \/ blocks[n] = NoBlock

DirectRead ==
  LET after[k \in 0..NamedDirect] == IF k = 0 THEN [out |-> <<>>, read |-> 0]
                                     ELSE Copied(after[k - 1], k - 1)
  IN after[NamedDirect]

\* read_indirect_block: the first block that is named is read into the buffer of
\* the table itself, and what follows is taken from wherever its bytes point to.
get_file_contents ==
  LET d == DirectRead
      named == {i \in Index : i >= Direct /\ blocks[i] # NoBlock}
      first == CHOOSE i \in named : \A j \in named : i <= j
      r == IF d.read < size /\ named # {} THEN Copied(d, first) ELSE d
  IN /\ printed' = [known |-> r.out,
                    more |-> named # {} /\ d.read < size /\ r.read < size /\ first + 1 \in Index]
     /\ last' = [call |-> "cat", input |-> <<>>, before |-> Contents]
     /\ UNCHANGED <<size, blocks, writes>>

FileNext ==
  \/ \E input \in Inputs, overwrite \in BOOLEAN : write_file_content(input, overwrite)
  \/ get_file_contents

FileSpec == FileInit /\ [][FileNext]_fileVars
-----------------------------------------------------------------------------
NonZero(s) == Appended(<<>>, s, Len(s))

\* No block below the length is missing.
Whole == \A i \in Index : i * BlockSize < size => blocks[i] # NoBlock

(***************************************************************************)
(* Whatever happened to the file before, an overwrite leaves its input and *)
(* nothing else as the contents.  So does an append to an empty file, and  *)
(* an append to a file that ends in its first block keeps what was there:  *)
(* the part of the first block that write_file_content begins with is the  *)
(* right one in these cases.                                               *)
(***************************************************************************)
WritesKeepOrReplace ==
  /\ last.call = "write" => Contents = last.input
  /\ last.call = "append" /\ last.before = <<>> => Contents = last.input
  /\ last.call = "append" /\ Len(last.before) < BlockSize => IsPrefix(last.before, Contents)

(***************************************************************************)
(* cat prints a file without missing blocks as it is, but for bytes that   *)
(* are zero, if it ends with the first block behind the indirect block     *)
(* (get_file_contents).                                                    *)
(***************************************************************************)
CatPrintsUpToIndirect ==
  last.call = "cat" /\ Whole /\ size <= (Direct + 1) * BlockSize =>
    printed = [known |-> NonZero(Contents), more |-> FALSE]
=============================================================================
