------------------------------- MODULE DirBlock -------------------------------
(***************************************************************************)
(* The block of an ext2 directory, fs/ext/ext2.cpp: a chain of entries     *)
(* that covers it, each as long as its size says, which may be longer than *)
(* its name needs.  An entry with inode 0 is unused.  Sizes are bytes.     *)
(***************************************************************************)
EXTENDS Integers, Sequences, SequencesExt, FiniteSetsExt

CONSTANTS BlockSize,
          NameLen  \* the number of characters of each name, 0 for ""

HeaderLen == 8

ASSUME DirBlockAssumption ==
  /\ \A name \in DOMAIN NameLen : NameLen[name] \in Nat
  /\ {"", ".", ".."} \subseteq DOMAIN NameLen
  /\ NameLen[""] = 0 /\ NameLen["."] = 1 /\ NameLen[".."] = 2
  /\ BlockSize \in {n \in 24..65535 : n % 4 = 0}

align4(n) == 4 * ((n + 3) \div 4)
dirent_rec_len(name) == HeaderLen + align4(NameLen[name])

Entry(ino, kind, name, size) == [ino |-> ino, kind |-> kind, name |-> name, size |-> size]
Unused(size) == Entry(0, "none", "", size)

\* The block that make_dir writes: "." and "..", which has all the rest.
NewDirBlock(self, parent) ==
  LET dot == dirent_rec_len(".") IN
    <<Entry(self, "dir", ".", dot), Entry(parent, "dir", "..", BlockSize - dot)>>
-----------------------------------------------------------------------------
IsUsed(e) == e.ino # 0
Extra(e) == e.size - dirent_rec_len(e.name)

\* Whether a name that needs so many bytes goes in place of entry e, or behind it.
HasRoom(e, needed) == (~IsUsed(e) /\ e.size >= needed) \/ Extra(e) >= needed

Places(block, name) ==
  {i \in DOMAIN block : HasRoom(block[i], dirent_rec_len(name))}

\* The header of an unused entry takes eight bytes: in a gap of four it lies
\* over the inode number of the next entry, or behind the buffer of the block,
\* which is not modelled.
WithRemainder(gap, behind) ==
  CASE gap = 0 -> behind
    [] gap >= HeaderLen \/ behind = <<>> -> <<Unused(gap)>> \o behind
    [] OTHER -> <<Unused(gap), [Head(behind) EXCEPT !.ino = gap]>> \o Tail(behind)

insert_into_block(block, ino, kind, name) ==
  LET i      == Min(Places(block, name))
      old    == block[i]
      needed == dirent_rec_len(name)
      inPlace == ~IsUsed(old) /\ old.size >= needed
      kept   == IF inPlace THEN <<>> ELSE <<[old EXCEPT !.size = @ - Extra(old)]>>
      gap    == (IF inPlace THEN old.size ELSE Extra(old)) - needed
  IN SubSeq(block, 1, i - 1) \o kept \o <<Entry(ino, kind, name, needed)>>
       \o WithRemainder(gap, SubSeq(block, i + 1, Len(block)))

\* The first entry with this name and type is merged with the one before it.
remove_dir_entry(block, name, kind) ==
  LET found == {i \in DOMAIN block : /\ IsUsed(block[i])
                                     /\ block[i].name = name /\ block[i].kind = kind}
      i == Min(found)
  IN IF found = {} THEN block
     ELSE IF i = 1 THEN [block EXCEPT ![1].ino = 0]
     ELSE RemoveAt([block EXCEPT ![i - 1].size = @ + block[i].size], i)

\* The entries that the reader of a directory comes to: it stops at an unused one.
parse_directory_block(block) ==
  LET unused == {i \in DOMAIN block : ~IsUsed(block[i])} IN
    SubSeq(block, 1, Min(unused \cup {Len(block) + 1}) - 1)
-----------------------------------------------------------------------------
\* What the directory has, listed or not.
Entries(block) == {e \in ToSet(block) : IsUsed(e)}
Hidden(block) == Entries(block) \ ToSet(parse_directory_block(block))
=============================================================================
