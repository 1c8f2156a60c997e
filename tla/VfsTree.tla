------------------------------- MODULE VfsTree -------------------------------
(***************************************************************************)
(* The virtual file system, fs/ext/vfs.cpp and lib/data/tree.hpp: a tree   *)
(* of nodes that caches the directories of the disks, the commands of      *)
(* apps/storage_cli.cpp that work on both, and the start of the machine,   *)
(* fs/sysdisk.cpp.  A command is one step: nothing else uses the tree.     *)
(* Each directory has one block, and disks have inodes enough: what a stop *)
(* between two writes or a full disk does is in module Ext2.               *)
(***************************************************************************)
EXTENDS DirBlock, TLC

CONSTANTS FileName, DirName, \* the names that users give to files and directories
          Mnt,               \* the directory that the kernel makes for mounts;
                             \* "home", which it makes like it, is left out
          Hda,               \* the name under which the other disk is mounted
          LastIno            \* the number of inodes of each disk

Disk == {"sys", "other"}
NoFs == "none"
EXT2_ROOT_INO == 2
Ino(d) == (EXT2_ROOT_INO + 1)..LastIno[d]
Name == FileName \cup DirName \cup {Mnt, Hda}

ASSUME VfsAssumption ==
  /\ LastIno \in [Disk -> {n \in Nat : n >= EXT2_ROOT_INO}]
  /\ Name \subseteq DOMAIN NameLen \ {"", ".", ".."}

VARIABLES disk,       \* what is on each disk: the inodes in use and the directories
          tree,       \* for the path of each directory node, its children in order
          currentDir, \* the path of the working directory
          curr_fs,
          root_fs,    \* the disk that was found to be the system disk, or none
          regular     \* history: no directory ever hid an entry, or had a file and
                      \* a directory of one name

vars == <<disk, tree, currentDir, curr_fs, root_fs, regular>>

\* A node has its path, the names down to it; those of a file and of a directory
\* differ in the slash at the end.
Node(path, kind, fs, ino) == [path |-> path, kind |-> kind, fs |-> fs, ino |-> ino]
NoNode == Node(<<>>, "none", NoFs, 0)
IsDir(n) == n.kind = "dir"

-----------------------------------------------------------------------------
(***************************************************************************)
(* The disks, the tree and curr_fs while a command works on them.          *)
(***************************************************************************)
Now == [disk |-> disk, tree |-> tree, curr_fs |-> curr_fs, root_fs |-> root_fs]

Root(s) == Node(<<>>, "dir", s.root_fs, EXT2_ROOT_INO)
Block(s, n) == s.disk[n.fs].dirs[n.ino]
Children(s, n) == IF IsDir(n) THEN s.tree[n.path] ELSE <<>>
Named(nodes, name) == SelectSeq(nodes, LAMBDA n : Last(n.path) = name)

\* The first child of the name, whatever its kind.
find_child(s, n, name) ==
  LET found == Named(Children(s, n), name) IN
    IF found = <<>> THEN NoNode ELSE Head(found)

get_node(s, path) == FoldLeft(LAMBDA n, name : find_child(s, n, name), Root(s), path)

add_child(s, parent, n) ==
  LET t == [s.tree EXCEPT ![parent.path] = Append(@, n)] IN
    [s EXCEPT !.tree = IF IsDir(n) THEN (n.path :> <<>>) @@ t ELSE t]

\* A child of the same path is kept as it is.
Same(s, parent, n) ==
  SelectSeq(Children(s, parent), LAMBDA c : c.path = n.path /\ c.kind = n.kind)

add_node(s, parent, n) ==
  IF ~IsDir(parent) \/ Same(s, parent, n) # <<>> THEN s ELSE add_child(s, parent, n)

\* The node of an entry of directory n: the tree's, if it has one of that name.
NodeOf(s, n, e) ==
  LET path  == Append(n.path, e.name)
      known == get_node(s, path)
      new   == Node(path, e.kind, n.fs, e.ino)
  IN IF known # NoNode THEN known
     ELSE IF Same(s, n, new) # <<>> THEN Head(Same(s, n, new)) ELSE new

\* read_dir adds what it lists to the tree, and the disk of n becomes curr_fs.
read_dir(s, n) ==
  LET At == [s EXCEPT !.curr_fs = n.fs] IN
  IF n.fs = NoFs THEN [s |-> At, list |-> Children(s, n)]
  ELSE FoldLeft(LAMBDA r, e : LET c == NodeOf(r.s, n, e) IN
                                [s |-> add_node(r.s, n, c), list |-> Append(r.list, c)],
                [s |-> At, list |-> <<>>], parse_directory_block(Block(s, n)))
-----------------------------------------------------------------------------
\* Mutant: the inode bitmap is not looked at.
FreeInosUnmarked(s, d) == Ino(d)

FreeInos(s, d) == Ino(d) \ s.disk[d].used

\* make_dir and make_file in directory n; r is what read_dir returned.
make(r, n, name, kind) ==
  LET ino == Min(FreeInos(r.s, n.fs))
      on  == r.s.disk[n.fs]
      into == insert_into_block(on.dirs[n.ino], ino, kind, name)
      body == IF kind = "dir" THEN NewDirBlock(ino, n.ino) ELSE <<>>
      made == [used |-> on.used \cup {ino},
               dirs |-> [on.dirs EXCEPT ![n.ino] = into, ![ino] = body]]
  IN IF \E c \in ToSet(r.list) : Last(c.path) = name /\ c.kind = kind THEN r.s
     ELSE add_node([r.s EXCEPT !.disk[n.fs] = made], n,
                   Node(Append(n.path, name), kind, n.fs, ino))

\* Bound: one block for each directory, and a free inode.
CanMake(s, n, name) == /\ FreeInos(s, n.fs) # {}
                       /\ Places(Block(s, n), name) # {}
-----------------------------------------------------------------------------
(***************************************************************************)
(* Removal of node n, a child of directory n0, with what is below it: tree *)
(* .hpp, traverse, with remove_entry for each node, then delete_subtree.   *)
(***************************************************************************)
Below(n, path) == IsDir(n) /\ IsPrefix(n.path, path)

NodeAt(s, path) ==
  IF path = <<>> THEN Root(s)
  ELSE CHOOSE c \in ToSet(s.tree[Front(path)]) : c.path = path /\ IsDir(c)

\* Mutant: what is further down is not visited.
OpenedOnlyTop(s, n) == {p \in DOMAIN s.tree : IsDir(n) /\ p = n.path /\ s.tree[p] # <<>>}

\* The directories whose children are visited.  traverse takes the first child
\* before remove_entry reads the directory, so one without nodes stays unread.
Opened(s, n) == {p \in DOMAIN s.tree : Below(n, p) /\ s.tree[p] # <<>>}

\* The children of such a directory when they are visited.
Visited(s, p) == read_dir(s, NodeAt(s, p)).s.tree[p]

Without(block, nodes) ==
  FoldLeft(LAMBDA b, c : remove_dir_entry(b, Last(c.path), c.kind), block, nodes)

\* Mutant: the node stays in its parent's list.
StillAttached(s, n0, n) == s.tree

\* delete_subtree takes the node out of its parent's list.
Detached(s, n0, n) == [s.tree EXCEPT ![n0.path] = SelectSeq(@, LAMBDA c : c # n)]

delete_subtree(s, n0, n) ==
  LET t == Detached(s, n0, n) IN [p \in {q \in DOMAIN t : ~Below(n, q)} |-> t[p]]

\* The last directory that is read is the last one among the visited children.
LastRead(s, n) ==
  LET read == IF n.path \in Opened(s, n) THEN SelectSeq(Visited(s, n.path), IsDir) ELSE <<>>
  IN Last(<<n>> \o read).fs

\* A file has one link, so its inode is freed; a directory keeps the link of its
\* own "." and stays.
remove(s, n0, n) ==
  LET opened == Opened(s, n)
      gone(d) == {c.ino : c \in {m \in {n} \cup UNION {ToSet(Visited(s, p)) : p \in opened} :
                                    ~IsDir(m) /\ m.fs = d}}
      emptied(d, i) ==
        {p \in opened : NodeAt(s, p).fs = d /\ NodeAt(s, p).ino = i}
      dirs(d, i) ==
        LET b == s.disk[d].dirs[i] IN
        IF d = n0.fs /\ i = n0.ino THEN Without(b, <<n>>)
        ELSE IF emptied(d, i) = {} THEN b
        ELSE Without(b, Visited(s, CHOOSE p \in emptied(d, i) : TRUE))
  IN [root_fs |-> s.root_fs,
      disk |-> [d \in Disk |-> [used |-> s.disk[d].used \ gone(d),
                                dirs |-> [i \in DOMAIN s.disk[d].dirs |-> dirs(d, i)]]],
      tree |-> delete_subtree(s, n0, n),
      curr_fs |-> IF IsDir(n) THEN LastRead(s, n) ELSE s.curr_fs]
-----------------------------------------------------------------------------
(***************************************************************************)
(* The start of the machine: the system disk, or an empty root without one. *)
(***************************************************************************)
MntMissing(s) == \A e \in ToSet(parse_directory_block(Block(s, Root(s)))) : e.name # Mnt

find_sysdisk(s) ==
  IF s.root_fs # NoFs /\ MntMissing(s)
  THEN make(read_dir(s, Root(s)), Root(s), Mnt, "dir")
  ELSE read_dir(s, Root(s)).s

mount_dev(s) ==
  LET mnt == get_node(s, <<Mnt>>)
      at  == IF mnt = NoNode THEN Root(s) ELSE mnt
  IN add_node(s, at, Node(Append(at.path, Hda), "dir", "other", EXT2_ROOT_INO))

Started(d, sys) ==
  mount_dev(find_sysdisk([disk |-> d, tree |-> (<<>> :> <<>>),
                          curr_fs |-> NoFs, root_fs |-> sys]))

Irregular(d) ==
  \E i \in DOMAIN d.dirs :
    \/ Hidden(d.dirs[i]) # {}
    \/ \E e, f \in Entries(d.dirs[i]) : e # f /\ e.name = f.name

\* Bound: a directory that is not regular is not followed further.
Becomes(s) == /\ regular
              /\ disk' = s.disk /\ tree' = s.tree /\ curr_fs' = s.curr_fs
              /\ regular' = (regular /\ \A d \in Disk : ~Irregular(s.disk[d]))
              /\ UNCHANGED root_fs

EmptyDisk(d) ==
  [used |-> {},
   dirs |-> [i \in {EXT2_ROOT_INO} \cup Ino(d) |->
               IF i = EXT2_ROOT_INO THEN NewDirBlock(i, i) ELSE <<>>]]

Init == /\ root_fs \in {"sys", NoFs}
        /\ LET s == Started([d \in Disk |-> EmptyDisk(d)], root_fs) IN
             disk = s.disk /\ tree = s.tree /\ curr_fs = s.curr_fs
        /\ currentDir = <<>> /\ regular = TRUE
-----------------------------------------------------------------------------
(***************************************************************************)
(* The commands, in the working directory.                                 *)
(***************************************************************************)
Here == get_node(Now, currentDir)

ls == Becomes(read_dir(Now, Here).s) /\ UNCHANGED currentDir

cd_into(n, s) == currentDir' = n.path /\ Becomes([s EXCEPT !.curr_fs = n.fs])

\* Mutant: the parent's disk does not become curr_fs.
cd_up_only == /\ currentDir # <<>>
              /\ currentDir' = Front(currentDir) /\ Becomes(Now)

cd_up == currentDir # <<>> /\ cd_into(NodeAt(Now, Front(currentDir)), Now)

cd(name) ==
  LET cached == find_child(Now, Here, name)
      r      == read_dir(Now, Here)
      listed == SelectSeq(Named(r.list, name), IsDir)
  IN IF IsDir(cached) THEN cd_into(cached, Now)
     ELSE /\ curr_fs # NoFs
          /\ IF listed # <<>> THEN cd_into(Head(listed), add_node(r.s, Here, Head(listed)))
             ELSE Becomes(r.s) /\ UNCHANGED currentDir

mk(name, kind) ==
  /\ curr_fs # NoFs /\ Here.fs # NoFs
  /\ CanMake(Now, Here, name)
  /\ Becomes(make(read_dir(Now, Here), Here, name, kind))
  /\ UNCHANGED currentDir

\* rm, and rm -r for a directory.
rm(name, kind) ==
  LET r     == read_dir(Now, Here)
      found == SelectSeq(Named(Children(r.s, Here), name), LAMBDA c : c.kind = kind)
  IN /\ curr_fs # NoFs
     /\ Becomes(IF found = <<>> THEN r.s ELSE remove(r.s, Here, Head(found)))
     /\ UNCHANGED currentDir

Restart == /\ root_fs # NoFs /\ MntMissing(Now) => CanMake(Now, Root(Now), Mnt)
           /\ Becomes(Started(disk, root_fs)) /\ currentDir' = <<>>

Next == \/ ls \/ cd_up \/ Restart
        \/ \E name \in DirName \cup {Mnt, Hda} : cd(name) \/ rm(name, "dir")
        \/ \E name \in DirName : mk(name, "dir")
        \/ \E name \in FileName : mk(name, "file") \/ rm(name, "file")

Spec == Init /\ [][Next]_vars
-----------------------------------------------------------------------------
IsDots(n) == Last(n.path) \in {".", ".."}
IsMount(n) == n.fs = "other" /\ n.ino = EXT2_ROOT_INO /\ ~IsDots(n)
HasNode(e, nodes) ==
  \E c \in nodes : Last(c.path) = e.name /\ c.kind = e.kind /\ c.ino = e.ino

TypeOK ==
  /\ \A d \in Disk : /\ disk[d].used \subseteq Ino(d)
                     /\ DOMAIN disk[d].dirs = {EXT2_ROOT_INO} \cup Ino(d)
  /\ \A p \in DOMAIN tree : \A c \in ToSet(tree[p]) :
       c.path = Append(p, Last(c.path)) /\ (IsDir(c) => c.path \in DOMAIN tree)
  /\ curr_fs \in Disk \cup {NoFs} /\ regular \in BOOLEAN

(***************************************************************************)
(* The tree and the disks agree, whatever was made, removed and read from  *)
(* either side (fs/ext/vfs.cpp, add_node; ext2.cpp, read_dir): a node is   *)
(* an entry of its directory or a mount, and a directory that has any node *)
(* of an entry has one of every entry - as long as regular.                *)
(***************************************************************************)
TreeFollowsDisk ==
  TypeOK /\ (regular =>
    \A p \in DOMAIN tree :
      LET d == NodeAt(Now, p)
          own == {c \in ToSet(tree[p]) : ~IsMount(c)}
      IN d.fs # NoFs =>
           /\ \A c \in own : /\ c.fs = d.fs
                            /\ \E e \in Entries(Block(Now, d)) : HasNode(e, {c})
           /\ own # {} => \A e \in Entries(Block(Now, d)) : HasNode(e, own))

(***************************************************************************)
(* No entry of a directory refers to an inode that is free, or that is     *)
(* another entry's (ext2.cpp, remove_entry, make_dir, make_file), so no    *)
(* file is given to two names - as long as regular.                        *)
(***************************************************************************)
EntriesAreAllocated ==
  regular => \A d \in Disk :
    LET own == {ie \in UNION {{i} \X Entries(disk[d].dirs[i]) : i \in DOMAIN disk[d].dirs} :
                  ie[2].name \notin {".", ".."}}
    IN /\ \A ie \in own : ie[2].ino \in disk[d].used
       /\ \A ie, jf \in own : ie[2].ino = jf[2].ino => ie = jf

(***************************************************************************)
(* Whatever is made, listed and removed on two disks and across restarts,  *)
(* the tree of nodes, the directories and the allocated inodes agree, up   *)
(* to the first remainder that hides entries (mkdir, mkfile, rm, ls).      *)
(***************************************************************************)
TreeAndDiskAgree == TreeFollowsDisk /\ EntriesAreAllocated

(***************************************************************************)
(* Every command works in the directory that is shown, on its disk: the    *)
(* working directory is found in the tree by its path, and curr_fs is its  *)
(* disk, except after rm -r of a mount in it (storage_cli.cpp, rm).        *)
(***************************************************************************)
AtHome == IsDir(Here) /\ Here.path = currentDir /\ curr_fs = Here.fs

OnlyRemovedMountsMislead ==
  [][AtHome => \/ AtHome'
               \/ Append(currentDir, Hda) \in DOMAIN tree \ DOMAIN tree']_vars

(***************************************************************************)
(* rm -r leaves a file behind that no path leads to only if it removes a   *)
(* directory whose entries are not all in the tree (tree.hpp, traverse).   *)
(***************************************************************************)
Subdirs(d, i) == {e.ino : e \in {f \in Entries(disk[d].dirs[i]) :
                                   f.kind = "dir" /\ f.name \notin {".", ".."}}}
Reachable(d) == FoldLeft(LAMBDA R, i : R \cup UNION {Subdirs(d, j) : j \in R},
                         {EXT2_ROOT_INO}, [i \in 1..LastIno[d] |-> i])
Orphans == UNION {{d} \X {i \in disk[d].used :
                            /\ disk[d].dirs[i] = <<>>
                            /\ \A j \in Reachable(d) : \A e \in Entries(disk[d].dirs[j]) :
                                 e.ino # i} : d \in Disk}
ListedDirs == {<<NodeAt(Now, p).fs, NodeAt(Now, p).ino>> :
                 p \in {q \in DOMAIN tree : \E c \in ToSet(tree[q]) : Last(c.path) = "."}}

OnlyUnlistedLeave ==
  [][regular' => \/ Orphans' \subseteq Orphans
                 \/ \E d \in Disk : \E i \in Reachable(d) \ Reachable(d)' :
                      <<d, i>> \notin ListedDirs]_vars
=============================================================================
