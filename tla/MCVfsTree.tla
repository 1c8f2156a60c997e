------------------------------ MODULE MCVfsTree ------------------------------
(***************************************************************************)
(* Small instances of VfsTree: blocks that take two or three entries       *)
(* besides "." and "..", and names whose entries differ by 8 bytes.        *)
(* One disk has an inode for the directory of mounts, the other has two.   *)
(***************************************************************************)
EXTENDS VfsTree

Lengths == "" :> 0 @@ "." :> 1 @@ ".." :> 2 @@ "mnt" :> 3 @@ "hda" :> 3
             @@ "f" :> 1 @@ "readme" :> 6 @@ "d" :> 1

Inodes == "sys" :> 3 @@ "other" :> 4
=============================================================================
