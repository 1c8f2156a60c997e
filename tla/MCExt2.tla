------------------------------- MODULE MCExt2 -------------------------------
(***************************************************************************)
(* A small instance of Ext2: two names, a handful of blocks, files of one  *)
(* direct block and one behind an indirect block.                          *)
(***************************************************************************)
EXTENDS Ext2, TLC

CONSTANTS f, g

\* The names are interchangeable.
Names == Permutations({f, g})
=============================================================================
