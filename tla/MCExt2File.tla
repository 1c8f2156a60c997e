----------------------------- MODULE MCExt2File -----------------------------
(***************************************************************************)
(* Small instances of Ext2File: blocks of two bytes, two of them direct    *)
(* and two behind the indirect block, files of every length.               *)
(***************************************************************************)
EXTENDS Ext2File

Alphabet == <<"s", "t", "u", "v", "w", "x", "y", "z">>
WithGap == <<"s", "t", Zero, Zero, "w", "x", Zero, Zero>>

Files == {SubSeq(Alphabet, 1, n) : n \in 0..8} \cup {SubSeq(WithGap, 1, n) : n \in 3..8}
Typed == {SubSeq(<<"a", "b", "c", "d", "e", "f", "g">>, 1, n) : n \in 1..7}
=============================================================================
