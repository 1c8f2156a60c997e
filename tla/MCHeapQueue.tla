---------------------------- MODULE MCHeapQueue ----------------------------
(***************************************************************************)
(* A small instance of HeapQueue: the idle process and three others, and a *)
(* heap that three nodes, or two and a block of a process, nearly fill.    *)
(***************************************************************************)
EXTENDS HeapQueue, TLC

CONSTANTS idle, p1, p2, p3

Four == {idle, p1, p2, p3}
Alike == Permutations({p1, p2, p3})
=============================================================================
