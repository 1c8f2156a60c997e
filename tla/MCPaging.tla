------------------------------- MODULE MCPaging -------------------------------
(***************************************************************************)
(* A small instance of Paging: tables of 8 pages; kernel and metadata in   *)
(* regions 0 and 1, frames in 2 and 3, the framebuffer from 4, the device  *)
(* in 6.                                                                   *)
(***************************************************************************)
EXTENDS Paging
=============================================================================
