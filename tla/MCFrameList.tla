----------------------------- MODULE MCFrameList -----------------------------
(***************************************************************************)
(* Small instances of FrameList: a handful of frames and metadata slots.   *)
(***************************************************************************)
EXTENDS FrameList
=============================================================================
