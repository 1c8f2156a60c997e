---------------------------- MODULE MCInterrupts ----------------------------
(***************************************************************************)
(* A small instance of Interrupts: the idle process, the reaper and two    *)
(* addresses for the processes that come and go, so that an address is     *)
(* taken again while the other one is still in use; one disk on the slave. *)
(***************************************************************************)
EXTENDS Interrupts

CONSTANTS idle, reaper, a, b

TwoAddresses == {idle, reaper, a, b}
=============================================================================
