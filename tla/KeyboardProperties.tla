------------------------ MODULE KeyboardProperties ------------------------
(***************************************************************************)
(* What must hold of the keyboard driver, and what its comments say of it. *)
(***************************************************************************)
EXTENDS Keyboard

\* The number of events in the ring, and the slot of the i-th of them.
Count == IF kb_buf_head >= kb_buf_tail
         THEN kb_buf_head - kb_buf_tail
         ELSE kb_buf_head - kb_buf_tail + KEYBOARD_BUFFER_SIZE

SlotOf(i) == IF kb_buf_tail + i - 1 < KEYBOARD_BUFFER_SIZE
             THEN kb_buf_tail + i - 1
             ELSE kb_buf_tail + i - 1 - KEYBOARD_BUFFER_SIZE

Contents == [i \in 1..Count |-> keyboardBuffer[SlotOf(i)]]

-----------------------------------------------------------------------------
(***************************************************************************)
(* The ring is a bounded first-in-first-out queue, wherever in             *)
(* pop_key_event the interrupts arrive: no accepted event is lost,         *)
(* repeated, reordered or overwritten while it is read, and an event is    *)
(* dropped only when KEYBOARD_BUFFER_SIZE - 1 of them wait.                *)
(***************************************************************************)
Fifo == INSTANCE BoundedFifo
          WITH Capacity <- KEYBOARD_BUFFER_SIZE - 1,
               queue <- IF reader = "advance" THEN SubSeq(Contents, 2, Count) ELSE Contents,
               taken <- out,
               reading <- (reader = "advance")

ImplementsFifo == Fifo!Spec

(***************************************************************************)
(* The decoder follows the keys, whatever is pressed and released in which *)
(* order (keyboardHandler).  A byte is taken for the second byte of an     *)
(* extended key exactly if the keyboard sent it as one; and when every     *)
(* byte is read, shift says whether the shift key is held.  (One flag      *)
(* serves both shift keys: it is right where one of them is used.)         *)
(***************************************************************************)
DecoderFollowsKeys ==
  /\ TypeOK
  /\ wire # <<>> /\ Head(wire) # Prefix => is_extended = Head(wire).ext
  /\ wire = <<>> => (shift <=> \E k \in down : k.code \in {"lshift", "rshift"} /\ ~k.ext)

=============================================================================
