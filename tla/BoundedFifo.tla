---------------------------- MODULE BoundedFifo ----------------------------
(***************************************************************************)
(* What the key event buffer promises: a first-in-first-out queue of a     *)
(* bounded number of events with one writer and one reader.  An event that *)
(* finds the queue full is lost, and nothing else ever is.  The place of   *)
(* the event that the reader is taking counts until the reader is done.    *)
(***************************************************************************)
EXTENDS Naturals, Sequences

CONSTANTS Event, Capacity

VARIABLES queue,   \* the events accepted and not yet taken
          taken,   \* the event that the reader took last
          reading  \* the reader is taking it

vars == <<queue, taken, reading>>

Occupied == Len(queue) + (IF reading THEN 1 ELSE 0)

Init == queue = <<>> /\ taken \in Event /\ reading = FALSE

Put(e) == /\ Occupied < Capacity
          /\ queue' = Append(queue, e)
          /\ UNCHANGED <<taken, reading>>

Take == /\ ~reading /\ queue # <<>>
        /\ taken' = Head(queue)
        /\ queue' = Tail(queue)
        /\ reading' = TRUE

Done == /\ reading
        /\ reading' = FALSE
        /\ UNCHANGED <<queue, taken>>

Next == Take \/ Done \/ \E e \in Event : Put(e)

Spec == Init /\ [][Next]_vars
=============================================================================
