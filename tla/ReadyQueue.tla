----------------------------- MODULE ReadyQueue -----------------------------
(***************************************************************************)
(* What the scheduler takes its run queue for: a first-in-first-out queue  *)
(* of processes whose operations are atomic.  A process that gives up the  *)
(* processor takes the head, puts itself at the tail and switches, and the *)
(* timer may rotate the queue between any two of these.                    *)
(***************************************************************************)
EXTENDS Sequences

CONSTANTS Proc, Idle, none

VARIABLES ready,   \* the queue
          cpu,     \* who executes
          taken    \* taken[p]: the process that p has taken and not switched to

vars == <<ready, cpu, taken>>

Init == ready = <<>> /\ cpu \in Proc /\ taken = [p \in Proc |-> none]

Take(p) == /\ cpu = p /\ ready # <<>>
           /\ taken' = [taken EXCEPT ![p] = Head(ready)]
           /\ ready' = Tail(ready)
           /\ UNCHANGED cpu

\* A process puts itself or a new process at the tail.
Put(p) == /\ ready' = Append(ready, p)
          /\ UNCHANGED <<cpu, taken>>

Switch(p) == /\ cpu = p /\ taken[p] # none
             /\ cpu' = taken[p]
             /\ taken' = [taken EXCEPT ![p] = none]
             /\ UNCHANGED ready

\* The timer: the head gets the processor, the interrupted process the tail.
Rotate == /\ ready # <<>>
          /\ cpu' = Head(ready)
          /\ ready' = IF cpu \in {Idle, Head(ready)} THEN Tail(ready)
                                                     ELSE Append(Tail(ready), cpu)
          /\ UNCHANGED taken

\* A process that ends does not come back.
Leave == /\ cpu' = IF ready = <<>> THEN Idle ELSE Head(ready)
         /\ ready' = IF ready = <<>> THEN ready ELSE Tail(ready)
         /\ UNCHANGED taken

Next == \/ \E p \in Proc : Take(p) \/ Put(p) \/ Switch(p)
        \/ Rotate \/ Leave

Spec == Init /\ [][Next]_vars
=============================================================================
