-------------------------- MODULE ProcessLifecycle --------------------------
(***************************************************************************)
(* What the multitasking component promises, without any run queue: a      *)
(* Process object is created, started, given the CPU any number of times,  *)
(* ends while it owns the CPU, and only then, when the CPU has gone to     *)
(* somebody else, are its stack and its object released.  Module Scheduler *)
(* implements this specification.                                          *)
(***************************************************************************)
CONSTANTS Proc,   \* the addresses a Process object can have
          Idle    \* the process that stands for the boot thread

VARIABLES phase,  \* phase[p]: how far the object at address p has come
          stack,  \* the objects that own a stack
          cpu     \* the object whose context executes

vars == <<phase, stack, cpu>>

Phase == {"none", "ready", "started", "ended"}

TypeOK == /\ phase \in [Proc -> Phase]
          /\ stack \subseteq Proc
          /\ cpu \in Proc

Init == /\ phase = [p \in Proc |-> IF p = Idle THEN "ready" ELSE "none"]
        /\ stack = {Idle}
        /\ cpu = Idle

\* A Process object appears, with a stack or (no frame left) without one.
Create(p) == /\ phase[p] = "none"
             /\ phase' = [phase EXCEPT ![p] = "ready"]
             /\ \/ stack' = stack \cup {p}
                \/ UNCHANGED stack
             /\ UNCHANGED cpu

\* Only an object that owns a stack may be started.
Start(p) == /\ phase[p] = "ready" /\ p \in stack
            /\ phase' = [phase EXCEPT ![p] = "started"]
            /\ UNCHANGED <<stack, cpu>>

\* The CPU only ever goes to a started process that still has its stack.
Dispatch(p) == /\ phase[p] = "started" /\ p \in stack
               /\ cpu' = p
               /\ UNCHANGED <<phase, stack>>

\* A process ends itself; the idle process never does.
End == /\ phase[cpu] = "started" /\ cpu # Idle
       /\ phase' = [phase EXCEPT ![cpu] = "ended"]
       /\ UNCHANGED <<stack, cpu>>

\* The stack of an ended process is released once, off that stack.
FreeStack(p) == /\ phase[p] = "ended" /\ cpu # p /\ p \in stack
                /\ stack' = stack \ {p}
                /\ UNCHANGED <<phase, cpu>>

\* The object goes last.
FreeObject(p) == /\ phase[p] = "ended" /\ p \notin stack
                 /\ phase' = [phase EXCEPT ![p] = "none"]
                 /\ UNCHANGED <<stack, cpu>>

Next == \/ End
        \/ \E p \in Proc : \/ Create(p) \/ Start(p) \/ Dispatch(p)
                           \/ FreeStack(p) \/ FreeObject(p)

Spec == Init /\ [][Next]_vars
=============================================================================
