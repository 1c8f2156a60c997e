----------------------------- MODULE Interrupts -----------------------------
(***************************************************************************)
(* The scheduler together with the interrupt controllers and the           *)
(* processor's interrupt flag: arch/x86/interrupts, the EOI of the         *)
(* handlers, and the flags that ctx_switch saves and loads.  A process     *)
(* that the timer has preempted is left inside its handler, with           *)
(* interrupts disabled; whoever gets the CPU must be interruptible again.  *)
(***************************************************************************)
EXTENDS SchedulerProperties, FiniteSetsExt

CONSTANT Line   \* the lines of devices with a handler, besides the timer's

PIT_IRQ == 0
Cascade == 2    \* the slave's line at the master
Vector(n) == 32 + n

ASSUME LineAssumption == Line \subseteq (1..15) \ {Cascade}

VARIABLES
  requested,    \* the lines that wait for the processor
  inService,    \* the lines at work: below 8 in the master, else in the slave
  interrupts,   \* the interrupt flag
  eflags,       \* eflags[p]: the flag in the context of p
  inHandler     \* the contexts left in onIrq0

control == <<requested, inService, interrupts, eflags, inHandler>>
kernel == <<vars, control>>

KernelInit == /\ Init
              /\ requested = {} /\ inService = {} /\ interrupts = TRUE
              /\ eflags = [p \in Proc |-> TRUE] /\ inHandler = {}
-----------------------------------------------------------------------------
\* The controllers.  The lines of the slave come between 1 and 3.
Rank(n) == IF n < 8 THEN 10 * n ELSE 10 * Cascade + n - 8

Accepts(n) == interrupts /\ \A m \in inService : Rank(n) < Rank(m)

Accepted(n) == inService \cup {n} \cup (IF n < 8 THEN {} ELSE {Cascade})

\* An EOI ends the first of the lines that a controller has in service.
Ended(lines) == IF lines = {} THEN {} ELSE lines \ {Min(lines)}

Master(s) == {n \in s : n < 8}
Slave(s) == s \ Master(s)

Raise(n) == /\ n \notin requested
            /\ requested' = requested \cup {n}
            /\ UNCHANGED <<vars, inService, interrupts, eflags, inHandler>>
-----------------------------------------------------------------------------
send_eoi(s, irq) == Ended(Master(s)) \cup (IF irq >= 8 THEN Ended(Slave(s)) ELSE Slave(s))

\* Mutant: the EOI comes after schedule().
EoiAfterSchedule(s) == s

\* "Acknowledge the interrupt BEFORE scheduling."
EoiBeforeSchedule(s) == send_eoi(s, PIT_IRQ)

\* irq_handler of a device: its handler, with or without an EOI of its own,
\* and the EOI behind it.
DeviceInterrupt(n) ==
  /\ n \in requested /\ Accepts(n)
  /\ requested' = requested \ {n}
  /\ \E ownEoi \in BOOLEAN :
       inService' = LET s == Accepted(n)
                    IN send_eoi(IF ownEoi THEN send_eoi(s, n) ELSE s, Vector(n))
  /\ UNCHANGED <<vars, interrupts, eflags, inHandler>>

\* ctx_switch keeps the flag of the context it leaves and loads the other one.
SwitchFlags(flag) ==
  IF curr_process' = curr_process
  THEN UNCHANGED eflags /\ interrupts' = flag
  ELSE eflags' = [eflags EXCEPT ![curr_process] = flag] /\ interrupts' = eflags[curr_process']

\* The timer interrupts: the rest of the handler follows at once, or when the
\* process it interrupted executes again.
TimerInterrupt ==
  /\ Accepts(PIT_IRQ)
  /\ Tick
  /\ \/ /\ curr_process' = curr_process
        /\ inService' = send_eoi(EoiBeforeSchedule(Accepted(PIT_IRQ)), Vector(PIT_IRQ))
        /\ UNCHANGED <<interrupts, eflags, inHandler>>
     \/ /\ curr_process' # curr_process
        /\ inService' = EoiBeforeSchedule(Accepted(PIT_IRQ))
        /\ inHandler' = inHandler \cup {curr_process}
        /\ SwitchFlags(FALSE)
  /\ UNCHANGED requested

\* The rest of irq_handler and irq_common_stub, which ends in sti and iret.
HandlerReturns == /\ curr_process \in inHandler
                  /\ inService' = send_eoi(inService, Vector(PIT_IRQ))
                  /\ interrupts' = TRUE
                  /\ inHandler' = inHandler \ {curr_process}
                  /\ UNCHANGED <<vars, requested, eflags>>
-----------------------------------------------------------------------------
\* start() and the reaper end their steps on the queues with sti.
EndsInSti == \/ pc[curr_process] = "starting"
             \/ curr_process = Reaper /\ pc[Reaper] = "user"

Running(step) == /\ curr_process \notin inHandler
                 /\ step
                 /\ SwitchFlags(interrupts \/ EndsInSti)
                 /\ UNCHANGED <<requested, inService, inHandler>>

\* create() gives every context KERNEL_PROCESS_EFLAGS.
Creating(s) == /\ curr_process \notin inHandler
               /\ \E p \in Proc, pri \in Priority :
                    /\ UserCreate(s, p, pri) \/ CreateFails(s, p, pri)
                    /\ eflags' = [eflags EXCEPT ![p] = TRUE]
               /\ UNCHANGED <<requested, inService, interrupts, inHandler>>

BootCreates == /\ curr_process \notin inHandler
               /\ \E p \in Proc : /\ BootCreateCLI(p) \/ (p = Reaper /\ BootCreateReaper)
                                  /\ eflags' = [eflags EXCEPT ![p] = TRUE]
               /\ UNCHANGED <<requested, inService, interrupts, inHandler>>

Boots == Running(BootStartIdle \/ BootSchedule) \/ BootCreates
Kernel(s) == \/ Running(KernelStep(s))
             \/ s = Idle /\ Boots
             \/ s = Reaper /\ Running(ReaperStep)
User(s) == Running(Yield(s) \/ Exit(s)) \/ Creating(s)

KernelNext == \/ TimerInterrupt \/ HandlerReturns
              \/ \E n \in Line : Raise(n) \/ DeviceInterrupt(n)
              \/ \E s \in Proc : Kernel(s) \/ User(s)

KernelSpec == KernelInit /\ [][KernelNext]_kernel

(***************************************************************************)
(* The timer never stops, and a process left in its handler goes on when   *)
(* it gets the CPU.  A line that is let through again and again is served, *)
(* since a millisecond lies between two ticks.  Contexts as in Scheduler.  *)
(***************************************************************************)
FairKernelSpec == /\ KernelSpec
                  /\ WF_kernel(TimerInterrupt \/ HandlerReturns)
                  /\ \A n \in Line : SF_kernel(DeviceInterrupt(n))
                  /\ \A s \in Proc : SF_kernel(Kernel(s))
-----------------------------------------------------------------------------
(***************************************************************************)
(* Every interrupt is handled, whoever has the CPU: no switch leaves an    *)
(* interrupt in service or the processor with interrupts disabled for      *)
(* longer than a handler, though the second EOI of a preempted process     *)
(* comes only when it executes again (onIrq0, irq_handler, ctx_switch).    *)
(***************************************************************************)
EveryInterruptIsHandled == \A n \in Line : n \in requested ~> n \notin requested
=============================================================================
