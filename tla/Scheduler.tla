------------------------------ MODULE Scheduler ------------------------------
(***************************************************************************)
(* The preemptive round-robin scheduler of the kernel: sched/scheduler.cpp,*)
(* sched/process.cpp and the timer handler of drivers/pit.cpp, on one CPU. *)
(*                                                                         *)
(* Every Process object owns a context.  A context that is not executing   *)
(* keeps in pc and held the place where ctx_switch or the timer interrupt  *)
(* left it.  schedule() called by a process runs with interrupts enabled,  *)
(* so it is three steps (select, requeue, switch) between which a timer    *)
(* tick may run schedule() again; called by the timer handler it runs with *)
(* interrupts disabled and is one step.                                    *)
(***************************************************************************)
EXTENDS Integers, Sequences

CONSTANTS Proc,           \* the heap addresses a Process object can have
          Idle, Reaper,   \* kernel_idle_process and zombie_reaper
          NoProc,         \* the null pointer
          TIME_QUANTUM,   \* ticks per unit of priority
          Priority        \* the priorities that callers ask for, after range()

ASSUME ProcAssumption == /\ Idle \in Proc /\ Reaper \in Proc
                         /\ Idle # Reaper /\ NoProc \notin Proc
ASSUME QuantumAssumption == /\ TIME_QUANTUM \in Nat \ {0}
                            /\ 1 \in Priority /\ Priority \subseteq Nat \ {0}

VARIABLES
  state,      \* state[p]: the ProcessState of the object at p, or "FREE"
  stack,      \* the objects whose stack frames are allocated
  priority,   \* priority[p]
  time_slice, \* time_slice[p]: ticks left
  process_queue, zombie_queue, curr_process,
  process_log_list,  \* the addresses process_log_list holds
  pc,         \* pc[p]: where the context of p is
  held,       \* held[p]: the Process* in the local variable of that code
  boot        \* how far the boot thread, the context of Idle, has come

objects == <<state, stack, priority, process_log_list>>
vars == <<objects, time_slice, process_queue, zombie_queue, curr_process,
          pc, held, boot>>

State == {"FREE", "READY", "RUNNING", "TERMINATED"}
Place == {"user",                          \* outside the scheduler's code
          "created", "starting",           \* create() returned; start(): not pushed yet
          "select", "requeue", "switch",   \* inside schedule()
          "reap", "kfree",                 \* inside zombie_reaper()
          "gone"}                          \* left for the last time
Boot == {"startIdle", "createReaper", "schedule", "createCLI", "halt"}

TypeOK == /\ state \in [Proc -> State]
          /\ stack \subseteq Proc
          /\ priority \in [Proc -> Priority]
          /\ time_slice \in [Proc -> Nat]
          /\ process_queue \in Seq(Proc)
          /\ zombie_queue \in Seq(Proc)
          /\ curr_process \in Proc
          /\ process_log_list \subseteq Proc
          /\ pc \in [Proc -> Place]
          /\ held \in [Proc -> Proc \cup {NoProc}]
          /\ boot \in Boot

\* sched::init has created the idle process and made it curr_process.
Init == /\ state = [p \in Proc |-> IF p = Idle THEN "READY" ELSE "FREE"]
        /\ stack = {Idle}
        /\ priority = [p \in Proc |-> 1]
        /\ time_slice = [p \in Proc |-> IF p = Idle THEN TIME_QUANTUM ELSE 0]
        /\ process_queue = <<>>
        /\ zombie_queue = <<>>
        /\ curr_process = Idle
        /\ process_log_list = {Idle}
        /\ pc = [p \in Proc |-> IF p = Idle THEN "user" ELSE "gone"]
        /\ held = [p \in Proc |-> NoProc]
        /\ boot = "startIdle"
-----------------------------------------------------------------------------
(***************************************************************************)
(* Creating and starting a process.                                        *)
(***************************************************************************)

\* Process::create: the context of s gets a new object p.
Create(s, p, pri) ==
  /\ state[p] = "FREE"
  /\ state' = [state EXCEPT ![p] = "READY"]
  /\ stack' = stack \cup {p}
  /\ priority' = [priority EXCEPT ![p] = pri]
  /\ time_slice' = [time_slice EXCEPT ![p] = TIME_QUANTUM * pri]
  /\ process_log_list' = process_log_list \cup {p}
  /\ pc' = [pc EXCEPT ![s] = "created", ![p] = "user"]
  /\ held' = [held EXCEPT ![s] = p]
  /\ UNCHANGED <<process_queue, zombie_queue, curr_process>>

\* Process::create without a free frame for the stack: it returns nullptr,
\* and nobody has the address of the object any more.
CreateFails(s, p, pri) ==
  /\ curr_process = s /\ pc[s] = "user" /\ s \notin {Idle, Reaper}
  /\ p # Reaper /\ state[p] = "FREE"
  /\ state' = [state EXCEPT ![p] = "READY"]
  /\ priority' = [priority EXCEPT ![p] = pri]
  /\ time_slice' = [time_slice EXCEPT ![p] = TIME_QUANTUM * pri]
  /\ UNCHANGED <<stack, process_log_list, process_queue, zombie_queue,
                 curr_process, pc, held, boot>>

UserCreate(s, p, pri) == /\ curr_process = s /\ pc[s] = "user"
                         /\ s \notin {Idle, Reaper} /\ p # Reaper
                         /\ Create(s, p, pri)
                         /\ UNCHANGED boot

\* Process::start up to the cli: the state is set before the push.
Start(s) == /\ curr_process = s /\ pc[s] = "created"
            /\ state' = [state EXCEPT ![held[s]] = "RUNNING"]
            /\ pc' = [pc EXCEPT ![s] = "starting"]
            /\ UNCHANGED <<stack, priority, process_log_list, time_slice,
                           process_queue, zombie_queue, curr_process, held, boot>>

\* Mutant: start() pushes twice.
PushTwice(s) ==
  /\ curr_process = s /\ pc[s] = "starting"
  /\ process_queue' = process_queue \o <<held[s], held[s]>>
  /\ pc' = [pc EXCEPT ![s] = "user"]
  /\ held' = [held EXCEPT ![s] = NoProc]
  /\ UNCHANGED <<objects, time_slice, zombie_queue, curr_process, boot>>

\* The push of Process::start, between cli and sti.
Push(s) == /\ curr_process = s /\ pc[s] = "starting"
           /\ process_queue' = Append(process_queue, held[s])
           /\ pc' = [pc EXCEPT ![s] = "user"]
           /\ held' = [held EXCEPT ![s] = NoProc]
           /\ UNCHANGED <<objects, time_slice, zombie_queue, curr_process, boot>>
-----------------------------------------------------------------------------
(***************************************************************************)
(* schedule() called by a process.                                         *)
(***************************************************************************)
Quantum(p) == TIME_QUANTUM * priority[p]

\* Mutant: schedule() puts its caller back without looking at its state.
RequeuesAnyState(old, next) == old # next /\ old # Idle

\* The state in which schedule() puts its caller back into the run queue.
Requeues(old, next) == state[old] = "RUNNING" /\ old # next /\ old # Idle

\* Pop the head; with an empty queue stay, or fall back to the idle process.
Select(s) ==
  /\ curr_process = s /\ pc[s] = "select"
  /\ \/ /\ process_queue # <<>>
        /\ held' = [held EXCEPT ![s] = Head(process_queue)]
        /\ process_queue' = Tail(process_queue)
        /\ pc' = [pc EXCEPT ![s] = "requeue"]
        /\ UNCHANGED time_slice
     \/ /\ process_queue = <<>> /\ state[s] = "RUNNING" /\ s # Idle
        /\ time_slice' = [time_slice EXCEPT ![s] = Quantum(s)]
        /\ pc' = [pc EXCEPT ![s] = "user"]
        /\ UNCHANGED <<process_queue, held>>
     \/ /\ process_queue = <<>> /\ ~(state[s] = "RUNNING" /\ s # Idle)
        /\ held' = [held EXCEPT ![s] = Idle]
        /\ pc' = [pc EXCEPT ![s] = "requeue"]
        /\ UNCHANGED <<process_queue, time_slice>>
  /\ UNCHANGED <<objects, zombie_queue, curr_process, boot>>

\* Mutant: schedule() forgets the process that ended.
RequeueOnly(s) ==
  /\ curr_process = s /\ pc[s] = "requeue"
  /\ process_queue' = IF Requeues(s, held[s]) THEN Append(process_queue, s)
                                              ELSE process_queue
  /\ pc' = [pc EXCEPT ![s] = "switch"]
  /\ UNCHANGED <<objects, time_slice, zombie_queue, curr_process, held, boot>>

\* The old process goes to the tail of the run queue or to the zombies.
Requeue(s) ==
  /\ curr_process = s /\ pc[s] = "requeue"
  /\ process_queue' = IF Requeues(s, held[s]) THEN Append(process_queue, s)
                                              ELSE process_queue
  /\ zombie_queue' = IF state[s] = "TERMINATED" THEN Append(zombie_queue, s)
                                                ELSE zombie_queue
  /\ pc' = [pc EXCEPT ![s] = "switch"]
  /\ UNCHANGED <<objects, time_slice, curr_process, held, boot>>

\* From next->set_state to the end of ctx_switch: at most TIME_QUANTUM - 1
\* ticks fit into these instructions, so no tick reschedules in between.
Switch(s) ==
  /\ curr_process = s /\ pc[s] = "switch"
  /\ state' = [state EXCEPT ![held[s]] = "RUNNING"]
  /\ time_slice' = [time_slice EXCEPT ![held[s]] = Quantum(held[s])]
  /\ curr_process' = held[s]
  /\ pc' = [pc EXCEPT ![s] = IF state[s] = "TERMINATED" THEN "gone" ELSE "user"]
  /\ held' = [held EXCEPT ![s] = NoProc]
  /\ UNCHANGED <<stack, priority, process_log_list, process_queue,
                 zombie_queue, boot>>

\* Process::yield
Yield(s) == /\ curr_process = s /\ pc[s] = "user" /\ s \notin {Idle, Reaper}
            /\ pc' = [pc EXCEPT ![s] = "select"]
            /\ UNCHANGED <<objects, time_slice, process_queue, zombie_queue,
                           curr_process, held, boot>>

\* Mutant: a process that ends releases the stack it executes on.
ExitFreesStack(s) ==
  /\ curr_process = s /\ pc[s] = "user" /\ s \notin {Idle, Reaper}
  /\ state' = [state EXCEPT ![s] = "TERMINATED"]
  /\ stack' = stack \ {s}
  /\ pc' = [pc EXCEPT ![s] = "select"]
  /\ UNCHANGED <<priority, process_log_list, time_slice, process_queue,
                 zombie_queue, curr_process, held, boot>>

\* exit_current_process, by the return of the entry function, or Process::exit
Exit(s) == /\ curr_process = s /\ pc[s] = "user" /\ s \notin {Idle, Reaper}
           /\ state' = [state EXCEPT ![s] = "TERMINATED"]
           /\ pc' = [pc EXCEPT ![s] = "select"]
           /\ UNCHANGED <<stack, priority, process_log_list, time_slice,
                          process_queue, zombie_queue, curr_process, held, boot>>
-----------------------------------------------------------------------------
(***************************************************************************)
(* onIrq0: count the tick against the running process; at the end of its   *)
(* slice schedule() runs to its end, since the handler disables interrupts.*)
(***************************************************************************)
Spend(p) == /\ time_slice[p] > 1
            /\ time_slice' = [time_slice EXCEPT ![p] = @ - 1]
            /\ UNCHANGED <<state, process_queue, curr_process>>

\* Mutant: the run queue is popped at the end that push() uses.
PreemptNewest(old) ==
  /\ time_slice[old] \in {0, 1}
  /\ LET n == Len(process_queue)
         next == IF n = 0 THEN old ELSE process_queue[n]
     IN /\ process_queue' = IF Requeues(old, next)
                            THEN [process_queue EXCEPT ![n] = old]
                            ELSE SubSeq(process_queue, 1, n - 1)
        /\ state' = [state EXCEPT ![next] = "RUNNING"]
        /\ time_slice' = [time_slice EXCEPT ![old] = 0, ![next] = Quantum(next)]
        /\ curr_process' = next

\* Mutant: the handler does not put the interrupted process back.
PreemptDrops(old) ==
  /\ time_slice[old] \in {0, 1} /\ process_queue # <<>>
  /\ LET next == Head(process_queue) IN
       /\ process_queue' = Tail(process_queue)
       /\ state' = [state EXCEPT ![next] = "RUNNING"]
       /\ time_slice' = [time_slice EXCEPT ![old] = 0, ![next] = Quantum(next)]
       /\ curr_process' = next

Preempt(old) ==
  /\ time_slice[old] \in {0, 1}
  /\ \/ /\ process_queue = <<>>
        /\ time_slice' = [time_slice EXCEPT ![old] = Quantum(old)]
        /\ UNCHANGED <<state, process_queue, curr_process>>
     \/ /\ process_queue # <<>>
        /\ LET next == Head(process_queue) IN
             /\ process_queue' = IF Requeues(old, next)
                                 THEN Append(Tail(process_queue), old)
                                 ELSE Tail(process_queue)
             /\ state' = [state EXCEPT ![next] = "RUNNING"]
             /\ time_slice' = [time_slice EXCEPT ![old] = 0,
                                                 ![next] = Quantum(next)]
             /\ curr_process' = next

Tick == /\ state[curr_process] = "RUNNING"
        /\ Spend(curr_process) \/ Preempt(curr_process)
        /\ UNCHANGED <<stack, priority, process_log_list, zombie_queue, pc,
                       held, boot>>
-----------------------------------------------------------------------------
(***************************************************************************)
(* zombie_reaper: look for a zombie with interrupts disabled, then release *)
(* its stack and its object with interrupts enabled, or yield.             *)
(***************************************************************************)
\* Mutant: the reaper looks at the head of the zombie queue without popping it.
ReapWithoutPop ==
  /\ curr_process = Reaper /\ pc[Reaper] = "user" /\ zombie_queue # <<>>
  /\ held' = [held EXCEPT ![Reaper] = Head(zombie_queue)]
  /\ pc' = [pc EXCEPT ![Reaper] = "reap"]
  /\ UNCHANGED <<objects, time_slice, zombie_queue, process_queue, curr_process, boot>>

\* Mutant: the reaper releases the object and forgets the stack.
ReapObjectOnly ==
  /\ curr_process = Reaper /\ pc[Reaper] = "user"
  /\ IF zombie_queue # <<>>
     THEN /\ held' = [held EXCEPT ![Reaper] = Head(zombie_queue)]
          /\ zombie_queue' = Tail(zombie_queue)
          /\ pc' = [pc EXCEPT ![Reaper] = "kfree"]
     ELSE /\ pc' = [pc EXCEPT ![Reaper] = "select"]
          /\ UNCHANGED <<zombie_queue, held>>
  /\ UNCHANGED <<objects, time_slice, process_queue, curr_process, boot>>

Reap == /\ curr_process = Reaper /\ pc[Reaper] = "user"
        /\ \/ /\ zombie_queue # <<>>
              /\ held' = [held EXCEPT ![Reaper] = Head(zombie_queue)]
              /\ zombie_queue' = Tail(zombie_queue)
              /\ pc' = [pc EXCEPT ![Reaper] = "reap"]
           \/ /\ zombie_queue = <<>>
              /\ pc' = [pc EXCEPT ![Reaper] = "select"]
              /\ UNCHANGED <<zombie_queue, held>>
        /\ UNCHANGED <<objects, time_slice, process_queue, curr_process, boot>>

FreeStack == /\ curr_process = Reaper /\ pc[Reaper] = "reap"
             /\ stack' = stack \ {held[Reaper]}
             /\ pc' = [pc EXCEPT ![Reaper] = "kfree"]
             /\ UNCHANGED <<state, priority, process_log_list, time_slice,
                            process_queue, zombie_queue, curr_process, held, boot>>

FreeObject == /\ curr_process = Reaper /\ pc[Reaper] = "kfree"
              /\ state' = [state EXCEPT ![held[Reaper]] = "FREE"]
              /\ pc' = [pc EXCEPT ![Reaper] = "user"]
              /\ held' = [held EXCEPT ![Reaper] = NoProc]
              /\ UNCHANGED <<stack, priority, process_log_list, time_slice,
                             process_queue, zombie_queue, curr_process, boot>>
-----------------------------------------------------------------------------
(***************************************************************************)
(* The boot thread: the rest of sched::init and of kernel_main, which ends *)
(* in the hlt loop.                                                        *)
(***************************************************************************)
AtBoot(b) == curr_process = Idle /\ pc[Idle] = "user" /\ boot = b

BootStartIdle == /\ AtBoot("startIdle")
                 /\ state' = [state EXCEPT ![Idle] = "RUNNING"]
                 /\ pc' = [pc EXCEPT ![Idle] = "starting"]
                 /\ held' = [held EXCEPT ![Idle] = Idle]
                 /\ boot' = "createReaper"
                 /\ UNCHANGED <<stack, priority, process_log_list, time_slice,
                                process_queue, zombie_queue, curr_process>>

BootCreateReaper == /\ AtBoot("createReaper")
                    /\ Create(Idle, Reaper, 1)
                    /\ boot' = "schedule"

BootSchedule == /\ AtBoot("schedule")
                /\ pc' = [pc EXCEPT ![Idle] = "select"]
                /\ boot' = "createCLI"
                /\ UNCHANGED <<objects, time_slice, process_queue, zombie_queue,
                               curr_process, held>>

\* The command line runs at the highest priority.
BootCreateCLI(p) == /\ AtBoot("createCLI") /\ p # Reaper
                    /\ \E pri \in Priority : /\ \A q \in Priority : q <= pri
                                             /\ Create(Idle, p, pri)
                    /\ boot' = "halt"
-----------------------------------------------------------------------------
BootStep == \/ BootStartIdle \/ BootCreateReaper \/ BootSchedule
            \/ \E p \in Proc : BootCreateCLI(p)

ReaperStep == Reap \/ FreeStack \/ FreeObject

\* What the code of context s does next once s executes.
KernelStep(s) == Start(s) \/ Push(s) \/ Select(s) \/ Requeue(s) \/ Switch(s)

\* What a process may decide to do.
UserStep(s) == \/ Yield(s) \/ Exit(s)
               \/ \E p \in Proc, pri \in Priority : \/ UserCreate(s, p, pri)
                                                    \/ CreateFails(s, p, pri)

Next == \/ Tick \/ BootStep \/ ReaperStep
        \/ \E s \in Proc : KernelStep(s) \/ UserStep(s)

Spec == Init /\ [][Next]_vars

(***************************************************************************)
(* The timer never stops; a context that executes again and again gets at  *)
(* least one instruction further, as a slice is TIME_QUANTUM milliseconds. *)
(* Nothing is assumed of what user code decides to do.                     *)
(***************************************************************************)
Fairness == /\ WF_vars(Tick)
            /\ SF_vars(BootStep)
            /\ SF_vars(ReaperStep)
            /\ \A s \in Proc : SF_vars(KernelStep(s))

FairSpec == Spec /\ Fairness
=============================================================================
