-------------------------- MODULE SchedulerProofs --------------------------
(***************************************************************************)
(* Proofs that the scheduler keeps its invariant, which implies the safety *)
(* properties of SchedulerProperties, and that it implements               *)
(* ProcessLifecycle, alone and in the kernel with its interrupts.  One     *)
(* lemma per action, one step per conjunct.                                *)
(***************************************************************************)
EXTENDS Interrupts, TLAPS

(***************************************************************************)
(* queue::pop takes the head: what is left is a queue, shifted by one      *)
(* place.                                                                  *)
(***************************************************************************)
LEMMA PopFacts ==
  ASSUME NEW q \in Seq(Proc), q # <<>>
  PROVE  /\ Head(q) \in Proc /\ Head(q) = q[1] /\ 1 \in 1..Len(q)
         /\ Tail(q) \in Seq(Proc)
         /\ \A i \in 1..Len(Tail(q)) : i + 1 \in 1..Len(q) /\ Tail(q)[i] = q[i + 1]
  OBVIOUS

(***************************************************************************)
(* queue::push appends: every old element keeps its place, the new one is  *)
(* last.                                                                   *)
(***************************************************************************)
LEMMA PushFacts ==
  ASSUME NEW q \in Seq(Proc), NEW e \in Proc
  PROVE  /\ Append(q, e) \in Seq(Proc)
         /\ \A i \in 1..Len(Append(q, e)) :
              \/ i \in 1..Len(q) /\ Append(q, e)[i] = q[i]
              \/ i = Len(q) + 1 /\ Append(q, e)[i] = e
  OBVIOUS

(***************************************************************************)
(* The time slice that Process::create computes is a number of ticks.      *)
(***************************************************************************)
LEMMA SliceIsNat ==
  ASSUME NEW pri \in Priority
  PROVE  TIME_QUANTUM * pri \in Nat
<1>1. TIME_QUANTUM \in Nat /\ pri \in Nat
  BY QuantumAssumption
<1> QED BY <1>1

(***************************************************************************)
(* The time slice that schedule() gives anew, TIME_QUANTUM times the       *)
(* priority, is a number of ticks.                                         *)
(***************************************************************************)
LEMMA QuantumIsNat ==
  ASSUME TypeOK, NEW p \in Proc
  PROVE  Quantum(p) \in Nat
<1>1. priority[p] \in Priority
  BY DEF TypeOK
<1> QED BY <1>1, SliceIsNat DEF Quantum

(***************************************************************************)
(* A step that leaves the run queue and adds no choice of a next process   *)
(* keeps the bound on the places of a process in the round.                *)
(***************************************************************************)
LEMMA RoundUnchanged ==
  ASSUME NotThreePlaces, process_queue' = process_queue,
         \A s, p \in Proc : Chose(s, p)' => Chose(s, p)
  PROVE  NotThreePlaces'
  BY DEF NotThreePlaces

-----------------------------------------------------------------------------
(***************************************************************************)
(* Process::start sets the state before it pushes: the new process runs,   *)
(* and still nobody but its creator has its address.                       *)
(***************************************************************************)
LEMMA StartPreserves ==
  ASSUME SchedulerInvariant, NEW s \in Proc, Start(s)
  PROVE  SchedulerInvariant'
<1> USE ProcAssumption, QuantumAssumption DEF SchedulerInvariant, Start, objects
<1>1. TypeOK'
  BY DEF TypeOK, Place, PlaceAndState
<1>2. PlaceAndState'
  BY DEF PlaceAndState, LaunchIsPrivate
<1>3. CpuIsLive'
  BY DEF CpuIsLive
<1>4. IdleAtBoot'
  BY DEF IdleAtBoot
<1>5. LaunchIsPrivate'
  BY DEF TypeOK, PlaceAndState, LaunchIsPrivate, SchedulableRuns, Queued, Chose,
     Schedulable, Launches
<1>6. SchedulableRuns'
  BY DEF SchedulableRuns, Queued, Chose, Schedulable
<1>7. ZombiesAreEnded'
  BY DEF LaunchIsPrivate, ZombiesAreEnded, Zombie, Reaping
<1>8. TwoPlaces'
  BY DEF TwoPlaces, Queued, Chose, Schedulable
<1>9. NotThreePlaces'
  <2>1. \A t, q \in Proc : Chose(t, q)' => Chose(t, q)
    BY DEF Chose
  <2> QED BY <2>1, RoundUnchanged
<1> QED BY <1>1, <1>2, <1>3, <1>4, <1>5, <1>6, <1>7, <1>8, <1>9

(***************************************************************************)
(* Process::yield only enters schedule().                                  *)
(***************************************************************************)
LEMMA YieldPreserves ==
  ASSUME SchedulerInvariant, NEW s \in Proc, Yield(s)
  PROVE  SchedulerInvariant'
<1> USE ProcAssumption, QuantumAssumption DEF SchedulerInvariant, Yield, objects
<1>1. TypeOK'
  BY DEF TypeOK, Place
<1>2. PlaceAndState'
  BY DEF PlaceAndState, CpuIsLive
<1>3. CpuIsLive'
  BY DEF CpuIsLive
<1>4. IdleAtBoot'
  BY DEF IdleAtBoot
<1>5. LaunchIsPrivate'
  BY DEF CpuIsLive, LaunchIsPrivate, Queued, Chose, Schedulable, Launches
<1>6. SchedulableRuns'
  BY DEF SchedulableRuns, Queued, Chose, Schedulable
<1>7. ZombiesAreEnded'
  BY DEF ZombiesAreEnded, Zombie, Reaping
<1>8. TwoPlaces'
  BY DEF TwoPlaces, Queued, Chose, Schedulable
<1>9. NotThreePlaces'
  <2>1. \A t, q \in Proc : Chose(t, q)' => Chose(t, q)
    BY DEF Chose
  <2> QED BY <2>1, RoundUnchanged
<1> QED BY <1>1, <1>2, <1>3, <1>4, <1>5, <1>6, <1>7, <1>8, <1>9

(***************************************************************************)
(* exit_current_process marks the executing process, which is nowhere in   *)
(* the round, and enters schedule().                                       *)
(***************************************************************************)
LEMMA ExitPreserves ==
  ASSUME SchedulerInvariant, NEW s \in Proc, Exit(s)
  PROVE  SchedulerInvariant'
<1> USE ProcAssumption, QuantumAssumption DEF SchedulerInvariant, Exit, objects
<1>1. TypeOK'
  BY DEF TypeOK, State, Place
<1>2. PlaceAndState'
  BY DEF TypeOK, PlaceAndState
<1>3. CpuIsLive'
  BY DEF CpuIsLive
<1>4. IdleAtBoot'
  BY DEF IdleAtBoot
<1>5. LaunchIsPrivate'
  BY DEF CpuIsLive, LaunchIsPrivate, Queued, Chose, Schedulable, Launches
<1>6. SchedulableRuns'
  BY DEF SchedulableRuns, TwoPlaces, Queued, Chose, Schedulable
<1>7. ZombiesAreEnded'
  BY DEF ZombiesAreEnded, Zombie, Reaping
<1>8. TwoPlaces'
  BY DEF TwoPlaces, Queued, Chose, Schedulable
<1>9. NotThreePlaces'
  <2>1. \A t, q \in Proc : Chose(t, q)' => Chose(t, q)
    BY DEF Chose
  <2> QED BY <2>1, RoundUnchanged
<1> QED BY <1>1, <1>2, <1>3, <1>4, <1>5, <1>6, <1>7, <1>8, <1>9

(***************************************************************************)
(* Process::create without a frame for the stack leaves an object that     *)
(* nobody knows.                                                           *)
(***************************************************************************)
LEMMA CreateFailsPreserves ==
  ASSUME SchedulerInvariant, NEW s \in Proc, NEW p \in Proc, NEW pri \in Priority,
         CreateFails(s, p, pri)
  PROVE  SchedulerInvariant'
<1> USE ProcAssumption, QuantumAssumption DEF SchedulerInvariant, CreateFails, objects
<1>1. TypeOK'
  <2>1. TIME_QUANTUM * pri \in Nat
    OBVIOUS
  <2> QED BY DEF TypeOK, State
<1>2. PlaceAndState'
  BY DEF PlaceAndState
<1>3. CpuIsLive'
  BY DEF CpuIsLive
<1>4. IdleAtBoot'
  BY DEF IdleAtBoot
<1>5. LaunchIsPrivate'
  BY DEF LaunchIsPrivate, Queued, Chose, Schedulable, Launches
<1>6. SchedulableRuns'
  BY DEF SchedulableRuns, Queued, Chose, Schedulable
<1>7. ZombiesAreEnded'
  BY DEF ZombiesAreEnded, Zombie, Reaping
<1>8. TwoPlaces'
  BY DEF TwoPlaces, Queued, Chose, Schedulable
<1>9. NotThreePlaces'
  <2>1. \A t, q \in Proc : Chose(t, q)' => Chose(t, q)
    BY DEF Chose
  <2> QED BY <2>1, RoundUnchanged
<1> QED BY <1>1, <1>2, <1>3, <1>4, <1>5, <1>6, <1>7, <1>8, <1>9

(***************************************************************************)
(* zombie_reaper frees the stack of a process whose context has left for   *)
(* the last time.                                                          *)
(***************************************************************************)
LEMMA FreeStackPreserves ==
  ASSUME SchedulerInvariant, FreeStack
  PROVE  SchedulerInvariant'
<1> USE ProcAssumption, QuantumAssumption DEF SchedulerInvariant, FreeStack, objects
<1>1. TypeOK'
  BY DEF TypeOK, Place
<1>2. PlaceAndState'
  BY DEF PlaceAndState, ZombiesAreEnded
<1>3. CpuIsLive'
  BY DEF CpuIsLive, ZombiesAreEnded
<1>4. IdleAtBoot'
  BY DEF IdleAtBoot
<1>5. LaunchIsPrivate'
  BY DEF LaunchIsPrivate, ZombiesAreEnded, Queued, Chose, Schedulable, Launches
<1>6. SchedulableRuns'
  BY DEF SchedulableRuns, Queued, Chose, Schedulable
<1>7. ZombiesAreEnded'
  BY DEF TypeOK, ZombiesAreEnded, Zombie, Reaping
<1>8. TwoPlaces'
  BY DEF TwoPlaces, Queued, Chose, Schedulable
<1>9. NotThreePlaces'
  <2>1. \A t, q \in Proc : Chose(t, q)' => Chose(t, q)
    BY DEF Chose
  <2> QED BY <2>1, RoundUnchanged
<1> QED BY <1>1, <1>2, <1>3, <1>4, <1>5, <1>6, <1>7, <1>8, <1>9

(***************************************************************************)
(* zombie_reaper frees the object: it is in no queue, so its address may   *)
(* be used again.                                                          *)
(***************************************************************************)
LEMMA FreeObjectPreserves ==
  ASSUME SchedulerInvariant, FreeObject
  PROVE  SchedulerInvariant'
<1> USE ProcAssumption, QuantumAssumption DEF SchedulerInvariant, FreeObject, objects
<1>1. TypeOK'
  BY DEF TypeOK, State, Place, PlaceAndState
<1>2. PlaceAndState'
  BY DEF TypeOK, PlaceAndState, ZombiesAreEnded
<1>3. CpuIsLive'
  BY DEF CpuIsLive, ZombiesAreEnded
<1>4. IdleAtBoot'
  BY DEF IdleAtBoot, ZombiesAreEnded
<1>5. LaunchIsPrivate'
  BY DEF LaunchIsPrivate, ZombiesAreEnded, Queued, Chose, Schedulable, Launches
<1>6. SchedulableRuns'
  BY DEF SchedulableRuns, ZombiesAreEnded, Queued, Chose, Schedulable
<1>7. ZombiesAreEnded'
  BY DEF TypeOK, PlaceAndState, CpuIsLive, LaunchIsPrivate, SchedulableRuns,
     ZombiesAreEnded, IdleAtBoot, TwoPlaces, Zombie, Reaping, Chose, Schedulable
<1>8. TwoPlaces'
  BY DEF TwoPlaces, Queued, Chose, Schedulable
<1>9. NotThreePlaces'
  <2>1. \A t, q \in Proc : Chose(t, q)' => Chose(t, q)
    BY DEF Chose
  <2> QED BY <2>1, RoundUnchanged
<1> QED BY <1>1, <1>2, <1>3, <1>4, <1>5, <1>6, <1>7, <1>8, <1>9

(***************************************************************************)
(* The boot thread starts the idle process, in whose context it executes.  *)
(***************************************************************************)
LEMMA BootStartIdlePreserves ==
  ASSUME SchedulerInvariant, BootStartIdle
  PROVE  SchedulerInvariant'
<1> USE ProcAssumption, QuantumAssumption DEF SchedulerInvariant, BootStartIdle,
        AtBoot, objects
<1>1. TypeOK'
  BY DEF TypeOK, State, Place, Boot
<1>2. PlaceAndState'
  BY DEF TypeOK, PlaceAndState, CpuIsLive
<1>3. CpuIsLive'
  BY DEF CpuIsLive
<1>4. IdleAtBoot'
  BY DEF TypeOK, IdleAtBoot
<1>5. LaunchIsPrivate'
  BY DEF TypeOK, CpuIsLive, LaunchIsPrivate, Queued, Chose, Schedulable, Launches
<1>6. SchedulableRuns'
  BY DEF SchedulableRuns, Queued, Chose, Schedulable
<1>7. ZombiesAreEnded'
  BY DEF ZombiesAreEnded, Zombie, Reaping
<1>8. TwoPlaces'
  BY DEF TwoPlaces, Queued, Chose
<1>9. NotThreePlaces'
  <2>1. \A t, q \in Proc : Chose(t, q)' => Chose(t, q)
    BY DEF Chose
  <2> QED BY <2>1, RoundUnchanged
<1> QED BY <1>1, <1>2, <1>3, <1>4, <1>5, <1>6, <1>7, <1>8, <1>9

(***************************************************************************)
(* The boot thread calls schedule() at the end of sched::init.             *)
(***************************************************************************)
LEMMA BootSchedulePreserves ==
  ASSUME SchedulerInvariant, BootSchedule
  PROVE  SchedulerInvariant'
<1> USE ProcAssumption, QuantumAssumption DEF SchedulerInvariant, BootSchedule,
        AtBoot, objects
<1>1. TypeOK'
  BY DEF TypeOK, Place, Boot
<1>2. PlaceAndState'
  BY DEF PlaceAndState, IdleAtBoot
<1>3. CpuIsLive'
  BY DEF CpuIsLive
<1>4. IdleAtBoot'
  BY DEF IdleAtBoot
<1>5. LaunchIsPrivate'
  BY DEF LaunchIsPrivate, Queued, Chose, Schedulable, Launches
<1>6. SchedulableRuns'
  BY DEF SchedulableRuns, Queued, Chose, Schedulable
<1>7. ZombiesAreEnded'
  BY DEF ZombiesAreEnded, Zombie, Reaping
<1>8. TwoPlaces'
  BY DEF TwoPlaces, Queued, Chose
<1>9. NotThreePlaces'
  <2>1. \A t, q \in Proc : Chose(t, q)' => Chose(t, q)
    BY DEF Chose
  <2> QED BY <2>1, RoundUnchanged
<1> QED BY <1>1, <1>2, <1>3, <1>4, <1>5, <1>6, <1>7, <1>8, <1>9

(***************************************************************************)
(* Process::create called by a process: the new object has one owner, its  *)
(* creator.                                                                *)
(***************************************************************************)
LEMMA UserCreatePreserves ==
  ASSUME SchedulerInvariant, NEW s \in Proc, NEW p \in Proc, NEW pri \in Priority,
         UserCreate(s, p, pri)
  PROVE  SchedulerInvariant'
<1> USE ProcAssumption, QuantumAssumption DEF SchedulerInvariant, UserCreate, Create,
        objects
<1>1. TypeOK'
  <2>1. TIME_QUANTUM * pri \in Nat
    OBVIOUS
  <2> QED BY <2>1 DEF TypeOK, State, Place, Boot, PlaceAndState
<1>2. PlaceAndState'
  BY DEF TypeOK, PlaceAndState, CpuIsLive
<1>3. CpuIsLive'
  BY DEF TypeOK, CpuIsLive
<1>4. IdleAtBoot'
  BY DEF IdleAtBoot
<1>5. LaunchIsPrivate'
  BY DEF TypeOK, PlaceAndState, CpuIsLive, IdleAtBoot, LaunchIsPrivate, Queued, Chose,
     Schedulable, Launches
<1>6. SchedulableRuns'
  BY DEF TypeOK, SchedulableRuns, Queued, Chose, Schedulable
<1>7. ZombiesAreEnded'
  BY DEF TypeOK, PlaceAndState, CpuIsLive, ZombiesAreEnded, IdleAtBoot, TwoPlaces,
     Zombie, Reaping
<1>8. TwoPlaces'
  BY SMTT(30) DEF TypeOK, PlaceAndState, CpuIsLive, SchedulableRuns, TwoPlaces,
     NotThreePlaces, LaunchIsPrivate, Queued, Chose, Schedulable
<1>9. NotThreePlaces'
  <2>1. \A t, q \in Proc : Chose(t, q)' => Chose(t, q)
    BY DEF TypeOK, Chose
  <2> QED BY <2>1, RoundUnchanged
<1> QED BY <1>1, <1>2, <1>3, <1>4, <1>5, <1>6, <1>7, <1>8, <1>9

(***************************************************************************)
(* sched::init creates the reaper, whose address is not in use before.     *)
(***************************************************************************)
LEMMA BootCreateReaperPreserves ==
  ASSUME SchedulerInvariant, BootCreateReaper
  PROVE  SchedulerInvariant'
<1> USE ProcAssumption, QuantumAssumption DEF SchedulerInvariant, BootCreateReaper,
        AtBoot, Create, objects
<1>1. TypeOK'
  <2>1. TIME_QUANTUM * 1 \in Nat
    OBVIOUS
  <2>2. /\ state' \in [Proc -> State] /\ priority' \in [Proc -> Priority]
        /\ stack' \subseteq Proc /\ process_log_list' \subseteq Proc
    BY DEF TypeOK, State
  <2>3. time_slice' \in [Proc -> Nat]
    BY <2>1 DEF TypeOK
  <2>4. pc' \in [Proc -> Place] /\ held' \in [Proc -> Proc \cup {NoProc}] /\ boot' \in Boot
    BY DEF TypeOK, Place, Boot
  <2> QED BY <2>2, <2>3, <2>4 DEF TypeOK
<1>2. PlaceAndState'
  BY DEF TypeOK, PlaceAndState, IdleAtBoot
<1>3. CpuIsLive'
  BY DEF TypeOK, CpuIsLive
<1>4. IdleAtBoot'
  BY DEF IdleAtBoot
<1>5. LaunchIsPrivate'
  BY DEF TypeOK, LaunchIsPrivate, Queued, Chose, Schedulable, Launches
<1>6. SchedulableRuns'
  BY DEF TypeOK, SchedulableRuns, Queued, Chose, Schedulable
<1>7. ZombiesAreEnded'
  BY DEF TypeOK, PlaceAndState, CpuIsLive, LaunchIsPrivate, SchedulableRuns,
     ZombiesAreEnded, IdleAtBoot, TwoPlaces, Zombie, Reaping, Chose, Schedulable
<1>8. TwoPlaces'
  BY DEF TypeOK, SchedulableRuns, TwoPlaces, LaunchIsPrivate, Queued, Chose, Schedulable
<1>9. NotThreePlaces'
  <2>1. \A t, q \in Proc : Chose(t, q)' => Chose(t, q)
    BY DEF TypeOK, Chose
  <2> QED BY <2>1, RoundUnchanged
<1> QED BY <1>1, <1>2, <1>3, <1>4, <1>5, <1>6, <1>7, <1>8, <1>9

(***************************************************************************)
(* kernel_main creates the process of the command line.                    *)
(***************************************************************************)
LEMMA BootCreateCLIPreserves ==
  ASSUME SchedulerInvariant, NEW p \in Proc, BootCreateCLI(p)
  PROVE  SchedulerInvariant'
<1> USE ProcAssumption, QuantumAssumption DEF SchedulerInvariant, BootCreateCLI,
        AtBoot, Create, objects
<1>1. TypeOK'
  <2>1. PICK pri \in Priority : Create(Idle, p, pri)
    BY DEF BootCreateCLI
  <2>2. TIME_QUANTUM * pri \in Nat
    OBVIOUS
  <2> QED BY <2>1, <2>2 DEF TypeOK, State, Place, Boot
<1>2. PlaceAndState'
  BY DEF TypeOK, PlaceAndState, IdleAtBoot
<1>3. CpuIsLive'
  BY DEF TypeOK, CpuIsLive
<1>4. IdleAtBoot'
  BY DEF IdleAtBoot
<1>5. LaunchIsPrivate'
  BY DEF TypeOK, CpuIsLive, IdleAtBoot, LaunchIsPrivate, SchedulableRuns, Queued,
     Chose, Schedulable, Launches
<1>6. SchedulableRuns'
  BY DEF TypeOK, SchedulableRuns, ZombiesAreEnded, Queued, Chose, Schedulable
<1>7. ZombiesAreEnded'
  BY DEF TypeOK, PlaceAndState, LaunchIsPrivate, ZombiesAreEnded, Zombie, Reaping
<1>8. TwoPlaces'
  BY DEF TypeOK, PlaceAndState, CpuIsLive, SchedulableRuns, TwoPlaces, NotThreePlaces,
     LaunchIsPrivate, Queued, Chose, Schedulable
<1>9. NotThreePlaces'
  <2>1. \A t, q \in Proc : Chose(t, q)' => Chose(t, q)
    BY DEF TypeOK, Chose
  <2> QED BY <2>1, RoundUnchanged
<1> QED BY <1>1, <1>2, <1>3, <1>4, <1>5, <1>6, <1>7, <1>8, <1>9

(***************************************************************************)
(* The pop of schedule(): the head leaves the run queue and becomes the    *)
(* choice of the caller.  The process chosen keeps the number of its       *)
(* places in the round, and with an empty queue the choice is the idle     *)
(* process.                                                                *)
(***************************************************************************)
LEMMA SelectPreserves ==
  ASSUME SchedulerInvariant, NEW s \in Proc, Select(s)
  PROVE  SchedulerInvariant'
<1> USE ProcAssumption DEF SchedulerInvariant, objects
<1>0. /\ TypeOK /\ curr_process = s /\ pc[s] = "select"
      /\ \A p \in Proc : ~Chose(s, p) /\ ~Launches(s, p)
      /\ ~Zombie(s)
  BY DEF Select, Chose, Launches, ZombiesAreEnded
<1>1. ASSUME process_queue # <<>> PROVE SchedulerInvariant'
  <2> DEFINE n == Head(process_queue)
  <2>1. /\ held' = [held EXCEPT ![s] = n]
        /\ pc' = [pc EXCEPT ![s] = "requeue"]
        /\ process_queue' = Tail(process_queue)
        /\ UNCHANGED <<time_slice, objects, zombie_queue, curr_process, boot>>
    BY <1>1 DEF Select
  <2>2. process_queue \in Seq(Proc)
    BY DEF TypeOK
  <2>3. /\ n \in Proc /\ n = process_queue[1] /\ 1 \in 1..Len(process_queue)
        /\ process_queue' \in Seq(Proc)
        /\ \A i \in 1..Len(process_queue') :
             i + 1 \in 1..Len(process_queue) /\ process_queue'[i] = process_queue[i + 1]
    BY <1>1, <2>1, <2>2
  <2> HIDE DEF n
  <2>4. Queued(n) /\ \A p \in Proc : Queued(p)' => Queued(p)
    BY <2>3 DEF Queued
  <2>5. \A t, p \in Proc :
          Chose(t, p)' <=> (t # s /\ Chose(t, p)) \/ (t = s /\ p = n)
    BY <2>1 DEF Chose, TypeOK
  <2>6. n # Idle => n # s
    BY <1>0, <2>4 DEF TwoPlaces, Schedulable
  <2>7. \A p \in Proc : Schedulable(p)' => Schedulable(p)
    BY <2>4, <2>5 DEF Schedulable
  <2>8. \A p \in Proc : p # s => pc'[p] = pc[p] /\ held'[p] = held[p]
    BY <2>1
  <2>11. TypeOK'
    BY <2>1, <2>3 DEF TypeOK, Place
  <2>12. PlaceAndState'
    BY <2>1, <2>3, <1>0 DEF TypeOK, PlaceAndState
  <2>13. CpuIsLive'
    BY <2>1 DEF CpuIsLive
  <2>14. IdleAtBoot'
    BY <2>1, <1>0 DEF IdleAtBoot
  <2>15. LaunchIsPrivate'
    <3>1. \A t \in Proc : pc'[t] \in {"created", "starting"} => t # s /\ held[t] \in Proc
      BY <2>1, <1>0 DEF PlaceAndState
    <3>2. \A t, p \in Proc : Launches(t, p)' => Launches(t, p)
      BY <2>8, <3>1 DEF Launches
    <3>3. \A p \in Proc : pc[p] = "user" => pc'[p] = "user"
      BY <2>8, <1>0
    <3> QED BY <2>1, <2>7, <3>1, <3>2, <3>3 DEF LaunchIsPrivate
  <2>16. SchedulableRuns'
    BY <2>1, <2>7 DEF SchedulableRuns
  <2>17. ZombiesAreEnded'
    BY <2>1, <1>0 DEF ZombiesAreEnded, Zombie, Reaping
  <2>18. TwoPlaces'
    <3> SUFFICES ASSUME NEW p \in Proc \ {Idle}
                 PROVE  /\ \A i, j \in 1..Len(process_queue') :
                             i # j /\ process_queue'[i] = p /\ process_queue'[j] = p
                               => /\ pc'[p] = "switch" /\ curr_process' # p
                                  /\ \A t \in Proc : ~Chose(t, p)'
                        /\ \A t \in Proc : Chose(t, p)' /\ Queued(p)'
                             => pc'[p] = "switch" /\ curr_process' # p
                        /\ \A t, u \in Proc : t # u /\ Chose(t, p)' /\ Chose(u, p)'
                             => pc'[p] = "switch" /\ curr_process' # p /\ ~Queued(p)'
                        /\ curr_process' = p /\ Schedulable(p)' => pc'[p] = "switch"
                        /\ ~Chose(p, p)'
      BY DEF TwoPlaces
    <3>1. pc[p] = "switch" => pc'[p] = "switch"
      BY <2>8, <1>0
    <3>2. ASSUME NEW i \in 1..Len(process_queue'), NEW j \in 1..Len(process_queue'),
                 i # j, process_queue'[i] = p, process_queue'[j] = p
          PROVE  /\ pc'[p] = "switch" /\ curr_process' # p /\ p # n
                 /\ \A t \in Proc : ~Chose(t, p)'
      <4>1. /\ i + 1 \in 1..Len(process_queue) /\ j + 1 \in 1..Len(process_queue)
            /\ i + 1 # j + 1 /\ i + 1 # 1 /\ j + 1 # 1
            /\ process_queue[i + 1] = p /\ process_queue[j + 1] = p
        BY <3>2, <2>3
      <4>2. p # n
        BY <4>1, <2>3 DEF NotThreePlaces
      <4> QED BY <4>1, <4>2, <3>1, <2>1, <2>5 DEF TwoPlaces
    <3>3. ASSUME Queued(p)', p = n
          PROVE  /\ pc'[p] = "switch" /\ curr_process' # p
                 /\ \A t \in Proc : ~Chose(t, p)
      <4>1. PICK i \in 1..Len(process_queue') : process_queue'[i] = p
        BY <3>3 DEF Queued
      <4>2. /\ i + 1 \in 1..Len(process_queue) /\ i + 1 # 1
            /\ process_queue[i + 1] = p /\ process_queue[1] = p
        BY <4>1, <3>3, <2>3
      <4> QED BY <4>2, <3>1, <2>1 DEF TwoPlaces
    <3>4. ASSUME NEW t \in Proc, Chose(t, p)', Queued(p)'
          PROVE  pc'[p] = "switch" /\ curr_process' # p
      BY <3>4, <3>3, <3>1, <2>1, <2>4, <2>5 DEF TwoPlaces
    <3>5. ASSUME NEW t \in Proc, NEW u \in Proc, t # u, Chose(t, p)', Chose(u, p)'
          PROVE  pc'[p] = "switch" /\ curr_process' # p /\ ~Queued(p)'
      BY <3>5, <3>3, <3>1, <2>1, <2>4, <2>5 DEF TwoPlaces
    <3>6. curr_process' = p /\ Schedulable(p)' => pc'[p] = "switch"
      BY <3>1, <2>1, <2>7 DEF TwoPlaces
    <3>7. ~Chose(p, p)'
      BY <2>5, <2>6 DEF TwoPlaces
    <3> QED BY <3>2, <3>4, <3>5, <3>6, <3>7
  <2>19. NotThreePlaces'
    <3>1. ASSUME NEW p \in Proc \ {Idle}, NEW i \in 1..Len(process_queue'),
                 NEW j \in 1..Len(process_queue'), NEW k \in 1..Len(process_queue'),
                 process_queue'[i] = p, process_queue'[j] = p, process_queue'[k] = p
          PROVE  i = j \/ i = k \/ j = k
      <4>1. /\ i + 1 \in 1..Len(process_queue) /\ process_queue[i + 1] = p
            /\ j + 1 \in 1..Len(process_queue) /\ process_queue[j + 1] = p
            /\ k + 1 \in 1..Len(process_queue) /\ process_queue[k + 1] = p
        BY <3>1, <2>3
      <4>2. i + 1 = j + 1 \/ i + 1 = k + 1 \/ j + 1 = k + 1
        BY <4>1 DEF NotThreePlaces
      <4> QED BY <4>2
    <3>2. ASSUME NEW p \in Proc \ {Idle}, NEW t \in Proc, NEW u \in Proc,
                 NEW v \in Proc,
                 Chose(t, p)', Chose(u, p)', Chose(v, p)'
          PROVE  t = u \/ t = v \/ u = v
      BY <3>2, <2>4, <2>5 DEF NotThreePlaces, TwoPlaces
    <3> QED BY <3>1, <3>2 DEF NotThreePlaces
  <2> QED BY <2>11, <2>12, <2>13, <2>14, <2>15, <2>16, <2>17, <2>18, <2>19
<1>2. ASSUME process_queue = <<>> PROVE SchedulerInvariant'
  <2>1. /\ UNCHANGED <<process_queue, objects, zombie_queue, curr_process, boot>>
        /\ \A p \in Proc : p # s => pc'[p] = pc[p] /\ held'[p] = held[p]
        /\ \/ pc'[s] = "user" /\ held'[s] = held[s] /\ state[s] = "RUNNING"
           \/ pc'[s] = "requeue" /\ held'[s] = Idle
    BY <1>2 DEF Select, TypeOK
  <2>2. state[Idle] = "RUNNING"
    BY <1>0 DEF IdleAtBoot
  <2>3. \A t, p \in Proc : Chose(t, p)' => Chose(t, p) \/ p = Idle
    BY <2>1 DEF Chose
  <2>11. TypeOK'
    <3>1. Quantum(s) \in Nat
      BY QuantumIsNat
    <3> HIDE DEF Quantum
    <3>2. time_slice' \in [Proc -> Nat]
      BY <1>2, <3>1 DEF TypeOK, Select
    <3>3. /\ \/ pc' = [pc EXCEPT ![s] = "user"]
             \/ pc' = [pc EXCEPT ![s] = "requeue"]
          /\ \/ held' = held
             \/ held' = [held EXCEPT ![s] = Idle]
      BY <1>2 DEF Select
    <3>4. pc' \in [Proc -> Place]
      BY <3>3 DEF TypeOK, Place
    <3>5. held' \in [Proc -> Proc \cup {NoProc}]
      BY <3>3 DEF TypeOK
    <3> QED BY <2>1, <3>2, <3>4, <3>5 DEF TypeOK
  <2>12. PlaceAndState'
    BY <2>1, <1>0 DEF PlaceAndState
  <2>13. CpuIsLive'
    BY <2>1, <1>0 DEF CpuIsLive
  <2>14. IdleAtBoot'
    BY <2>1, <1>0 DEF IdleAtBoot
  <2>15. LaunchIsPrivate'
    BY <2>1, <1>0, <2>3 DEF LaunchIsPrivate, Launches, Schedulable, Queued,
       PlaceAndState
  <2>16. SchedulableRuns'
    BY <2>1, <2>2, <2>3 DEF SchedulableRuns, Schedulable, Queued
  <2>17. ZombiesAreEnded'
    <3>1. \A p \in Proc : Zombie(p)' => Zombie(p) /\ p # s
      BY <2>1, <1>0 DEF Zombie
    <3>2. pc'[Reaper] \in {"reap", "kfree"}
            => Reaper # s /\ pc'[Reaper] = pc[Reaper] /\ held'[Reaper] = held[Reaper]
      BY <2>1
    <3>3. pc[Reaper] \in {"reap", "kfree"} => held[Reaper] # s
      BY <1>0 DEF ZombiesAreEnded
    <3> QED BY <2>1, <3>1, <1>0 DEF ZombiesAreEnded, Reaping, PlaceAndState
  <2>18. TwoPlaces'
    BY <2>1, <1>0, <2>3 DEF TwoPlaces, Queued, Schedulable
  <2>19. NotThreePlaces'
    BY <2>1, <2>3 DEF NotThreePlaces
  <2> QED BY <2>11, <2>12, <2>13, <2>14, <2>15, <2>16, <2>17, <2>18, <2>19
<1> QED BY <1>1, <1>2

(***************************************************************************)
(* The push of Process::start: the process was in no place of the round    *)
(* before.                                                                 *)
(***************************************************************************)
LEMMA PushPreserves ==
  ASSUME SchedulerInvariant, NEW s \in Proc, Push(s)
  PROVE  SchedulerInvariant'
<1> USE ProcAssumption DEF SchedulerInvariant, Push, objects
<1> DEFINE p == held[s]
<1>1. /\ p \in Proc /\ process_queue \in Seq(Proc)
      /\ process_queue' = Append(process_queue, p)
  BY DEF TypeOK, PlaceAndState
<1>2. /\ process_queue' \in Seq(Proc)
      /\ \A i \in 1..Len(process_queue') :
           \/ i \in 1..Len(process_queue) /\ process_queue'[i] = process_queue[i]
           \/ i = Len(process_queue) + 1 /\ process_queue'[i] = p
  BY <1>1
<1>3. p # Idle => /\ pc[p] = "user" /\ curr_process # p /\ ~Queued(p)
                  /\ \A t \in Proc : ~Chose(t, p)
  BY DEF LaunchIsPrivate, Schedulable
<1>4. \A t, q \in Proc : Chose(t, q)' => Chose(t, q)
  BY DEF Chose
<1>5. \A q \in Proc : Queued(q)' => Queued(q) \/ q = p
  BY DEF Queued
<1>6. \A q \in Proc : q # s => pc'[q] = pc[q] /\ held'[q] = held[q]
  OBVIOUS
<1>11. TypeOK'
  BY <1>2 DEF TypeOK, Place
<1>12. PlaceAndState'
  BY DEF TypeOK, PlaceAndState
<1>13. CpuIsLive'
  BY DEF CpuIsLive
<1>14. IdleAtBoot'
  BY DEF IdleAtBoot
<1>15. LaunchIsPrivate'
  <2>1. ASSUME NEW t \in Proc, pc'[t] \in {"created", "starting"}
        PROVE  /\ t # s /\ pc[t] = pc'[t] /\ held'[t] = held[t]
               /\ held[t] # p /\ held[t] \in Proc
    BY <2>1 DEF TypeOK, LaunchIsPrivate, Launches
  <2>2. \A t, q \in Proc : Launches(t, q)' => Launches(t, q)
    BY DEF Launches
  <2>3. \A q \in Proc : pc[q] = "user" => pc'[q] = "user"
    OBVIOUS
  <2>4. \A q \in Proc : q # p /\ Schedulable(q)' => Schedulable(q)
    BY <1>4, <1>5 DEF Schedulable
  <2> QED BY <2>1, <2>2, <2>4 DEF LaunchIsPrivate
<1>16. SchedulableRuns'
  BY <1>4, <1>5 DEF SchedulableRuns, Schedulable, LaunchIsPrivate
<1>17. ZombiesAreEnded'
  BY DEF ZombiesAreEnded, Zombie, Reaping
<1>18. TwoPlaces'
  <2> SUFFICES ASSUME NEW q \in Proc \ {Idle}
               PROVE  /\ \A i, j \in 1..Len(process_queue') :
                           i # j /\ process_queue'[i] = q /\ process_queue'[j] = q
                             => /\ pc'[q] = "switch" /\ curr_process' # q
                                /\ \A t \in Proc : ~Chose(t, q)'
                      /\ \A t \in Proc : Chose(t, q)' /\ Queued(q)'
                           => pc'[q] = "switch" /\ curr_process' # q
                      /\ \A t, u \in Proc : t # u /\ Chose(t, q)' /\ Chose(u, q)'
                           => pc'[q] = "switch" /\ curr_process' # q /\ ~Queued(q)'
                      /\ curr_process' = q /\ Schedulable(q)' => pc'[q] = "switch"
                      /\ ~Chose(q, q)'
    BY DEF TwoPlaces
  <2>1. pc[q] = "switch" => pc'[q] = "switch"
    OBVIOUS
  <2>2. CASE q = p
    BY <2>2, <1>3, <1>4 DEF Queued
  <2>3. CASE q # p
    <3>1. \A i \in 1..Len(process_queue') : process_queue'[i] = q
            => i \in 1..Len(process_queue) /\ process_queue[i] = q
      BY <2>3
    <3> QED BY <3>1, <1>4, <1>5 DEF TwoPlaces, Schedulable
  <2> QED BY <2>2, <2>3
<1>19. NotThreePlaces'
  <2>1. ASSUME NEW q \in Proc \ {Idle}, NEW i \in 1..Len(process_queue'),
               process_queue'[i] = q
        PROVE  IF q = p THEN i = Len(process_queue) + 1
               ELSE i \in 1..Len(process_queue) /\ process_queue[i] = q
    BY <2>1, <1>3 DEF Queued
  <2> QED BY <2>1, <1>4 DEF NotThreePlaces
<1> QED BY <1>11, <1>12, <1>13, <1>14, <1>15, <1>16, <1>17, <1>18, <1>19

(***************************************************************************)
(* schedule() puts its caller back or among the zombies, by its state.     *)
(* This is where a process can come to a second place, since the queue had *)
(* none for it.                                                            *)
(***************************************************************************)
LEMMA RequeuePreserves ==
  ASSUME SchedulerInvariant, NEW s \in Proc, Requeue(s)
  PROVE  SchedulerInvariant'
<1> USE ProcAssumption DEF SchedulerInvariant, Requeue, Requeues, objects
<1>0. curr_process = s /\ pc[s] = "requeue" /\ ~Zombie(s)
  BY DEF ZombiesAreEnded
<1>1. s # Idle => ~Queued(s) /\ \A t \in Proc : ~Chose(t, s)
  BY DEF TwoPlaces, Schedulable
<1>2. /\ process_queue' \in Seq(Proc)
      /\ \A i \in 1..Len(process_queue') :
           \/ i \in 1..Len(process_queue) /\ process_queue'[i] = process_queue[i]
           \/ i = Len(process_queue) + 1 /\ process_queue'[i] = s /\ s # Idle
              /\ state[s] = "RUNNING"
  BY DEF TypeOK
<1>3. /\ zombie_queue' \in Seq(Proc)
      /\ \A i \in 1..Len(zombie_queue') :
           \/ i \in 1..Len(zombie_queue) /\ zombie_queue'[i] = zombie_queue[i]
           \/ i = Len(zombie_queue) + 1 /\ zombie_queue'[i] = s
              /\ state[s] = "TERMINATED"
  BY DEF TypeOK
<1>4. /\ pc' = [pc EXCEPT ![s] = "switch"] /\ pc'[s] = "switch"
      /\ \A p \in Proc : p # s => pc'[p] = pc[p]
      /\ UNCHANGED <<objects, time_slice, curr_process, held, boot>>
  BY DEF TypeOK
<1>5. \A t, p \in Proc : Chose(t, p)' <=> Chose(t, p)
  BY DEF Chose
<1>6. \A p \in Proc : Queued(p)' => Queued(p) \/ (p = s /\ s # Idle)
  BY DEF Queued
<1>11. TypeOK'
  BY DEF TypeOK, Place
<1>12. PlaceAndState'
  BY DEF PlaceAndState
<1>13. CpuIsLive'
  BY DEF CpuIsLive
<1>14. IdleAtBoot'
  BY DEF IdleAtBoot
<1>15. LaunchIsPrivate'
  <2>1. \A t, p \in Proc : Launches(t, p)' => Launches(t, p)
    BY DEF Launches
  <2>2. \A p \in Proc : pc[p] \in {"user", "created", "starting"} <=> pc'[p] \in {"user", "created", "starting"}
    OBVIOUS
  <2>3. \A p \in Proc : p # s /\ Schedulable(p)' => Schedulable(p)
    BY <1>5, <1>6 DEF Schedulable
  <2> QED BY <2>1, <2>3 DEF LaunchIsPrivate, PlaceAndState
<1>16. SchedulableRuns'
  <2>1. ASSUME NEW p \in Proc, Queued(p)', ~Queued(p) PROVE state[p] = "RUNNING"
    BY <2>1 DEF Queued
  <2> QED BY <1>5, <2>1 DEF SchedulableRuns, Schedulable
<1>17. ZombiesAreEnded'
  <2>1. \A p \in Proc : Zombie(p)' => Zombie(p) \/ (p = s /\ state[s] = "TERMINATED")
    BY DEF Zombie
  <2>2. ASSUME NEW i \in 1..Len(zombie_queue'), NEW j \in 1..Len(zombie_queue'),
               zombie_queue'[i] = zombie_queue'[j]
        PROVE  i = j
    BY <2>2 DEF Zombie, ZombiesAreEnded
  <2>3. \A p \in Proc : Reaping(p)' <=> Reaping(p)
    BY DEF Reaping
  <2>4. state[s] = "TERMINATED" => s \in stack /\ ~Reaping(s)
    BY DEF CpuIsLive, ZombiesAreEnded, Reaping
  <2>5. pc'[Reaper] \in {"reap", "kfree"} => pc[Reaper] = pc'[Reaper] /\ held[Reaper] # s
    BY DEF ZombiesAreEnded
  <2> QED BY <1>4, <2>1, <2>2, <2>3, <2>4 DEF ZombiesAreEnded
<1>18. TwoPlaces'
  <2> SUFFICES ASSUME NEW q \in Proc \ {Idle}
               PROVE  /\ \A i, j \in 1..Len(process_queue') :
                           i # j /\ process_queue'[i] = q /\ process_queue'[j] = q
                             => /\ pc'[q] = "switch" /\ curr_process' # q
                                /\ \A t \in Proc : ~Chose(t, q)'
                      /\ \A t \in Proc : Chose(t, q)' /\ Queued(q)'
                           => pc'[q] = "switch" /\ curr_process' # q
                      /\ \A t, u \in Proc : t # u /\ Chose(t, q)' /\ Chose(u, q)'
                           => pc'[q] = "switch" /\ curr_process' # q /\ ~Queued(q)'
                      /\ curr_process' = q /\ Schedulable(q)' => pc'[q] = "switch"
                      /\ ~Chose(q, q)'
    BY DEF TwoPlaces
  <2>1. CASE q = s
    BY <2>1, <1>1, <1>4, <1>5 DEF Queued
  <2>2. CASE q # s
    <3>1. \A i \in 1..Len(process_queue') : process_queue'[i] = q
            => i \in 1..Len(process_queue) /\ process_queue[i] = q
      BY <2>2
    <3> QED BY <2>2, <1>5, <1>6 DEF TwoPlaces
  <2> QED BY <2>1, <2>2
<1>19. NotThreePlaces'
  <2>1. ASSUME NEW q \in Proc \ {Idle}, NEW i \in 1..Len(process_queue'),
               process_queue'[i] = q
        PROVE  IF q = s THEN i = Len(process_queue) + 1
               ELSE i \in 1..Len(process_queue) /\ process_queue[i] = q
    BY <2>1, <1>1 DEF Queued
  <2> QED BY <2>1, <1>5 DEF NotThreePlaces
<1> QED BY <1>11, <1>12, <1>13, <1>14, <1>15, <1>16, <1>17, <1>18, <1>19

(***************************************************************************)
(* The rest of schedule(): the choice becomes the executing process.       *)
(***************************************************************************)
LEMMA SwitchPreserves ==
  ASSUME SchedulerInvariant, NEW s \in Proc, Switch(s)
  PROVE  SchedulerInvariant'
<1> USE ProcAssumption DEF SchedulerInvariant
<1> DEFINE n == held[s]
<1>0. /\ TypeOK /\ curr_process = s /\ pc[s] = "switch" /\ n \in Proc
      /\ Chose(s, n) /\ state[n] = "RUNNING" /\ n \in stack
  BY DEF Switch, PlaceAndState, Chose, SchedulableRuns, Schedulable
<1>1. /\ curr_process' = n
      /\ pc'[s] = IF state[s] = "TERMINATED" THEN "gone" ELSE "user"
      /\ \A p \in Proc : p # s => pc'[p] = pc[p] /\ held'[p] = held[p]
      /\ state' = state
      /\ UNCHANGED <<stack, priority, process_log_list, process_queue,
                     zombie_queue, boot>>
  BY <1>0 DEF Switch, TypeOK
<1>2. \A t, p \in Proc : Chose(t, p)' => Chose(t, p) /\ t # s
  BY <1>1 DEF Chose
<1>3. n # Idle => n # s
  BY <1>0 DEF TwoPlaces
<1>4. \A p \in Proc : Queued(p)' <=> Queued(p)
  BY <1>1 DEF Queued
<1>5. \A p \in Proc : Schedulable(p)' => Schedulable(p)
  BY <1>2, <1>4 DEF Schedulable
<1>11. TypeOK'
  <2>1. Quantum(n) \in Nat
    BY <1>0, QuantumIsNat
  <2> QED BY <1>0, <2>1 DEF TypeOK, Place, Switch
<1>12. PlaceAndState'
  BY <1>0, <1>1 DEF PlaceAndState
<1>13. CpuIsLive'
  BY <1>0, <1>1 DEF CpuIsLive, PlaceAndState
<1>14. IdleAtBoot'
  BY <1>0, <1>1 DEF IdleAtBoot
<1>15. LaunchIsPrivate'
  <2>1. ASSUME NEW t \in Proc, pc'[t] \in {"created", "starting"}
        PROVE  /\ t # s /\ pc'[t] = pc[t] /\ held'[t] = held[t]
               /\ held[t] \in Proc /\ held[t] # s
               /\ pc[t] = "created" => held[t] # n
               /\ held[t] # Idle => held[t] # n
    BY <2>1, <1>0, <1>1 DEF LaunchIsPrivate, PlaceAndState, Schedulable
  <2>2. \A t, p \in Proc : Launches(t, p)' => Launches(t, p)
    BY <2>1 DEF Launches
  <2> QED BY <1>1, <1>5, <2>1, <2>2 DEF LaunchIsPrivate
<1>16. SchedulableRuns'
  BY <1>1, <1>5 DEF SchedulableRuns
<1>17. ZombiesAreEnded'
  <2>1. \A p \in Proc : Zombie(p)' <=> Zombie(p)
    BY <1>1 DEF Zombie
  <2>2. pc'[Reaper] \in {"reap", "kfree"}
          => Reaper # s /\ pc'[Reaper] = pc[Reaper] /\ held'[Reaper] = held[Reaper]
    BY <1>1
  <2>3. \A p \in Proc : Reaping(p)' => Reaping(p)
    BY <2>2 DEF Reaping
  <2>4. pc[Reaper] \in {"reap", "kfree"} => held[Reaper] \in Proc /\ held[Reaper] # s
    BY <1>0 DEF ZombiesAreEnded, PlaceAndState
  <2> QED BY <1>1, <2>1, <2>3, <2>4 DEF ZombiesAreEnded
<1>18. TwoPlaces'
  <2> SUFFICES ASSUME NEW q \in Proc \ {Idle}
               PROVE  /\ \A i, j \in 1..Len(process_queue') :
                           i # j /\ process_queue'[i] = q /\ process_queue'[j] = q
                             => /\ pc'[q] = "switch" /\ curr_process' # q
                                /\ \A t \in Proc : ~Chose(t, q)'
                      /\ \A t \in Proc : Chose(t, q)' /\ Queued(q)'
                           => pc'[q] = "switch" /\ curr_process' # q
                      /\ \A t, u \in Proc : t # u /\ Chose(t, q)' /\ Chose(u, q)'
                           => pc'[q] = "switch" /\ curr_process' # q /\ ~Queued(q)'
                      /\ curr_process' = q /\ Schedulable(q)' => pc'[q] = "switch"
                      /\ ~Chose(q, q)'
    BY DEF TwoPlaces
  <2>1. CASE q = n
    <3>1. \A i, j \in 1..Len(process_queue) :
            process_queue[i] = q /\ process_queue[j] = q => i = j
      BY <2>1, <1>0 DEF TwoPlaces
    <3>2. \A t \in Proc : ~(Chose(t, q)' /\ Queued(q)')
      BY <2>1, <1>0, <1>2, <1>4 DEF TwoPlaces
    <3>3. \A t, u \in Proc : Chose(t, q)' /\ Chose(u, q)' => t = u
      BY <2>1, <1>0, <1>2 DEF NotThreePlaces
    <3>4. Schedulable(q)' => pc'[q] = "switch"
      BY <2>1, <1>0, <1>1, <1>2, <1>4 DEF TwoPlaces, Schedulable
    <3>5. ~Chose(q, q)'
      BY <1>2 DEF TwoPlaces
    <3> QED BY <1>1, <3>1, <3>2, <3>3, <3>4, <3>5
  <2>2. CASE q # n
    <3>1. pc[q] = "switch" /\ curr_process # q => pc'[q] = "switch" /\ curr_process' # q
      BY <2>2, <1>0, <1>1
    <3>2. curr_process' # q
      BY <2>2, <1>1
    <3> QED BY <1>1, <1>2, <1>4, <3>1, <3>2 DEF TwoPlaces
  <2> QED BY <2>1, <2>2
<1>19. NotThreePlaces'
  BY <1>1, <1>2, RoundUnchanged
<1> QED BY <1>11, <1>12, <1>13, <1>14, <1>15, <1>16, <1>17, <1>18, <1>19

(***************************************************************************)
(* zombie_reaper pops a zombie with interrupts disabled: it is in the      *)
(* zombie queue no more, and nothing else of it changes.                   *)
(***************************************************************************)
LEMMA ReapPreserves ==
  ASSUME SchedulerInvariant, Reap
  PROVE  SchedulerInvariant'
<1> USE ProcAssumption DEF SchedulerInvariant, objects
<1>0. TypeOK /\ curr_process = Reaper /\ pc[Reaper] = "user" /\ zombie_queue \in Seq(Proc)
  BY DEF Reap, TypeOK
<1>1. /\ \A p \in Proc : p # Reaper => pc'[p] = pc[p] /\ held'[p] = held[p]
      /\ pc'[Reaper] \in {"reap", "select"} /\ pc' \in [Proc -> Place]
      /\ UNCHANGED <<state, stack, priority, process_log_list, time_slice,
                     process_queue, curr_process, boot>>
  BY <1>0 DEF Reap, TypeOK, Place
<1>2. /\ zombie_queue' \in Seq(Proc) /\ held' \in [Proc -> Proc \cup {NoProc}]
      /\ pc'[Reaper] = "reap" =>
           /\ held'[Reaper] \in Proc /\ Zombie(held'[Reaper])
           /\ held'[Reaper] = zombie_queue[1] /\ 1 \in 1..Len(zombie_queue)
           /\ \A i \in 1..Len(zombie_queue') :
                i + 1 \in 1..Len(zombie_queue) /\ zombie_queue'[i] = zombie_queue[i + 1]
      /\ pc'[Reaper] # "reap" => zombie_queue' = zombie_queue
  <2>1. CASE zombie_queue = <<>>
    BY <2>1 DEF Reap, TypeOK
  <2>2. CASE zombie_queue # <<>>
    <3>1. /\ zombie_queue' = Tail(zombie_queue) /\ held' = [held EXCEPT ![Reaper] = Head(zombie_queue)]
          /\ pc'[Reaper] = "reap" /\ held'[Reaper] = Head(zombie_queue)
      BY <2>2 DEF Reap, TypeOK
    <3> QED BY <2>2, <3>1 DEF TypeOK, Zombie
  <2> QED BY <2>1, <2>2
<1>3. \A t, p \in Proc : (Chose(t, p)' => Chose(t, p)) /\ (Launches(t, p)' => Launches(t, p))
  BY <1>1 DEF Chose, Launches
<1>4. \A p \in Proc : Schedulable(p)' => Schedulable(p)
  BY <1>1, <1>3 DEF Schedulable, Queued
<1>5. \A p \in Proc : Zombie(p)' => Zombie(p)
  BY <1>2 DEF Zombie
<1>11. TypeOK'
  BY <1>1, <1>2 DEF TypeOK
<1>12. PlaceAndState'
  BY <1>0, <1>1, <1>2 DEF PlaceAndState, CpuIsLive
<1>13. CpuIsLive'
  BY <1>0, <1>1 DEF CpuIsLive
<1>14. IdleAtBoot'
  BY <1>1 DEF IdleAtBoot
<1>15. LaunchIsPrivate'
  <2>1. \A t \in Proc : pc'[t] \in {"created", "starting"} => 
          pc'[t] = pc[t] /\ held'[t] = held[t] /\ held[t] \in Proc /\ held[t] # Reaper
    BY <1>0, <1>1 DEF PlaceAndState, LaunchIsPrivate, CpuIsLive
  <2> QED BY <1>1, <1>3, <1>4, <2>1 DEF LaunchIsPrivate
<1>16. SchedulableRuns'
  BY <1>1, <1>4 DEF SchedulableRuns
<1>17. ZombiesAreEnded'
  <2>1. \A p \in Proc : Zombie(p) => p # Reaper /\ pc'[p] = pc[p]
    BY <1>0, <1>1 DEF ZombiesAreEnded
  <2>2. \A i, j \in 1..Len(zombie_queue') : zombie_queue'[i] = zombie_queue'[j] => i = j
    <3> SUFFICES ASSUME NEW i \in 1..Len(zombie_queue'),
                        NEW j \in 1..Len(zombie_queue'),
                        zombie_queue'[i] = zombie_queue'[j]
                 PROVE  i = j
      OBVIOUS
    <3>1. CASE pc'[Reaper] = "reap"
      <4>1. i + 1 = j + 1
        BY <1>2 DEF ZombiesAreEnded
      <4> QED BY <4>1
    <3>2. CASE pc'[Reaper] # "reap"
      BY <1>2 DEF ZombiesAreEnded
    <3> QED BY <3>1, <3>2
  <2>3. ASSUME NEW p \in Proc, Zombie(p)', Reaping(p)' PROVE FALSE
    <3>1. pc'[Reaper] = "reap" /\ held'[Reaper] = p
      BY <2>3, <1>1 DEF Reaping
    <3>2. PICK i \in 1..Len(zombie_queue') : zombie_queue'[i] = p
      BY <2>3 DEF Zombie
    <3>3. i + 1 \in 1..Len(zombie_queue) /\ zombie_queue[i + 1] = zombie_queue[1] /\ 1 \in 1..Len(zombie_queue)
      BY <1>2, <3>1, <3>2
    <3>4. i + 1 = 1
      BY <3>3 DEF ZombiesAreEnded
    <3> QED BY <3>2, <3>4
  <2>4. pc'[Reaper] = "reap" => LET h == held'[Reaper] IN 
          state[h] = "TERMINATED" /\ h \in stack /\ pc'[h] = "gone"
    <3> SUFFICES ASSUME pc'[Reaper] = "reap"
                 PROVE LET h == held'[Reaper] IN 
                         state[h] = "TERMINATED" /\ h \in stack /\ pc'[h] = "gone"
      OBVIOUS
    <3>1. Zombie(held'[Reaper]) /\ held'[Reaper] \in Proc
      BY <1>2
    <3>2. state[held'[Reaper]] = "TERMINATED" /\ held'[Reaper] \in stack
          /\ (pc[held'[Reaper]] = "gone" \/ pc[held'[Reaper]] = "switch")
      BY <3>1 DEF ZombiesAreEnded
    <3> QED BY <1>0, <2>1, <3>1, <3>2 DEF PlaceAndState
  <2> QED BY <1>1, <1>5, <2>1, <2>2, <2>3, <2>4 DEF ZombiesAreEnded
<1>18. TwoPlaces'
  BY <1>0, <1>1, <1>3, <1>4 DEF TwoPlaces, Queued
<1>19. NotThreePlaces'
  BY <1>1, <1>3, RoundUnchanged
<1> QED BY <1>11, <1>12, <1>13, <1>14, <1>15, <1>16, <1>17, <1>18, <1>19

(***************************************************************************)
(* A step that changes time slices only keeps the invariant.               *)
(***************************************************************************)
LEMMA SliceOnlyPreserves ==
  ASSUME SchedulerInvariant, time_slice' \in [Proc -> Nat],
         UNCHANGED <<objects, process_queue, zombie_queue, curr_process, pc, held, boot>>
  PROVE  SchedulerInvariant'
<1> USE DEF SchedulerInvariant, objects
<1>1. /\ \A t, p \in Proc : (Chose(t, p)' <=> Chose(t, p)) /\ (Launches(t, p)' <=> Launches(t, p))
      /\ \A p \in Proc : /\ Schedulable(p)' <=> Schedulable(p)
                         /\ Queued(p)' <=> Queued(p)
                         /\ Zombie(p)' <=> Zombie(p)
                         /\ Reaping(p)' <=> Reaping(p)
  BY DEF Chose, Launches, Schedulable, Queued, Zombie, Reaping
<1>2. TypeOK'
  BY DEF TypeOK
<1>3. PlaceAndState' /\ CpuIsLive' /\ IdleAtBoot'
  BY DEF PlaceAndState, CpuIsLive, IdleAtBoot
<1>4. LaunchIsPrivate'
  <2>1. \A s \in Proc : pc[s] \in {"created", "starting"} => held[s] \in Proc
    BY DEF PlaceAndState
  <2> QED BY <1>1, <2>1 DEF LaunchIsPrivate
<1>5. SchedulableRuns' /\ ZombiesAreEnded'
  BY <1>1 DEF SchedulableRuns, ZombiesAreEnded
<1>6. TwoPlaces' /\ NotThreePlaces'
  BY <1>1 DEF TwoPlaces, NotThreePlaces
<1> QED BY <1>2, <1>3, <1>4, <1>5, <1>6

(***************************************************************************)
(* The timer handler runs schedule() to its end: the head of the run queue *)
(* executes next, and the process it interrupted, if it runs, is put back, *)
(* wherever in schedule() or start() it was interrupted.                   *)
(***************************************************************************)
LEMMA PreemptPreserves ==
  ASSUME SchedulerInvariant, Tick, Preempt(curr_process), process_queue # <<>>
  PROVE  SchedulerInvariant'
<1> USE ProcAssumption DEF SchedulerInvariant
<1> DEFINE old == curr_process
           n == Head(process_queue)
<1>0. TypeOK /\ old \in Proc /\ state[old] = "RUNNING" /\ process_queue \in Seq(Proc)
  BY DEF Tick, TypeOK
<1>1. /\ UNCHANGED <<stack, priority, process_log_list, zombie_queue, pc, held, boot>>
      /\ \A t, p \in Proc : (Chose(t, p)' <=> Chose(t, p)) /\ (Launches(t, p)' <=> Launches(t, p))
      /\ \A p \in Proc : (Zombie(p)' <=> Zombie(p)) /\ (Reaping(p)' <=> Reaping(p))
  BY DEF Tick, Chose, Launches, Zombie, Reaping
<1>2. /\ n \in Proc /\ n = process_queue[1] /\ 1 \in 1..Len(process_queue)
      /\ Tail(process_queue) \in Seq(Proc)
      /\ \A i \in 1..Len(Tail(process_queue)) :
           i + 1 \in 1..Len(process_queue) /\ Tail(process_queue)[i] = process_queue[i + 1]
  BY <1>0
<1>3. /\ process_queue' = IF old # n /\ old # Idle THEN Append(Tail(process_queue), old)
                                                   ELSE Tail(process_queue)
      /\ state' = [state EXCEPT ![n] = "RUNNING"]
      /\ time_slice' = [time_slice EXCEPT ![old] = 0, ![n] = Quantum(n)]
      /\ curr_process' = n
  BY <1>0 DEF Preempt, Requeues
<1> HIDE DEF n
<1>4. /\ process_queue' \in Seq(Proc)
      /\ \A i \in 1..Len(process_queue') :
           \/ /\ i \in 1..Len(Tail(process_queue)) /\ i + 1 \in 1..Len(process_queue)
              /\ process_queue'[i] = process_queue[i + 1]
           \/ /\ i = Len(Tail(process_queue)) + 1 /\ process_queue'[i] = old
              /\ old # n /\ old # Idle
  <2>1. CASE old # n /\ old # Idle
    BY <1>0, <1>3
  <2>2. CASE ~(old # n /\ old # Idle)
    BY <2>2, <1>2, <1>3
  <2> QED BY <2>1, <2>2
<1>5. Queued(n) /\ state[n] = "RUNNING" /\ n \in stack /\ state' = state
  <2>1. Queued(n)
    BY <1>2 DEF Queued
  <2> QED BY <2>1, <1>2, <1>3 DEF TypeOK, SchedulableRuns, Schedulable, PlaceAndState
<1>6. \A p \in Proc : Queued(p)' => Queued(p) \/ (p = old /\ old # n /\ old # Idle)
  BY <1>4 DEF Queued
<1>7. \A p \in Proc : Schedulable(p)' => Schedulable(p) \/ p = old
  BY <1>1, <1>6 DEF Schedulable
<1>8. \A p \in Proc : Queued(p) => Schedulable(p)
  BY DEF Schedulable
<1>11. TypeOK'
  <2>1. Quantum(n) \in Nat
    BY <1>2, QuantumIsNat
  <2> HIDE DEF Quantum
  <2>2. time_slice' \in [Proc -> Nat]
    BY <2>1, <1>0, <1>3 DEF TypeOK
  <2> QED BY <2>2, <1>0, <1>1, <1>3, <1>4, <1>5 DEF TypeOK
<1>12. PlaceAndState'
  BY <1>0, <1>1, <1>5 DEF PlaceAndState
<1>13. CpuIsLive'
  BY <1>1, <1>2, <1>3, <1>5 DEF CpuIsLive, PlaceAndState
<1>14. IdleAtBoot'
  BY <1>0, <1>1, <1>5 DEF IdleAtBoot
<1>15. LaunchIsPrivate'
  <2>1. \A s \in Proc : pc[s] \in {"created", "starting"} => held[s] \in Proc
    BY DEF PlaceAndState
  <2> QED BY <1>1, <1>3, <1>5, <1>7, <1>8, <2>1 DEF LaunchIsPrivate
<1>16. SchedulableRuns'
  BY <1>0, <1>5, <1>7 DEF SchedulableRuns
<1>17. ZombiesAreEnded'
  BY <1>1, <1>5 DEF ZombiesAreEnded
<1>20. ASSUME NEW q \in Proc \ {Idle}, q # old \/ n = old,
              NEW i \in 1..Len(process_queue'), process_queue'[i] = q
       PROVE  i + 1 \in 1..Len(process_queue) /\ process_queue[i + 1] = q /\ i + 1 # 1
  BY <1>20, <1>4
<1>21. ASSUME NEW q \in Proc \ {Idle}, q = old,
              NEW i \in 1..Len(process_queue), process_queue[i] = q,
              NEW j \in 1..Len(process_queue), process_queue[j] = q
       PROVE  i = j
  BY <1>21 DEF TwoPlaces
<1>22. ASSUME NEW q \in Proc \ {Idle}, q = old, old # n,
              NEW i \in 1..Len(process_queue'), process_queue'[i] = q
       PROVE  \/ i + 1 \in 1..Len(process_queue) /\ process_queue[i + 1] = q
              \/ i = Len(Tail(process_queue)) + 1
  BY <1>22, <1>4
<1>18. TwoPlaces'
  <2> SUFFICES ASSUME NEW q \in Proc \ {Idle}
               PROVE  /\ \A i, j \in 1..Len(process_queue') :
                           i # j /\ process_queue'[i] = q /\ process_queue'[j] = q
                             => /\ pc[q] = "switch" /\ n # q
                                /\ \A t \in Proc : ~Chose(t, q)
                      /\ \A t \in Proc : Chose(t, q) /\ Queued(q)'
                           => pc[q] = "switch" /\ n # q
                      /\ \A t, u \in Proc : t # u /\ Chose(t, q) /\ Chose(u, q)
                           => pc[q] = "switch" /\ n # q /\ ~Queued(q)'
                      /\ n = q /\ Schedulable(q)' => pc[q] = "switch"
                      /\ ~Chose(q, q)
    BY <1>1, <1>3, ZenonT(30) DEF TwoPlaces
  <2>0. ~Chose(q, q)
    BY DEF TwoPlaces
  <2>1. CASE q = n
    <3>1. ASSUME NEW i \in 1..Len(process_queue'), process_queue'[i] = q
          PROVE  /\ i + 1 \in 1..Len(process_queue) /\ i + 1 # 1 /\ process_queue[i + 1] = q
                 /\ process_queue[1] = q /\ pc[q] = "switch" /\ \A t \in Proc : ~Chose(t, q)
      <4>1. i + 1 \in 1..Len(process_queue) /\ i + 1 # 1 /\ process_queue[i + 1] = q
        BY <2>1, <3>1, <1>20
      <4> QED BY <4>1, <2>1, <1>2 DEF TwoPlaces
    <3>2. ASSUME NEW i \in 1..Len(process_queue'), NEW j \in 1..Len(process_queue'),
                 process_queue'[i] = q, process_queue'[j] = q
          PROVE  i = j
      <4>1. i + 1 = j + 1
        BY <3>1, <3>2 DEF NotThreePlaces
      <4> QED BY <4>1
    <3>3. Queued(q)' => pc[q] = "switch" /\ \A t \in Proc : ~Chose(t, q)
      BY <3>1 DEF Queued
    <3>4. \A t \in Proc : Chose(t, q) => pc[q] = "switch"
      BY <2>1, <1>5 DEF TwoPlaces
    <3>5. \A t, u \in Proc : Chose(t, q) /\ Chose(u, q) => t = u
      BY <2>1, <1>5 DEF TwoPlaces
    <3>6. Schedulable(q)' => Queued(q)' \/ \E t \in Proc : Chose(t, q)
      BY <1>1 DEF Schedulable
    <3> QED BY <2>0, <3>2, <3>3, <3>4, <3>5, <3>6
  <2>2. CASE q = old /\ q # n
    <3>1. Schedulable(q) => pc[q] = "switch"
      BY <2>2 DEF TwoPlaces
    <3>2. ASSUME NEW i \in 1..Len(process_queue'), NEW j \in 1..Len(process_queue'),
                 i # j, process_queue'[i] = q, process_queue'[j] = q
          PROVE  Queued(q)
      <4>1. \/ i + 1 \in 1..Len(process_queue) /\ process_queue[i + 1] = q
            \/ j + 1 \in 1..Len(process_queue) /\ process_queue[j + 1] = q
        BY <2>2, <3>2, <1>22
      <4> QED BY <4>1 DEF Queued
    <3>3. \A t \in Proc : ~(Chose(t, q) /\ Queued(q))
      BY <2>2 DEF TwoPlaces
    <3>4. \A t, u \in Proc : Chose(t, q) /\ Chose(u, q) => t = u
      BY <2>2 DEF TwoPlaces
    <3>5. \A t \in Proc : Chose(t, q) => pc[q] = "switch"
      BY <3>1 DEF Schedulable
    <3>6. Queued(q) => pc[q] = "switch"
      BY <3>1, <1>8
    <3> QED BY <2>0, <2>2, <3>2, <3>3, <3>4, <3>5, <3>6
  <2>3. CASE q # old /\ q # n
    <3>1. ASSUME NEW i \in 1..Len(process_queue'), NEW j \in 1..Len(process_queue'),
                 i # j, process_queue'[i] = q, process_queue'[j] = q
          PROVE  pc[q] = "switch" /\ \A t \in Proc : ~Chose(t, q)
      <4>1. /\ i + 1 \in 1..Len(process_queue) /\ process_queue[i + 1] = q
            /\ j + 1 \in 1..Len(process_queue) /\ process_queue[j + 1] = q
        BY <2>3, <3>1, <1>20
      <4>2. i + 1 # j + 1
        BY <3>1
      <4> QED BY <4>1, <4>2 DEF TwoPlaces
    <3>2. Queued(q)' => Queued(q)
      BY <2>3, <1>6
    <3>3. \A t \in Proc : Chose(t, q) /\ Queued(q)' => pc[q] = "switch"
      BY <3>2 DEF TwoPlaces
    <3>4. \A t, u \in Proc : t # u /\ Chose(t, q) /\ Chose(u, q)
            => pc[q] = "switch" /\ ~Queued(q)'
      BY <3>2 DEF TwoPlaces
    <3> QED BY <2>0, <2>3, <3>1, <3>3, <3>4
  <2> QED BY <2>1, <2>2, <2>3
<1>19. NotThreePlaces'
  <2>1. ASSUME NEW q \in Proc \ {Idle}, NEW i \in 1..Len(process_queue'),
               NEW j \in 1..Len(process_queue'), NEW k \in 1..Len(process_queue'),
               process_queue'[i] = q, process_queue'[j] = q, process_queue'[k] = q
        PROVE  i = j \/ i = k \/ j = k
    <3>1. CASE q # old \/ n = old
      <4>1. i + 1 = j + 1 \/ i + 1 = k + 1 \/ j + 1 = k + 1
        BY <2>1, <3>1, <1>20 DEF NotThreePlaces
      <4> QED BY <4>1
    <3>2. CASE q = old /\ old # n
      <4> DEFINE last == Len(Tail(process_queue)) + 1
      <4>1. /\ i # last => i + 1 \in 1..Len(process_queue) /\ process_queue[i + 1] = q
            /\ j # last => j + 1 \in 1..Len(process_queue) /\ process_queue[j + 1] = q
            /\ k # last => k + 1 \in 1..Len(process_queue) /\ process_queue[k + 1] = q
        BY <2>1, <3>2, <1>22
      <4> HIDE DEF last
      <4>2. /\ i # last /\ j # last => i + 1 = j + 1
            /\ i # last /\ k # last => i + 1 = k + 1
            /\ j # last /\ k # last => j + 1 = k + 1
        BY <4>1, <3>2, <1>21
      <4> QED BY <4>2
    <3> QED BY <3>1, <3>2
  <2>2. \A q \in Proc \ {Idle} : \A t, u, v \in Proc :
          Chose(t, q)' /\ Chose(u, q)' /\ Chose(v, q)' => t = u \/ t = v \/ u = v
    BY <1>1 DEF NotThreePlaces
  <2> QED BY <2>1, <2>2 DEF NotThreePlaces
<1> QED BY <1>11, <1>12, <1>13, <1>14, <1>15, <1>16, <1>17, <1>18, <1>19

(***************************************************************************)
(* onIrq0: a tick counts against the slice or preempts.                    *)
(***************************************************************************)
LEMMA TickPreserves ==
  ASSUME SchedulerInvariant, Tick
  PROVE  SchedulerInvariant'
<1>0. TypeOK /\ curr_process \in Proc
  BY DEF SchedulerInvariant, TypeOK
<1>1. CASE Spend(curr_process)
  <2>1. time_slice' \in [Proc -> Nat]
    BY <1>0, <1>1 DEF Spend, TypeOK
  <2> QED BY <1>1, <2>1, SliceOnlyPreserves DEF Tick, Spend, objects
<1>2. CASE Preempt(curr_process) /\ process_queue = <<>>
  <2>1. /\ time_slice' = [time_slice EXCEPT ![curr_process] = Quantum(curr_process)]
        /\ UNCHANGED <<state, process_queue, curr_process>>
    BY <1>2 DEF Preempt
  <2>2. Quantum(curr_process) \in Nat
    BY <1>0, QuantumIsNat
  <2>3. time_slice' \in [Proc -> Nat]
    BY <1>0, <2>1, <2>2 DEF TypeOK
  <2> QED BY <2>1, <2>3, SliceOnlyPreserves DEF Tick, objects
<1>3. CASE Preempt(curr_process) /\ process_queue # <<>>
  BY <1>3, PreemptPreserves
<1> QED BY <1>1, <1>2, <1>3 DEF Tick

-----------------------------------------------------------------------------
(***************************************************************************)
(* The invariant holds when sched::init has made the idle process the      *)
(* current one.                                                            *)
(***************************************************************************)
LEMMA InitEstablishes ==
  Init => SchedulerInvariant
<1> SUFFICES ASSUME Init PROVE SchedulerInvariant
  OBVIOUS
<1> USE ProcAssumption, QuantumAssumption DEF Init
<1>1. TypeOK
  BY DEF TypeOK, State, Place, Boot
<1>2. /\ \A p \in Proc : ~Queued(p) /\ ~Zombie(p)
      /\ \A s, p \in Proc : ~Chose(s, p) /\ ~Launches(s, p)
  BY DEF Queued, Zombie, Chose, Launches
<1>3. PlaceAndState /\ CpuIsLive /\ IdleAtBoot
  BY DEF PlaceAndState, CpuIsLive, IdleAtBoot
<1>4. LaunchIsPrivate /\ SchedulableRuns
  BY <1>2 DEF LaunchIsPrivate, SchedulableRuns, Schedulable
<1>5. ZombiesAreEnded
  BY <1>2 DEF ZombiesAreEnded
<1>6. TwoPlaces /\ NotThreePlaces
  BY <1>2 DEF TwoPlaces, NotThreePlaces
<1> QED BY <1>1, <1>3, <1>4, <1>5, <1>6 DEF SchedulerInvariant

(***************************************************************************)
(* Every step of the kernel keeps the invariant.                           *)
(***************************************************************************)
LEMMA NextPreserves ==
  SchedulerInvariant /\ [Next]_vars => SchedulerInvariant'
<1> SUFFICES ASSUME SchedulerInvariant, [Next]_vars PROVE SchedulerInvariant'
  OBVIOUS
<1>1. CASE Tick
  BY <1>1, TickPreserves
<1>2. CASE BootStep
  BY <1>2, BootStartIdlePreserves, BootCreateReaperPreserves, BootSchedulePreserves,
     BootCreateCLIPreserves DEF BootStep
<1>3. CASE ReaperStep
  BY <1>3, ReapPreserves, FreeStackPreserves, FreeObjectPreserves DEF ReaperStep
<1>4. ASSUME NEW s \in Proc, KernelStep(s) PROVE SchedulerInvariant'
  BY <1>4, StartPreserves, PushPreserves, SelectPreserves, RequeuePreserves,
     SwitchPreserves DEF KernelStep
<1>5. ASSUME NEW s \in Proc, UserStep(s) PROVE SchedulerInvariant'
  BY <1>5, YieldPreserves, ExitPreserves, UserCreatePreserves, CreateFailsPreserves
     DEF UserStep
<1>6. CASE UNCHANGED vars
  <2>1. time_slice' \in [Proc -> Nat]
    BY <1>6 DEF vars, SchedulerInvariant, TypeOK
  <2> QED BY <1>6, <2>1, SliceOnlyPreserves DEF vars
<1> QED BY <1>1, <1>2, <1>3, <1>4, <1>5, <1>6 DEF Next

-----------------------------------------------------------------------------
(***************************************************************************)
(* The inductive invariant of the scheduler holds in every reachable       *)
(* state, for every number of processes, every quantum and all priorities. *)
(***************************************************************************)
THEOREM SchedulerInvariantHolds == Spec => []SchedulerInvariant
<1> QED BY InitEstablishes, NextPreserves, PTL DEF Spec

(***************************************************************************)
(* The queues hold Process objects, curr_process is one, and the time      *)
(* slices are never negative: decrement_time_slice never wraps.            *)
(***************************************************************************)
THEOREM TypeCorrect == Spec => []TypeOK
<1>1. SchedulerInvariant => TypeOK
  BY DEF SchedulerInvariant
<1> QED BY <1>1, SchedulerInvariantHolds, PTL

(***************************************************************************)
(* Whatever ticks interrupt schedule(), it never gives the CPU to a        *)
(* process that ended or was released.                                     *)
(***************************************************************************)
THEOREM OnlyLiveHolds == Spec => []OnlyLiveAreSchedulable
<1>1. SchedulerInvariant => OnlyLiveAreSchedulable
  BY DEF SchedulerInvariant, SchedulableRuns, PlaceAndState, OnlyLiveAreSchedulable
<1> QED BY <1>1, SchedulerInvariantHolds, PTL

(***************************************************************************)
(* The kernel never executes on a stack that zombie_reaper has freed.      *)
(***************************************************************************)
THEOREM ExecutesOnOwnedStackHolds == Spec => []ExecutesOnOwnedStack
<1>1. ASSUME SchedulerInvariant PROVE ExecutesOnOwnedStack
  BY <1>1 DEF SchedulerInvariant, CpuIsLive, ZombiesAreEnded, Reaping,
     ExecutesOnOwnedStack
<1> QED BY <1>1, SchedulerInvariantHolds, PTL

(***************************************************************************)
(* A process that ended is queued for zombie_reaper once, so its stack and *)
(* its object are freed once.                                              *)
(***************************************************************************)
THEOREM ReapedOnceHolds == Spec => []ReapedOnce
<1>1. SchedulerInvariant => ReapedOnce
  BY DEF SchedulerInvariant, ZombiesAreEnded, ReapedOnce
<1> QED BY <1>1, SchedulerInvariantHolds, PTL

(***************************************************************************)
(* A process is in one place of the round, except when the timer           *)
(* interrupts it between its own push and its ctx_switch.                  *)
(***************************************************************************)
THEOREM OnePlaceHolds == Spec => []OnePlaceInTheRound
<1>1. SchedulerInvariant => OnePlaceInTheRound
  BY DEF SchedulerInvariant, TwoPlaces, OnePlaceInTheRound
<1> QED BY <1>1, SchedulerInvariantHolds, PTL

-----------------------------------------------------------------------------
(***************************************************************************)
(* A change of the state of one process changes the phase of that process. *)
(***************************************************************************)
LEMMA PhaseMoves ==
  ASSUME TypeOK, NEW p \in Proc, NEW v \in State, state' = [state EXCEPT ![p] = v]
  PROVE  Phases' = [Phases EXCEPT ![p] = PhaseOf[v]]
BY DEF TypeOK, Phases

(***************************************************************************)
(* Process::create is the creation of ProcessLifecycle.                    *)
(***************************************************************************)
LEMMA CreateIsCreate ==
  ASSUME TypeOK, NEW s \in Proc, NEW p \in Proc, NEW pri \in Priority, Create(s, p, pri)
  PROVE  Lifecycle!Create(p)
<1>1. Phases' = [Phases EXCEPT ![p] = "ready"]
  BY PhaseMoves DEF Create, State, PhaseOf
<1> QED BY <1>1 DEF Create, Lifecycle!Create, Phases, PhaseOf

(***************************************************************************)
(* Every step of the scheduler is a step of ProcessLifecycle, or changes   *)
(* nothing that it sees.                                                   *)
(***************************************************************************)
LEMMA StepIsLifecycleStep ==
  SchedulerInvariant /\ SchedulerInvariant' /\ [Next]_vars => [Lifecycle!Next]_(Lifecycle!vars)
<1> SUFFICES ASSUME SchedulerInvariant, SchedulerInvariant', [Next]_vars
             PROVE  [Lifecycle!Next]_(Lifecycle!vars)
  OBVIOUS
<1> USE ProcAssumption DEF SchedulerInvariant
<1>0. TypeOK /\ TypeOK' /\ curr_process \in Proc
  BY DEF TypeOK
<1>1. UNCHANGED <<state, stack, curr_process>> => UNCHANGED Lifecycle!vars
  BY DEF Lifecycle!vars, Phases
<1>2. ASSUME NEW p \in Proc, state' = state, stack' = stack, curr_process' = p,
             state[p] = "RUNNING"
      PROVE  Lifecycle!Next
  <2>1. Phases' = Phases /\ Phases[p] = "started" /\ p \in stack
    BY <1>2 DEF Phases, PhaseOf, PlaceAndState
  <2> QED BY <1>2, <2>1 DEF Lifecycle!Next, Lifecycle!Dispatch
<1>3. CASE Tick
  <2>1. CASE Spend(curr_process) \/ (Preempt(curr_process) /\ process_queue = <<>>)
    BY <1>1, <1>3, <2>1 DEF Tick, Spend, Preempt
  <2>2. CASE Preempt(curr_process) /\ process_queue # <<>>
    <3>1. /\ process_queue[1] \in Proc /\ 1 \in 1..Len(process_queue)
          /\ Head(process_queue) = process_queue[1]
      BY <2>2 DEF TypeOK
    <3>2. state[Head(process_queue)] = "RUNNING"
      BY <3>1 DEF SchedulableRuns, Schedulable, Queued
    <3>3. state' = state /\ stack' = stack /\ curr_process' = Head(process_queue)
      BY <1>3, <2>2, <3>2 DEF Tick, Preempt, TypeOK
    <3> QED BY <1>2, <3>1, <3>2, <3>3
  <2> QED BY <1>3, <2>1, <2>2 DEF Tick
<1>4. CASE BootStep
  <2>1. CASE BootStartIdle
    <3>1. Phases' = [Phases EXCEPT ![Idle] = "started"]
      BY <1>0, <2>1, PhaseMoves DEF BootStartIdle, State, PhaseOf
    <3>2. Phases[Idle] = "ready" /\ Idle \in stack
      BY <2>1 DEF BootStartIdle, AtBoot, IdleAtBoot, CpuIsLive, Phases, PhaseOf
    <3>3. Lifecycle!Start(Idle)
      BY <2>1, <3>1, <3>2 DEF BootStartIdle, Lifecycle!Start
    <3> QED BY <3>3 DEF Lifecycle!Next
  <2>2. CASE BootCreateReaper
    <3>1. Lifecycle!Create(Reaper)
      BY <2>2, QuantumAssumption, CreateIsCreate DEF BootCreateReaper
    <3> QED BY <3>1 DEF Lifecycle!Next
  <2>3. CASE BootSchedule
    BY <1>1, <2>3 DEF BootSchedule, objects
  <2>4. ASSUME NEW p \in Proc, BootCreateCLI(p)
        PROVE  [Lifecycle!Next]_(Lifecycle!vars)
    <3>1. Lifecycle!Create(p)
      BY <2>4, CreateIsCreate DEF BootCreateCLI
    <3> QED BY <3>1 DEF Lifecycle!Next
  <2> QED BY <1>4, <2>1, <2>2, <2>3, <2>4 DEF BootStep
<1>5. CASE ReaperStep
  <2>1. CASE Reap
    BY <1>1, <2>1 DEF Reap, objects
  <2>2. CASE FreeStack
    <3> DEFINE h == held[Reaper]
    <3>1. h \in Proc /\ state[h] = "TERMINATED" /\ h \in stack /\ curr_process # h
      BY <2>2 DEF FreeStack, PlaceAndState, ZombiesAreEnded
    <3>2. Phases' = Phases /\ Phases[h] = "ended"
      BY <2>2, <3>1 DEF FreeStack, Phases, PhaseOf
    <3>3. Lifecycle!FreeStack(h)
      BY <2>2, <3>1, <3>2 DEF FreeStack, Lifecycle!FreeStack
    <3> QED BY <3>1, <3>3 DEF Lifecycle!Next
  <2>3. CASE FreeObject
    <3> DEFINE h == held[Reaper]
    <3>1. h \in Proc /\ state[h] = "TERMINATED" /\ h \notin stack
      BY <2>3 DEF FreeObject, PlaceAndState, ZombiesAreEnded
    <3>2. Phases' = [Phases EXCEPT ![h] = "none"]
      BY <1>0, <2>3, <3>1, PhaseMoves DEF FreeObject, State, PhaseOf
    <3>3. Phases[h] = "ended"
      BY <3>1 DEF Phases, PhaseOf
    <3>4. Lifecycle!FreeObject(h)
      BY <2>3, <3>1, <3>2, <3>3 DEF FreeObject, Lifecycle!FreeObject
    <3> QED BY <3>1, <3>4 DEF Lifecycle!Next
  <2> QED BY <1>5, <2>1, <2>2, <2>3 DEF ReaperStep
<1>6. ASSUME NEW s \in Proc, KernelStep(s)
      PROVE  [Lifecycle!Next]_(Lifecycle!vars)
  <2>1. CASE Start(s)
    <3> DEFINE h == held[s]
    <3>1. h \in Proc /\ state[h] = "READY" /\ h \in stack
      BY <2>1 DEF Start, PlaceAndState, LaunchIsPrivate
    <3>2. Phases' = [Phases EXCEPT ![h] = "started"]
      BY <1>0, <2>1, <3>1, PhaseMoves DEF Start, State, PhaseOf
    <3>3. Phases[h] = "ready"
      BY <3>1 DEF Phases, PhaseOf
    <3>4. Lifecycle!Start(h)
      BY <2>1, <3>1, <3>2, <3>3 DEF Start, Lifecycle!Start
    <3> QED BY <3>1, <3>4 DEF Lifecycle!Next
  <2>2. CASE Push(s) \/ Select(s) \/ Requeue(s)
    BY <1>1, <2>2 DEF Push, Select, Requeue, objects
  <2>3. CASE Switch(s)
    <3>1. held[s] \in Proc /\ state[held[s]] = "RUNNING"
      BY <2>3 DEF Switch, PlaceAndState, SchedulableRuns, Schedulable, Chose
    <3>2. state' = state /\ stack' = stack /\ curr_process' = held[s]
      BY <2>3, <3>1 DEF Switch, TypeOK
    <3> QED BY <1>2, <3>1, <3>2
  <2> QED BY <1>6, <2>1, <2>2, <2>3 DEF KernelStep
<1>7. ASSUME NEW s \in Proc, UserStep(s)
      PROVE  [Lifecycle!Next]_(Lifecycle!vars)
  <2>1. CASE Yield(s)
    BY <1>1, <2>1 DEF Yield, objects
  <2>2. CASE Exit(s)
    <3>1. curr_process = s /\ s # Idle /\ state[s] = "RUNNING"
      BY <2>2 DEF Exit, PlaceAndState, CpuIsLive
    <3>2. Phases' = [Phases EXCEPT ![s] = "ended"]
      BY <1>0, <2>2, PhaseMoves DEF Exit, State, PhaseOf
    <3>3. Phases[s] = "started"
      BY <3>1 DEF Phases, PhaseOf
    <3>4. Lifecycle!End
      BY <2>2, <3>2, <3>3 DEF Exit, Lifecycle!End
    <3> QED BY <3>4 DEF Lifecycle!Next
  <2>3. ASSUME NEW p \in Proc, NEW pri \in Priority, UserCreate(s, p, pri)
        PROVE  [Lifecycle!Next]_(Lifecycle!vars)
    <3>1. Lifecycle!Create(p)
      BY <2>3, CreateIsCreate DEF UserCreate
    <3> QED BY <3>1 DEF Lifecycle!Next
  <2>4. ASSUME NEW p \in Proc, NEW pri \in Priority, CreateFails(s, p, pri)
        PROVE  [Lifecycle!Next]_(Lifecycle!vars)
    <3>1. Phases' = [Phases EXCEPT ![p] = "ready"]
      BY <1>0, <2>4, PhaseMoves DEF CreateFails, State, PhaseOf
    <3>2. Phases[p] = "none"
      BY <2>4 DEF CreateFails, Phases, PhaseOf
    <3>3. Lifecycle!Create(p)
      BY <2>4, <3>1, <3>2 DEF CreateFails, Lifecycle!Create
    <3> QED BY <3>3 DEF Lifecycle!Next
  <2> QED BY <1>7, <2>1, <2>2, <2>3, <2>4 DEF UserStep
<1>8. CASE UNCHANGED vars
  BY <1>1, <1>8 DEF vars, objects
<1> QED BY <1>3, <1>4, <1>5, <1>6, <1>7, <1>8 DEF Next

(***************************************************************************)
(* The scheduler implements the life of a process: create, start, get the  *)
(* CPU, end, lose the stack, lose the object, in this order.               *)
(***************************************************************************)
THEOREM SchedulerImplementsLifecycle == Spec => ImplementsLifecycle
<1>1. Init => Lifecycle!Init
  <2> SUFFICES ASSUME Init PROVE Lifecycle!Init
    OBVIOUS
  <2>1. Phases = [p \in Proc |-> IF p = Idle THEN "ready" ELSE "none"]
    BY DEF Init, Phases, PhaseOf
  <2> QED BY <2>1 DEF Init, Lifecycle!Init
<1> QED BY <1>1, SchedulerInvariantHolds, StepIsLifecycleStep, PTL DEF Spec,
           ImplementsLifecycle, Lifecycle!Spec

-----------------------------------------------------------------------------
(***************************************************************************)
(* What makes p lost in a step is that it leaves the CPU, or the last      *)
(* place in the round or in a creation that named it.                      *)
(***************************************************************************)
LEMMA WhatLoses ==
  ASSUME NEW p \in Proc, Lost(p)', ~Lost(p),
         state'[p] = "RUNNING" => state[p] = "RUNNING" \/ \E s \in Proc : Launches(s, p)',
         curr_process = p => curr_process' = p,
         Queued(p) => Schedulable(p)' \/ curr_process' = p,
         \A s \in Proc : Chose(s, p) => Schedulable(p)' \/ curr_process' = p,
         \A s \in Proc : Launches(s, p) => (\E t \in Proc : Launches(t, p)') \/ Schedulable(p)'
  PROVE  FALSE
BY DEF Lost, Schedulable

(***************************************************************************)
(* The pop of schedule() loses nobody: what it takes out it has chosen.    *)
(***************************************************************************)
LEMMA SelectLosesNobody ==
  ASSUME SchedulerInvariant, NEW s \in Proc, Select(s), NEW p \in Proc, Lost(p)'
  PROVE  Lost(p)
<1> SUFFICES ASSUME ~Lost(p) PROVE FALSE
  OBVIOUS
<1>1. TypeOK /\ pc[s] = "select" /\ curr_process' = curr_process /\ state' = state
  BY DEF SchedulerInvariant, Select, objects
<1>2. ASSUME NEW t \in Proc
      PROVE  /\ Chose(t, p) => Chose(t, p)'
             /\ Launches(t, p) => Launches(t, p)'
  BY <1>1 DEF Select, Chose, Launches, TypeOK
<1>3. Queued(p) => Schedulable(p)'
  <2>1. CASE process_queue = <<>>
    BY <2>1 DEF Select, Queued, Schedulable
  <2>2. CASE process_queue # <<>>
    <3> SUFFICES ASSUME Queued(p) PROVE Schedulable(p)'
      OBVIOUS
    <3>1. PICK i \in 1..Len(process_queue) : process_queue[i] = p
      BY DEF Queued
    <3>2. process_queue \in Seq(Proc)
      BY <1>1 DEF TypeOK
    <3>3. CASE i = 1
      <4>1. held'[s] = p /\ pc'[s] = "requeue"
        BY <1>1, <2>2, <3>1, <3>2, <3>3 DEF Select, TypeOK
      <4> QED BY <4>1 DEF Schedulable, Chose
    <3>4. CASE i # 1
      <4>1. process_queue' = Tail(process_queue)
        BY <2>2 DEF Select
      <4>2. i - 1 \in 1..Len(process_queue') /\ process_queue'[i - 1] = p
        BY <3>1, <3>2, <3>4, <4>1, <2>2
      <4> QED BY <4>2 DEF Schedulable, Queued
    <3> QED BY <3>3, <3>4
  <2> QED BY <2>1, <2>2
<1> QED BY <1>1, <1>2, <1>3, WhatLoses DEF Schedulable

(***************************************************************************)
(* The timer handler loses nobody but the idle process: the head of the    *)
(* run queue gets the CPU, and the interrupted process the tail.           *)
(***************************************************************************)
LEMMA TickLosesNobody ==
  ASSUME SchedulerInvariant, Tick, NEW p \in Proc, Lost(p)'
  PROVE  Lost(p) \/ LosesItself(p)
<1> SUFFICES ASSUME ~Lost(p), ~LosesItself(p) PROVE FALSE
  OBVIOUS
<1>1. /\ TypeOK /\ state[curr_process] = "RUNNING"
      /\ UNCHANGED <<pc, held>> /\ process_queue \in Seq(Proc)
  BY DEF SchedulerInvariant, Tick, TypeOK
<1>2. \A t \in Proc : (Chose(t, p) => Chose(t, p)') /\ (Launches(t, p) => Launches(t, p)')
  BY <1>1 DEF Chose, Launches
<1>3. CASE UNCHANGED <<state, process_queue, curr_process>>
  BY <1>2, <1>3, WhatLoses DEF Schedulable, Queued
<1>4. CASE Preempt(curr_process) /\ process_queue # <<>>
  <2> DEFINE n == Head(process_queue)
             old == curr_process
  <2>1. /\ curr_process' = n /\ n = process_queue[1] /\ n \in Proc
        /\ state' = [state EXCEPT ![n] = "RUNNING"]
        /\ process_queue' = IF Requeues(old, n) THEN Append(Tail(process_queue), old)
                                                ELSE Tail(process_queue)
    BY <1>1, <1>4 DEF Preempt
  <2>2. p # n
    BY <2>1 DEF Lost
  <2>3. state'[p] = state[p]
    BY <1>1, <2>1, <2>2 DEF TypeOK
  <2>4. Tail(process_queue) \in Seq(Proc) /\ old \in Proc
    BY <1>1, <1>4 DEF TypeOK
  <2>5. curr_process = p => Queued(p)'
    <3> SUFFICES ASSUME curr_process = p PROVE Queued(p)'
      OBVIOUS
    <3>1. Requeues(old, n)
      BY <1>1, <2>2 DEF Requeues, LosesItself
    <3>2. process_queue' = Append(Tail(process_queue), p)
      BY <2>1, <3>1
    <3>3. /\ Len(process_queue') \in 1..Len(process_queue')
          /\ process_queue'[Len(process_queue')] = p
      BY <2>4, <3>2
    <3> QED BY <3>3 DEF Queued
  <2>6. Queued(p) => Queued(p)'
    <3> SUFFICES ASSUME Queued(p) PROVE Queued(p)'
      OBVIOUS
    <3>1. PICK i \in 1..Len(process_queue) : process_queue[i] = p
      BY DEF Queued
    <3>2. i - 1 \in 1..Len(Tail(process_queue)) /\ Tail(process_queue)[i - 1] = p
      BY <1>1, <1>4, <2>1, <2>2, <3>1
    <3>3. i - 1 \in 1..Len(process_queue') /\ process_queue'[i - 1] = p
      BY <2>1, <2>4, <3>2
    <3> QED BY <3>3 DEF Queued
  <2> QED BY <1>2, <2>3, <2>5, <2>6 DEF Lost, Schedulable
<1> QED BY <1>3, <1>4 DEF Tick, Spend, Preempt

(***************************************************************************)
(* Process::create loses nobody: the address it uses was nobody's.         *)
(***************************************************************************)
LEMMA CreateLosesNobody ==
  ASSUME SchedulerInvariant, NEW s \in Proc, NEW q \in Proc, NEW pri \in Priority,
         Create(s, q, pri), curr_process = s, pc[s] = "user", NEW p \in Proc, Lost(p)'
  PROVE  Lost(p)
<1> SUFFICES ASSUME ~Lost(p) PROVE FALSE
  OBVIOUS
<1>1. TypeOK /\ PlaceAndState
  BY DEF SchedulerInvariant
<1>2. /\ state[q] = "FREE" /\ state' = [state EXCEPT ![q] = "READY"]
      /\ curr_process' = curr_process /\ process_queue' = process_queue
      /\ pc' = [pc EXCEPT ![s] = "created", ![q] = "user"]
      /\ held' = [held EXCEPT ![s] = q]
  BY DEF Create
<1>3. pc[q] \notin {"created", "starting", "requeue", "switch"}
  <2>1. pc[q] \in {"requeue", "switch"} => state[q] \in {"RUNNING", "TERMINATED"}
    BY <1>1 DEF PlaceAndState
  <2>2. pc[q] \in {"created", "starting"} => state[q] = "RUNNING"
    BY <1>1 DEF PlaceAndState
  <2> QED BY <1>2, <2>1, <2>2
<1>4. ASSUME NEW t \in Proc
      PROVE  /\ Chose(t, p) => Chose(t, p)'
             /\ Launches(t, p) => Launches(t, p)'
  BY <1>1, <1>2, <1>3 DEF TypeOK, Chose, Launches
<1>5. state'[p] = "RUNNING" => state[p] = "RUNNING"
  BY <1>1, <1>2 DEF TypeOK
<1> QED BY <1>2, <1>4, <1>5, WhatLoses DEF Schedulable, Queued

(***************************************************************************)
(* Every step of the kernel loses nobody, or its own process at the        *)
(* switch, or the idle process.                                            *)
(***************************************************************************)
LEMMA StepLoses ==
  ASSUME SchedulerInvariant, Next, NEW p \in Proc, Lost(p)'
  PROVE  Lost(p) \/ LosesItself(p)
<1> SUFFICES ASSUME ~Lost(p), ~LosesItself(p) PROVE FALSE
  OBVIOUS
<1> USE ProcAssumption
<1>1. TypeOK /\ PlaceAndState
  BY DEF SchedulerInvariant
<1>2. CASE Tick
  BY <1>2, TickLosesNobody
<1>3. CASE BootStep
  <2>1. CASE BootStartIdle
    <3>1. /\ curr_process' = curr_process /\ process_queue' = process_queue
          /\ curr_process = Idle /\ pc[Idle] = "user"
          /\ pc' = [pc EXCEPT ![Idle] = "starting"] /\ held' = [held EXCEPT ![Idle] = Idle]
          /\ state' = [state EXCEPT ![Idle] = "RUNNING"]
      BY <2>1 DEF BootStartIdle, AtBoot
    <3>2. p # Idle
      BY <3>1 DEF Lost
    <3> QED BY <1>1, <3>1, <3>2, WhatLoses DEF TypeOK, Chose, Launches, Schedulable, Queued
  <2>2. CASE BootCreateReaper
    BY <2>2, CreateLosesNobody, QuantumAssumption DEF BootCreateReaper, AtBoot
  <2>3. CASE BootSchedule
    <3>1. /\ UNCHANGED <<curr_process, process_queue, state, held>> /\ pc[Idle] = "user"
          /\ pc' = [pc EXCEPT ![Idle] = "select"]
      BY <2>3 DEF BootSchedule, AtBoot, objects
    <3> QED BY <1>1, <3>1, WhatLoses DEF TypeOK, Chose, Launches, Schedulable, Queued
  <2>4. ASSUME NEW q \in Proc, BootCreateCLI(q) PROVE FALSE
    BY <2>4, CreateLosesNobody DEF BootCreateCLI, AtBoot
  <2> QED BY <1>3, <2>1, <2>2, <2>3, <2>4 DEF BootStep
<1>4. CASE ReaperStep
  <2>1. /\ UNCHANGED <<curr_process, process_queue>> /\ pc[Reaper] \in {"user", "reap", "kfree"}
        /\ \A t \in Proc \ {Reaper} : pc'[t] = pc[t] /\ held'[t] = held[t]
        /\ state'[p] = "RUNNING" => state[p] = "RUNNING"
    BY <1>1, <1>4 DEF ReaperStep, Reap, FreeStack, FreeObject, TypeOK, objects, PlaceAndState
  <2> QED BY <2>1, WhatLoses DEF Chose, Launches, Schedulable, Queued
<1>5. ASSUME NEW s \in Proc, KernelStep(s) PROVE FALSE
  <2>1. CASE Start(s)
    <3>1. /\ UNCHANGED <<curr_process, process_queue, held>> /\ pc[s] = "created"
          /\ pc' = [pc EXCEPT ![s] = "starting"]
          /\ state' = [state EXCEPT ![held[s]] = "RUNNING"] /\ held[s] \in Proc
      BY <1>1, <2>1 DEF Start, PlaceAndState
    <3>2. \A t \in Proc : /\ Chose(t, p) => Chose(t, p)'
                          /\ Launches(t, p) => Launches(t, p)'
      BY <1>1, <3>1 DEF TypeOK, Chose, Launches
    <3>3. p = held[s] => Launches(s, p)'
      BY <1>1, <3>1 DEF TypeOK, Launches
    <3>4. p # held[s] => state'[p] = state[p]
      BY <1>1, <3>1 DEF TypeOK
    <3> QED BY <3>1, <3>2, <3>3, <3>4, WhatLoses DEF Schedulable, Queued
  <2>2. CASE Push(s)
    <3>1. /\ UNCHANGED <<curr_process, state>> /\ pc[s] = "starting"
          /\ pc' = [pc EXCEPT ![s] = "user"] /\ held' = [held EXCEPT ![s] = NoProc]
          /\ process_queue' = Append(process_queue, held[s])
          /\ held[s] \in Proc /\ process_queue \in Seq(Proc)
      BY <1>1, <2>2 DEF Push, PlaceAndState, objects, TypeOK
    <3>2. /\ Queued(p) => Queued(p)'
          /\ p = held[s] => Queued(p)'
      <4>1. /\ Len(process_queue') = Len(process_queue) + 1 /\ Len(process_queue) \in Nat
            /\ \A i \in 1..Len(process_queue) : process_queue'[i] = process_queue[i]
            /\ process_queue'[Len(process_queue) + 1] = held[s]
        BY <3>1
      <4>2. 1..Len(process_queue) \subseteq 1..Len(process_queue')
        BY <4>1
      <4>3. Len(process_queue) + 1 \in 1..Len(process_queue')
        BY <4>1
      <4> QED BY <4>1, <4>2, <4>3 DEF Queued
    <3>3. \A t \in Proc : /\ Chose(t, p) => Chose(t, p)'
                          /\ Launches(t, p) => Launches(t, p)' \/ p = held[s]
      BY <1>1, <3>1 DEF TypeOK, Chose, Launches
    <3> QED BY <3>1, <3>2, <3>3, WhatLoses DEF Schedulable
  <2>3. CASE Select(s)
    BY <2>3, SelectLosesNobody
  <2>4. CASE Requeue(s)
    <3>1. /\ UNCHANGED <<curr_process, state, held>> /\ pc[s] = "requeue"
          /\ pc' = [pc EXCEPT ![s] = "switch"]
          /\ process_queue \in Seq(Proc) /\ s \in Proc
          /\ process_queue' \in {process_queue, Append(process_queue, s)}
      BY <1>1, <2>4 DEF Requeue, objects, TypeOK
    <3>2. Queued(p) => Queued(p)'
      <4>1. /\ Len(process_queue') \in {Len(process_queue), Len(process_queue) + 1}
            /\ \A i \in 1..Len(process_queue) : process_queue'[i] = process_queue[i]
            /\ Len(process_queue) \in Nat
        BY <3>1
      <4>2. 1..Len(process_queue) \subseteq 1..Len(process_queue')
        BY <4>1
      <4> QED BY <4>1, <4>2 DEF Queued
    <3>3. \A t \in Proc : /\ Chose(t, p) => Chose(t, p)'
                          /\ Launches(t, p) => Launches(t, p)'
      BY <1>1, <3>1 DEF TypeOK, Chose, Launches
    <3> QED BY <3>1, <3>2, <3>3, WhatLoses DEF Schedulable
  <2>5. CASE Switch(s)
    <3>1. /\ curr_process = s /\ pc[s] = "switch" /\ UNCHANGED process_queue
          /\ curr_process' = held[s] /\ state' = [state EXCEPT ![held[s]] = "RUNNING"]
          /\ \A t \in Proc \ {s} : pc'[t] = pc[t] /\ held'[t] = held[t]
      BY <1>1, <2>5 DEF Switch, TypeOK
    <3>2. p # s /\ p # held[s]
      BY <3>1 DEF Lost, LosesItself
    <3> QED BY <1>1, <3>1, <3>2, WhatLoses DEF TypeOK, Chose, Launches, Schedulable, Queued
  <2> QED BY <1>5, <2>1, <2>2, <2>3, <2>4, <2>5 DEF KernelStep
<1>6. ASSUME NEW s \in Proc, UserStep(s) PROVE FALSE
  <2>1. CASE Yield(s) \/ Exit(s)
    <3>1. /\ UNCHANGED <<curr_process, process_queue, held>> /\ pc[s] = "user"
          /\ pc' = [pc EXCEPT ![s] = "select"]
          /\ state'[p] = "RUNNING" => state[p] = "RUNNING"
      BY <1>1, <2>1 DEF Yield, Exit, TypeOK, objects
    <3> QED BY <1>1, <3>1, WhatLoses DEF TypeOK, Chose, Launches, Schedulable, Queued
  <2>2. ASSUME NEW q \in Proc, NEW pri \in Priority, UserCreate(s, q, pri) PROVE FALSE
    BY <2>2, CreateLosesNobody DEF UserCreate
  <2>3. ASSUME NEW q \in Proc, NEW pri \in Priority, CreateFails(s, q, pri) PROVE FALSE
    <3>1. /\ UNCHANGED <<curr_process, process_queue, held, pc>>
          /\ state' = [state EXCEPT ![q] = "READY"]
      BY <2>3 DEF CreateFails
    <3> QED BY <1>1, <3>1, WhatLoses DEF TypeOK, Chose, Launches, Schedulable, Queued
  <2> QED BY <1>6, <2>1, <2>2, <2>3 DEF UserStep
<1> QED BY <1>2, <1>3, <1>4, <1>5, <1>6 DEF Next

(***************************************************************************)
(* A process that runs is never dropped by schedule(), start(), the timer  *)
(* handler or the reaper, except by its own ctx_switch after a tick has    *)
(* popped its second entry; the idle process apart.                        *)
(***************************************************************************)
THEOREM OnlyItsSwitchLosesHolds == Spec => OnlyItsSwitchLoses
<1>1. SchedulerInvariant /\ [Next]_vars
        => [\A p \in Proc : Lost(p)' => Lost(p) \/ LosesItself(p)]_vars
  BY StepLoses
<1> QED BY <1>1, SchedulerInvariantHolds, PTL DEF Spec, OnlyItsSwitchLoses
-----------------------------------------------------------------------------
(***************************************************************************)
(* Interrupt controllers and flags only restrict when the steps of the     *)
(* scheduler are taken: what is proved of the scheduler holds in the       *)
(* kernel with its interrupts.                                             *)
(***************************************************************************)
\* Every step of the kernel is a step of the scheduler or leaves it alone.
LEMMA StepsOfTheScheduler == [KernelNext]_kernel => [Next]_vars
<1> SUFFICES ASSUME KernelNext, vars' # vars PROVE Next
  BY DEF kernel
<1>1. \/ TimerInterrupt
      \/ \E s \in Proc : Kernel(s) \/ User(s)
  BY DEF KernelNext, HandlerReturns, Raise, DeviceInterrupt
<1>2. CASE TimerInterrupt
  BY <1>2 DEF TimerInterrupt, Next
<1>3. ASSUME NEW s \in Proc, Kernel(s) PROVE Next
  <2>1. CASE Running(KernelStep(s))
    BY <2>1 DEF Running, Next
  <2>2. CASE Boots
    BY <2>2, ProcAssumption DEF Boots, Running, BootCreates, BootStep, Next
  <2>3. CASE Running(ReaperStep)
    BY <2>3 DEF Running, Next
  <2> QED BY <1>3, <2>1, <2>2, <2>3 DEF Kernel
<1>4. ASSUME NEW s \in Proc, User(s) PROVE Next
  BY <1>4 DEF User, Running, Creating, UserStep, Next
<1> QED BY <1>1, <1>2, <1>3, <1>4

(***************************************************************************)
(* The kernel with its interrupts implements the scheduler (onIrq0,        *)
(* irq_handler and ctx_switch around sched::schedule).                     *)
(***************************************************************************)
THEOREM InterruptsImplementScheduler == KernelSpec => Spec
<1>1. KernelInit => Init
  BY DEF KernelInit
<1> QED BY <1>1, StepsOfTheScheduler, PTL DEF KernelSpec, Spec

(***************************************************************************)
(* With interrupt controllers and flags an ended or released process still *)
(* never gets the CPU, for every number of processes and devices.          *)
(***************************************************************************)
THEOREM OnlyLiveInTheKernel == KernelSpec => []OnlyLiveAreSchedulable
BY InterruptsImplementScheduler, OnlyLiveHolds

(***************************************************************************)
(* Nor does the kernel with its controllers lose a process that runs, but  *)
(* at its own ctx_switch: masked and pending timer interrupts add no other *)
(* step at which one drops out of the round.                               *)
(***************************************************************************)
THEOREM OnlyItsSwitchLosesInTheKernel == KernelSpec => OnlyItsSwitchLoses
BY InterruptsImplementScheduler, OnlyItsSwitchLosesHolds
=============================================================================
