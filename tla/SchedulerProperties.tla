------------------------ MODULE SchedulerProperties ------------------------
(***************************************************************************)
(* What must hold of the scheduler, and what its documentation says of it. *)
(***************************************************************************)
EXTENDS Scheduler

Queued(p) == \E i \in 1..Len(process_queue) : process_queue[i] = p
Zombie(p) == \E i \in 1..Len(zombie_queue) : zombie_queue[i] = p

\* The context of s is inside schedule() and has chosen p as the next process.
Chose(s, p) == pc[s] \in {"requeue", "switch"} /\ held[s] = p

\* The context of s holds the object p that it has created and not yet queued.
Launches(s, p) == pc[s] \in {"created", "starting"} /\ held[s] = p

\* zombie_reaper is releasing p.
Reaping(p) == pc[Reaper] \in {"reap", "kfree"} /\ held[Reaper] = p

\* Everything through which the CPU can come to p.
Schedulable(p) == Queued(p) \/ \E s \in Proc : Chose(s, p)

-----------------------------------------------------------------------------
(***************************************************************************)
(* Whatever ticks interrupt schedule(), the run queue and every choice     *)
(* already made name processes that run and still own their stack: an      *)
(* ended or released process never gets the CPU back (schedule, Process::  *)
(* exit and zombie_reaper together).                                       *)
(***************************************************************************)
OnlyLiveAreSchedulable ==
  \A p \in Proc : Schedulable(p) => state[p] = "RUNNING" /\ p \in stack

(***************************************************************************)
(* The executing context owns its stack, also while a process that ended   *)
(* is on its way out of schedule() and already in the zombie queue.        *)
(***************************************************************************)
ExecutesOnOwnedStack ==
  /\ curr_process \in stack
  /\ \A p \in Proc : Reaping(p) => curr_process # p

(***************************************************************************)
(* A process that ended is handed to the reaper once: no second entry in   *)
(* the zombie queue, and none left while it is being released.             *)
(***************************************************************************)
ReapedOnce ==
  /\ \A i, j \in 1..Len(zombie_queue) :
       zombie_queue[i] = zombie_queue[j] => i = j
  /\ \A p \in Proc : Zombie(p) => state[p] = "TERMINATED" /\ ~Reaping(p)

(***************************************************************************)
(* A process has one place in the round: one queue entry, or one caller of *)
(* schedule() that chose it, or the CPU.  Only a process interrupted       *)
(* between its own push and its ctx_switch has a second one.  (The idle    *)
(* process is not part of the round.)                                      *)
(***************************************************************************)
OnePlaceInTheRound ==
  \A p \in Proc \ {Idle} :
    /\ \A i, j \in 1..Len(process_queue) :
         i # j /\ process_queue[i] = p /\ process_queue[j] = p
           => pc[p] = "switch" /\ curr_process # p
    /\ \A s, t \in Proc :
         s # t /\ Chose(s, p) /\ Chose(t, p)
           => pc[p] = "switch" /\ curr_process # p /\ ~Queued(p)
    /\ curr_process = p /\ Schedulable(p) => pc[p] = "switch"

-----------------------------------------------------------------------------
(***************************************************************************)
(* The life of a process, without a run queue: the scheduler implements    *)
(* ProcessLifecycle.                                                       *)
(***************************************************************************)
PhaseOf == [FREE |-> "none", READY |-> "ready", RUNNING |-> "started",
            TERMINATED |-> "ended"]

Phases == [p \in Proc |-> PhaseOf[state[p]]]

Lifecycle == INSTANCE ProcessLifecycle
               WITH phase <- Phases, stack <- stack, cpu <- curr_process

ImplementsLifecycle == Lifecycle!Spec

-----------------------------------------------------------------------------
(***************************************************************************)
(* Round robin starves nobody: what is in the run queue gets the CPU, even *)
(* if every other process computes for ever and whatever ticks lose.       *)
(***************************************************************************)
QueuedGetsTheCpu == \A p \in Proc : Queued(p) ~> curr_process = p

\* p runs but nothing leads the CPU to it any more.
Lost(p) == state[p] = "RUNNING" /\ curr_process # p /\ ~Schedulable(p)
           /\ ~ \E s \in Proc : Launches(s, p)

(***************************************************************************)
(* A process that ended is released (zombie_reaper), unless the reaper is  *)
(* itself lost.                                                            *)
(***************************************************************************)
ZombieIsReaped ==
  \A p \in Proc : state[p] = "TERMINATED" ~> state[p] = "FREE" \/ Lost(Reaper)

-----------------------------------------------------------------------------
(***************************************************************************)
(* A process is lost at one place only: by its own ctx_switch, after its   *)
(* push, when a tick in between has popped the entry just pushed.  No      *)
(* other step of any process, and no tick anywhere else, loses one.  (The  *)
(* idle process, which nobody requeues, is lost at the end of its slice.)  *)
(***************************************************************************)
LosesItself(p) == curr_process = p /\ (p = Idle \/ pc[p] = "switch")

OnlyItsSwitchLoses == [][\A p \in Proc : Lost(p)' => Lost(p) \/ LosesItself(p)]_vars

-----------------------------------------------------------------------------
(***************************************************************************)
(* The inductive invariant behind the safety properties.                   *)
(***************************************************************************)

\* What the place of a context says about its process.
PlaceAndState ==
  \A p \in Proc :
    /\ pc[p] = "gone" => state[p] \in {"FREE", "TERMINATED", "READY"}
    /\ pc[p] = "user" => state[p] \in {"READY", "RUNNING"}
    /\ pc[p] \in {"created", "starting", "reap", "kfree"} => state[p] = "RUNNING"
    /\ pc[p] \in {"select", "requeue", "switch"}
         => \/ state[p] = "RUNNING"
            \/ state[p] = "TERMINATED" /\ curr_process = p
    /\ state[p] = "RUNNING" => p \in stack
    /\ state[p] = "TERMINATED" => p \notin {Idle, Reaper}
    /\ pc[p] \in {"reap", "kfree"} => p = Reaper
    /\ pc[p] \in {"created", "starting", "requeue", "switch", "reap", "kfree"}
         => held[p] \in Proc

\* What executes is a started process, or the boot thread at its beginning.
CpuIsLive ==
  /\ curr_process \in stack
  /\ state[curr_process] \in {"RUNNING", "TERMINATED"} \/ curr_process = Idle
  /\ pc[curr_process] # "gone"

\* The boot thread before it has started the idle process.
IdleAtBoot ==
  /\ state[Idle] \in {"READY", "RUNNING"}
  /\ state[Idle] = "READY" <=> boot = "startIdle"
  /\ boot = "startIdle" => curr_process = Idle /\ pc[Idle] = "user"

\* A process that is being created is known to its creator only.
LaunchIsPrivate ==
  \A s \in Proc :
    /\ pc[s] \in {"created", "starting"} =>
         /\ held[s] \in stack
         /\ held[s] = Idle => s = Idle /\ pc[s] = "starting"
         /\ \A t \in Proc : Launches(t, held[s]) => t = s
    /\ pc[s] = "created" => state[held[s]] = "READY" /\ pc[held[s]] = "user"
    /\ pc[s] = "starting" =>
         /\ state[held[s]] = "RUNNING"
         /\ held[s] # Idle => /\ pc[held[s]] = "user" /\ curr_process # held[s]
                              /\ ~Schedulable(held[s])

\* Everything schedulable runs.
SchedulableRuns == \A p \in Proc : Schedulable(p) => state[p] = "RUNNING"

\* A process on its way to the reaper.
ZombiesAreEnded ==
  /\ \A p \in Proc : Zombie(p) =>
       /\ state[p] = "TERMINATED" /\ p \in stack /\ ~Reaping(p)
       /\ pc[p] = "gone" \/ pc[p] = "switch"
  /\ \A i, j \in 1..Len(zombie_queue) :
       zombie_queue[i] = zombie_queue[j] => i = j
  /\ pc[Reaper] \in {"reap", "kfree"} =>
       state[held[Reaper]] = "TERMINATED" /\ pc[held[Reaper]] = "gone"
  /\ pc[Reaper] = "reap" => held[Reaper] \in stack
  /\ pc[Reaper] = "kfree" => held[Reaper] \notin stack

\* Two places in the round: only at "switch" and off the CPU.
TwoPlaces ==
  \A p \in Proc \ {Idle} :
    /\ \A i, j \in 1..Len(process_queue) :
         i # j /\ process_queue[i] = p /\ process_queue[j] = p
           => /\ pc[p] = "switch" /\ curr_process # p
              /\ \A s \in Proc : ~Chose(s, p)
    /\ \A s \in Proc : Chose(s, p) /\ Queued(p)
           => pc[p] = "switch" /\ curr_process # p
    /\ \A s, t \in Proc : s # t /\ Chose(s, p) /\ Chose(t, p)
           => pc[p] = "switch" /\ curr_process # p /\ ~Queued(p)
    /\ curr_process = p /\ Schedulable(p) => pc[p] = "switch"
    /\ ~Chose(p, p)

\* Three places in the round: never.
NotThreePlaces ==
  \A p \in Proc \ {Idle} :
    /\ \A i, j, k \in 1..Len(process_queue) :
         process_queue[i] = p /\ process_queue[j] = p /\ process_queue[k] = p
           => i = j \/ i = k \/ j = k
    /\ \A s, t, u \in Proc :
         Chose(s, p) /\ Chose(t, p) /\ Chose(u, p) => s = t \/ s = u \/ t = u

(***************************************************************************)
(* All of the above holds whenever the kernel has come to curr_process =   *)
(* kernel_idle_process: the facts that schedule(), start() and the reaper  *)
(* rely on without testing them.                                           *)
(***************************************************************************)
SchedulerInvariant ==
  /\ TypeOK /\ PlaceAndState /\ CpuIsLive /\ IdleAtBoot /\ LaunchIsPrivate
  /\ SchedulableRuns /\ ZombiesAreEnded /\ TwoPlaces /\ NotThreePlaces
=============================================================================
